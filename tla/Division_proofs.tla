--------------------------- MODULE Division_proofs ---------------------------
(***************************************************************************)
(* What is proved of the division for any number of workers, clusters,     *)
(* keys, cuts and rounds.  Its threads use the grace periods as SptThread  *)
(* allows, so what is proved of SptThread holds of every division.  And    *)
(* while spt_thread_wait(2) does outlast the sessions that were open when  *)
(* it began, which it does for as many threads as ticks, the upper cluster *)
(* tells the truth, no reference is lost and no answer is wrong.           *)
(*                                                                         *)
(* The order is that of the parts of the invariant: where the boards lead  *)
(* (StepInv, BoardInv), where the references are (RefInv), what a worker   *)
(* between its three instants may still rely on (WorkInv), and then the    *)
(* sum over the clusters.                                                  *)
(***************************************************************************)
EXTENDS Division, FiniteSetTheorems, NaturalsInduction, TLAPS

(***************************************************************************)
(* The sum of a function's values (SumFunction of the community module     *)
(* Functions).  It is a recursive function over the subsets of the domain  *)
(* that CHOOSE takes one element off at a time; these facts say that it    *)
(* does not matter which.                                                  *)
(***************************************************************************)
\* Every nonempty set of natural numbers has a least element.
LEMMA LeastNat ==
  ASSUME NEW S \in SUBSET Nat, S # {}
  PROVE  \E m \in S : \A k \in S : m <= k
<1> DEFINE Less == {ss \in Nat \X Nat : ss[1] < ss[2]}
<1>1. IsWellFoundedOn(Less, Nat)
  BY NatLessThanWellFounded, Zenon DEF OpToRel
<1>2. \A x, y \in Nat : <<y, x>> \in Less <=> y < x
  OBVIOUS
<1> HIDE DEF Less
<1>3. PICK m \in S : \A k \in S : ~ (<<k, m>> \in Less)
  BY <1>1, WFMin
<1>4. ASSUME NEW k \in S PROVE m <= k
  <2>1. m \in Nat /\ k \in Nat
    OBVIOUS
  <2>2. ~ (k < m)
    BY <2>1, <1>2, <1>3
  <2> QED
    BY <2>1, <2>2
<1> QED
  BY <1>4

\* The element the sum takes off a set.
Pick(s) == CHOOSE x \in s : TRUE

\* The value at s of a sum of f that is g on smaller sets.
SumOf(f, g, s) == IF s = {} THEN 0 ELSE f[Pick(s)] + g[s \ {Pick(s)}]

\* The recursive function behind SumFunction.
Sums(f) == CHOOSE g : g = [s \in SUBSET DOMAIN f |-> SumOf(f, g, s)]

\* What SumFunction computes.
LEMMA SumIsSums == \A f : SumFunction(f) = Sums(f)[DOMAIN f]
BY DEF SumFunction, SumFunctionOnSet, FoldFunctionOnSet, MapThenFoldSet, Sums, SumOf, Pick

\* A nonempty finite set without the element taken off has one element less.
LEMMA PickOff ==
  ASSUME NEW s, IsFiniteSet(s), s # {}
  PROVE  /\ Pick(s) \in s
         /\ IsFiniteSet(s \ {Pick(s)})
         /\ Cardinality(s) \in Nat \ {0}
         /\ Cardinality(s \ {Pick(s)}) = Cardinality(s) - 1
<1>1. Pick(s) \in s
  BY DEF Pick
<1>2. IsFiniteSet(s \ {Pick(s)}) /\ Cardinality(s \ {Pick(s)}) = Cardinality(s) - 1
  BY <1>1, FS_RemoveElement
<1>3. Cardinality(s) \in Nat \ {0}
  BY FS_CardinalityType, FS_EmptySet
<1> QED
  BY <1>1, <1>2, <1>3

\* The recursion has a solution, built from the small sets up.
LEMMA SumsDefined ==
  ASSUME NEW f, IsFiniteSet(DOMAIN f)
  PROVE  \A s \in SUBSET DOMAIN f : Sums(f)[s] = SumOf(f, Sums(f), s)
<1> DEFINE D == DOMAIN f
           N == Cardinality(D)
           Solves(g, n) == g = [s \in {r \in SUBSET D : Cardinality(r) <= n} |-> SumOf(f, g, s)]
           Fails == {n \in Nat : ~ \E g : Solves(g, n)}
<1>1. \A s \in SUBSET D : IsFiniteSet(s) /\ Cardinality(s) \in Nat /\ Cardinality(s) <= N
  BY FS_Subset, FS_CardinalityType
<1>2. N \in Nat
  BY FS_CardinalityType
<1> HIDE DEF D, N
<1>3. Fails = {}
  <2> SUFFICES ASSUME Fails # {} PROVE FALSE
    OBVIOUS
  <2>1. PICK n \in Fails : \A k \in Fails : n <= k
    <3>1. Fails \in SUBSET Nat
      OBVIOUS
    <3> HIDE DEF Fails
    <3> QED
      BY <3>1, LeastNat
  <2>2. n \in Nat /\ ~ \E g : Solves(g, n)
    OBVIOUS
  <2>3. CASE n = 0
    <3> DEFINE g == [s \in {r \in SUBSET D : Cardinality(r) <= 0} |-> 0]
    <3>1. ASSUME NEW s \in SUBSET D, Cardinality(s) <= 0 PROVE s = {}
      BY <1>1, <3>1, FS_EmptySet
    <3>2. Solves(g, 0)
      BY <3>1 DEF SumOf
    <3> QED
      BY <2>2, <2>3, <3>2
  <2>4. CASE n # 0
    <3>0. n - 1 \in Nat /\ ~ (n <= n - 1)
      BY <2>2, <2>4
    <3>1. n - 1 \notin Fails
      <4> HIDE DEF Fails
      <4> QED
        BY <2>1, <3>0
    <3>2. PICK g : Solves(g, n - 1)
      BY <3>0, <3>1
    <3> DEFINE Small == {r \in SUBSET D : Cardinality(r) <= n - 1}
               Upto == {r \in SUBSET D : Cardinality(r) <= n}
               h == [s \in Upto |-> SumOf(f, g, s)]
    <3>3. \A s \in Small : g[s] = SumOf(f, g, s)
      BY <3>2
    <3>4. \A s \in Small : s \in Upto /\ h[s] = g[s]
      BY <1>1, <2>2, <3>3
    <3>5. ASSUME NEW s \in Upto PROVE SumOf(f, g, s) = SumOf(f, h, s)
      <4>1. CASE s = {}
        BY <4>1 DEF SumOf
      <4>2. CASE s # {}
        <5>1. s \ {Pick(s)} \in SUBSET D /\ Cardinality(s \ {Pick(s)}) = Cardinality(s) - 1 
          BY <1>1, <4>2, PickOff
        <5>2. Cardinality(s) \in Nat /\ Cardinality(s) <= n
          BY <1>1
        <5>3. s \ {Pick(s)} \in Small
          BY <2>2, <5>1, <5>2
        <5>4. h[s \ {Pick(s)}] = g[s \ {Pick(s)}]
          BY <3>4, <5>3
        <5> QED
          BY <5>4 DEF SumOf
      <4> QED
        BY <4>1, <4>2
    <3>6. Solves(h, n)
      BY <3>5
    <3> QED
      BY <2>2, <3>6
  <2> QED
    BY <2>3, <2>4
<1>4. PICK g : Solves(g, N)
  BY <1>2, <1>3
<1>5. {r \in SUBSET D : Cardinality(r) <= N} = SUBSET D
  BY <1>1
<1>6. g = [s \in SUBSET D |-> SumOf(f, g, s)]
  BY <1>4, <1>5
<1>7. Sums(f) = [s \in SUBSET D |-> SumOf(f, Sums(f), s)]
  BY <1>6 DEF Sums, D
<1> QED
  BY <1>7 DEF D

\* What holds of the empty set, and of a set if of the set without the element
\* taken off, holds of every subset of a finite set.
LEMMA PickInduction ==
  ASSUME NEW D, IsFiniteSet(D), NEW T,
         {} \in T,
         \A s \in SUBSET D : s # {} /\ s \ {Pick(s)} \in T => s \in T
  PROVE  SUBSET D \subseteq T
<1> DEFINE Bad == {Cardinality(s) : s \in (SUBSET D) \ T}
<1> SUFFICES ASSUME (SUBSET D) \ T # {} PROVE FALSE
  OBVIOUS
<1>1. \A s \in SUBSET D : IsFiniteSet(s) /\ Cardinality(s) \in Nat
  BY FS_Subset, FS_CardinalityType
<1>2. Bad \in SUBSET Nat /\ Bad # {}
  BY <1>1
<1>3. PICK m \in Bad : \A k \in Bad : m <= k
  <2> HIDE DEF Bad
  <2> QED
    BY <1>2, LeastNat
<1>4. PICK s \in (SUBSET D) \ T : m = Cardinality(s)
  OBVIOUS
<1>5. s # {}
  OBVIOUS
<1>6. Cardinality(s \ {Pick(s)}) = m - 1 /\ m \in Nat \ {0}
  BY <1>1, <1>4, <1>5, PickOff
<1>7. s \ {Pick(s)} \in T
  <2>1. ~ (m <= m - 1)
    BY <1>6
  <2>2. m - 1 \notin Bad
    BY <1>3, <2>1
  <2>3. s \ {Pick(s)} \in SUBSET D
    OBVIOUS
  <2> QED
    BY <1>6, <2>2, <2>3
<1> QED
  BY <1>4, <1>5, <1>7

\* A sum of integers is an integer, and of natural numbers a natural number.
LEMMA SumType ==
  ASSUME NEW D, IsFiniteSet(D), NEW f
  PROVE  /\ f \in [D -> Int] => SumFunction(f) \in Int
         /\ f \in [D -> Nat] => SumFunction(f) \in Nat
<1>1. ASSUME NEW R, R = Int \/ R = Nat, f \in [D -> R] PROVE SumFunction(f) \in R
  <2> DEFINE T == {s \in SUBSET D : Sums(f)[s] \in R}
  <2>1. DOMAIN f = D
    BY <1>1
  <2>2. \A s \in SUBSET D : Sums(f)[s] = SumOf(f, Sums(f), s)
    BY <2>1, SumsDefined
  <2>3. {} \in T
    BY <1>1, <2>2 DEF SumOf
  <2>4. ASSUME NEW s \in SUBSET D, s # {}, s \ {Pick(s)} \in T PROVE s \in T
    <3>1. Pick(s) \in D
      BY <2>4 DEF Pick
    <3>2. f[Pick(s)] \in R /\ Sums(f)[s \ {Pick(s)}] \in R
      BY <1>1, <2>4, <3>1
    <3>3. Sums(f)[s] = f[Pick(s)] + Sums(f)[s \ {Pick(s)}]
      BY <2>2, <2>4 DEF SumOf
    <3> QED
      BY <1>1, <3>2, <3>3
  <2> HIDE DEF T
  <2>5. SUBSET D \subseteq T
    BY <2>3, <2>4, PickInduction
  <2>6. D \in T
    BY <2>5
  <2> QED
    BY <2>1, <2>6, SumIsSums DEF T
<1> QED
  BY <1>1

\* A sum changes by what one of its terms changes.
LEMMA SumChange ==
  ASSUME NEW D, IsFiniteSet(D), NEW f \in [D -> Int], NEW g \in [D -> Int], NEW c \in D,
         \A x \in D \ {c} : g[x] = f[x]
  PROVE  SumFunction(g) = SumFunction(f) + g[c] - f[c]
<1> DEFINE d(s) == IF c \in s THEN g[c] - f[c] ELSE 0
           T == {s \in SUBSET D : /\ Sums(f)[s] \in Int
                                  /\ Sums(g)[s] = Sums(f)[s] + d(s)}
<1>1. /\ DOMAIN f = D /\ DOMAIN g = D
      /\ f[c] \in Int /\ g[c] \in Int
  OBVIOUS
<1>2. \A s \in SUBSET D : /\ Sums(f)[s] = SumOf(f, Sums(f), s)
                          /\ Sums(g)[s] = SumOf(g, Sums(g), s)
  BY <1>1, SumsDefined
<1>3. {} \in T
  BY <1>2 DEF SumOf
<1>4. ASSUME NEW s \in SUBSET D, s # {}, s \ {Pick(s)} \in T PROVE s \in T
  <2> DEFINE p == Pick(s)
             r == s \ {p}
  <2>1. p \in s /\ p \in D
    BY <1>4 DEF Pick
  <2>2. f[p] \in Int /\ g[p] \in Int
    BY <2>1
  <2>3. Sums(f)[s] = f[p] + Sums(f)[r] /\ Sums(g)[s] = g[p] + Sums(g)[r]
    BY <1>2, <1>4 DEF SumOf
  <2>4. Sums(f)[r] \in Int /\ Sums(g)[r] = Sums(f)[r] + d(r)
    BY <1>4
  <2>5. CASE p = c
    <3>1. d(s) = g[c] - f[c] /\ d(r) = 0
      BY <2>1, <2>5
    <3> HIDE DEF p, r, d
    <3> QED
      BY <1>1, <2>3, <2>4, <2>5, <3>1 DEF p
  <2>6. CASE p # c
    <3>1. g[p] = f[p] /\ d(s) = d(r) /\ d(s) \in Int
      BY <1>1, <2>1, <2>6
    <3> HIDE DEF p, r, d
    <3> QED
      BY <2>2, <2>3, <2>4, <3>1
  <2> QED
    BY <2>5, <2>6
<1> HIDE DEF T
<1>5. SUBSET D \subseteq T
  BY <1>3, <1>4, PickInduction
<1>6. D \in T
  BY <1>5
<1>7. d(D) = g[c] - f[c]
  OBVIOUS
<1> QED
  BY <1>1, <1>6, <1>7, SumIsSums DEF T

\* The sum of nothing but zeros is zero.
LEMMA SumZero ==
  ASSUME NEW D, IsFiniteSet(D), NEW f \in [D -> {0}]
  PROVE  SumFunction(f) = 0
<1> DEFINE T == {s \in SUBSET D : Sums(f)[s] = 0}
<1>1. DOMAIN f = D
  OBVIOUS
<1>2. \A s \in SUBSET D : Sums(f)[s] = SumOf(f, Sums(f), s)
  BY <1>1, SumsDefined
<1>3. {} \in T
  BY <1>2 DEF SumOf
<1>4. ASSUME NEW s \in SUBSET D, s # {}, s \ {Pick(s)} \in T PROVE s \in T
  <2>1. f[Pick(s)] = 0
    BY <1>4 DEF Pick
  <2> QED
    BY <1>2, <1>4, <2>1 DEF SumOf
<1> HIDE DEF T
<1>5. SUBSET D \subseteq T
  BY <1>3, <1>4, PickInduction
<1>6. D \in T
  BY <1>5
<1> QED
  BY <1>1, <1>6, SumIsSums DEF T

\* The sum of natural numbers that are zero but for one is that one.
LEMMA SumSingle ==
  ASSUME NEW D, IsFiniteSet(D), NEW f \in [D -> Nat], NEW c \in D,
         \A x \in D \ {c} : f[x] = 0
  PROVE  SumFunction(f) = f[c]
<1> DEFINE z == [x \in D |-> 0]
<1>1. SumFunction(z) = 0
  BY SumZero
<1>2. z \in [D -> Int] /\ f \in [D -> Int] /\ (\A x \in D \ {c} : f[x] = z[x]) /\ z[c] = 0
  OBVIOUS
<1> HIDE DEF z
<1>3. SumFunction(f) = SumFunction(z) + f[c] - z[c]
  BY <1>2, SumChange
<1>4. f[c] \in Nat
  OBVIOUS
<1> QED
  BY <1>1, <1>2, <1>3, <1>4

(***************************************************************************)
(* The inductive invariant, in parts.                                      *)
(***************************************************************************)
DvType ==
  [at : Step, loop : 0 .. MoveTimes, cuts : {<<>>} \union [1 .. MoveTimes -> Keys],
   src : Cluster \union {Null}, dst : Cluster \union {Null}, hand : Keys \union {0},
   second : BOOLEAN, back : Step, pauses : 0 .. MaxPause]
WkType ==
  [at : {"idle", "route", "read", "masked", "act"}, op : {"INSERT", "DELETE"}, key : Keys,
   board : Boards, lower : Cluster \union {Null}, ret : {OK, NOT_FOUND}]

\* Types, but for the sign of cnt, which rests on the conservation of references.
Typed ==
  /\ board \subseteq Boards /\ Top \in board
  /\ plower \in [Boards -> Cluster \union {Null}]
  /\ refs \in [Cluster -> [Keys -> Nat]]
  /\ dv \in DvType
  /\ wk \in [Worker -> WkType]
  /\ asked \in [Worker -> 0 .. Budget]
  /\ cnt \in [Keys -> Int]
  /\ dropped \in [Keys -> 0 .. MaxDrop]

Ahead == {"sorted", "mask"}
Settled == {"masked", "wait", "board"}
Masking == {"masked", "wait", "board", "take", "put", "unboard", "publish"}
Dividing == Ahead \union Masking \union {"retract", "moved"}
Round == 1 .. MoveTimes
Before == dv.cuts[dv.loop - 1]

\* Where the dividing thread is tells what its locals hold.
StepInv ==
  /\ dv.at \in {"pause", "pausing"} => dv.back \in {"take", "unboard", "retract"}
  /\ Doing \in Dividing =>
       /\ dv.loop \in Round
       /\ dv.cuts \in [Round -> Keys]
       /\ \A i, j \in Round : i < j => dv.cuts[i] < dv.cuts[j]
       /\ dv.src \in Cluster /\ dv.dst \in Cluster /\ dv.src # dv.dst
  /\ Doing = "retract" => dv.loop > 1
  /\ dv.at # "put" => dv.hand = 0
  /\ dv.at = "put" => dv.hand \in Keys
  /\ Doing \in {"scan", "sort"} \union Ahead \union Settled => dv.second = FALSE
  /\ Doing = "sort" => Free # {} /\ \E b \in board : dv.src = plower[b]

\* The upper cluster.
BoardInv ==
  /\ \A b, c \in board : plower[b] = plower[c] =>
       b = c \/ (Doing = "retract" /\ {b, c} \subseteq {Before, Cut})
  /\ \A b \in board : plower[b] = Null => Doing \in Masking /\ b = Cut
  /\ Doing \in Masking => Cut \in board /\ plower[Cut] = Null
  /\ Doing \in {"retract", "moved"} => Cut \in board /\ plower[Cut] = dv.dst
  /\ Doing \in Dividing =>
       /\ \A b \in board : plower[b] = dv.src => \A i \in Round : dv.cuts[i] <= b
       /\ \A i \in Round : i > dv.loop \/ (i = dv.loop /\ Doing \in Ahead)
                             => plower[Route(dv.cuts[i])] = dv.src
       /\ \A b \in board : \/ b < dv.cuts[1]
                           \/ \A i \in Round : dv.cuts[i] <= b
                           \/ \E i \in 1 .. dv.loop : b = dv.cuts[i]
       /\ \A b \in board : plower[b] = dv.dst =>
            \/ dv.loop > 1 /\ b = Before /\ Doing # "moved"
            \/ b = Cut /\ Doing \in {"retract", "moved"}
       /\ dv.loop > 1 /\ Doing # "moved" => plower[Before] = dv.dst

\* The references.
RefInv ==
  /\ RoutedRight
  /\ Doing \in Settled =>
       \A k \in Keys, c \in Cluster : refs[c][k] > 0 /\ plower[Route(k)] = Null => c = dv.src
  /\ Doing \in {"take", "put"} /\ ~dv.second /\ dv.hand # Cut => refs[dv.src][Cut] > 0
  /\ dv.at = "put" => Route(dv.hand) = Cut
  /\ Doing \in Masking /\ (dv.second \/ dv.hand = Cut) =>
       \A k \in Keys : k < Cut => refs[dv.src][k] = 0
  /\ Doing \in {"unboard", "publish"} => \A k \in Keys : k <= Cut => refs[dv.src][k] = 0

\* A worker that routed before its range was masked, and that the grace
\* period has not yet waited for.
Late(t) ==
  /\ plower[Route(wk[t].key)] = Null
  /\ \/ dv.at \in {"masked", "wait"}
     \/ dv.at = "board" /\ Divider \in waiters /\ t \in held[Divider]

\* The workers.
WorkRight(t) ==
  /\ wk[t].at \in {"read", "act"} => pc[t] = "on"
  /\ wk[t].at = "read" =>
       /\ wk[t].key <= wk[t].board
       /\ \/ /\ plower[wk[t].board] = plower[Route(wk[t].key)]
             /\ wk[t].board <= Route(wk[t].key)
             /\ plower[wk[t].board] = Null => wk[t].board = Route(wk[t].key)
          \/ plower[wk[t].board] = dv.src /\ Late(t)
  /\ wk[t].at = "act" =>
       /\ wk[t].lower \in Cluster
       /\ wk[t].lower = plower[Route(wk[t].key)] \/ (wk[t].lower = dv.src /\ Late(t))

WorkInv == waiters \subseteq {Divider} /\ \A t \in Worker : WorkRight(t)
-----------------------------------------------------------------------------
\* Keys, boards and clusters are numbers, and 0 is none of them.
LEMMA Numbers ==
  /\ \A k \in Keys : k \in Nat /\ 0 < k /\ k < Top /\ k \in Boards
  /\ \A b \in Boards : b \in Nat /\ 0 < b /\ b <= Top
  /\ \A c \in Cluster : c \in Nat /\ c # Null
  /\ \A i \in Round : i \in Nat /\ 0 < i /\ i <= MoveTimes
  /\ Top \in Boards /\ Top \in Nat /\ 1 \in Keys /\ Cardinality(Keys) \in Nat
  /\ 1 \in Round /\ MoveTimes \in Round /\ MoveTimes \in Nat /\ PerTime \in Nat /\ 0 < PerTime
<1>1. Cardinality(Keys) \in Nat /\ Cardinality(Cluster) \in Nat
  BY DivisionAssumption, FS_CardinalityType
<1>2. Keys = 1 .. Cardinality(Keys) /\ Keys # {} /\ Cluster = 1 .. Cardinality(Cluster)
  BY DivisionAssumption
<1>3. MoveTimes \in Nat \ {0} /\ PerTime \in Nat \ {0}
  BY DivisionAssumption
<1> QED
  BY <1>1, <1>2, <1>3 DEF Boards, Top, Null, Round

\* The least element of a nonempty set of numbers.
LEMMA LeastIs ==
  ASSUME NEW S \in SUBSET Nat, S # {}
  PROVE  Least(S) \in S /\ \A x \in S : Least(S) <= x
BY LeastNat DEF Least

\* Route is a function of the boards and the key.
Routed(B, k) == Least({b \in B : k <= b})

\* It is the model's Route, of the boards now and after a step.
LEMMA RouteIn == \A k : Route(k) = Routed(board, k) /\ Route(k)' = Routed(board', k)
BY DEF Route, Routed

\* A key is routed to the first board that is not below it, and to no other.
LEMMA RouteOf ==
  ASSUME NEW B \in SUBSET Boards, Top \in B, NEW k \in Keys
  PROVE  /\ Routed(B, k) \in B
         /\ k <= Routed(B, k)
         /\ \A b \in B : k <= b => Routed(B, k) <= b
         /\ \A r \in B : k <= r /\ (\A b \in B : k <= b => r <= b) => Routed(B, k) = r
<1> DEFINE S == {b \in B : k <= b}
<1>1. S \in SUBSET Nat /\ Top \in S
  BY Numbers
<1>2. Least(S) \in S /\ \A x \in S : Least(S) <= x
  BY <1>1, LeastIs
<1>3. Routed(B, k) \in S /\ \A x \in S : Routed(B, k) <= x
  BY <1>2 DEF Routed
<1>4. \A r \in B : r \in Nat
  BY Numbers
<1> QED
  BY <1>3, <1>4

\* In a set of keys there is a key of every rank up to the set's size.
LEMMA NthIs ==
  ASSUME NEW S \in SUBSET Keys, NEW n \in 1 .. Cardinality(S)
  PROVE  Nth(S, n) \in S /\ Cardinality({y \in S : y <= Nth(S, n)}) = n
<1> DEFINE Low(m) == {y \in S : y <= m}
           A == {m \in Nat : n <= Cardinality(Low(m))}
<1>1. IsFiniteSet(S) /\ Cardinality(S) \in Nat
  BY DivisionAssumption, FS_Subset, FS_CardinalityType
<1>2. \A m : IsFiniteSet(Low(m)) /\ Cardinality(Low(m)) \in Nat
  <2> TAKE m
  <2>1. Low(m) \subseteq S
    OBVIOUS
  <2> HIDE DEF Low
  <2> QED
    BY <1>1, <2>1, FS_Subset, FS_CardinalityType
<1>3. Low(Top) = S /\ Top \in Nat
  <2>1. \A y \in S : y \in Nat /\ y < Top
    BY Numbers
  <2>2. Top \in Nat
    BY Numbers
  <2>3. \A y \in S : y <= Top
    BY <2>1, <2>2
  <2> QED
    BY <2>2, <2>3
<1>4. A \in SUBSET Nat /\ A # {}
  BY <1>1, <1>3
<1>5. PICK m \in A : \A k \in A : m <= k
  <2> HIDE DEF A
  <2> QED
    BY <1>4, LeastNat
<1>6. m \in Nat /\ n <= Cardinality(Low(m))
  OBVIOUS
<1>7. m # 0
  <2>1. Low(0) = {}
    BY Numbers
  <2>2. Cardinality(Low(0)) = 0
    BY <2>1, FS_EmptySet
  <2> HIDE DEF Low
  <2> QED
    BY <1>6, <2>2
<1>8. Cardinality(Low(m - 1)) < n
  <2>1. m - 1 \in Nat /\ ~ (m <= m - 1)
    BY <1>6, <1>7
  <2>2. ~ (n <= Cardinality(Low(m - 1)))
    BY <1>5, <2>1
  <2> HIDE DEF Low
  <2> QED
    BY <1>2, <2>2
<1>9. m \in S
  <2> SUFFICES ASSUME m \notin S PROVE FALSE
    OBVIOUS
  <2>1. Low(m) = Low(m - 1)
    BY <1>6, Numbers
  <2> HIDE DEF Low
  <2> QED
    BY <1>2, <1>6, <1>8, <2>1
<1>10. Low(m) = Low(m - 1) \union {m} /\ m \notin Low(m - 1)
  <2>1. \A y \in S : y \in Nat
    BY Numbers
  <2>2. \A y \in Nat : y <= m <=> (y <= m - 1 \/ y = m)
    BY <1>6
  <2>3. ~ (m <= m - 1)
    BY <1>6
  <2> QED
    BY <1>9, <2>1, <2>2, <2>3
<1>11. Cardinality(Low(m)) = Cardinality(Low(m - 1)) + 1
  <2> HIDE DEF Low
  <2> QED
    BY <1>2, <1>10, FS_AddElement
<1>12. Cardinality(Low(m)) = n
  <2> HIDE DEF Low
  <2> QED
    BY <1>2, <1>6, <1>8, <1>11
<1> QED
  BY <1>9, <1>12 DEF Nth

\* The cuts of a division are keys of its source, in their order.
LEMMA CutsIncrease ==
  ASSUME NEW S \in SUBSET Keys, Cardinality(S) >= PerTime * MoveTimes
  PROVE  /\ Cuts(S) \in [Round -> Keys]
         /\ \A i \in Round : Cuts(S)[i] \in S
         /\ \A i, j \in Round : i < j => Cuts(S)[i] < Cuts(S)[j]
<1> DEFINE C == Cardinality(S)
           c(i) == Nth(S, i * PerTime)
<1>1. IsFiniteSet(S) /\ C \in Nat
  BY DivisionAssumption, FS_Subset, FS_CardinalityType
<1> HIDE DEF C
<1>2. ASSUME NEW i \in Round PROVE i * PerTime \in 1 .. C
  <2>1. i \in Nat /\ 1 <= i /\ i <= MoveTimes /\ MoveTimes \in Nat /\ PerTime \in Nat /\ 1 <= PerTime
    BY Numbers DEF Round
  <2>2. i * PerTime <= PerTime * MoveTimes /\ 1 <= i * PerTime
    BY <2>1
  <2> QED
    BY <1>1, <2>1, <2>2 DEF C
<1>3. Cuts(S) = [i \in Round |-> c(i)]
  <2>1. \A i \in Round : ~ (i * PerTime > C)
    BY <1>1, <1>2
  <2> QED
    BY <2>1 DEF Cuts, Smallest, Round, C
<1>4. \A i \in Round : c(i) \in S /\ Cardinality({y \in S : y <= c(i)}) = i * PerTime
  BY <1>2, NthIs DEF C
<1>5. ASSUME NEW i \in Round, NEW j \in Round, i < j PROVE c(i) < c(j)
  <2>0. c(i) \in Nat /\ c(j) \in Nat /\ \A y \in S : y \in Nat
    BY <1>4, Numbers
  <2> SUFFICES ASSUME c(j) <= c(i) PROVE FALSE
    <3> HIDE DEF c
    <3> QED
      BY <2>0
  <2> DEFINE Lowi == {y \in S : y <= c(i)}
             Lowj == {y \in S : y <= c(j)}
  <2>1. Lowj \subseteq Lowi
    <3> HIDE DEF c
    <3> QED
      BY <2>0
  <2>2. IsFiniteSet(Lowi)
    BY <1>1, FS_Subset
  <2>3. Cardinality(Lowj) <= Cardinality(Lowi)
    BY <2>1, <2>2, FS_Subset
  <2>4. Cardinality(Lowi) = i * PerTime /\ Cardinality(Lowj) = j * PerTime
    BY <1>4
  <2>5. i * PerTime < j * PerTime
    BY <1>5, Numbers DEF Round
  <2>6. i * PerTime \in Nat /\ j * PerTime \in Nat
    BY <1>2, <1>1
  <2> HIDE DEF Lowi, Lowj
  <2> QED
    BY <2>3, <2>4, <2>5, <2>6
<1> HIDE DEF c
<1> QED
  BY <1>3, <1>4, <1>5
-----------------------------------------------------------------------------
\* What a step that neither touches the boards nor moves on to another phase
\* of the division leaves of BoardInv.
SamePhase ==
  \/ Doing' = Doing
  \/ Doing \in Masking /\ Doing' \in Masking
  \/ Doing \in Ahead /\ Doing' \in Ahead

\* Such a step keeps the invariant of the upper cluster.
LEMMA BoardKept ==
  ASSUME BoardInv, board' = board, plower' = plower, SamePhase,
         dv'.loop = dv.loop, dv'.cuts = dv.cuts, dv'.src = dv.src, dv'.dst = dv.dst
  PROVE  BoardInv'
<1>1. Cut' = Cut /\ Before' = Before
  BY DEF Cut, Before
<1>2. \A k : Route(k)' = Route(k)
  BY RouteIn
<1>3. \A i : Route(dv.cuts[i])' = Route(dv.cuts[i])
  BY RouteIn
<1>4. /\ Doing' \in Masking <=> Doing \in Masking
      /\ Doing' \in Dividing <=> Doing \in Dividing
      /\ Doing' \in Ahead <=> Doing \in Ahead
      /\ Doing' = "retract" <=> Doing = "retract"
      /\ Doing' = "moved" <=> Doing = "moved"
  BY DEF SamePhase, Masking, Ahead, Dividing
<1> QED
  BY <1>1, <1>3, <1>4 DEF BoardInv
-----------------------------------------------------------------------------
\* Where the dividing thread stands while it is neither paused nor pausing.
LEMMA DoingAt ==
  ASSUME Typed, StepInv
  PROVE  /\ dv.at \in Step /\ Doing \in Step
         /\ dv.at \notin {"pause", "pausing"} => Doing = dv.at
         /\ dv.at \in {"pause", "pausing"} => Doing \in {"take", "unboard", "retract"}
BY DEF Typed, DvType, StepInv, Doing, Step, InSessionStep, LeaveStep

\* Leaving a session and waiting keep the types and what each step holds.
LEMMA LeaveStepInv ==
  ASSUME Typed, StepInv, Leave
  PROVE  /\ Typed' /\ StepInv'
         /\ \/ /\ dv.at \in {"sorted", "masked", "pause"}
               /\ SamePhase
               /\ dv'.loop = dv.loop /\ dv'.cuts = dv.cuts /\ dv'.src = dv.src /\ dv'.dst = dv.dst
               /\ dv'.second = dv.second /\ dv'.hand = dv.hand
            \/ /\ dv.at = "moved" /\ dv'.at = "mask" /\ dv.loop < MoveTimes
               /\ dv'.loop = dv.loop + 1 /\ dv'.cuts = dv.cuts /\ dv'.src = dv.src /\ dv'.dst = dv.dst
               /\ dv'.second = FALSE /\ dv'.hand = dv.hand
            \/ dv.at = "moved" /\ dv'.at = "scan"
<1> USE DEF Typed, DvType
<1>0. /\ UNCHANGED <<tree, wk, asked, cnt, dropped>> /\ dv' = Onward /\ dv.at \in LeaveStep
      /\ dv \in DvType
  BY DEF Leave, DividerIs
<1>1. dv.hand = 0
  BY <1>0 DEF StepInv, LeaveStep
<1>2. CASE dv.at = "sorted"
  <2>1. dv' = [dv EXCEPT !.at = "mask"]
    BY <1>0, <1>2 DEF Onward
  <2>2. /\ dv'.at = "mask" /\ dv'.loop = dv.loop /\ dv'.cuts = dv.cuts /\ dv'.src = dv.src
        /\ dv'.dst = dv.dst /\ dv'.hand = dv.hand /\ dv'.second = dv.second
        /\ dv'.back = dv.back /\ dv' \in DvType
    BY <1>0, <2>1 DEF Step, InSessionStep
  <2>3. Typed'
    BY <1>0, <2>2 DEF tree
  <2> HIDE DEF Typed, DvType
  <2>4. StepInv' /\ SamePhase
    BY <1>0, <1>1, <1>2, <2>2 DEF StepInv, SamePhase, Doing, Free, tree, Dividing, Ahead, Masking, Settled
  <2> QED
    BY <1>2, <2>2, <2>3, <2>4
<1>3. CASE dv.at = "masked"
  <2>1. dv' = [dv EXCEPT !.at = "wait"]
    BY <1>0, <1>3 DEF Onward
  <2>2. /\ dv'.at = "wait" /\ dv'.loop = dv.loop /\ dv'.cuts = dv.cuts /\ dv'.src = dv.src
        /\ dv'.dst = dv.dst /\ dv'.hand = dv.hand /\ dv'.second = dv.second
        /\ dv'.back = dv.back /\ dv' \in DvType
    BY <1>0, <2>1 DEF Step, InSessionStep
  <2>3. Typed'
    BY <1>0, <2>2 DEF tree
  <2> HIDE DEF Typed, DvType
  <2>4. StepInv' /\ SamePhase
    BY <1>0, <1>1, <1>3, <2>2 DEF StepInv, SamePhase, Doing, Free, tree, Dividing, Ahead, Masking, Settled
  <2> QED
    BY <1>3, <2>2, <2>3, <2>4
<1>4. CASE dv.at = "pause"
  <2>1. dv' = [dv EXCEPT !.at = "pausing"]
    BY <1>0, <1>4 DEF Onward
  <2>2. /\ dv'.at = "pausing" /\ dv'.loop = dv.loop /\ dv'.cuts = dv.cuts /\ dv'.src = dv.src
        /\ dv'.dst = dv.dst /\ dv'.hand = dv.hand /\ dv'.second = dv.second
        /\ dv'.back = dv.back /\ dv' \in DvType
    BY <1>0, <2>1 DEF Step, InSessionStep
  <2>3. Typed'
    BY <1>0, <2>2 DEF tree
  <2> HIDE DEF Typed, DvType
  <2>4. StepInv' /\ SamePhase
    BY <1>0, <1>1, <1>4, <2>2 DEF StepInv, SamePhase, Doing, Free, tree, Dividing, Ahead, Masking, Settled
  <2> QED
    BY <1>4, <2>2, <2>3, <2>4
<1>5. CASE dv.at = "moved" /\ dv.loop < MoveTimes
  <2>1. dv' = [dv EXCEPT !.at = "mask", !.loop = @ + 1, !.second = FALSE]
    BY <1>0, <1>5 DEF Onward
  <2>2. dv.loop + 1 \in Round /\ dv.loop + 1 \in 0 .. MoveTimes
    <3>1. dv.loop \in 0 .. MoveTimes
      BY <1>0
    <3>2. MoveTimes \in Nat
      BY Numbers
    <3> QED
      BY <1>5, <3>1, <3>2 DEF Round
  <2>3. /\ dv'.at = "mask" /\ dv'.loop = dv.loop + 1 /\ dv'.cuts = dv.cuts /\ dv'.src = dv.src
        /\ dv'.dst = dv.dst /\ dv'.hand = dv.hand /\ dv'.second = FALSE
        /\ dv'.back = dv.back /\ dv' \in DvType
    BY <1>0, <2>1, <2>2 DEF Step, InSessionStep
  <2>4. Typed'
    BY <1>0, <2>3 DEF tree
  <2> HIDE DEF Typed, DvType
  <2>5. StepInv'
    BY <1>0, <1>1, <1>5, <2>2, <2>3 DEF StepInv, Doing, Free, tree, Dividing, Ahead, Masking, Settled
  <2> QED
    BY <1>5, <2>3, <2>4, <2>5
<1>6. CASE dv.at = "moved" /\ ~ (dv.loop < MoveTimes)
  <2>1. dv' = [Resting EXCEPT !.pauses = dv.pauses]
    BY <1>0, <1>6 DEF Onward
  <2>2. 0 \in 0 .. MoveTimes
    BY Numbers
  <2>3. dv'.at = "scan" /\ dv'.hand = 0 /\ dv'.second = FALSE /\ dv' \in DvType
    BY <1>0, <2>1, <2>2 DEF Step, Resting
  <2>4. Typed'
    BY <1>0, <2>3 DEF tree
  <2> HIDE DEF Typed, DvType
  <2>5. StepInv'
    BY <1>6, <2>3 DEF StepInv, Doing, Dividing, Ahead, Masking, Settled
  <2> QED
    BY <1>6, <2>3, <2>4, <2>5
<1> QED
  BY <1>0, <1>2, <1>3, <1>4, <1>5, <1>6 DEF LeaveStep

\* The wait of a division or of a pause.
LEMMA WaitStepInv ==
  ASSUME Typed, StepInv, Wait
  PROVE  /\ Typed' /\ StepInv' /\ SamePhase
         /\ dv'.loop = dv.loop /\ dv'.cuts = dv.cuts /\ dv'.src = dv.src /\ dv'.dst = dv.dst
         /\ dv'.second = dv.second /\ dv'.hand = dv.hand
         /\ \/ dv.at = "wait" /\ dv'.at = "board"
            \/ dv.at = "pausing" /\ dv'.at \in {"take", "unboard", "retract"} /\ Doing' = Doing
<1> USE DEF Typed, DvType
<1>0. /\ UNCHANGED <<tree, wk, asked, cnt, dropped>> /\ dv' = AfterWait /\ dv.at \in {"wait", "pausing"}
      /\ dv \in DvType
  BY DEF Wait, DividerIs
<1>1. CASE dv.at = "wait"
  <2>1. dv' = [dv EXCEPT !.at = "board", !.back = "scan"]
    BY <1>0, <1>1 DEF AfterWait
  <2> QED
    BY <1>0, <1>1, <2>1 DEF StepInv, SamePhase, Doing, tree, Step, InSessionStep, Dividing, Ahead,
       Masking, Settled
<1>2. CASE dv.at = "pausing"
  <2>1. dv' = [dv EXCEPT !.at = dv.back, !.back = "scan"] /\ dv.back \in {"take", "unboard", "retract"}
    BY <1>0, <1>2 DEF AfterWait, StepInv
  <2> QED
    BY <1>0, <1>2, <2>1 DEF StepInv, SamePhase, Doing, tree, Step, InSessionStep, Dividing, Ahead,
       Masking, Settled
<1> QED
  BY <1>0, <1>1, <1>2

\* An answer that makes the dividing thread pause.
LEMMA PauseStepInv ==
  ASSUME Typed, StepInv, Pause
  PROVE  /\ Typed' /\ StepInv' /\ Doing' = Doing
         /\ dv'.loop = dv.loop /\ dv'.cuts = dv.cuts /\ dv'.src = dv.src /\ dv'.dst = dv.dst
         /\ dv'.second = dv.second /\ dv'.hand = dv.hand /\ dv'.at = "pause"
<1> USE DEF Typed, DvType
<1>0. /\ UNCHANGED <<tree, wk, asked, cnt, dropped>> /\ dv.at \in {"take", "unboard", "retract"}
      /\ dv \in DvType /\ dv' = [dv EXCEPT !.at = "pause", !.back = dv.at, !.pauses = @ + 1]
  BY DEF Pause, DividerIs
<1>1. dv.pauses + 1 \in 0 .. MaxPause
  <2>1. dv.pauses \in 0 .. MaxPause /\ dv.pauses < MaxPause /\ MaxPause \in Nat
    BY DivisionAssumption DEF Pause
  <2> QED
    BY <2>1
<1> QED
  BY <1>0, <1>1 DEF StepInv, SamePhase, Doing, tree, Step, InSessionStep, LeaveStep, Dividing, Ahead,
     Masking, Settled

\* A scan picks a cluster that a board names.
LEMMA ScanStepInv ==
  ASSUME Typed, StepInv, BoardInv, Scan
  PROVE  /\ Typed' /\ StepInv' /\ BoardInv' /\ Doing = "scan" /\ Doing' = "sort"
         /\ dv'.hand = dv.hand /\ dv'.second = dv.second
<1> USE DEF Typed, DvType
<1>0. UNCHANGED <<sptvars, tree, wk, asked, cnt, dropped>> /\ dv.at = "scan" /\ Free # {} /\ dv \in DvType
  BY DEF Scan
<1>1. PICK b \in board : dv' = [dv EXCEPT !.at = "sort", !.src = plower[b]]
  BY DEF Scan, DividerIs
<1>2. b \in Boards /\ plower[b] \in Cluster \union {Null} /\ Doing = "scan" /\ Doing' = "sort"
  BY <1>0, <1>1 DEF Doing
<1>3. StepInv'
  BY <1>0, <1>1, <1>2 DEF StepInv, tree, Dividing, Ahead, Masking, Settled, Free
<1>4. BoardInv'
  BY <1>0, <1>2 DEF BoardInv, tree, Dividing, Ahead, Masking
<1>5. Typed'
  BY <1>0, <1>1, <1>2 DEF tree, Step, InSessionStep
<1> QED
  BY <1>0, <1>1, <1>2, <1>3, <1>4, <1>5

\* The sort takes its cuts among the keys that the boards route to the source,
\* and a new cluster that no board names.
LEMMA SortStepInv ==
  ASSUME Typed, StepInv, BoardInv, RoutedRight, Sort
  PROVE  /\ Typed' /\ StepInv' /\ BoardInv' /\ Doing = "sort" /\ Doing' = "sorted"
         /\ dv'.hand = dv.hand /\ dv'.second = dv.second
<1> DEFINE S == Records(dv.src)
           C == Cuts(S)
<1>0. /\ UNCHANGED <<sptvars, tree, wk, asked, cnt, dropped>> /\ dv.at = "sort" /\ dv \in DvType
      /\ dv' = [dv EXCEPT !.at = "sorted", !.loop = 1, !.cuts = C, !.dst = Least(Free)]
      /\ Cardinality(S) >= PerTime * MoveTimes
      /\ board \in SUBSET Boards /\ Top \in board
  BY DEF Sort, At, DividerIs, Typed
<1>1. Doing = "sort" /\ Doing' = "sorted"
  BY <1>0 DEF Doing, DvType
<1>2. Free # {} /\ \E b \in board : dv.src = plower[b]
  BY <1>1 DEF StepInv
<1>3. \A b \in board : plower[b] \in Cluster
  BY <1>1 DEF BoardInv, Typed, Masking
<1>4. dv.src \in Cluster
  BY <1>2, <1>3
<1>5. Least(Free) \in Cluster /\ \A b \in board : plower[b] # Least(Free)
  <2>1. Free \in SUBSET Nat
    BY Numbers DEF Free
  <2>2. Least(Free) \in Free
    BY <1>2, <2>1, LeastIs
  <2> QED
    BY <2>2 DEF Free
<1>6. dv.src # Least(Free)
  BY <1>2, <1>5
<1>7. /\ C \in [Round -> Keys]
      /\ \A i \in Round : C[i] \in S
      /\ \A i, j \in Round : i < j => C[i] < C[j]
  <2>1. S \in SUBSET Keys
    BY DEF Records
  <2> HIDE DEF S
  <2> QED
    BY <1>0, <2>1, CutsIncrease
<1>8. ASSUME NEW i \in Round
      PROVE  /\ Routed(board, C[i]) \in board /\ plower[Routed(board, C[i])] = dv.src
             /\ C[i] <= Routed(board, C[i])
             /\ \A b \in board : C[i] <= b => Routed(board, C[i]) <= b
  <2>1. C[i] \in Keys /\ refs[dv.src][C[i]] > 0
    BY <1>7 DEF Records
  <2> HIDE DEF C
  <2>2. Routed(board, C[i]) \in board /\ C[i] <= Routed(board, C[i])
        /\ \A b \in board : C[i] <= b => Routed(board, C[i]) <= b
    BY <1>0, <2>1, RouteOf
  <2>3. plower[Routed(board, C[i])] \in Cluster
    BY <1>3, <2>2
  <2>4. plower[Routed(board, C[i])] = dv.src
    BY <1>4, <2>1, <2>3, RouteIn, Numbers DEF RoutedRight
  <2> QED
    BY <2>2, <2>4
<1>9. \A b, c \in board : plower[b] = plower[c] => b = c
  BY <1>1 DEF BoardInv
<1>10. /\ dv'.at = "sorted" /\ dv'.loop = 1 /\ dv'.cuts = C /\ dv'.src = dv.src /\ dv'.dst = Least(Free)
       /\ dv'.hand = dv.hand /\ dv'.second = dv.second /\ board' = board /\ plower' = plower
  BY <1>0 DEF DvType, tree
<1> HIDE DEF C
<1>11. Typed'
  <2>1. dv' \in DvType
    <3>1. 1 \in 0 .. MoveTimes
      BY Numbers
    <3>2. C \in [1 .. MoveTimes -> Keys]
      BY <1>7 DEF Round
    <3> QED
      BY <1>0, <1>5, <3>1, <3>2 DEF DvType, Step, LeaveStep
  <2> QED
    BY <1>0, <2>1 DEF Typed, tree
<1>12. StepInv'
  <2>1. dv.hand = 0 /\ dv.second = FALSE
    BY <1>0, <1>1 DEF StepInv
  <2>2. 1 \in Round
    BY Numbers
  <2> QED
    BY <1>1, <1>4, <1>5, <1>6, <1>7, <1>10, <2>1, <2>2
       DEF StepInv, Dividing, Ahead, Masking, Settled
<1>13. BoardInv'
  <2>1. \A b \in board : plower[b] = dv.src => \A i \in Round : C[i] <= b
    BY <1>8, <1>9
  <2>2. ASSUME NEW b \in board, ~ (b < C[1]), NEW j \in Round, ~ (C[j] <= b)
        PROVE  FALSE
    <3>1. 1 \in Round
      BY Numbers
    <3>2. C[1] \in Nat /\ C[j] \in Nat /\ b \in Nat
      BY <1>0, <1>7, <3>1, Numbers
    <3>3. Routed(board, C[1]) <= b
      BY <1>8, <2>2, <3>1, <3>2
    <3>4. Routed(board, C[1]) = Routed(board, C[j])
      BY <1>8, <1>9, <3>1
    <3>5. C[j] <= Routed(board, C[1]) /\ Routed(board, C[1]) \in Nat
      BY <1>0, <1>8, <3>1, <3>4, Numbers
    <3> QED
      BY <2>2, <3>2, <3>3, <3>5
  <2>3. \A i \in Round : Route(dv.cuts[i])' = Routed(board, C[i])
    BY <1>10, RouteIn
  <2>4. ~ (1 > 1)
    OBVIOUS
  <2> QED
    BY <1>1, <1>3, <1>5, <1>8, <1>9, <1>10, <2>1, <2>2, <2>3, <2>4, Numbers
       DEF BoardInv, Dividing, Ahead, Masking
<1> QED
  BY <1>1, <1>10, <1>11, <1>12, <1>13
-----------------------------------------------------------------------------
\* In a division the cuts are keys, and the one of the round before lies below
\* the one of this round.
LEMMA CutFacts ==
  ASSUME Typed, StepInv, Doing \in Dividing
  PROVE  /\ Cut \in Keys /\ Cut \in Nat /\ dv.loop \in Round
         /\ dv.src \in Cluster /\ dv.dst \in Cluster /\ dv.src # dv.dst
         /\ \A i \in Round : dv.cuts[i] \in Keys /\ (i > dv.loop => Cut < dv.cuts[i])
         /\ dv.loop > 1 => dv.loop - 1 \in Round /\ Before \in Keys /\ Before < Cut
<1>1. /\ dv.loop \in Round /\ dv.cuts \in [Round -> Keys]
      /\ \A i, j \in Round : i < j => dv.cuts[i] < dv.cuts[j]
      /\ dv.src \in Cluster /\ dv.dst \in Cluster /\ dv.src # dv.dst
  BY DEF StepInv
<1>2. Cut \in Keys /\ Cut \in Nat
  BY <1>1, Numbers DEF Cut
<1>3. dv.loop \in Nat /\ 0 < dv.loop /\ dv.loop <= MoveTimes /\ MoveTimes \in Nat
  BY <1>1, Numbers
<1>4. dv.loop > 1 => dv.loop - 1 \in Round /\ dv.loop - 1 < dv.loop
  BY <1>3 DEF Round
<1>5. ASSUME dv.loop > 1 PROVE Before \in Keys /\ Before < Cut
  BY <1>1, <1>4, <1>5 DEF Before, Cut
<1>6. ASSUME NEW i \in Round PROVE dv.cuts[i] \in Keys /\ (i > dv.loop => Cut < dv.cuts[i])
  <2>1. i > dv.loop => dv.loop < i
    BY <1>3, Numbers
  <2> QED
    BY <1>1, <2>1 DEF Cut
<1> QED
  BY <1>1, <1>2, <1>4, <1>5, <1>6

\* What the mask does to the routes: keys up to the cut that went to the source
\* now meet the mask, all others go where they went.
LEMMA MaskRoutes ==
  ASSUME Typed, StepInv, BoardInv, Mask
  PROVE  /\ Doing = "mask" /\ Doing' = "masked"
         /\ dv' = [dv EXCEPT !.at = "masked"] /\ Cut' = Cut /\ Before' = Before
         /\ board' = board \union {Cut} /\ plower' = [plower EXCEPT ![Cut] = Null]
         /\ Cut \in Keys /\ Cut \in Boards
         /\ \A b \in board : plower[b] \in Cluster
         /\ \A k \in Keys :
              \/ Routed(board', k) = Cut /\ k <= Cut /\ plower[Routed(board, k)] = dv.src
              \/ /\ Routed(board', k) = Routed(board, k) /\ Routed(board, k) # Cut
                 /\ Routed(board, k) \in board
<1>0. /\ dv.at = "mask" /\ dv' = [dv EXCEPT !.at = "masked"] /\ dv \in DvType
      /\ board' = board \union {Cut} /\ plower' = [plower EXCEPT ![Cut] = Null]
      /\ board \in SUBSET Boards /\ Top \in board
  BY DEF Mask, At, DividerIs, Typed
<1>1. Doing = "mask" /\ Doing' = "masked" /\ Cut' = Cut /\ Before' = Before
  BY <1>0 DEF Doing, DvType, Cut, Before
<1>2. Cut \in Keys /\ Cut \in Nat /\ dv.loop \in Round
  BY <1>1, CutFacts DEF Dividing, Ahead
<1>3. \A b \in board : plower[b] \in Cluster
  BY <1>0, <1>1 DEF BoardInv, Typed, Masking
<1> DEFINE q == Routed(board, Cut)
<1>4. q \in board /\ Cut <= q /\ \A b \in board : Cut <= b => q <= b
  BY <1>0, <1>2, RouteOf
<1>5. plower[q] = dv.src
  BY <1>1, <1>2, RouteIn DEF BoardInv, Dividing, Ahead, Cut
<1>6. Cut \in Boards /\ \A b \in Boards : b \in Nat
  BY <1>2, Numbers
<1>7. board' \in SUBSET Boards /\ Top \in board'
  BY <1>0, <1>6
<1>8. ASSUME NEW k \in Keys
      PROVE  \/ Routed(board', k) = Cut /\ k <= Cut /\ plower[Routed(board, k)] = dv.src
             \/ /\ Routed(board', k) = Routed(board, k) /\ Routed(board, k) # Cut
                /\ Routed(board, k) \in board
  <2> DEFINE r == Routed(board', k)
  <2>1. r \in board' /\ k <= r /\ \A b \in board' : k <= b => r <= b
    BY <1>7, RouteOf
  <2>2. k \in Nat
    BY Numbers
  <2> HIDE DEF q, r
  <2>3. CASE r = Cut
    <3>1. k <= q
      BY <1>0, <1>2, <1>4, <1>6, <2>1, <2>2, <2>3
    <3>2. \A b \in board : k <= b => q <= b
      BY <1>0, <1>4, <2>1, <2>3
    <3>3. Routed(board, k) = q
      BY <1>0, <1>4, <3>1, <3>2, RouteOf
    <3> QED
      BY <1>5, <2>1, <2>3, <3>3 DEF r
  <2>4. CASE r # Cut
    <3>1. r \in board
      BY <1>0, <2>1, <2>4
    <3>2. \A b \in board : k <= b => r <= b
      BY <1>0, <2>1
    <3>3. Routed(board, k) = r
      BY <1>0, <2>1, <3>1, <3>2, RouteOf
    <3> QED
      BY <2>4, <3>1, <3>3 DEF r
  <2> QED
    BY <2>3, <2>4
<1> QED
  BY <1>0, <1>1, <1>2, <1>3, <1>6, <1>8

\* The mask hides its range and nothing else: all invariants are kept.
LEMMA MaskStepInv ==
  ASSUME Typed, StepInv, BoardInv, RefInv, Mask
  PROVE  Typed' /\ StepInv' /\ BoardInv' /\ RefInv'
<1>0. /\ UNCHANGED <<sptvars, refs, wk, asked, cnt, dropped>> /\ dv \in DvType /\ Typed
  BY DEF Mask, Typed
<1>1. /\ Doing = "mask" /\ Doing' = "masked" /\ dv' = [dv EXCEPT !.at = "masked"]
      /\ Cut' = Cut /\ Before' = Before
      /\ board' = board \union {Cut} /\ plower' = [plower EXCEPT ![Cut] = Null]
      /\ Cut \in Keys /\ Cut \in Boards
      /\ \A b \in board : plower[b] \in Cluster
  BY MaskRoutes
<1>2. /\ dv'.at = "masked" /\ dv'.loop = dv.loop /\ dv'.cuts = dv.cuts /\ dv'.src = dv.src
      /\ dv'.dst = dv.dst /\ dv'.hand = dv.hand /\ dv'.second = dv.second /\ dv'.back = dv.back
      /\ dv' \in DvType
  BY <1>0, <1>1 DEF DvType, Step, LeaveStep
<1>3. /\ dv.loop \in Round /\ dv.src \in Cluster /\ dv.dst \in Cluster /\ dv.src # dv.dst
      /\ \A i \in Round : dv.cuts[i] \in Keys /\ (i > dv.loop => Cut < dv.cuts[i])
      /\ dv.loop > 1 => dv.loop - 1 \in Round /\ Before \in Keys /\ Before < Cut
      /\ Cut \in Nat /\ dv.hand = 0 /\ dv.second = FALSE /\ dv.hand # Cut
  <2>1. Doing \in Dividing /\ dv.at # "put"
    BY <1>0, <1>1, DoingAt DEF Dividing, Ahead
  <2>2. dv.hand = 0 /\ dv.second = FALSE
    BY <1>1, <2>1 DEF StepInv, Ahead
  <2> QED
    BY <1>1, <2>1, <2>2, CutFacts, Numbers
<1>4. Typed'
  BY <1>0, <1>1, <1>2 DEF Typed, Null
<1>5. StepInv'
  BY <1>1, <1>2, <1>3 DEF StepInv, Dividing, Ahead, Masking, Settled
<1>6. \A b \in Boards : plower'[b] = IF b = Cut THEN Null ELSE plower[b]
  BY <1>0, <1>1 DEF Typed
<1>7. board \subseteq Boards /\ board' \subseteq Boards
  BY <1>0, <1>1 DEF Typed
<1>8. BoardInv'
  <2>1. ASSUME NEW i \in Round, i > dv.loop
        PROVE  plower'[Routed(board', dv.cuts[i])] = dv.src
    <3>1. plower[Routed(board, dv.cuts[i])] = dv.src
      BY <1>1, <2>1, RouteIn DEF BoardInv, Dividing, Ahead
    <3>2. dv.cuts[i] \in Keys /\ ~ (dv.cuts[i] <= Cut)
      BY <1>3, <2>1, Numbers
    <3>3. Routed(board', dv.cuts[i]) = Routed(board, dv.cuts[i])
          /\ Routed(board, dv.cuts[i]) # Cut /\ Routed(board, dv.cuts[i]) \in board
      BY <3>2, MaskRoutes
    <3> QED
      BY <1>6, <1>7, <3>1, <3>3
  <2>2. \A i \in Round : Route(dv.cuts[i])' = Routed(board', dv.cuts[i])
    BY <1>2, RouteIn
  <2>3. \A b, c \in board' : plower'[b] = plower'[c] => b = c
    BY <1>1, <1>6, <1>7, Numbers DEF BoardInv
  <2>4. \A b \in board' : plower'[b] = Null => b = Cut
    BY <1>1, <1>6, <1>7, Numbers
  <2>5. Cut \in board' /\ plower'[Cut] = Null
    BY <1>1, <1>6
  <2>6. \A b \in board' : plower'[b] = dv.src => \A i \in Round : dv.cuts[i] <= b
    BY <1>1, <1>3, <1>6, <1>7, Numbers DEF BoardInv, Dividing, Ahead
  <2>7. \A b \in board' : \/ b < dv.cuts[1]
                          \/ \A i \in Round : dv.cuts[i] <= b
                          \/ \E i \in 1 .. dv.loop : b = dv.cuts[i]
    <3>1. \E i \in 1 .. dv.loop : Cut = dv.cuts[i]
      <4>1. dv.loop \in Nat /\ 0 < dv.loop
        BY <1>3, Numbers
      <4>2. dv.loop \in 1 .. dv.loop
        BY <4>1
      <4> QED
        BY <4>2 DEF Cut
    <3> QED
      BY <1>1, <3>1 DEF BoardInv, Dividing, Ahead
  <2>8. \A b \in board' : plower'[b] = dv.dst => dv.loop > 1 /\ b = Before
    BY <1>1, <1>3, <1>6, <1>7, Numbers DEF BoardInv, Dividing, Ahead
  <2>9. dv.loop > 1 => plower'[Before] = dv.dst
    <3>1. ASSUME dv.loop > 1 PROVE Before \in Boards /\ Before # Cut
      <4>1. Before \in Keys /\ Before < Cut
        BY <1>3, <3>1
      <4>2. Before \in Boards /\ Before \in Nat
        BY <4>1, Numbers
      <4> QED
        BY <1>3, <4>1, <4>2
    <3> QED
      BY <1>1, <1>6, <3>1 DEF BoardInv, Dividing, Ahead
  <2>10. /\ Doing' \in Masking /\ Doing' \notin Ahead /\ Doing' \notin {"retract", "moved"}
         /\ dv'.loop = dv.loop /\ dv'.cuts = dv.cuts /\ dv'.src = dv.src /\ dv'.dst = dv.dst
         /\ Cut' = Cut /\ Before' = Before
    BY <1>1, <1>2 DEF Masking, Ahead
  <2>11. \A i \in Round : i > dv.loop \/ (i = dv.loop /\ Doing' \in Ahead)
                             => plower'[Route(dv.cuts[i])'] = dv.src
    BY <2>1, <2>2, <2>10
  <2> QED
    BY <2>3, <2>4, <2>5, <2>6, <2>7, <2>8, <2>9, <2>10, <2>11 DEF BoardInv
<1>9. RefInv'
  <2>1. ASSUME NEW k \in Keys, NEW c \in Cluster, refs[c][k] > 0
        PROVE  /\ plower'[Routed(board', k)] = Null => c = dv.src
               /\ plower'[Routed(board', k)] # Null => c = plower'[Routed(board', k)]
    <3>1. Routed(board, k) \in board
      BY <1>0, RouteOf DEF Typed
    <3>2. c = plower[Routed(board, k)]
      BY <1>1, <2>1, <3>1, RouteIn, Numbers DEF RefInv, RoutedRight
    <3>3. CASE Routed(board', k) = Cut /\ plower[Routed(board, k)] = dv.src
      BY <1>1, <1>6, <3>2, <3>3
    <3>4. CASE Routed(board', k) = Routed(board, k) /\ Routed(board, k) # Cut
      BY <1>1, <1>6, <1>7, <3>1, <3>2, <3>4, Numbers
    <3> QED
      BY <3>3, <3>4, MaskRoutes
  <2>2. RoutedRight'
    BY <1>0, <1>2, <2>1, RouteIn DEF RoutedRight
  <2>3. \A k \in Keys, c \in Cluster : refs'[c][k] > 0 /\ (plower[Route(k)])' = Null => c = dv.src
    BY <1>0, <2>1, RouteIn
  <2> QED
    BY <1>1, <1>2, <1>3, <2>2, <2>3 DEF RefInv, Masking, Settled
<1> QED
  BY <1>4, <1>5, <1>8, <1>9

\* The new cluster takes the place of the mask.
LEMMA PublishStepInv ==
  ASSUME Typed, StepInv, BoardInv, RefInv, Publish
  PROVE  /\ Typed' /\ StepInv' /\ BoardInv' /\ RefInv'
         /\ Doing = "publish" /\ Doing' \in {"retract", "moved"} /\ board' = board
         /\ \A b \in board : plower'[b] = IF b = Cut THEN dv.dst ELSE plower[b]
         /\ \A b \in Boards : plower'[b] = IF b = Cut THEN dv.dst ELSE plower[b]
         /\ dv.dst \in Cluster /\ dv'.src = dv.src /\ plower[Cut] = Null /\ Cut \in board
<1> DEFINE l == IF dv.loop > 1 THEN "retract" ELSE "moved"
<1>0. /\ UNCHANGED <<sptvars, board, refs, wk, asked, cnt, dropped>> /\ dv \in DvType /\ Typed
      /\ dv.at = "publish" /\ dv' = [dv EXCEPT !.at = l] /\ l \in {"retract", "moved"}
      /\ plower' = [plower EXCEPT ![Cut] = dv.dst]
  BY DEF Publish, Typed, At, DividerIs
<1>1. Doing = "publish" /\ Doing' = l /\ Cut' = Cut /\ Before' = Before
  BY <1>0 DEF Doing, DvType, Cut, Before
<1>2. /\ dv'.at = l /\ dv'.loop = dv.loop /\ dv'.cuts = dv.cuts /\ dv'.src = dv.src
      /\ dv'.dst = dv.dst /\ dv'.hand = dv.hand /\ dv'.second = dv.second /\ dv'.back = dv.back
      /\ dv' \in DvType
  BY <1>0 DEF DvType, Step, LeaveStep, InSessionStep
<1>3. /\ dv.loop \in Round /\ dv.src \in Cluster /\ dv.dst \in Cluster /\ dv.src # dv.dst
      /\ \A i \in Round : dv.cuts[i] \in Keys /\ (i > dv.loop => Cut < dv.cuts[i])
      /\ dv.loop > 1 => dv.loop - 1 \in Round /\ Before \in Keys /\ Before < Cut
      /\ Cut \in Nat /\ Cut \in Keys /\ dv.hand = 0
  BY <1>0, <1>1, CutFacts DEF Dividing, Masking, StepInv
<1>4. /\ Cut \in Boards /\ board \subseteq Boards /\ Top \in board
      /\ \A b \in Boards : plower'[b] = IF b = Cut THEN dv.dst ELSE plower[b]
      /\ plower[Cut] = Null /\ Cut \in board
      /\ \A b \in board : plower[b] = Null => b = Cut
  BY <1>0, <1>1, <1>3, Numbers DEF Typed, BoardInv, Masking
<1>5. Typed'
  BY <1>0, <1>2, <1>3 DEF Typed
<1>6. StepInv'
  BY <1>0, <1>1, <1>2, <1>3 DEF StepInv, Dividing, Ahead, Masking, Settled
<1>7. Doing \in Dividing /\ Doing \in Masking /\ Doing # "retract" /\ Doing # "moved"
  BY <1>1 DEF Dividing, Masking
<1>8. \A b \in board : plower[b] = dv.dst => dv.loop > 1 /\ b = Before
  BY <1>7 DEF BoardInv
<1> HIDE DEF l
<1>9. BoardInv'
  <2>1. \A b, c \in board : plower[b] = plower[c] => b = c
    BY <1>7 DEF BoardInv
  <2>2. \A b, c \in board : plower'[b] = plower'[c] =>
          b = c \/ (l = "retract" /\ {b, c} \subseteq {Before, Cut})
    BY <1>4, <1>8, <2>1 DEF l
  <2>3. \A b \in board : plower'[b] # Null
    BY <1>3, <1>4, Numbers
  <2>4. plower'[Cut] = dv.dst
    BY <1>4
  <2>5. \A b \in board : plower'[b] = dv.src => \A i \in Round : dv.cuts[i] <= b
    BY <1>3, <1>4, <1>7 DEF BoardInv
  <2>6. ASSUME NEW i \in Round, i > dv.loop
        PROVE  plower'[Routed(board, dv.cuts[i])] = dv.src
    <3>1. plower[Routed(board, dv.cuts[i])] = dv.src
      BY <1>7, <2>6, RouteIn DEF BoardInv
    <3>2. dv.cuts[i] \in Keys /\ Routed(board, dv.cuts[i]) \in board
      BY <1>3, <1>4, RouteOf
    <3>3. Routed(board, dv.cuts[i]) # Cut
      BY <1>3, <1>4, <3>1, Numbers
    <3> QED
      BY <1>4, <3>1, <3>2, <3>3
  <2>7. \A i \in Round : Route(dv.cuts[i])' = Routed(board, dv.cuts[i])
    BY <1>0, <1>2, RouteIn
  <2>8. \A b \in board : \/ b < dv.cuts[1]
                         \/ \A i \in Round : dv.cuts[i] <= b
                         \/ \E i \in 1 .. dv.loop : b = dv.cuts[i]
    BY <1>7 DEF BoardInv
  <2>9. \A b \in board : plower'[b] = dv.dst =>
          (dv.loop > 1 /\ b = Before /\ l # "moved") \/ (b = Cut /\ l \in {"retract", "moved"})
    BY <1>0, <1>4, <1>8 DEF l
  <2>10. dv.loop > 1 => plower'[Before] = dv.dst
    <3>1. ASSUME dv.loop > 1 PROVE Before \in Boards /\ Before # Cut
      <4>1. Before \in Keys /\ Before < Cut
        BY <1>3, <3>1
      <4>2. Before \in Boards /\ Before \in Nat
        BY <4>1, Numbers
      <4> QED
        BY <1>3, <4>1, <4>2
    <3> QED
      BY <1>4, <1>7, <3>1 DEF BoardInv
  <2>11. l \notin Masking /\ l \notin Ahead
    BY DEF l, Masking, Ahead
  <2> QED
    BY <1>0, <1>1, <1>2, <1>4, <2>2, <2>3, <2>4, <2>5, <2>6, <2>7, <2>8, <2>9, <2>10, <2>11
       DEF BoardInv
<1>10. RefInv'
  <2>1. \A k \in Keys : k <= Cut => refs[dv.src][k] = 0
    BY <1>1 DEF RefInv
  <2>2. ASSUME NEW k \in Keys, NEW c \in Cluster, refs[c][k] > 0
        PROVE  c = plower'[Routed(board, k)] /\ plower'[Routed(board, k)] # Null
    <3> DEFINE r == Routed(board, k)
    <3>1. r \in board /\ k <= r
      BY <1>4, RouteOf
    <3> HIDE DEF r
    <3>2. plower[r] = Null => c \in {dv.src, dv.dst}
      BY <2>2, RouteIn DEF RefInv, RoutedRight, r
    <3>3. plower[r] # Null => c = plower[r]
      BY <2>2, RouteIn DEF RefInv, RoutedRight, r
    <3>4. CASE r = Cut
      <4>1. c # dv.src
        BY <2>1, <2>2, <3>1, <3>4
      <4> QED
        BY <1>3, <1>4, <3>2, <3>4, <4>1, Numbers DEF r
    <3>5. CASE r # Cut
      BY <1>4, <3>1, <3>3, <3>5, Numbers DEF r
    <3> QED
      BY <3>4, <3>5
  <2>3. RoutedRight'
    BY <1>0, <1>2, <2>2, RouteIn DEF RoutedRight
  <2>4. Doing' \notin Masking /\ Doing' \notin Settled /\ Doing' \notin {"take", "put", "unboard", "publish"}
        /\ dv'.at # "put"
    BY <1>0, <1>1, <1>2 DEF Masking, Settled, l
  <2> QED
    BY <2>3, <2>4 DEF RefInv
<1> QED
  BY <1>0, <1>1, <1>2, <1>3, <1>4, <1>5, <1>6, <1>9, <1>10 DEF l

\* The board of the round before goes: its keys find the same cluster at the
\* board of this round.
LEMMA RetractRoutes ==
  ASSUME Typed, StepInv, BoardInv, Retract
  PROVE  /\ Doing = "retract" /\ Doing' = "moved"
         /\ dv' = [dv EXCEPT !.at = "moved"] /\ Cut' = Cut /\ Before' = Before
         /\ board' = board \ {Before} /\ plower' = plower /\ Top \in board'
         /\ plower[Before] = dv.dst /\ plower[Cut] = dv.dst /\ Cut \in board'
         /\ \A k \in Keys :
              \/ Routed(board, k) = Before /\ Routed(board', k) = Cut
              \/ Routed(board', k) = Routed(board, k) /\ Routed(board, k) # Before
<1>0. /\ dv.at = "retract" /\ dv' = [dv EXCEPT !.at = "moved"] /\ dv \in DvType
      /\ board' = board \ {Before} /\ plower' = plower
      /\ board \in SUBSET Boards /\ Top \in board
  BY DEF Retract, At, DividerIs, Typed, Before
<1>1. Doing = "retract" /\ Doing' = "moved" /\ Cut' = Cut /\ Before' = Before
  BY <1>0 DEF Doing, DvType, Cut, Before
<1>2. /\ dv.loop \in Round /\ dv.loop > 1 /\ dv.loop - 1 \in Round /\ Before \in Keys /\ Before < Cut
      /\ Cut \in Keys
      /\ dv.cuts \in [Round -> Keys]
      /\ \A i, j \in Round : i < j => dv.cuts[i] < dv.cuts[j]
  BY <1>1, CutFacts DEF StepInv, Dividing
<1>3. /\ Before \in Nat /\ Cut \in Nat /\ Before < Top /\ Before # Cut
      /\ \A b \in board : b \in Nat
  BY <1>0, <1>2, Numbers
<1>4. board' \in SUBSET Boards /\ Top \in board'
  BY <1>0, <1>3, Numbers
<1>5. plower[Before] = dv.dst /\ plower[Cut] = dv.dst /\ Cut \in board /\ Cut \in board'
  BY <1>0, <1>1, <1>2, <1>3 DEF BoardInv, Dividing
<1>6. ASSUME NEW b \in board, Before < b PROVE Cut <= b
  <2>1. \/ b < dv.cuts[1]
        \/ \A i \in Round : dv.cuts[i] <= b
        \/ \E i \in 1 .. dv.loop : b = dv.cuts[i]
    BY <1>1 DEF BoardInv, Dividing
  <2>2. dv.cuts[1] \in Nat /\ 1 \in Round /\ b \in Nat /\ dv.loop \in Nat /\ dv.loop <= MoveTimes
        /\ MoveTimes \in Nat
    BY <1>2, <1>3, Numbers
  <2>3. dv.cuts[1] <= Before
    <3>1. CASE dv.loop - 1 = 1
      BY <1>3, <2>2, <3>1 DEF Before
    <3>2. CASE dv.loop - 1 # 1
      <4>1. 1 < dv.loop - 1
        BY <1>2, <2>2, <3>2
      <4>2. dv.cuts[1] < Before
        BY <1>2, <2>2, <4>1 DEF Before
      <4> QED
        BY <1>3, <2>2, <4>2
    <3> QED
      BY <3>1, <3>2
  <2>4. CASE b < dv.cuts[1]
    BY <1>3, <1>6, <2>2, <2>3, <2>4
  <2>5. CASE \A i \in Round : dv.cuts[i] <= b
    BY <1>2, <2>5 DEF Cut
  <2>6. CASE \E i \in 1 .. dv.loop : b = dv.cuts[i]
    <3>1. PICK i \in 1 .. dv.loop : b = dv.cuts[i]
      BY <2>6
    <3>2. i \in Round /\ i \in Nat
      BY <2>2 DEF Round
    <3>3. ~ (i < dv.loop - 1)
      <4>1. i < dv.loop - 1 => b < Before
        BY <1>2, <3>1, <3>2 DEF Before
      <4> QED
        BY <1>3, <1>6, <4>1
    <3>4. i # dv.loop - 1
      BY <1>3, <1>6, <3>1 DEF Before
    <3>5. i = dv.loop
      BY <2>2, <3>2, <3>3, <3>4
    <3> QED
      BY <1>3, <3>1, <3>5 DEF Cut
  <2> QED
    BY <2>1, <2>4, <2>5, <2>6
<1>7. ASSUME NEW k \in Keys
      PROVE  \/ Routed(board, k) = Before /\ Routed(board', k) = Cut
             \/ Routed(board', k) = Routed(board, k) /\ Routed(board, k) # Before
  <2> DEFINE r == Routed(board, k)
  <2>1. r \in board /\ k <= r /\ \A b \in board : k <= b => r <= b
    BY <1>0, RouteOf
  <2>2. k \in Nat
    BY Numbers
  <2> HIDE DEF r
  <2>3. CASE r = Before
    <3>1. k <= Cut
      BY <1>2, <1>3, <2>1, <2>2, <2>3
    <3>2. \A b \in board' : k <= b => Cut <= b
      <4>1. ASSUME NEW b \in board', k <= b PROVE Cut <= b
        <5>1. b \in board /\ b # Before /\ Before <= b
          BY <1>0, <2>1, <2>3, <4>1
        <5>2. Before < b
          BY <1>3, <5>1
        <5> QED
          BY <1>6, <5>1, <5>2
      <4> QED
        BY <4>1
    <3>3. Routed(board', k) = Cut
      BY <1>4, <1>5, <3>1, <3>2, RouteOf
    <3> QED
      BY <2>3, <3>3 DEF r
  <2>4. CASE r # Before
    <3>1. r \in board' /\ \A b \in board' : k <= b => r <= b
      BY <1>0, <2>1, <2>4
    <3>2. Routed(board', k) = r
      BY <1>4, <2>1, <3>1, RouteOf
    <3> QED
      BY <2>4, <3>2 DEF r
  <2> QED
    BY <2>3, <2>4
<1> QED
  BY <1>0, <1>1, <1>4, <1>5, <1>7

\* The board of the round before goes: its keys fall to the new board, which
\* names the same cluster.
LEMMA RetractStepInv ==
  ASSUME Typed, StepInv, BoardInv, RefInv, Retract
  PROVE  Typed' /\ StepInv' /\ BoardInv' /\ RefInv'
<1>0. UNCHANGED <<sptvars, plower, refs, wk, asked, cnt, dropped>> /\ dv \in DvType /\ Typed /\ dv.at = "retract"
  BY DEF Retract, Typed, At
<1>1. /\ Doing = "retract" /\ Doing' = "moved" /\ dv' = [dv EXCEPT !.at = "moved"]
      /\ Cut' = Cut /\ Before' = Before
      /\ board' = board \ {Before} /\ plower' = plower /\ Top \in board'
      /\ plower[Before] = dv.dst /\ plower[Cut] = dv.dst /\ Cut \in board'
  BY RetractRoutes
<1>2. /\ dv'.at = "moved" /\ dv'.loop = dv.loop /\ dv'.cuts = dv.cuts /\ dv'.src = dv.src
      /\ dv'.dst = dv.dst /\ dv'.hand = dv.hand /\ dv'.second = dv.second /\ dv'.back = dv.back
      /\ dv' \in DvType
  BY <1>0, <1>1 DEF DvType, Step, LeaveStep
<1>3. /\ dv.loop \in Round /\ dv.src \in Cluster /\ dv.dst \in Cluster /\ dv.src # dv.dst
      /\ \A i \in Round : dv.cuts[i] \in Keys /\ (i > dv.loop => Cut < dv.cuts[i])
      /\ Before \in Keys /\ Before < Cut
      /\ Cut \in Nat /\ dv.hand = 0 /\ Doing \in Dividing
  <2>1. Doing \in Dividing /\ dv.loop > 1 /\ dv.hand = 0
    BY <1>0, <1>1 DEF Dividing, StepInv
  <2> QED
    BY <2>1, CutFacts
<1>4. Typed'
  BY <1>0, <1>1, <1>2 DEF Typed
<1>5. StepInv'
  BY <1>0, <1>1, <1>2, <1>3 DEF StepInv, Dividing, Ahead, Masking, Settled
<1>6. \A b \in board : plower[b] # Null
  BY <1>1 DEF BoardInv, Masking
<1>7. BoardInv'
  <2>1. ASSUME NEW i \in Round, i > dv.loop
        PROVE  plower[Routed(board', dv.cuts[i])] = dv.src
    <3>1. plower[Routed(board, dv.cuts[i])] = dv.src
      BY <1>1, <1>3, <2>1, RouteIn DEF BoardInv
    <3>2. dv.cuts[i] \in Keys
      BY <1>3
    <3>3. Routed(board, dv.cuts[i]) # Before
      BY <1>1, <1>3, <3>1
    <3>4. Routed(board', dv.cuts[i]) = Routed(board, dv.cuts[i])
      BY <3>2, <3>3, RetractRoutes
    <3> QED
      BY <3>1, <3>4
  <2>2. \A i \in Round : Route(dv.cuts[i])' = Routed(board', dv.cuts[i])
    BY <1>2, RouteIn
  <2>3. \A b, c \in board' : plower[b] = plower[c] => b = c
    BY <1>1 DEF BoardInv
  <2>4. \A b \in board' : plower[b] = dv.src => \A i \in Round : dv.cuts[i] <= b
    BY <1>1, <1>3 DEF BoardInv
  <2>5. \A b \in board' : \/ b < dv.cuts[1]
                          \/ \A i \in Round : dv.cuts[i] <= b
                          \/ \E i \in 1 .. dv.loop : b = dv.cuts[i]
    BY <1>1, <1>3 DEF BoardInv
  <2>6. \A b \in board' : plower[b] = dv.dst => b = Cut
    BY <1>1, <1>3 DEF BoardInv
  <2>7. "moved" \notin Masking /\ "moved" \notin Ahead
    BY DEF Masking, Ahead
  <2> QED
    BY <1>1, <1>2, <1>6, <2>1, <2>2, <2>3, <2>4, <2>5, <2>6, <2>7 DEF BoardInv
<1>8. RefInv'
  <2>1. ASSUME NEW k \in Keys, NEW c \in Cluster, refs[c][k] > 0
        PROVE  c = plower[Routed(board', k)] /\ plower[Routed(board', k)] # Null
    <3>1. Routed(board, k) \in board
      BY <1>0, RouteOf DEF Typed
    <3>2. c = plower[Routed(board, k)] /\ plower[Routed(board, k)] # Null
      BY <1>6, <2>1, <3>1, RouteIn DEF RefInv, RoutedRight
    <3> QED
      BY <1>1, <3>2, RetractRoutes
  <2>2. RoutedRight'
    BY <1>0, <1>2, <2>1, RouteIn DEF RoutedRight
  <2>3. Doing' \notin Masking /\ Doing' \notin Settled /\ Doing' \notin {"take", "put", "unboard", "publish"}
        /\ dv'.at # "put"
    BY <1>1, <1>2 DEF Masking, Settled
  <2> QED
    BY <2>2, <2>3 DEF RefInv
<1> QED
  BY <1>4, <1>5, <1>7, <1>8

\* Between two rounds, or after the last, no board is masked and every
\* reference is where its board says.
LEMMA MovedInv ==
  ASSUME Typed, StepInv, BoardInv, RefInv, Leave, dv.at = "moved"
  PROVE  BoardInv' /\ RefInv'
<1>0. /\ UNCHANGED <<board, plower, refs>> /\ Doing = "moved" /\ dv.hand = 0
      /\ \/ /\ dv'.at = "mask" /\ dv.loop < MoveTimes /\ dv'.loop = dv.loop + 1 /\ dv'.cuts = dv.cuts
            /\ dv'.src = dv.src /\ dv'.dst = dv.dst /\ dv'.second = FALSE /\ dv'.hand = dv.hand
         \/ dv'.at = "scan"
  BY LeaveStepInv, DoingAt DEF Leave, tree, StepInv
<1>1. Doing \in Dividing /\ Doing \notin Masking /\ Doing # "retract"
  BY <1>0 DEF Dividing, Masking
<1>2. \A b \in board : plower[b] # Null
  BY <1>1 DEF BoardInv
<1>3. \A k \in Keys : Route(k) \in board /\ Route(k)' = Route(k)
  BY <1>0, RouteIn, RouteOf DEF Typed
<1>4. RoutedRight'
  BY <1>0, <1>2, <1>3, RouteIn DEF RefInv, RoutedRight
<1>5. CASE dv'.at = "scan"
  <2>1. Doing' = "scan"
    BY <1>5 DEF Doing
  <2> QED
    BY <1>0, <1>1, <1>2, <1>4, <1>5, <2>1 DEF BoardInv, RefInv, Dividing, Ahead, Masking, Settled
<1>6. CASE dv'.at = "mask"
  <2>1. Doing' = "mask"
    BY <1>6 DEF Doing
  <2>2. /\ dv'.loop = dv.loop + 1 /\ dv'.cuts = dv.cuts /\ dv'.src = dv.src /\ dv'.dst = dv.dst
        /\ dv'.second = FALSE /\ dv'.hand = 0
    BY <1>0, <1>6
  <2>3. dv.loop \in Nat /\ 0 < dv.loop /\ \A i \in Round : i \in Nat
    BY <1>1, CutFacts, Numbers
  <2>4. Before' = Cut
    <3>1. dv'.loop - 1 = dv.loop
      BY <2>2, <2>3
    <3>2. Before' = dv'.cuts[dv'.loop - 1]
      BY DEF Before
    <3> QED
      BY <2>2, <3>1, <3>2 DEF Cut
  <2>5. RefInv'
    BY <1>4, <1>6, <2>1, <2>2 DEF RefInv, Masking, Settled
  <2>6. \A i \in Round : Route(dv.cuts[i])' = Route(dv.cuts[i])
    BY <1>0, <2>2, RouteIn
  <2>7. ASSUME NEW i \in Round, i > dv.loop + 1 \/ i = dv.loop + 1
        PROVE  plower[Route(dv.cuts[i])] = dv.src
    <3>1. i > dv.loop
      BY <2>3, <2>7
    <3> QED
      BY <1>1, <3>1 DEF BoardInv
  <2>8. \A b \in board : \/ b < dv.cuts[1]
                         \/ \A i \in Round : dv.cuts[i] <= b
                         \/ \E i \in 1 .. dv.loop + 1 : b = dv.cuts[i]
    <3>1. \A i \in 1 .. dv.loop : i \in 1 .. dv.loop + 1
      BY <2>3
    <3>2. \A b \in board : \/ b < dv.cuts[1]
                           \/ \A i \in Round : dv.cuts[i] <= b
                           \/ \E i \in 1 .. dv.loop : b = dv.cuts[i]
      BY <1>1 DEF BoardInv
    <3> QED
      BY <3>1, <3>2
  <2>9. dv.loop + 1 > 1
    BY <2>3
  <2>10. \A b \in board : plower[b] = dv.dst => b = Cut
    BY <1>0, <1>1 DEF BoardInv
  <2>11. plower[Cut] = dv.dst
    BY <1>0 DEF BoardInv
  <2>12. \A b, c \in board : plower[b] = plower[c] => b = c
    BY <1>1 DEF BoardInv
  <2>13. \A b \in board : plower[b] = dv.src => \A i \in Round : dv.cuts[i] <= b
    BY <1>1 DEF BoardInv
  <2>14. "mask" \notin Masking
    BY DEF Masking
  <2>15. BoardInv'
    BY <1>0, <1>2, <2>1, <2>2, <2>4, <2>6, <2>7, <2>8, <2>9, <2>10, <2>11, <2>12, <2>13, <2>14
       DEF BoardInv
  <2> QED
    BY <2>5, <2>15
<1> QED
  BY <1>0, <1>5, <1>6
-----------------------------------------------------------------------------
\* Steps that leave the tree alone, inside a phase and outside of every mask.
LEMMA RefKept ==
  ASSUME RefInv, UNCHANGED <<board, plower, refs>>,
         dv'.loop = dv.loop, dv'.cuts = dv.cuts, dv'.src = dv.src, dv'.dst = dv.dst,
         dv'.second = dv.second, dv'.hand = dv.hand, dv'.at = "put" => dv.at = "put",
         \/ Doing' = Doing
         \/ Doing \in Settled /\ Doing' \in Settled
         \/ Doing \in Ahead /\ Doing' \in Ahead
  PROVE  RefInv'
<1>1. /\ Doing' \in Settled <=> Doing \in Settled
      /\ Doing' \in Masking <=> Doing \in Masking
      /\ Doing' \in {"take", "put"} <=> Doing \in {"take", "put"}
      /\ Doing' \in {"unboard", "publish"} <=> Doing \in {"unboard", "publish"}
  BY DEF Masking, Ahead, Settled
<1>2. Cut' = Cut
  BY DEF Cut
<1>3. \A k : Route(k)' = Route(k)
  BY RouteIn
<1>4. Route(dv.hand)' = Route(dv.hand)
  BY RouteIn
<1>5. RoutedRight'
  BY <1>3 DEF RefInv, RoutedRight
<1> QED
  BY <1>1, <1>2, <1>3, <1>4, <1>5 DEF RefInv

\* Outside of a mask, and with nothing moved, the references stay where they are.
LEMMA NoMaskInv ==
  ASSUME Typed, BoardInv, RefInv, UNCHANGED <<board, plower, refs>>,
         Doing \notin Masking, Doing' \notin Masking, dv'.at # "put"
  PROVE  RefInv'
<1>1. \A b \in board : plower[b] # Null
  BY DEF BoardInv
<1>2. \A k \in Keys : Route(k) \in board /\ Route(k)' = Route(k)
  BY RouteIn, RouteOf DEF Typed
<1>3. RoutedRight'
  BY <1>1, <1>2, RouteIn DEF RefInv, RoutedRight
<1> QED
  BY <1>3 DEF RefInv, Masking, Settled

\* While a board is masked it is the board of the cut, and what the other
\* boards name is not below it.
LEMMA MaskFacts ==
  ASSUME Typed, StepInv, BoardInv, Doing \in Masking
  PROVE  /\ Cut \in Keys /\ Cut \in Nat /\ Cut \in board /\ plower[Cut] = Null /\ Route(Cut) = Cut
         /\ dv.src \in Cluster /\ dv.dst \in Cluster /\ dv.src # dv.dst
         /\ \A k \in Keys : plower[Route(k)] = Null => Route(k) = Cut
         /\ \A k \in Keys : k <= Cut => plower[Route(k)] # dv.src
<1>1. Doing \in Dividing
  BY DEF Dividing
<1>2. /\ Cut \in Keys /\ Cut \in Nat /\ dv.loop \in Round
      /\ dv.src \in Cluster /\ dv.dst \in Cluster /\ dv.src # dv.dst
  BY <1>1, CutFacts
<1>3. Cut \in board /\ plower[Cut] = Null /\ board \in SUBSET Boards /\ Top \in board
  BY DEF BoardInv, Typed
<1>4. \A k \in Keys : /\ Route(k) \in board /\ k <= Route(k)
                      /\ \A b \in board : k <= b => Route(k) <= b
  BY <1>3, RouteIn, RouteOf
<1>5. Route(Cut) = Cut
  <2>1. Routed(board, Cut) \in board /\ Cut <= Routed(board, Cut) /\ Routed(board, Cut) <= Cut
    BY <1>2, <1>3, RouteOf
  <2>2. Routed(board, Cut) \in Nat
    BY <1>3, <2>1, Numbers
  <2>3. Routed(board, Cut) = Cut
    BY <1>2, <2>1, <2>2
  <2> QED
    BY <2>3, RouteIn
<1>6. \A k \in Keys : plower[Route(k)] = Null => Route(k) = Cut
  BY <1>4 DEF BoardInv
<1>7. ASSUME NEW k \in Keys, k <= Cut, plower[Route(k)] = dv.src PROVE FALSE
  <2> DEFINE r == Route(k)
  <2>1. r \in board /\ r <= Cut /\ r \in Nat
    BY <1>3, <1>4, <1>7, Numbers
  <2>2. Cut <= r
    BY <1>1, <1>2, <1>7, <2>1 DEF BoardInv, Cut
  <2>3. r = Cut
    <3> HIDE DEF r
    <3> QED
      BY <1>2, <2>1, <2>2
  <2> QED
    BY <1>2, <1>3, <1>7, <2>3, Numbers
<1> QED
  BY <1>2, <1>3, <1>5, <1>6, <1>7

\* References that only become fewer stay where they belong.
LEMMA FewerRight ==
  ASSUME RoutedRight, board' = board, plower' = plower, dv'.src = dv.src, dv'.dst = dv.dst,
         \A k \in Keys, c \in Cluster : refs'[c][k] > 0 => refs[c][k] > 0
  PROVE  RoutedRight'
<1>1. \A k : Route(k)' = Route(k)
  BY RouteIn
<1> QED
  BY <1>1 DEF RoutedRight

\* One more reference in a cluster its board allows is where it belongs.
LEMMA MoreRight ==
  ASSUME Typed, RoutedRight, board' = board, plower' = plower, dv'.src = dv.src, dv'.dst = dv.dst,
         NEW c \in Cluster, NEW k \in Keys, refs' = [refs EXCEPT ![c][k] = @ + 1],
         IF plower[Route(k)] = Null THEN c \in {dv.src, dv.dst} ELSE c = plower[Route(k)]
  PROVE  RoutedRight'
<1>1. \A j : Route(j)' = Route(j)
  BY RouteIn
<1>2. \A j \in Keys, d \in Cluster : refs'[d][j] > 0 => refs[d][j] > 0 \/ (d = c /\ j = k)
  BY DEF Typed
<1> QED
  BY <1>1, <1>2 DEF RoutedRight

\* The reference of the lower board goes into the source.
LEMMA BoardStepInv ==
  ASSUME Typed, StepInv, BoardInv, RefInv, Board
  PROVE  Typed' /\ StepInv' /\ BoardInv' /\ RefInv'
<1>0. /\ UNCHANGED <<sptvars, board, plower, wk, asked, cnt, dropped>> /\ dv \in DvType /\ Typed
      /\ dv.at = "board" /\ dv' = [dv EXCEPT !.at = "take"]
      /\ refs' = [refs EXCEPT ![dv.src][Cut] = @ + 1]
  BY DEF Board, Typed, At, DividerIs
<1>1. Doing = "board" /\ Doing' = "take" /\ Cut' = Cut
  BY <1>0 DEF Doing, DvType, Cut
<1>2. /\ dv'.at = "take" /\ dv'.loop = dv.loop /\ dv'.cuts = dv.cuts /\ dv'.src = dv.src
      /\ dv'.dst = dv.dst /\ dv'.hand = dv.hand /\ dv'.second = dv.second /\ dv'.back = dv.back
      /\ dv' \in DvType /\ dv.hand = 0 /\ dv.second = FALSE
  BY <1>0, <1>1 DEF DvType, Step, InSessionStep, StepInv, Settled
<1>3. /\ Cut \in Keys /\ Cut \in Nat /\ Cut \in board /\ plower[Cut] = Null /\ Route(Cut) = Cut
      /\ dv.src \in Cluster /\ dv.dst \in Cluster /\ dv.src # dv.dst
  BY <1>1, MaskFacts DEF Masking
<1>4. refs' \in [Cluster -> [Keys -> Nat]] /\ refs'[dv.src][Cut] > 0
  BY <1>0, <1>3 DEF Typed
<1>5. Typed'
  BY <1>0, <1>2, <1>4 DEF Typed
<1>6. StepInv'
  BY <1>1, <1>2 DEF StepInv, Dividing, Ahead, Masking, Settled
<1>7. BoardInv'
  BY <1>0, <1>1, <1>2, BoardKept DEF SamePhase, Masking
<1>8. RoutedRight'
  BY <1>0, <1>2, <1>3, MoreRight DEF RefInv
<1>9. dv.hand # Cut
  BY <1>2, <1>3, Numbers
<1>10. RefInv'
  BY <1>1, <1>2, <1>4, <1>8, <1>9 DEF RefInv, Masking, Settled
<1> QED
  BY <1>5, <1>6, <1>7, <1>10

\* What is taken is the source's lowest key, and is routed to the cut.
LEMMA TakeStepInv ==
  ASSUME Typed, StepInv, BoardInv, RefInv, Take
  PROVE  /\ Typed' /\ StepInv' /\ BoardInv' /\ RefInv'
         /\ dv'.hand \in Keys /\ refs[dv.src][dv'.hand] > 0
         /\ refs' = [refs EXCEPT ![dv.src][dv'.hand] = @ - 1]
         /\ dv.src \in Cluster
<1>0. /\ UNCHANGED <<sptvars, board, plower, wk, asked, cnt, dropped>> /\ dv \in DvType /\ Typed
      /\ dv.at = "take"
  BY DEF Take, Typed, At
<1>k. PICK k \in Keys : /\ Lowest(k) /\ (dv.second => k = Cut)
                        /\ refs' = [refs EXCEPT ![dv.src][k] = @ - 1]
                        /\ dv' = [dv EXCEPT !.at = "put", !.hand = k]
  BY DEF Take, DividerIs
<1>1. Doing = "take" /\ Doing' = "put" /\ Cut' = Cut
  BY <1>0, <1>k DEF Doing, DvType, Cut
<1>2. /\ dv'.at = "put" /\ dv'.loop = dv.loop /\ dv'.cuts = dv.cuts /\ dv'.src = dv.src
      /\ dv'.dst = dv.dst /\ dv'.hand = k /\ dv'.second = dv.second /\ dv'.back = dv.back
      /\ dv' \in DvType /\ dv.hand = 0
  BY <1>0, <1>k DEF DvType, Step, InSessionStep, StepInv
<1>3. /\ Cut \in Keys /\ Cut \in Nat /\ Cut \in board /\ plower[Cut] = Null /\ Route(Cut) = Cut
      /\ dv.src \in Cluster /\ dv.dst \in Cluster /\ dv.src # dv.dst
      /\ \A j \in Keys : plower[Route(j)] = Null => Route(j) = Cut
      /\ \A j \in Keys : j <= Cut => plower[Route(j)] # dv.src
  BY <1>1, MaskFacts DEF Masking
<1>4. refs[dv.src][k] > 0 /\ \A j \in Keys : refs[dv.src][j] > 0 => k <= j
  BY <1>k DEF Lowest, Records
<1>5. /\ refs' \in [Cluster -> [Keys -> Nat]]
      /\ \A j \in Keys, c \in Cluster : refs'[c][j] > 0 => refs[c][j] > 0
      /\ \A j \in Keys : refs[dv.src][j] = 0 => refs'[dv.src][j] = 0
      /\ \A j \in Keys \ {k} : refs'[dv.src][j] = refs[dv.src][j]
  <2>1. refs \in [Cluster -> [Keys -> Nat]] /\ refs[dv.src][k] \in Nat
    BY <1>3 DEF Typed
  <2>2. refs[dv.src][k] - 1 \in Nat
    BY <1>4, <2>1
  <2> QED
    BY <1>k, <1>3, <1>4, <2>1, <2>2
<1>6. Typed'
  BY <1>0, <1>2, <1>5 DEF Typed
<1>7. StepInv'
  BY <1>1, <1>2 DEF StepInv, Dividing, Ahead, Masking, Settled
<1>8. BoardInv'
  BY <1>0, <1>1, <1>2, BoardKept DEF SamePhase, Masking
<1>9. RoutedRight'
  BY <1>0, <1>2, <1>5, FewerRight DEF RefInv
<1>10. dv.hand # Cut
  BY <1>2, <1>3, Numbers
<1>11. k <= Cut
  <2>1. CASE dv.second
    BY <1>k, <1>3, <2>1
  <2>2. CASE ~dv.second
    BY <1>1, <1>3, <1>4, <1>10, <2>2 DEF RefInv
  <2> QED
    BY <2>1, <2>2
<1>12. Route(k) = Cut
  BY <1>3, <1>4, <1>11 DEF RefInv, RoutedRight
<1>13. Route(dv.hand)' = Cut
  BY <1>0, <1>2, <1>12, RouteIn
<1>14. ASSUME dv.second \/ k = Cut, NEW j \in Keys, j < Cut PROVE refs'[dv.src][j] = 0
  <2>1. CASE dv.second
    BY <1>1, <1>5, <1>14, <2>1 DEF RefInv, Masking
  <2>2. CASE k = Cut
    <3>1. ~ (k <= j)
      BY <1>3, <1>14, <2>2, Numbers
    <3>2. ~ (refs[dv.src][j] > 0) /\ refs[dv.src][j] \in Nat
      BY <1>3, <1>4, <3>1 DEF Typed
    <3>3. refs[dv.src][j] = 0
      BY <3>2
    <3> QED
      BY <1>5, <3>3
  <2> QED
    BY <1>14, <2>1, <2>2
<1>15. ~dv.second /\ k # Cut => refs'[dv.src][Cut] > 0
  BY <1>1, <1>3, <1>5, <1>10 DEF RefInv
<1>16. RefInv'
  BY <1>1, <1>2, <1>9, <1>13, <1>14, <1>15 DEF RefInv, Settled
<1> QED
  BY <1>k, <1>2, <1>3, <1>4, <1>6, <1>7, <1>8, <1>16

\* The reference in hand goes to the new cluster or is let fall; the one of the
\* cut's own key ends the first loop.
LEMMA PutStepInv ==
  ASSUME Typed, StepInv, BoardInv, RefInv, Put
  PROVE  /\ Typed' /\ StepInv' /\ BoardInv' /\ RefInv'
         /\ dv.hand \in Keys /\ dv'.hand = 0 /\ dv.dst \in Cluster
<1>0. /\ UNCHANGED <<sptvars, board, plower, wk, asked, cnt>> /\ dv \in DvType /\ Typed
      /\ dv.at = "put"
      /\ dv' = [dv EXCEPT !.at = "take", !.hand = 0, !.second = @ \/ dv.hand = Cut]
  BY DEF Put, Typed, At, DividerIs
<1>1. Doing = "put" /\ Doing' = "take" /\ Cut' = Cut
  BY <1>0 DEF Doing, DvType, Cut
<1>2. /\ dv'.at = "take" /\ dv'.loop = dv.loop /\ dv'.cuts = dv.cuts /\ dv'.src = dv.src
      /\ dv'.dst = dv.dst /\ dv'.hand = 0 /\ dv'.second = (dv.second \/ dv.hand = Cut)
      /\ dv'.back = dv.back /\ dv' \in DvType /\ dv.hand \in Keys
  <2>1. dv.hand \in Keys
    BY <1>0 DEF StepInv
  <2>2. /\ dv'.at = "take" /\ dv'.loop = dv.loop /\ dv'.cuts = dv.cuts /\ dv'.src = dv.src
        /\ dv'.dst = dv.dst /\ dv'.hand = 0 /\ dv'.second = (dv.second \/ dv.hand = Cut)
        /\ dv'.back = dv.back
    BY <1>0 DEF DvType
  <2>3. (dv.second \/ dv.hand = Cut) \in BOOLEAN
    OBVIOUS
  <2>4. dv' \in DvType
    <3>1. "take" \in Step /\ 0 \in Keys \union {0}
      BY DEF Step, InSessionStep
    <3> QED
      BY <1>0, <2>3, <3>1 DEF DvType
  <2> QED
    BY <2>1, <2>2, <2>4
<1>3. /\ Cut \in Keys /\ Cut \in Nat /\ plower[Cut] = Null /\ Route(dv.hand) = Cut
      /\ dv.src \in Cluster /\ dv.dst \in Cluster /\ dv.src # dv.dst
  BY <1>0, <1>1, MaskFacts DEF Masking, RefInv
<1>4. /\ refs' \in [Cluster -> [Keys -> Nat]] /\ dropped' \in [Keys -> 0 .. MaxDrop]
      /\ refs'[dv.src] = refs[dv.src]
      /\ refs' = refs \/ refs' = [refs EXCEPT ![dv.dst][dv.hand] = @ + 1]
  <2>1. CASE /\ refs' = [refs EXCEPT ![dv.dst][dv.hand] = @ + 1]
             /\ UNCHANGED dropped
    BY <1>0, <1>2, <1>3, <2>1 DEF Typed
  <2>2. CASE /\ \A k \in Keys : dropped[k] < MaxDrop
             /\ dropped' = [dropped EXCEPT ![dv.hand] = @ + 1]
             /\ UNCHANGED refs
    <3>1. dropped[dv.hand] \in 0 .. MaxDrop /\ dropped[dv.hand] < MaxDrop /\ MaxDrop \in Nat
      BY <1>0, <1>2, <2>2, DivisionAssumption DEF Typed
    <3>2. dropped[dv.hand] + 1 \in 0 .. MaxDrop
      BY <3>1
    <3> QED
      BY <1>0, <2>2, <3>2 DEF Typed
  <2> QED
    BY <2>1, <2>2 DEF Put
<1>5. Typed'
  BY <1>0, <1>2, <1>4 DEF Typed
<1>6. StepInv'
  BY <1>1, <1>2 DEF StepInv, Dividing, Ahead, Masking, Settled
<1>7. BoardInv'
  BY <1>0, <1>1, <1>2, BoardKept DEF SamePhase, Masking
<1>8. RoutedRight'
  <2>1. CASE refs' = refs
    BY <1>0, <1>2, <2>1, FewerRight DEF RefInv
  <2>2. CASE refs' = [refs EXCEPT ![dv.dst][dv.hand] = @ + 1]
    BY <1>0, <1>2, <1>3, <2>2, MoreRight DEF RefInv
  <2> QED
    BY <1>4, <2>1, <2>2
<1>9. dv'.hand # Cut
  BY <1>2, <1>3, Numbers
<1>10. RefInv'
  <2>1. ~dv.second /\ dv.hand # Cut => refs'[dv.src][Cut] > 0
    BY <1>1, <1>4 DEF RefInv
  <2>2. dv.second \/ dv.hand = Cut => \A k \in Keys : k < Cut => refs'[dv.src][k] = 0
    BY <1>1, <1>4 DEF RefInv, Masking
  <2>3. dv'.second <=> (dv.second \/ dv.hand = Cut)
    BY <1>2
  <2> QED
    BY <1>1, <1>2, <1>8, <1>9, <2>1, <2>2, <2>3 DEF RefInv, Masking, Settled
<1> QED
  BY <1>2, <1>3, <1>5, <1>6, <1>7, <1>10

\* The second loop ends when the source holds nothing up to the cut.
LEMMA EmptiedStepInv ==
  ASSUME Typed, StepInv, BoardInv, RefInv, Emptied
  PROVE  Typed' /\ StepInv' /\ BoardInv' /\ RefInv' /\ dv'.hand = dv.hand
<1>0. /\ UNCHANGED <<sptvars, tree, wk, asked, cnt, dropped>> /\ dv \in DvType /\ Typed
      /\ dv.at = "take" /\ dv.second /\ ~Lowest(Cut)
      /\ dv' = [dv EXCEPT !.at = "unboard"]
  BY DEF Emptied, Typed, At, DividerIs
<1>1. Doing = "take" /\ Doing' = "unboard" /\ Cut' = Cut
  BY <1>0 DEF Doing, DvType, Cut
<1>2. /\ dv'.at = "unboard" /\ dv'.loop = dv.loop /\ dv'.cuts = dv.cuts /\ dv'.src = dv.src
      /\ dv'.dst = dv.dst /\ dv'.hand = dv.hand /\ dv'.second = dv.second /\ dv'.back = dv.back
      /\ dv' \in DvType /\ dv.hand = 0
  BY <1>0 DEF DvType, Step, InSessionStep, StepInv
<1>3. Cut \in Keys /\ Cut \in Nat /\ dv.src \in Cluster
  BY <1>1, MaskFacts DEF Masking
<1>4. \A j \in Keys : j < Cut => refs[dv.src][j] = 0
  BY <1>0, <1>1 DEF RefInv, Masking
<1>5. refs[dv.src] \in [Keys -> Nat]
  BY <1>3 DEF Typed
<1>6. refs[dv.src][Cut] = 0
  <2> SUFFICES ASSUME refs[dv.src][Cut] > 0 PROVE FALSE
    <3>1. refs[dv.src][Cut] \in Nat
      BY <1>3, <1>5
    <3> QED
      BY <3>1
  <2>1. PICK j \in Keys : refs[dv.src][j] > 0 /\ ~ (Cut <= j)
    BY <1>0, <1>3 DEF Lowest, Records
  <2>2. j < Cut
    BY <1>3, <2>1, Numbers
  <2>3. refs[dv.src][j] = 0
    BY <1>4, <2>2
  <2> QED
    BY <2>1, <2>3
<1>7. \A j \in Keys : j <= Cut => refs[dv.src][j] = 0
  <2>1. \A j \in Keys : j <= Cut => j < Cut \/ j = Cut
    BY <1>3, Numbers
  <2> QED
    BY <1>4, <1>6, <2>1
<1>8. Typed'
  BY <1>0, <1>2 DEF Typed, tree
<1>9. StepInv'
  BY <1>1, <1>2 DEF StepInv, Dividing, Ahead, Masking, Settled
<1>10. BoardInv'
  BY <1>0, <1>1, <1>2, BoardKept DEF SamePhase, Masking, tree
<1>11. RoutedRight'
  BY <1>0, <1>2, FewerRight DEF RefInv, tree
<1>12. RefInv'
  BY <1>0, <1>1, <1>2, <1>4, <1>7, <1>11 DEF RefInv, Masking, Settled, tree
<1> QED
  BY <1>2, <1>8, <1>9, <1>10, <1>12

\* The board of the lower cluster goes out of the new cluster.
LEMMA UnboardStepInv ==
  ASSUME Typed, StepInv, BoardInv, RefInv, Unboard
  PROVE  /\ Typed' /\ StepInv' /\ BoardInv' /\ RefInv'
         /\ dv'.hand = dv.hand /\ Cut \in Keys /\ dv.dst \in Cluster
<1>0. /\ UNCHANGED <<sptvars, board, plower, wk, asked, cnt, dropped>> /\ dv \in DvType /\ Typed
      /\ dv.at = "unboard" /\ dv' = [dv EXCEPT !.at = "publish"]
      /\ refs[dv.dst][Cut] > 0 /\ refs' = [refs EXCEPT ![dv.dst][Cut] = @ - 1]
  BY DEF Unboard, Typed, At, DividerIs
<1>1. Doing = "unboard" /\ Doing' = "publish" /\ Cut' = Cut
  BY <1>0 DEF Doing, DvType, Cut
<1>2. /\ dv'.at = "publish" /\ dv'.loop = dv.loop /\ dv'.cuts = dv.cuts /\ dv'.src = dv.src
      /\ dv'.dst = dv.dst /\ dv'.hand = dv.hand /\ dv'.second = dv.second /\ dv'.back = dv.back
      /\ dv' \in DvType /\ dv.hand = 0
  BY <1>0 DEF DvType, Step, InSessionStep, StepInv
<1>3. /\ Cut \in Keys /\ Cut \in Nat
      /\ dv.src \in Cluster /\ dv.dst \in Cluster /\ dv.src # dv.dst
  BY <1>1, MaskFacts DEF Masking
<1>4. /\ refs' \in [Cluster -> [Keys -> Nat]] /\ refs'[dv.src] = refs[dv.src]
      /\ \A j \in Keys, c \in Cluster : refs'[c][j] > 0 => refs[c][j] > 0
  <2>1. refs \in [Cluster -> [Keys -> Nat]] /\ refs[dv.dst][Cut] \in Nat
    BY <1>3 DEF Typed
  <2>2. refs[dv.dst][Cut] - 1 \in Nat
    BY <1>0, <2>1
  <2> QED
    BY <1>0, <1>3, <2>1, <2>2
<1>5. Typed'
  BY <1>0, <1>2, <1>4 DEF Typed
<1>6. StepInv'
  BY <1>1, <1>2 DEF StepInv, Dividing, Ahead, Masking, Settled
<1>7. BoardInv'
  BY <1>0, <1>1, <1>2, BoardKept DEF SamePhase, Masking
<1>8. RoutedRight'
  BY <1>0, <1>2, <1>4, FewerRight DEF RefInv
<1>9. RefInv'
  BY <1>0, <1>1, <1>2, <1>4, <1>8 DEF RefInv, Masking, Settled
<1> QED
  BY <1>2, <1>3, <1>5, <1>6, <1>7, <1>9
-----------------------------------------------------------------------------
\* A step that leaves the tree and the dividing thread's locals alone.
LEMMA FrameInv ==
  ASSUME StepInv, BoardInv, RefInv, UNCHANGED <<tree, dv>>
  PROVE  StepInv' /\ BoardInv' /\ RefInv'
<1>1. Doing' = Doing /\ board' = board /\ plower' = plower /\ refs' = refs
  BY DEF Doing, tree
<1>2. StepInv'
  BY <1>1 DEF StepInv, Free
<1>3. BoardInv'
  BY <1>1, BoardKept DEF SamePhase
<1>4. RefInv'
  BY <1>1, RefKept
<1> QED
  BY <1>2, <1>3, <1>4

\* The dividing thread keeps the invariant of the boards and the references.
LEMMA DividingStep ==
  ASSUME Typed, StepInv, BoardInv, RefInv, Divide \/ Scan
  PROVE  Typed' /\ StepInv' /\ BoardInv' /\ RefInv'
<1> DEFINE Kept == Typed' /\ StepInv' /\ BoardInv' /\ RefInv'
<1>0. dv.at # "put" => dv.hand = 0
  BY DEF StepInv
<1>1. CASE Start \/ Spin
  <2>1. UNCHANGED <<tree, dv, wk, asked, cnt, dropped>>
    BY <1>1 DEF Start, Spin, vars
  <2>2. Typed'
    BY <2>1 DEF Typed, tree
  <2> QED
    BY <2>1, <2>2, FrameInv
<1>2. CASE Leave
  <2>0. UNCHANGED <<board, plower, refs>>
    BY <1>2 DEF Leave, tree
  <2>1. CASE dv.at = "moved"
    BY <1>2, <2>1, LeaveStepInv, MovedInv
  <2>2. CASE dv.at # "moved"
    <3>1. /\ Typed' /\ StepInv' /\ SamePhase /\ dv.at \in {"sorted", "masked", "pause"}
          /\ dv'.loop = dv.loop /\ dv'.cuts = dv.cuts /\ dv'.src = dv.src /\ dv'.dst = dv.dst
          /\ dv'.second = dv.second /\ dv'.hand = dv.hand
      BY <1>2, <2>2, LeaveStepInv
    <3>2. BoardInv'
      BY <2>0, <3>1, BoardKept
    <3>3. dv' = Onward
      BY <1>2 DEF Leave, DividerIs
    <3>4. /\ dv'.at # "put"
          /\ Doing' = Doing \/ (Doing \in Settled /\ Doing' \in Settled)
             \/ (Doing \in Ahead /\ Doing' \in Ahead)
      BY <3>1, <3>3 DEF Onward, Doing, Settled, Ahead, Typed, DvType
    <3>5. RefInv'
      BY <2>0, <3>1, <3>4, RefKept
    <3> QED
      BY <3>1, <3>2, <3>5
  <2> QED
    BY <2>1, <2>2
<1>3. CASE Wait
  <2>0. UNCHANGED <<board, plower, refs>>
    BY <1>3 DEF Wait, tree
  <2>1. /\ Typed' /\ StepInv' /\ SamePhase
        /\ dv'.loop = dv.loop /\ dv'.cuts = dv.cuts /\ dv'.src = dv.src /\ dv'.dst = dv.dst
        /\ dv'.second = dv.second /\ dv'.hand = dv.hand
        /\ \/ dv.at = "wait" /\ dv'.at = "board"
           \/ dv.at = "pausing" /\ dv'.at \in {"take", "unboard", "retract"} /\ Doing' = Doing
    BY <1>3, WaitStepInv
  <2>2. dv'.at # "put" /\ (Doing' = Doing \/ (Doing \in Settled /\ Doing' \in Settled))
    BY <2>1 DEF Doing, Settled
  <2> QED
    BY <2>0, <2>1, <2>2, BoardKept, RefKept
<1>4. CASE Pause
  <2>0. UNCHANGED <<board, plower, refs>>
    BY <1>4 DEF Pause, tree
  <2> QED
    BY <1>4, <2>0, PauseStepInv, BoardKept, RefKept DEF SamePhase
<1>5. CASE Scan
  <2>1. UNCHANGED <<board, plower, refs>> /\ dv.hand = 0 /\ dv'.at # "put"
    BY <1>5 DEF Scan, DividerIs, tree, StepInv, Typed, DvType
  <2> QED
    BY <1>5, <2>1, ScanStepInv, NoMaskInv DEF Masking
<1>6. CASE Sort
  <2>1. UNCHANGED <<board, plower, refs>> /\ dv'.at # "put"
    BY <1>6 DEF Sort, At, DividerIs, tree, Typed, DvType
  <2>2. RoutedRight
    BY DEF RefInv
  <2> QED
    BY <1>6, <2>1, <2>2, SortStepInv, NoMaskInv DEF Masking
<1>7. CASE Mask \/ Publish \/ Retract
  BY <1>7, MaskStepInv, PublishStepInv, RetractStepInv
<1>8. CASE Board \/ Take \/ Put
  BY <1>8, BoardStepInv, TakeStepInv, PutStepInv
<1>9. CASE Emptied \/ Unboard
  BY <1>9, EmptiedStepInv, UnboardStepInv
<1> QED
  BY <1>1, <1>2, <1>3, <1>4, <1>5, <1>6, <1>7, <1>8, <1>9 DEF Divide

\* A worker works in the cluster its key is routed to, or, while the range is
\* masked and nothing has moved yet, in the source.
LEMMA ActFacts ==
  ASSUME Typed, StepInv, BoardInv, NEW t \in Worker, WorkRight(t), wk[t].at = "act"
  PROVE  /\ wk[t].lower \in Cluster /\ wk[t].key \in Keys
         /\ \/ plower[Route(wk[t].key)] # Null /\ wk[t].lower = plower[Route(wk[t].key)]
            \/ plower[Route(wk[t].key)] = Null /\ wk[t].lower = dv.src /\ Doing \in Settled
         /\ Doing \in Masking /\ Doing \notin Settled /\ wk[t].key <= Cut => wk[t].lower # dv.src
<1>1. wk[t].lower \in Cluster /\ wk[t].key \in Keys /\ wk[t].lower # Null
  BY Numbers DEF WorkRight, Typed, WkType
<1>2. Late(t) => Doing \in Settled
  BY DEF Late, Doing, Settled
<1>3. \/ plower[Route(wk[t].key)] # Null /\ wk[t].lower = plower[Route(wk[t].key)]
      \/ plower[Route(wk[t].key)] = Null /\ wk[t].lower = dv.src /\ Doing \in Settled
  BY <1>1, <1>2 DEF WorkRight, Late
<1>4. ASSUME Doing \in Masking, Doing \notin Settled, wk[t].key <= Cut PROVE wk[t].lower # dv.src
  BY <1>1, <1>3, <1>4, MaskFacts
<1> QED
  BY <1>1, <1>3, <1>4

\* A worker's insert.
LEMMA InsertStep ==
  ASSUME Typed, StepInv, BoardInv, RefInv, NEW t \in Worker, WorkRight(t), Insert(t)
  PROVE  /\ Typed' /\ StepInv' /\ BoardInv' /\ RefInv'
         /\ wk[t].lower \in Cluster /\ wk[t].key \in Keys
<1> DEFINE c == wk[t].lower
           k == wk[t].key
<1>0. /\ UNCHANGED <<sptvars, board, plower, dv, asked, dropped>> /\ wk[t].at = "act" /\ Typed
      /\ refs' = [refs EXCEPT ![c][k] = @ + 1] /\ cnt' = [cnt EXCEPT ![k] = @ + 1]
      /\ wk' = [wk EXCEPT ![t] = [Idle EXCEPT !.ret = OK]]
  BY DEF Insert, Done, WorkerIs
<1>1. /\ c \in Cluster /\ k \in Keys
      /\ \/ plower[Route(k)] # Null /\ c = plower[Route(k)]
         \/ plower[Route(k)] = Null /\ c = dv.src /\ Doing \in Settled
      /\ Doing \in Masking /\ Doing \notin Settled /\ k <= Cut => c # dv.src
  BY <1>0, ActFacts
<1> HIDE DEF c, k
<1>2. Typed'
  <2>1. Idle \in WkType /\ [Idle EXCEPT !.ret = OK] \in WkType
    BY Numbers DEF Idle, WkType
  <2> QED
    BY <1>0, <1>1, <2>1 DEF Typed
<1>3. Doing' = Doing /\ Cut' = Cut
  BY <1>0 DEF Doing, Cut
<1>4. StepInv'
  BY <1>0, <1>3 DEF StepInv, Free
<1>5. BoardInv'
  BY <1>0, <1>3, BoardKept DEF SamePhase
<1>6. RoutedRight'
  BY <1>0, <1>1, MoreRight DEF RefInv
<1>7. \A j \in Keys, d \in Cluster :
        /\ refs'[d][j] = IF d = c /\ j = k THEN refs[d][j] + 1 ELSE refs[d][j]
        /\ refs[d][j] \in Nat
  BY <1>0, <1>1 DEF Typed
<1>8. \A j : Route(j)' = Route(j)
  BY <1>0, RouteIn
<1>9. ASSUME Doing \in Settled, NEW j \in Keys, NEW d \in Cluster, refs'[d][j] > 0, plower[Route(j)] = Null
      PROVE  d = dv.src
  BY <1>1, <1>7, <1>9 DEF RefInv
<1>10. Doing \in Settled => dv.second = FALSE /\ dv.hand # Cut
  <2>1. ASSUME Doing \in Settled PROVE dv.hand = 0 /\ Cut # 0 /\ dv.second = FALSE
    <3>1. Doing \in Dividing /\ dv.at # "put"
      BY <2>1, DoingAt DEF Settled, Dividing, Masking
    <3>2. dv.hand = 0 /\ dv.second = FALSE
      BY <2>1, <3>1 DEF StepInv
    <3>3. Cut \in Keys
      BY <3>1, CutFacts
    <3> QED
      BY <3>2, <3>3, Numbers
  <2> QED
    BY <2>1
<1>11. Doing \in Masking => dv.src \in Cluster /\ Cut \in Keys /\ Cut \in Nat
  BY MaskFacts
<1>12. ASSUME Doing \in Masking, dv.second \/ dv.hand = Cut, NEW j \in Keys, j < Cut
       PROVE  refs'[dv.src][j] = 0
  <2>1. refs[dv.src][j] = 0 /\ Doing \notin Settled
    BY <1>10, <1>12 DEF RefInv
  <2>2. ~ (dv.src = c /\ j = k)
    <3>1. j <= Cut
      BY <1>11, <1>12, Numbers
    <3> QED
      BY <1>1, <1>12, <2>1, <3>1
  <2> QED
    BY <1>7, <1>11, <1>12, <2>1, <2>2
<1>13. ASSUME Doing \in {"unboard", "publish"}, NEW j \in Keys, j <= Cut
       PROVE  refs'[dv.src][j] = 0
  <2>1. refs[dv.src][j] = 0 /\ Doing \notin Settled /\ Doing \in Masking
    BY <1>13 DEF RefInv, Settled, Masking
  <2> QED
    BY <1>1, <1>7, <1>11, <1>13, <2>1
<1>14. ASSUME Doing \in {"take", "put"}, ~dv.second, dv.hand # Cut PROVE refs'[dv.src][Cut] > 0
  <2>1. refs[dv.src][Cut] > 0 /\ Doing \in Masking
    BY <1>14 DEF RefInv, Masking
  <2> QED
    BY <1>7, <1>11, <2>1
<1>15. RefInv'
  <2>1. (dv.at = "put" => Route(dv.hand) = Cut)'
    BY <1>0, <1>3, <1>8 DEF RefInv
  <2>2. \A j \in Keys : (plower[Route(j)])' = plower[Route(j)]
    BY <1>0, <1>8
  <2> QED
    BY <1>0, <1>3, <1>6, <1>9, <1>12, <1>13, <1>14, <2>1, <2>2 DEF RefInv
<1> QED
  BY <1>1, <1>2, <1>4, <1>5, <1>15 DEF c, k

\* A worker's delete.
LEMMA DeleteStep ==
  ASSUME Typed, StepInv, BoardInv, RefInv, NEW t \in Worker, WorkRight(t), Delete(t)
  PROVE  /\ Typed' /\ StepInv' /\ BoardInv' /\ RefInv'
         /\ wk[t].lower \in Cluster /\ wk[t].key \in Keys
<1> DEFINE c == wk[t].lower
           k == wk[t].key
<1>0. UNCHANGED <<sptvars, board, plower, dv, asked, dropped>> /\ wk[t].at = "act" /\ Typed
  BY DEF Delete
<1>1. /\ c \in Cluster /\ k \in Keys
      /\ \/ plower[Route(k)] # Null /\ c = plower[Route(k)]
         \/ plower[Route(k)] = Null /\ c = dv.src /\ Doing \in Settled
      /\ Doing \in Masking /\ Doing \notin Settled /\ k <= Cut => c # dv.src
  BY <1>0, ActFacts
<1>a. \/ /\ refs[c][k] > 0
         /\ refs' = [refs EXCEPT ![c][k] = @ - 1] /\ cnt' = [cnt EXCEPT ![k] = @ - 1]
         /\ wk' = [wk EXCEPT ![t] = [Idle EXCEPT !.ret = OK]]
      \/ /\ UNCHANGED <<refs, cnt>>
         /\ wk' = [wk EXCEPT ![t] = [Idle EXCEPT !.ret = NOT_FOUND]]
  BY DEF Delete, Done, WorkerIs
<1> HIDE DEF c, k
<1>b. refs \in [Cluster -> [Keys -> Nat]] /\ cnt \in [Keys -> Int]
  BY DEF Typed
<1>2. /\ refs' \in [Cluster -> [Keys -> Nat]] /\ cnt' \in [Keys -> Int]
      /\ \A j \in Keys, d \in Cluster :
           /\ d # c \/ j # k => refs'[d][j] = refs[d][j]
           /\ refs'[d][j] > 0 => refs[d][j] > 0
           /\ refs[d][j] = 0 => refs'[d][j] = 0
  <2>1. CASE UNCHANGED <<refs, cnt>>
    BY <1>b, <2>1
  <2>2. CASE /\ refs[c][k] > 0
             /\ refs' = [refs EXCEPT ![c][k] = @ - 1] /\ cnt' = [cnt EXCEPT ![k] = @ - 1]
    <3>1. refs[c][k] \in Nat /\ cnt[k] \in Int /\ refs[c] \in [Keys -> Nat]
      BY <1>1, <1>b
    <3>2. refs[c][k] - 1 \in Nat /\ cnt[k] - 1 \in Int
      BY <2>2, <3>1
    <3>3. [refs[c] EXCEPT ![k] = @ - 1] \in [Keys -> Nat]
      BY <1>1, <3>1, <3>2
    <3> QED
      BY <1>1, <1>b, <2>2, <3>1, <3>2, <3>3
  <2> QED
    BY <1>a, <2>1, <2>2
<1>3. Typed'
  <2>1. [Idle EXCEPT !.ret = OK] \in WkType /\ [Idle EXCEPT !.ret = NOT_FOUND] \in WkType
    BY Numbers DEF Idle, WkType
  <2>2. wk' \in [Worker -> WkType]
    BY <1>a, <2>1 DEF Typed
  <2> QED
    BY <1>0, <1>2, <2>2 DEF Typed
<1>4. Doing' = Doing /\ Cut' = Cut
  BY <1>0 DEF Doing, Cut
<1>5. StepInv'
  BY <1>0, <1>4 DEF StepInv, Free
<1>6. BoardInv'
  BY <1>0, <1>4, BoardKept DEF SamePhase
<1>7. RoutedRight'
  BY <1>0, <1>2, FewerRight DEF RefInv
<1>8. \A j : Route(j)' = Route(j)
  BY <1>0, RouteIn
<1>9. Doing \in Masking => dv.src \in Cluster /\ Cut \in Keys /\ Cut \in Nat
  BY MaskFacts
<1>10. ASSUME Doing \in {"take", "put"}, ~dv.second, dv.hand # Cut PROVE refs'[dv.src][Cut] > 0
  <2>1. refs[dv.src][Cut] > 0 /\ Doing \in Masking /\ Doing \notin Settled
    BY <1>10 DEF RefInv, Masking, Settled
  <2>2. dv.src # c \/ Cut # k
    BY <1>1, <1>9, <2>1
  <2> QED
    BY <1>2, <1>9, <2>1, <2>2
<1>11. RefInv'
  <2>1. (dv.at = "put" => Route(dv.hand) = Cut)'
    BY <1>0, <1>4, <1>8 DEF RefInv
  <2>2. \A j \in Keys : (plower[Route(j)])' = plower[Route(j)]
    BY <1>0, <1>8
  <2>3. Doing \in Masking /\ (dv.second \/ dv.hand = Cut) => \A j \in Keys : j < Cut => refs'[dv.src][j] = 0
    BY <1>2, <1>9 DEF RefInv
  <2>4. Doing \in {"unboard", "publish"} => \A j \in Keys : j <= Cut => refs'[dv.src][j] = 0
    BY <1>2, <1>9 DEF RefInv, Masking
  <2>5. Doing \in Settled =>
          \A j \in Keys, d \in Cluster : refs'[d][j] > 0 /\ plower[Route(j)] = Null => d = dv.src
    BY <1>2 DEF RefInv
  <2> QED
    BY <1>0, <1>4, <1>7, <1>10, <2>1, <2>2, <2>3, <2>4, <2>5 DEF RefInv
<1> QED
  BY <1>1, <1>3, <1>5, <1>6, <1>11 DEF c, k
-----------------------------------------------------------------------------
\* The steps of the threads that are not the dividing thread's own, and not an
\* operation on a cluster.
Bystanding ==
  \/ \E t \in Thread : Scheduling(t)
  \/ \E t \in Worker : WorkerStart(t) \/ Ask(t) \/ FindBoard(t) \/ ReadLower(t) \/ WorkerLeave(t)
  \/ Over
  \/ UNCHANGED vars

\* They keep the types and leave the tree and the division alone.
LEMMA BystandingStep ==
  ASSUME Typed, Bystanding
  PROVE  Typed' /\ UNCHANGED <<tree, dv>>
<1>1. ASSUME NEW t \in Thread, Scheduling(t) PROVE Typed' /\ UNCHANGED <<tree, dv>>
  BY <1>1 DEF Scheduling, Typed, tree
<1>2. ASSUME NEW t \in Worker, WorkerStart(t) PROVE Typed' /\ UNCHANGED <<tree, dv>>
  BY <1>2 DEF WorkerStart, Typed, tree
<1>3. ASSUME NEW t \in Worker, Ask(t) PROVE Typed' /\ UNCHANGED <<tree, dv>>
  <2>0. UNCHANGED <<sptvars, tree, dv, cnt, dropped>> /\ asked' = [asked EXCEPT ![t] = @ + 1]
    BY <1>3 DEF Ask
  <2>1. PICK call \in Calls : wk' = [wk EXCEPT ![t] = [Idle EXCEPT !.at = "route", !.op = call[1], !.key = call[2]]]
    BY <1>3 DEF Ask, WorkerIs
  <2>2. call[1] \in {"INSERT", "DELETE"} /\ call[2] \in Keys
    BY DivisionAssumption
  <2>3. [Idle EXCEPT !.at = "route", !.op = call[1], !.key = call[2]] \in WkType
    BY <2>2, Numbers DEF Idle, WkType
  <2>4. asked[t] + 1 \in 0 .. Budget
    <3>1. asked[t] \in 0 .. Budget /\ asked[t] < Budget /\ Budget \in Nat
      BY <1>3, DivisionAssumption DEF Ask, Typed
    <3> QED
      BY <3>1
  <2>5. wk' \in [Worker -> WkType]
    BY <2>1, <2>3 DEF Typed
  <2>6. asked' \in [Worker -> 0 .. Budget]
    BY <2>0, <2>4 DEF Typed
  <2> QED
    BY <2>0, <2>5, <2>6 DEF Typed, tree
<1>4. ASSUME NEW t \in Worker, FindBoard(t) PROVE Typed' /\ UNCHANGED <<tree, dv>>
  <2>1. wk[t].key \in Keys /\ Route(wk[t].key) \in Boards
    BY RouteIn, RouteOf DEF Typed, WkType
  <2>2. /\ UNCHANGED <<sptvars, tree, dv, asked, cnt, dropped>> /\ wk[t] \in WkType
        /\ wk' = [wk EXCEPT ![t] = [wk[t] EXCEPT !.at = "read", !.board = Route(wk[t].key)]]
    BY <1>4 DEF FindBoard, WorkerIs, Typed
  <2>3. [wk[t] EXCEPT !.at = "read", !.board = Route(wk[t].key)] \in WkType
    BY <2>1, <2>2 DEF WkType
  <2>4. wk' \in [Worker -> WkType]
    BY <2>2, <2>3 DEF Typed
  <2> QED
    BY <2>2, <2>4 DEF Typed, tree
<1>5. ASSUME NEW t \in Worker, ReadLower(t) PROVE Typed' /\ UNCHANGED <<tree, dv>>
  <2>1. plower[wk[t].board] \in Cluster \union {Null} /\ Top \in Boards
    BY Numbers DEF Typed, WkType
  <2>2. PICK a \in {"masked", "act"} :
          wk' = [wk EXCEPT ![t] = [wk[t] EXCEPT !.at = a, !.board = Top, !.lower = plower[wk[t].board]]]
    BY <1>5 DEF ReadLower, WorkerIs
  <2>3. UNCHANGED <<sptvars, tree, dv, asked, cnt, dropped>> /\ wk[t] \in WkType
    BY <1>5 DEF ReadLower, Typed
  <2>4. [wk[t] EXCEPT !.at = a, !.board = Top, !.lower = plower[wk[t].board]] \in WkType
    BY <2>1, <2>3 DEF WkType
  <2>5. wk' \in [Worker -> WkType]
    BY <2>2, <2>4 DEF Typed
  <2> QED
    BY <2>3, <2>5 DEF Typed, tree
<1>6. ASSUME NEW t \in Worker, WorkerLeave(t) PROVE Typed' /\ UNCHANGED <<tree, dv>>
  <2>1. wk[t].at \in {"idle", "masked"} /\ UNCHANGED <<tree, dv, asked, cnt, dropped>>
        /\ wk' = [wk EXCEPT ![t] = [wk[t] EXCEPT !.at = IF @ = "masked" THEN "route" ELSE @]]
    BY <1>6 DEF WorkerLeave, WorkerIs
  <2>2. wk[t] \in WkType
    BY DEF Typed
  <2>3. [wk[t] EXCEPT !.at = IF @ = "masked" THEN "route" ELSE @] \in WkType
    BY <2>2 DEF WkType
  <2>4. wk' \in [Worker -> WkType]
    BY <2>1, <2>3 DEF Typed
  <2> QED
    BY <2>1, <2>4 DEF Typed, tree
<1>7. ASSUME UNCHANGED vars PROVE Typed' /\ UNCHANGED <<tree, dv>>
  BY <1>7 DEF vars, Typed, tree
<1> QED
  BY <1>1, <1>2, <1>3, <1>4, <1>5, <1>6, <1>7 DEF Bystanding, Over

\* Every step is one of these kinds.
LEMMA StepKinds ==
  ASSUME [Next]_vars
  PROVE  \/ Bystanding
         \/ Divide \/ Scan
         \/ \E t \in Worker : Insert(t) \/ Delete(t)
BY DEF Next, Work, Bystanding

\* Every step keeps the invariant of the boards and of the references.
LEMMA RoutesStep ==
  ASSUME Typed, StepInv, BoardInv, RefInv, WorkInv, [Next]_vars
  PROVE  Typed' /\ StepInv' /\ BoardInv' /\ RefInv'
<1>1. CASE Bystanding
  BY <1>1, BystandingStep, FrameInv
<1>2. CASE Divide \/ Scan
  BY <1>2, DividingStep
<1>3. ASSUME NEW t \in Worker, Insert(t) \/ Delete(t)
      PROVE  Typed' /\ StepInv' /\ BoardInv' /\ RefInv'
  <2>1. WorkRight(t)
    BY DEF WorkInv
  <2> QED
    BY <1>3, <2>1, InsertStep, DeleteStep
<1> QED
  BY <1>1, <1>2, <1>3, StepKinds
-----------------------------------------------------------------------------
\* The bits of online_map are those of the open sessions, and a wait that
\* returns has outlasted the sessions it found open: SptThread's part.
Online == \A t \in Thread : t \in online <=> pc[t] = "on"
Outlasted == \A w \in Thread : w \in waiters /\ w \notin waiters' => held[w] = {}

\* Sessions of the dividing thread, in which no worker is late any more.
LEMMA NobodyLate ==
  ASSUME NEW t, dv.at \notin {"masked", "wait"}, dv.at # "board" \/ InSession(Divider)
  PROVE  ~Late(t)
BY DEF Late, InSession

\* A step that leaves the boards and the worker alone.
LEMMA WorkKept ==
  ASSUME NEW t, WorkRight(t), wk'[t] = wk[t], board' = board, plower' = plower,
         wk[t].at \in {"read", "act"} =>
           pc'[t] = "on" /\ (Late(t) => Late(t)' /\ dv'.src = dv.src)
  PROVE  WorkRight(t)'
<1>1. Route(wk[t].key)' = Route(wk[t].key)
  BY RouteIn
<1> QED
  BY <1>1 DEF WorkRight

\* A worker at work is in its session until it leaves it.
LEMMA StaysOn ==
  ASSUME Spt!TypeOK, WorkInv, [Next]_vars, NEW t \in Worker, wk[t].at \in {"read", "act"}
  PROVE  pc'[t] = "on"
<1>0. pc[t] = "on" /\ pc \in [Thread -> Spt!Control] /\ t \in Thread /\ t # Divider
      /\ waiters \subseteq {Divider}
  BY DEF WorkInv, WorkRight, Spt!TypeOK, Worker
<1>1. ASSUME NEW u \in Thread, Scheduling(u) PROVE pc'[t] = "on"
  <2>1. CASE Spt!Exit(u)
    BY <1>0, <2>1 DEF Spt!Exit, Spt!ExitClosing, Spt!ExitMask, Spt!ExitTick, Spt!ExitReset, Spt!Goto
  <2>2. CASE Spt!Wait(u)
    BY <1>0, <2>2 DEF Spt!Wait, Spt!WaitAgain, Spt!WaitReturn, Spt!Goto
  <2>3. CASE pc[u] = "begin" /\ Spt!Start(u)
    BY <1>0, <2>3 DEF Spt!Start, Spt!Goto
  <2>4. CASE u \in waiters /\ Spt!ExitClear(u)
    BY <1>0, <2>4 DEF Spt!ExitClear, Spt!Goto
  <2> QED
    BY <1>1, <2>1, <2>2, <2>3, <2>4 DEF Scheduling
<1>2. CASE Divide \/ Scan
  <2>1. CASE Start
    BY <1>0, <2>1 DEF Start, Spt!Start, Spt!Goto
  <2>2. CASE Leave
    BY <1>0, <2>2 DEF Leave, Spt!ExitClear, Spt!Goto
  <2>3. CASE Wait
    BY <1>0, <2>3 DEF Wait, Spt!WaitEnter, Spt!Goto
  <2>4. CASE Sort \/ Mask \/ Board \/ Take \/ Put \/ Emptied \/ Scan
    BY <1>0, <2>4 DEF Sort, Mask, Board, Take, Put, Emptied, Scan, sptvars
  <2>5. CASE Unboard \/ Spin \/ Pause \/ Publish \/ Retract
    BY <1>0, <2>5 DEF Unboard, Spin, Pause, Publish, Retract, vars, sptvars
  <2> QED
    BY <1>2, <2>1, <2>2, <2>3, <2>4, <2>5 DEF Divide
<1>3. ASSUME NEW u \in Worker, WorkerStart(u) \/ WorkerLeave(u) PROVE pc'[t] = "on"
  BY <1>0, <1>3 DEF WorkerStart, WorkerLeave, Spt!Start, Spt!ExitClear, Spt!Goto, Worker
<1>4. ASSUME NEW u \in Worker, Ask(u) \/ FindBoard(u) \/ ReadLower(u) \/ Insert(u) \/ Delete(u)
      PROVE  pc'[t] = "on"
  BY <1>0, <1>4 DEF Ask, FindBoard, ReadLower, Insert, Delete, sptvars
<1>5. CASE Over \/ UNCHANGED vars
  BY <1>0, <1>5 DEF Over, vars, sptvars
<1> QED
  BY <1>1, <1>2, <1>3, <1>4, <1>5 DEF Next, Work

\* Nobody but the dividing thread waits.
LEMMA WaitersStep ==
  ASSUME WorkInv, [Next]_vars
  PROVE  waiters' \subseteq {Divider}
<1>0. waiters \subseteq {Divider}
  BY DEF WorkInv
<1>1. ASSUME NEW u \in Thread, Scheduling(u) PROVE waiters' \subseteq {Divider}
  BY <1>0, <1>1 DEF Scheduling, Spt!Exit, Spt!ExitClosing, Spt!ExitMask, Spt!ExitTick, Spt!ExitReset,
     Spt!Wait, Spt!WaitAgain, Spt!WaitReturn, Spt!Start, Spt!ExitClear
<1>2. CASE Start \/ Leave \/ Wait
  BY <1>0, <1>2 DEF Start, Leave, Wait, Spt!Start, Spt!ExitClear, Spt!WaitEnter
<1>3. CASE Sort \/ Mask \/ Board \/ Take \/ Put \/ Emptied \/ Scan
  BY <1>0, <1>3 DEF Sort, Mask, Board, Take, Put, Emptied, Scan, sptvars
<1>4. CASE Unboard \/ Spin \/ Pause \/ Publish \/ Retract
  BY <1>0, <1>4 DEF Unboard, Spin, Pause, Publish, Retract, vars, sptvars
<1>5. ASSUME NEW u \in Worker, WorkerStart(u) \/ WorkerLeave(u) PROVE waiters' \subseteq {Divider}
  BY <1>0, <1>5 DEF WorkerStart, WorkerLeave, Spt!Start, Spt!ExitClear
<1>6. ASSUME NEW u \in Worker, Ask(u) \/ FindBoard(u) \/ ReadLower(u) \/ Insert(u) \/ Delete(u)
      PROVE  waiters' \subseteq {Divider}
  BY <1>0, <1>6 DEF Ask, FindBoard, ReadLower, Insert, Delete, sptvars
<1>7. CASE Over \/ UNCHANGED vars
  BY <1>0, <1>7 DEF Over, vars, sptvars
<1> QED
  BY <1>1, <1>2, <1>3, <1>4, <1>5, <1>6, <1>7 DEF Next, Divide, Work

\* The mask: a worker on its way into the masked range is late, unless it read
\* the very board that is masked.
LEMMA MaskWork ==
  ASSUME Typed, StepInv, BoardInv, Mask, NEW t \in Worker, WorkRight(t),
         wk[t].at \in {"read", "act"} => pc'[t] = "on"
  PROVE  WorkRight(t)'
<1> DEFINE k == wk[t].key
           b == wk[t].board
<1>0. /\ wk' = wk /\ k \in Keys /\ k \in Nat /\ b \in Boards /\ dv.at = "mask" /\ dv \in DvType
      /\ Typed
  BY Numbers DEF Mask, At, Typed, WkType
<1>1. /\ dv' = [dv EXCEPT !.at = "masked"] /\ board' = board \union {Cut}
      /\ plower' = [plower EXCEPT ![Cut] = Null] /\ Cut \in Keys /\ Cut \in Boards
      /\ \A x \in board : plower[x] \in Cluster
      /\ \/ Routed(board', k) = Cut /\ k <= Cut /\ plower[Routed(board, k)] = dv.src
         \/ /\ Routed(board', k) = Routed(board, k) /\ Routed(board, k) # Cut
            /\ Routed(board, k) \in board
  BY <1>0, MaskRoutes
<1>2. /\ \A x \in Boards : plower'[x] = IF x = Cut THEN Null ELSE plower[x]
      /\ board \in SUBSET Boards /\ Top \in board
      /\ Routed(board, k) \in Boards /\ Routed(board', k) \in Boards
  <2>1. board \in SUBSET Boards /\ board' \in SUBSET Boards /\ Top \in board /\ Top \in board'
    BY <1>0, <1>1 DEF Typed
  <2> HIDE DEF k
  <2>2. Routed(board, k) \in Boards /\ Routed(board', k) \in Boards
    BY <1>0, <2>1, RouteOf
  <2> QED
    BY <1>0, <1>1, <2>1, <2>2 DEF Typed
<1>3. ~Late(t)
  BY <1>0 DEF Late
<1>4. dv'.at = "masked" /\ dv'.src = dv.src
  BY <1>0, <1>1 DEF DvType
<1>5. /\ Route(k) = Routed(board, k) /\ (Route(wk[t].key))' = Routed(board', k)
  BY <1>0, RouteIn
<1>6. Late(t)' <=> plower'[Routed(board', k)] = Null
  BY <1>0, <1>4, <1>5 DEF Late
<1>7. wk[t].at = "read" => /\ k <= b /\ plower[b] = plower[Routed(board, k)] /\ b <= Routed(board, k)
  BY <1>3, <1>5 DEF WorkRight
<1>8. wk[t].at = "act" => wk[t].lower \in Cluster /\ wk[t].lower = plower[Routed(board, k)]
  BY <1>3, <1>5 DEF WorkRight
<1> HIDE DEF k, b
<1>9. CASE Routed(board', k) = Cut /\ k <= Cut /\ plower[Routed(board, k)] = dv.src
  <2>1. plower'[Routed(board', k)] = Null /\ Late(t)'
    BY <1>1, <1>2, <1>6, <1>9
  <2>2. ASSUME wk[t].at = "read"
        PROVE  \/ plower'[b] = Null /\ b = Cut
               \/ plower'[b] = dv.src /\ b # Cut
    BY <1>0, <1>1, <1>2, <1>7, <1>9, <2>2
  <2>3. Cut <= Cut
    BY <1>1, Numbers
  <2> QED
    BY <1>0, <1>4, <1>5, <1>7, <1>8, <1>9, <2>1, <2>2, <2>3 DEF WorkRight, k, b
<1>10. CASE Routed(board', k) = Routed(board, k) /\ Routed(board, k) # Cut /\ Routed(board, k) \in board
  <2>1. plower'[Routed(board', k)] = plower[Routed(board, k)] /\ plower[Routed(board, k)] \in Cluster
    BY <1>1, <1>2, <1>10
  <2>2. ASSUME wk[t].at = "read" PROVE b # Cut
    <3> SUFFICES ASSUME b = Cut PROVE FALSE
      OBVIOUS
    <3>1. Cut <= Routed(board, k) /\ k <= Cut
      BY <1>7, <2>2
    <3>2. Routed(board', k) <= Cut
      <4>1. board' \in SUBSET Boards /\ Top \in board' /\ Cut \in board'
        BY <1>1, <1>2
      <4> QED
        BY <1>0, <3>1, <4>1, RouteOf
    <3> QED
      BY <1>1, <1>2, <1>10, <3>1, <3>2, Numbers
  <2>3. wk[t].at = "read" => plower'[b] = plower[b]
    BY <1>0, <1>2, <2>2
  <2>4. plower[Routed(board, k)] # Null
    BY <2>1, Numbers
  <2> QED
    BY <1>0, <1>4, <1>5, <1>7, <1>8, <1>10, <2>1, <2>3, <2>4 DEF WorkRight, k, b
<1> QED
  BY <1>1, <1>9, <1>10

\* The new cluster takes the place of the mask for those who read the board.
LEMMA PublishWork ==
  ASSUME Typed, StepInv, BoardInv, RefInv, Publish, NEW t \in Worker, WorkRight(t),
         wk[t].at \in {"read", "act"} => pc'[t] = "on"
  PROVE  WorkRight(t)'
<1> DEFINE k == wk[t].key
           b == wk[t].board
           r == Routed(board, k)
<1>0. wk' = wk /\ k \in Keys /\ b \in Boards /\ dv.at = "publish"
  BY DEF Publish, At, Typed, WkType
<1>1. /\ board' = board /\ dv.dst \in Cluster /\ plower[Cut] = Null /\ Cut \in board
      /\ \A x \in Boards : plower'[x] = IF x = Cut THEN dv.dst ELSE plower[x]
      /\ Doing = "publish" /\ board \in SUBSET Boards /\ Top \in board
  BY PublishStepInv DEF Typed
<1>2. /\ ~Late(t) /\ Route(k) = r /\ (Route(wk[t].key))' = r
  BY <1>0, <1>1, RouteIn DEF Late
<1>3. r \in board /\ (plower[r] = Null => r = Cut)
  <2>1. r \in board
    BY <1>0, <1>1, RouteOf
  <2> QED
    BY <1>1, <2>1 DEF BoardInv
<1>4. wk[t].at = "read" => /\ k <= b /\ plower[b] = plower[r] /\ b <= r /\ (plower[b] = Null => b = r)
  BY <1>2 DEF WorkRight
<1>5. wk[t].at = "act" => wk[t].lower \in Cluster /\ wk[t].lower = plower[r]
  BY <1>2 DEF WorkRight
<1> HIDE DEF r, k, b
<1>6. wk[t].at = "read" => plower'[b] = plower'[r] /\ plower'[b] # Null
  <2>1. ASSUME wk[t].at = "read", plower[r] = Null PROVE b = r /\ r = Cut
    BY <1>3, <1>4, <2>1
  <2>2. ASSUME wk[t].at = "read", plower[r] # Null PROVE b # Cut /\ r # Cut
    BY <1>1, <1>4, <2>2
  <2> QED
    BY <1>0, <1>1, <1>3, <1>4, <2>1, <2>2, Numbers
<1>7. wk[t].at = "act" => wk[t].lower = plower'[r]
  BY <1>1, <1>3, <1>5, Numbers
<1> QED
  BY <1>0, <1>2, <1>4, <1>5, <1>6, <1>7 DEF WorkRight, k, b

\* The board that goes and the board its keys find next name the same cluster.
LEMMA RetractWork ==
  ASSUME Typed, StepInv, BoardInv, Retract, NEW t \in Worker, WorkRight(t),
         wk[t].at \in {"read", "act"} => pc'[t] = "on"
  PROVE  WorkRight(t)'
<1> DEFINE k == wk[t].key
           b == wk[t].board
           r == Routed(board, k)
           q == Routed(board', k)
<1>0. wk' = wk /\ k \in Keys /\ b \in Boards /\ b \in Nat /\ dv.at = "retract"
  BY Numbers DEF Retract, At, Typed, WkType
<1>1. /\ Doing = "retract" /\ plower' = plower /\ plower[Before] = dv.dst /\ plower[Cut] = dv.dst
      /\ \/ r = Before /\ q = Cut
         \/ q = r /\ r # Before
  BY <1>0, RetractRoutes
<1>2. ~Late(t) /\ Route(k) = r /\ (Route(wk[t].key))' = q
  BY <1>0, RouteIn DEF Late
<1>3. /\ Before \in Keys /\ Before < Cut /\ Cut \in Nat /\ Before \in Nat
      /\ plower[r] # Null
  <2>1. Doing \in Dividing /\ dv.loop > 1
    BY <1>1 DEF Dividing, StepInv
  <2>2. Before \in Keys /\ Before < Cut /\ Cut \in Nat
    BY <2>1, CutFacts
  <2>3. r \in board
    BY <1>0, RouteOf DEF Typed
  <2>4. plower[r] # Null
    BY <1>1, <2>3 DEF BoardInv, Masking
  <2> QED
    BY <2>2, <2>4, Numbers
<1>4. wk[t].at = "read" => /\ k <= b /\ plower[b] = plower[r] /\ b <= r
  BY <1>2 DEF WorkRight
<1>5. wk[t].at = "act" => wk[t].lower \in Cluster /\ wk[t].lower = plower[r]
  BY <1>2 DEF WorkRight
<1> HIDE DEF r, k, b, q
<1>6. plower[q] = plower[r]
  BY <1>1
<1>7. wk[t].at = "read" => b <= q
  <2>1. ASSUME wk[t].at = "read", r = Before PROVE b <= Cut
    BY <1>0, <1>3, <1>4, <2>1
  <2> QED
    BY <1>1, <1>4, <2>1
<1> QED
  BY <1>0, <1>1, <1>2, <1>3, <1>4, <1>5, <1>6, <1>7 DEF WorkRight, k, b

\* A worker's own steps.
LEMMA OwnWork ==
  ASSUME Typed, NEW t \in Worker, WorkRight(t), InSession(t), UNCHANGED <<sptvars, tree, dv>>,
         FindBoard(t) \/ ReadLower(t)
  PROVE  WorkRight(t)'
<1> DEFINE k == wk[t].key
           b == wk[t].board
<1>0. /\ board' = board /\ plower' = plower /\ pc'[t] = "on" /\ k \in Keys
      /\ \A j : Route(j)' = Route(j)
      /\ wk[t] \in WkType /\ wk \in [Worker -> WkType]
      /\ Late(t)' <=> (plower[Route(wk'[t].key)] = Null
                        /\ \/ dv.at \in {"masked", "wait"}
                           \/ dv.at = "board" /\ Divider \in waiters /\ t \in held[Divider])
  BY RouteIn DEF InSession, Typed, WkType, sptvars, tree, Late
<1>1. CASE FindBoard(t)
  <2>1. wk'[t] = [wk[t] EXCEPT !.at = "read", !.board = Route(k)]
    BY <1>0, <1>1 DEF FindBoard, WorkerIs
  <2>2. wk'[t].at = "read" /\ wk'[t].board = Route(k) /\ wk'[t].key = k
    BY <1>0, <2>1 DEF WkType
  <2>3. k <= Route(k) /\ Route(k) \in Nat
    <3>1. board \in SUBSET Boards /\ Top \in board
      BY DEF Typed
    <3> HIDE DEF k
    <3>2. k <= Routed(board, k) /\ Routed(board, k) \in Boards
      BY <1>0, <3>1, RouteOf
    <3> QED
      BY <3>2, RouteIn, Numbers
  <2>4. Route(k) <= Route(k)
    BY <2>3
  <2>5. (Route(wk[t].key))' = Route(k)
    BY <1>0, <2>2, RouteIn
  <2> HIDE DEF k
  <2> QED
    BY <1>0, <2>2, <2>3, <2>4, <2>5 DEF WorkRight
<1>2. CASE ReadLower(t)
  <2> DEFINE c == plower[b]
  <2>1. wk[t].at = "read"
        /\ wk'[t] = [wk[t] EXCEPT !.at = IF c = Null THEN "masked" ELSE "act", !.board = Top, !.lower = c]
    BY <1>0, <1>2 DEF ReadLower, WorkerIs
  <2>2. /\ wk'[t].at = IF c = Null THEN "masked" ELSE "act"
        /\ wk'[t].lower = c /\ wk'[t].key = k
    BY <1>0, <2>1 DEF WkType
  <2>3. c \in Cluster \union {Null}
    BY <1>0 DEF Typed, WkType
  <2>4. c = plower[Route(k)] \/ (c = dv.src /\ Late(t))
    BY <2>1 DEF WorkRight
  <2>5. Late(t)' <=> Late(t)
    BY <1>0, <2>2 DEF Late
  <2>6. (Route(wk[t].key))' = Route(k)
    BY <1>0, <2>2, RouteIn
  <2>7. wk'[t].at # "read" /\ (wk'[t].at = "act" => c \in Cluster)
    BY <2>2, <2>3
  <2>8. dv' = dv
    OBVIOUS
  <2> HIDE DEF k, c
  <2> QED
    BY <1>0, <2>2, <2>4, <2>5, <2>6, <2>7, <2>8 DEF WorkRight
<1> QED
  BY <1>1, <1>2

\* Steps of the threads' sessions: a worker for which the division waits is let
\* go by its own exit only.
LEMMA SchedulingWork ==
  ASSUME Spt!TypeOK, WorkInv, Outlasted, NEW u \in Thread, Scheduling(u), NEW t \in Worker,
         wk[t].at \in {"read", "act"} => pc'[t] = "on"
  PROVE  WorkRight(t)'
<1>0. /\ board' = board /\ plower' = plower /\ dv' = dv /\ wk' = wk /\ WorkRight(t)
      /\ waiters \subseteq {Divider} /\ t # Divider /\ Divider \in Thread
      /\ held \in [Thread -> SUBSET Thread]
  BY DivisionAssumption DEF Scheduling, tree, WorkInv, Worker, Spt!TypeOK
<1>1. ASSUME Divider \in waiters, t \in held[Divider]
      PROVE  Divider \in waiters' /\ t \in held'[Divider]
  <2>1. Divider \in waiters'
    BY <1>0, <1>1 DEF Outlasted
  <2>2. CASE Spt!Exit(u)
    BY <1>1, <2>1, <2>2 DEF Spt!Exit, Spt!ExitClosing, Spt!ExitMask, Spt!ExitTick, Spt!ExitReset
  <2>3. CASE Spt!Wait(u) \/ Spt!Start(u)
    BY <1>1, <2>1, <2>3 DEF Spt!Wait, Spt!WaitAgain, Spt!WaitReturn, Spt!Start
  <2>4. CASE u \in waiters /\ Spt!ExitClear(u)
    <3>1. held' = [w \in Thread |-> held[w] \ {u}] /\ u = Divider
      BY <1>0, <2>4 DEF Spt!ExitClear
    <3> QED
      BY <1>0, <1>1, <2>1, <3>1
  <2> QED
    BY <2>2, <2>3, <2>4 DEF Scheduling
<1>2. Late(t) => Late(t)'
  <2>1. Route(wk[t].key)' = Route(wk[t].key)
    BY <1>0, RouteIn
  <2> QED
    BY <1>0, <1>1, <2>1 DEF Late
<1> QED
  BY <1>0, <1>2, WorkKept

\* The dividing thread's steps: the wait begins with every worker that is late
\* among those it waits for, and ends with none.
LEMMA DividingWork ==
  ASSUME Typed, Spt!TypeOK, StepInv, BoardInv, RefInv, WorkInv, Online, Divide \/ Scan,
         NEW t \in Worker,
         wk[t].at \in {"read", "act"} => pc'[t] = "on"
  PROVE  WorkRight(t)'
<1>0. WorkRight(t) /\ t \in Thread /\ t # Divider /\ Divider \in Thread /\ dv \in DvType
  BY DivisionAssumption DEF WorkInv, Worker, Typed
<1>k. \A k : board' = board => Route(k)' = Route(k)
  BY RouteIn
<1>1. CASE Mask \/ Publish \/ Retract
  BY <1>0, <1>1, MaskWork, PublishWork, RetractWork
<1>2. CASE \/ Sort \/ Board \/ Take \/ Put \/ Emptied \/ Unboard \/ Pause
  <2>1. board' = board /\ plower' = plower /\ wk' = wk
    BY <1>2 DEF Sort, Board, Take, Put, Emptied, Unboard, Pause, tree
  <2>2. dv.at \notin {"masked", "wait"} /\ InSession(Divider)
    BY <1>2 DEF Sort, Board, Take, Put, Emptied, Unboard, Pause, At
  <2> QED
    BY <1>0, <2>1, <2>2, NobodyLate, WorkKept
<1>3. CASE Scan
  <2>1. board' = board /\ plower' = plower /\ wk' = wk /\ dv.at = "scan"
    BY <1>3 DEF Scan, tree
  <2> QED
    BY <1>0, <2>1, NobodyLate, WorkKept
<1>4. CASE Start \/ Spin
  <2>1. /\ board' = board /\ plower' = plower /\ wk' = wk /\ dv' = dv
        /\ waiters' = waiters /\ held' = held
    BY <1>4 DEF Start, Spin, vars, tree, sptvars, Spt!Start
  <2>2. Late(t) => Late(t)'
    BY <1>k, <2>1 DEF Late
  <2> QED
    BY <1>0, <2>1, <2>2, WorkKept
<1>5. CASE Leave
  <2>1. board' = board /\ plower' = plower /\ wk' = wk /\ dv' = Onward /\ dv.at \in LeaveStep
    BY <1>5 DEF Leave, DividerIs, tree
  <2>2. CASE dv.at = "masked"
    <3>1. dv'.at = "wait" /\ dv'.src = dv.src
      BY <1>0, <2>1, <2>2 DEF Onward, DvType
    <3>2. Late(t) => Late(t)'
      BY <1>k, <2>1, <3>1 DEF Late
    <3> QED
      BY <1>0, <2>1, <3>1, <3>2, WorkKept
  <2>3. CASE dv.at # "masked"
    BY <1>0, <2>1, <2>3, NobodyLate, WorkKept DEF LeaveStep
  <2> QED
    BY <2>2, <2>3
<1>6. CASE Wait
  <2>1. board' = board /\ plower' = plower /\ wk' = wk /\ dv' = AfterWait /\ dv.at \in {"wait", "pausing"}
    BY <1>6 DEF Wait, DividerIs, tree
  <2>2. CASE dv.at = "wait"
    <3>1. dv'.at = "board" /\ dv'.src = dv.src
      BY <1>0, <2>1, <2>2 DEF AfterWait, DvType
    <3>2. Divider \in waiters' /\ held'[Divider] = online /\ online' = online
      BY <1>0, <1>6 DEF Wait, Spt!WaitEnter, Spt!TypeOK
    <3>3. wk[t].at \in {"read", "act"} => t \in online
      BY <1>0 DEF Online, WorkRight
    <3>4. wk[t].at \in {"read", "act"} => (Late(t) => Late(t)')
      BY <1>k, <2>1, <3>1, <3>2, <3>3 DEF Late
    <3> QED
      BY <1>0, <2>1, <3>1, <3>4, WorkKept
  <2>3. CASE dv.at = "pausing"
    BY <1>0, <2>1, <2>3, NobodyLate, WorkKept
  <2> QED
    BY <2>1, <2>2, <2>3
<1> QED
  BY <1>1, <1>2, <1>3, <1>4, <1>5, <1>6 DEF Divide

\* The workers stay right: those that route anew find the board that stands,
\* those that routed before the mask are waited for.
LEMMA WorkStep ==
  ASSUME Typed, Spt!TypeOK, StepInv, BoardInv, RefInv, WorkInv, Online, Outlasted, [Next]_vars
  PROVE  WorkInv'
<1> SUFFICES ASSUME NEW t \in Worker PROVE WorkRight(t)'
  BY WaitersStep DEF WorkInv
<1>0. /\ wk[t].at \in {"read", "act"} => pc'[t] = "on"
      /\ WorkRight(t) /\ t \in Thread /\ t # Divider /\ Divider \in Thread
  BY StaysOn, DivisionAssumption DEF WorkInv, Worker
<1>k. \A k : board' = board => Route(k)' = Route(k)
  BY RouteIn
<1>1. ASSUME NEW u \in Thread, Scheduling(u) PROVE WorkRight(t)'
  BY <1>0, <1>1, SchedulingWork
<1>2. CASE Divide \/ Scan
  BY <1>0, <1>2, DividingWork
<1>3. ASSUME NEW u \in Worker, u # t, UNCHANGED <<tree, dv>>, wk'[t] = wk[t],
             waiters' = waiters, t \in held[Divider] => t \in held'[Divider]
      PROVE  WorkRight(t)'
  <2>1. board' = board /\ plower' = plower
    BY <1>3 DEF tree
  <2>2. Late(t) => Late(t)'
    BY <1>k, <1>3, <2>1 DEF Late
  <2> QED
    BY <1>0, <1>3, <2>1, <2>2, WorkKept
<1>4. ASSUME NEW u \in Worker, UNCHANGED <<sptvars, board, plower, dv>>, u # t, wk'[t] = wk[t]
      PROVE  WorkRight(t)'
  <2>1. waiters' = waiters /\ held' = held
    BY <1>4 DEF sptvars
  <2>2. Late(t) => Late(t)'
    BY <1>k, <1>4, <2>1 DEF Late
  <2> QED
    BY <1>0, <1>4, <2>2, WorkKept
<1>t. wk \in [Worker -> WkType] /\ held \in [Thread -> SUBSET Thread]
  BY DEF Typed, Spt!TypeOK
<1>5. ASSUME NEW u \in Worker, WorkerStart(u) PROVE WorkRight(t)'
  <2>1. UNCHANGED <<board, plower, dv, wk, waiters, held>>
    BY <1>5 DEF WorkerStart, tree, Spt!Start
  <2>2. Late(t) => Late(t)'
    BY <1>k, <2>1 DEF Late
  <2> QED
    BY <1>0, <2>1, <2>2, WorkKept
<1>6. ASSUME NEW u \in Worker, WorkerLeave(u) PROVE WorkRight(t)'
  <2>0. /\ UNCHANGED <<tree, dv>> /\ wk[u].at \in {"idle", "masked"}
        /\ wk' = [wk EXCEPT ![u] = [wk[u] EXCEPT !.at = IF @ = "masked" THEN "route" ELSE @]]
        /\ held' = [w \in Thread |-> held[w] \ {u}] /\ waiters' = waiters
    BY <1>6 DEF WorkerLeave, WorkerIs, Spt!ExitClear
  <2>1. CASE u = t
    <3>1. wk'[t].at \in {"idle", "route"}
      BY <1>t, <2>0, <2>1 DEF WkType
    <3> QED
      BY <3>1 DEF WorkRight
  <2>2. CASE u # t
    <3>1. wk'[t] = wk[t] /\ (t \in held[Divider] => t \in held'[Divider])
      BY <1>0, <1>t, <2>0, <2>2
    <3> QED
      BY <1>3, <2>0, <2>2, <3>1
  <2> QED
    BY <2>1, <2>2
<1>7. ASSUME NEW u \in Worker, Ask(u) PROVE WorkRight(t)'
  <2>0. /\ UNCHANGED <<sptvars, tree, dv>>
        /\ \E call \in Calls : wk' = [wk EXCEPT ![u] = [Idle EXCEPT !.at = "route", !.op = call[1], !.key = call[2]]]
    BY <1>7 DEF Ask, WorkerIs
  <2>1. CASE u = t
    <3>1. wk'[t].at = "route"
      BY <1>t, <2>0, <2>1 DEF Idle
    <3> QED
      BY <3>1 DEF WorkRight
  <2>2. CASE u # t
    <3>1. wk'[t] = wk[t] /\ UNCHANGED <<board, plower>>
      BY <1>t, <2>0, <2>2 DEF tree
    <3> QED
      BY <1>4, <2>0, <2>2, <3>1
  <2> QED
    BY <2>1, <2>2
<1>8. ASSUME NEW u \in Worker, FindBoard(u) \/ ReadLower(u) PROVE WorkRight(t)'
  <2>0. UNCHANGED <<sptvars, tree, dv>> /\ InSession(u) /\ \E w : wk' = [wk EXCEPT ![u] = w]
    BY <1>8 DEF FindBoard, ReadLower, WorkerIs
  <2>1. CASE u = t
    BY <1>0, <1>8, <2>0, <2>1, OwnWork
  <2>2. CASE u # t
    <3>1. wk'[t] = wk[t] /\ UNCHANGED <<board, plower>>
      BY <1>t, <2>0, <2>2 DEF tree
    <3> QED
      BY <1>4, <2>0, <2>2, <3>1
  <2> QED
    BY <2>1, <2>2
<1>9. ASSUME NEW u \in Worker, Insert(u) \/ Delete(u) PROVE WorkRight(t)'
  <2>0. /\ UNCHANGED <<sptvars, board, plower, dv>>
        /\ \E a \in {OK, NOT_FOUND} : wk' = [wk EXCEPT ![u] = [Idle EXCEPT !.ret = a]]
    BY <1>9 DEF Insert, Delete, Done, WorkerIs
  <2>1. CASE u = t
    <3>1. wk'[t].at = "idle"
      BY <1>t, <2>0, <2>1 DEF Idle
    <3> QED
      BY <3>1 DEF WorkRight
  <2>2. CASE u # t
    <3>1. wk'[t] = wk[t]
      BY <1>t, <2>0, <2>2
    <3> QED
      BY <1>4, <2>0, <2>2, <3>1
  <2> QED
    BY <2>1, <2>2
<1>10. CASE Over \/ UNCHANGED vars
  <2>1. UNCHANGED <<board, plower, dv, wk, waiters, held, pc>>
    BY <1>10 DEF Over, vars, tree, sptvars
  <2>2. Late(t) => Late(t)'
    BY <1>k, <2>1 DEF Late
  <2> QED
    BY <1>0, <2>1, <2>2, WorkKept
<1> QED
  BY <1>1, <1>2, <1>5, <1>6, <1>7, <1>8, <1>9, <1>10 DEF Next, Work

\* A step of the division is a step of one thread's sessions, or none.
LEMMA SessionStep == ASSUME [Next]_vars PROVE [Spt!Next]_(Spt!vars)
<1> USE DEF Spt!vars, sptvars
<1>1. CASE UNCHANGED vars
  BY <1>1 DEF vars
<1>2. ASSUME NEW t \in Thread, Scheduling(t) PROVE Spt!Next
  BY <1>2 DEF Scheduling, Spt!Exit, Spt!Wait, Spt!Next
<1>3. CASE Divide
  <2>1. CASE Start
    BY <2>1, DivisionAssumption DEF Start, Spt!Next
  <2>2. CASE Leave
    BY <2>2, DivisionAssumption DEF Leave, Spt!Next
  <2>3. CASE Wait
    BY <2>3, DivisionAssumption DEF Wait, Spt!Next
  <2>4. CASE Sort \/ Mask \/ Board \/ Take \/ Put \/ Emptied
    BY <2>4 DEF Sort, Mask, Board, Take, Put, Emptied
  <2>5. CASE Unboard \/ Spin \/ Pause \/ Publish \/ Retract
    BY <2>5 DEF Unboard, Spin, Pause, Publish, Retract, vars
  <2> QED
    BY <1>3, <2>1, <2>2, <2>3, <2>4, <2>5 DEF Divide
<1>4. CASE Scan
  BY <1>4 DEF Scan
<1>5. ASSUME NEW t \in Worker, WorkerStart(t) PROVE Spt!Next
  BY <1>5 DEF WorkerStart, Worker, Spt!Next
<1>6. ASSUME NEW t \in Worker, Ask(t) PROVE UNCHANGED sptvars
  BY <1>6 DEF Ask
<1>7. ASSUME NEW t \in Worker, Work(t) PROVE [Spt!Next]_(Spt!vars)
  <2>1. CASE WorkerLeave(t)
    BY <2>1 DEF WorkerLeave, Worker, Spt!Next
  <2>2. CASE FindBoard(t) \/ ReadLower(t) \/ Insert(t) \/ Delete(t)
    BY <2>2 DEF FindBoard, ReadLower, Insert, Delete
  <2> QED
    BY <1>7, <2>1, <2>2 DEF Work
<1>8. CASE Over
  BY <1>8 DEF Over, vars
<1> QED
  BY <1>1, <1>2, <1>3, <1>4, <1>5, <1>6, <1>7, <1>8 DEF Next

\* The sessions of the dividing thread and of the workers are those of
\* SptThread: nobody starts, leaves or waits out of turn.
THEOREM SessionsImplemented == Spec => Spt!Spec
<1>1. Init => Spt!Init
  BY DEF Init
<1> QED
  BY <1>1, SessionStep, PTL DEF Spec, Spt!Spec
-----------------------------------------------------------------------------
\* The lower clusters that spt_cluster_init makes are as many as their boards.
LEMMA FirstBoards ==
  ASSUME Init
  PROVE  /\ board = Virt \union {Top}
         /\ plower \in [Boards -> Cluster \union {Null}]
         /\ \A b \in board : plower[b] \in Cluster
         /\ \A b, c \in board : plower[b] = plower[c] => b = c
<1> DEFINE S(b) == {y \in Virt : y <= b}
<1>0. /\ board = Virt \union {Top}
      /\ plower = [b \in Boards |-> IF b = Top THEN 1
                                    ELSE IF b \in Virt THEN 1 + Rank(Virt, b) ELSE Null]
  BY DEF Init
<1>1. IsFiniteSet(Virt) /\ Virt \subseteq Keys /\ Cardinality(Virt) \in Nat
      /\ Cardinality(Virt) < Cardinality(Cluster) /\ Cluster = 1 .. Cardinality(Cluster)
      /\ Cardinality(Cluster) \in Nat
  BY DivisionAssumption, FS_Subset, FS_CardinalityType
<1>2. \A b \in Virt : b \in Nat /\ b # Top /\ b \in Boards
  BY <1>1, Numbers
<1>3. \A b : Rank(Virt, b) = Cardinality(S(b)) /\ IsFiniteSet(S(b)) /\ Rank(Virt, b) \in Nat
             /\ Rank(Virt, b) <= Cardinality(Virt)
  <2> TAKE b
  <2>1. S(b) \subseteq Virt
    OBVIOUS
  <2>2. Rank(Virt, b) = Cardinality(S(b))
    BY DEF Rank
  <2> HIDE DEF S
  <2> QED
    BY <1>1, <2>1, <2>2, FS_Subset, FS_CardinalityType
<1>4. ASSUME NEW b \in Virt, NEW c \in Virt, b < c PROVE Rank(Virt, b) < Rank(Virt, c)
  <2>1. c \notin S(b) /\ S(b) \union {c} \subseteq S(c)
    BY <1>2, <1>4
  <2> HIDE DEF S
  <2>2. Cardinality(S(b) \union {c}) = Cardinality(S(b)) + 1
    BY <1>3, <2>1, FS_AddElement
  <2>3. Cardinality(S(b) \union {c}) <= Cardinality(S(c))
    BY <1>3, <2>1, FS_Subset
  <2> QED
    BY <1>3, <2>2, <2>3
<1>5. ASSUME NEW b \in Virt PROVE 1 <= Rank(Virt, b)
  <2>1. b \in S(b) /\ {b} \subseteq S(b)
    BY <1>2
  <2> HIDE DEF S
  <2>2. Cardinality({b}) = 1
    BY FS_Singleton
  <2>3. Cardinality({b}) <= Cardinality(S(b))
    BY <1>3, <2>1, FS_Subset
  <2> QED
    BY <1>3, <2>2, <2>3
<1> HIDE DEF S
<1>6. 1 \in Cluster /\ \A b \in Virt : 1 + Rank(Virt, b) \in Cluster /\ 1 + Rank(Virt, b) # 1
  <2>1. 1 \in Cluster
    BY <1>1
  <2>2. ASSUME NEW b \in Virt PROVE 1 + Rank(Virt, b) \in Cluster /\ 1 + Rank(Virt, b) # 1
    <3>1. /\ Rank(Virt, b) \in Nat /\ 1 <= Rank(Virt, b) /\ Rank(Virt, b) <= Cardinality(Virt)
      BY <1>3, <1>5
    <3> QED
      BY <1>1, <3>1
  <2> QED
    BY <2>1, <2>2
<1>7. Top \in Boards /\ plower[Top] = 1 /\ \A b \in Virt : plower[b] = 1 + Rank(Virt, b)
  BY <1>0, <1>2, Numbers
<1>8. plower \in [Boards -> Cluster \union {Null}]
  BY <1>0, <1>6
<1>9. ASSUME NEW b \in board, NEW c \in board, plower[b] = plower[c] PROVE b = c
  <2>1. CASE b \in Virt /\ c \in Virt
    <3>0. Rank(Virt, b) \in Nat /\ Rank(Virt, c) \in Nat /\ b \in Nat /\ c \in Nat
      BY <1>2, <1>3, <2>1
    <3>1. 1 + Rank(Virt, b) = 1 + Rank(Virt, c)
      BY <1>7, <1>9, <2>1
    <3>2. Rank(Virt, b) = Rank(Virt, c)
      BY <3>0, <3>1
    <3>3. ~ (b < c) /\ ~ (c < b)
      BY <1>4, <2>1, <3>0, <3>2
    <3> QED
      BY <3>0, <3>3
  <2>2. CASE ~ (b \in Virt /\ c \in Virt)
    BY <1>0, <1>6, <1>7, <1>9, <2>2
  <2> QED
    BY <2>1, <2>2
<1> QED
  BY <1>0, <1>6, <1>7, <1>8, <1>9

\* The program starts with every reference where its board says.
LEMMA InitRoutes == Init => Typed /\ StepInv /\ BoardInv /\ RefInv /\ WorkInv
<1> SUFFICES ASSUME Init PROVE Typed /\ StepInv /\ BoardInv /\ RefInv /\ WorkInv
  OBVIOUS
<1>0. /\ board = Virt \union {Top} /\ plower \in [Boards -> Cluster \union {Null}]
      /\ \A b \in board : plower[b] \in Cluster
      /\ \A b, c \in board : plower[b] = plower[c] => b = c
  BY FirstBoards
<1>1. /\ refs = [c \in Cluster |-> [k \in Keys |-> IF plower[Route(k)] = c THEN Filled[k] ELSE 0]]
      /\ dv = Resting
      /\ wk = [t \in Worker |-> Idle]
      /\ asked = [t \in Worker |-> 0]
      /\ cnt = Filled
      /\ dropped = [k \in Keys |-> 0]
      /\ waiters = {}
  BY DEF Init, Spt!Init
<1>2. board \subseteq Boards /\ Top \in board
  BY <1>0, DivisionAssumption, Numbers
<1>3. Typed
  <2>1. refs \in [Cluster -> [Keys -> Nat]] /\ cnt \in [Keys -> Int]
    BY <1>1, DivisionAssumption
  <2>2. dv \in DvType
    <3>1. 0 \in 0 .. MoveTimes /\ 0 \in 0 .. MaxPause
      BY Numbers, DivisionAssumption
    <3> QED
      BY <1>1, <3>1 DEF Resting, DvType, Step
  <2>3. wk \in [Worker -> WkType]
    BY <1>1, Numbers DEF Idle, WkType
  <2>4. asked \in [Worker -> 0 .. Budget] /\ dropped \in [Keys -> 0 .. MaxDrop]
    BY <1>1, DivisionAssumption
  <2> QED
    BY <1>0, <1>2, <2>1, <2>2, <2>3, <2>4 DEF Typed
<1>4. dv.at = "scan" /\ dv.hand = 0 /\ dv.second = FALSE /\ Doing = "scan"
  BY <1>1 DEF Resting, Doing
<1>5. StepInv
  BY <1>4 DEF StepInv, Dividing, Ahead, Masking, Settled
<1>6. BoardInv
  <2>1. \A b \in board : plower[b] # Null
    BY <1>0, Numbers
  <2> QED
    BY <1>0, <1>4, <2>1 DEF BoardInv, Dividing, Ahead, Masking, Settled
<1>7. RefInv
  <2>1. ASSUME NEW k \in Keys, NEW c \in Cluster, refs[c][k] > 0
        PROVE  plower[Route(k)] = c /\ c # Null
    BY <1>1, <2>1, Numbers
  <2>2. RoutedRight
    BY <2>1 DEF RoutedRight
  <2> QED
    BY <1>4, <2>2 DEF RefInv, Masking, Settled
<1>8. WorkInv
  BY <1>1 DEF WorkInv, WorkRight, Idle
<1> QED
  BY <1>3, <1>5, <1>6, <1>7, <1>8
-----------------------------------------------------------------------------
\* What SptThread_proofs proves, of the sessions of a division.
SptProof == INSTANCE SptThread_proofs

\* SptThread, and SptThread as SptThread_proofs extends it, are the same.
LEMMA SptSame ==
  /\ SptProof!ThreadAssumption /\ SptProof!TickAssumption
  /\ Spt!Init => SptProof!Init
  /\ [Spt!Next]_(Spt!vars) => [SptProof!Next]_(SptProof!vars)
  /\ SptProof!TypeOK => Spt!TypeOK
  /\ SptProof!OnlineIsOn => Online
<1>1. SptProof!ThreadAssumption /\ SptProof!TickAssumption
  BY SessionAssumption DEF Spt!ThreadAssumption, Spt!TickAssumption,
     SptProof!ThreadAssumption, SptProof!TickAssumption
<1>2. Spt!Init => SptProof!Init
  BY DEF Spt!Init, SptProof!Init
<1>3. ASSUME NEW t \in Thread
      PROVE  /\ Spt!Start(t) => SptProof!Start(t)
             /\ Spt!ExitClear(t) => SptProof!ExitClear(t)
             /\ Spt!ExitClosing(t) => SptProof!ExitClosing(t)
             /\ Spt!ExitMask(t) => SptProof!ExitMask(t)
             /\ Spt!ExitTick(t) => SptProof!ExitTick(t)
             /\ Spt!ExitReset(t) => SptProof!ExitReset(t)
             /\ Spt!WaitEnter(t) => SptProof!WaitEnter(t)
             /\ Spt!WaitAgain(t) => SptProof!WaitAgain(t)
             /\ Spt!WaitReturn(t) => SptProof!WaitReturn(t)
  <2> USE DEF Spt!Goto, SptProof!Goto, Spt!Return, SptProof!Return, Spt!Elapsed, SptProof!Elapsed
  <2>1. /\ Spt!Start(t) => SptProof!Start(t)
        /\ Spt!ExitClear(t) => SptProof!ExitClear(t)
        /\ Spt!ExitClosing(t) => SptProof!ExitClosing(t)
    BY DEF Spt!Start, SptProof!Start, Spt!ExitClear, SptProof!ExitClear,
           Spt!ExitClosing, SptProof!ExitClosing
  <2>2. /\ Spt!ExitMask(t) => SptProof!ExitMask(t)
        /\ Spt!ExitTick(t) => SptProof!ExitTick(t)
        /\ Spt!ExitReset(t) => SptProof!ExitReset(t)
    BY DEF Spt!ExitMask, SptProof!ExitMask, Spt!ExitTick, SptProof!ExitTick,
           Spt!ExitReset, SptProof!ExitReset
  <2>3. /\ Spt!WaitEnter(t) => SptProof!WaitEnter(t)
        /\ Spt!WaitAgain(t) => SptProof!WaitAgain(t)
        /\ Spt!WaitReturn(t) => SptProof!WaitReturn(t)
    BY DEF Spt!WaitEnter, SptProof!WaitEnter, Spt!WaitAgain, SptProof!WaitAgain,
           Spt!WaitReturn, SptProof!WaitReturn
  <2> QED
    BY <2>1, <2>2, <2>3
<1>4. Spt!Next => SptProof!Next
  BY <1>3 DEF Spt!Next, SptProof!Next
<1>5. UNCHANGED Spt!vars => UNCHANGED SptProof!vars
  BY DEF Spt!vars, SptProof!vars
<1>6. SptProof!TypeOK => Spt!TypeOK
  BY DEF SptProof!TypeOK, Spt!TypeOK, SptProof!Tick, Spt!Tick, SptProof!Control, Spt!Control
<1>7. SptProof!OnlineIsOn => Online
  BY DEF SptProof!OnlineIsOn, Online
<1> QED
  BY <1>1, <1>2, <1>4, <1>5, <1>6, <1>7

\* What the sessions guarantee the division, while the grace period holds.
LEMMA SessionFacts ==
  Spec /\ Spt!GracePeriod => /\ [](Spt!TypeOK /\ Online)
                             /\ [][Outlasted]_(SptProof!vars)
<1>1. Spt!Init => SptProof!Init
  BY SptSame
<1>2. [Spt!Next]_(Spt!vars) => [SptProof!Next]_(SptProof!vars)
  BY SptSame
<1>3. Spt!Spec => SptProof!Spec
  BY <1>1, <1>2, PTL DEF Spt!Spec, SptProof!Spec
<1>4. SptProof!Spec => [](SptProof!TypeOK /\ SptProof!OnlineIsOn)
  <2>1. SptProof!Spec => []SptProof!TypeOK
    BY SptSame, SptProof!TypeCorrect
  <2>2. SptProof!Spec => []SptProof!OnlineIsOn
    BY SptSame, SptProof!OnlineInvariant
  <2> QED
    BY <2>1, <2>2, PTL
<1>5. SptProof!TypeOK /\ SptProof!OnlineIsOn => Spt!TypeOK /\ Online
  BY SptSame
<1>6. [\A w \in Thread : w \in waiters /\ w \notin waiters' => held[w] = {}]_(Spt!vars)
        => [Outlasted]_(SptProof!vars)
  BY DEF Outlasted, Spt!vars, SptProof!vars
<1> QED
  BY <1>3, <1>4, <1>5, <1>6, SessionsImplemented, PTL DEF Spt!GracePeriod

RouteInv == Typed /\ StepInv /\ BoardInv /\ RefInv /\ WorkInv

\* The invariant of the division, whatever the number of workers.
LEMMA RouteInvariant == Spec /\ Spt!GracePeriod => []RouteInv
<1>1. Init => RouteInv
  BY InitRoutes DEF RouteInv
<1>2. RouteInv /\ Spt!TypeOK /\ Online /\ [Next]_vars /\ [Outlasted]_(SptProof!vars) => RouteInv'
  <2> SUFFICES ASSUME RouteInv, Spt!TypeOK, Online, [Next]_vars, [Outlasted]_(SptProof!vars)
               PROVE  RouteInv'
    OBVIOUS
  <2>1. Outlasted
    BY DEF Outlasted, SptProof!vars
  <2> QED
    BY <2>1, RoutesStep, WorkStep DEF RouteInv
<1>3. Spec /\ Spt!GracePeriod => [](Spt!TypeOK /\ Online) /\ [][Outlasted]_(SptProof!vars)
  BY SessionFacts
<1> QED
  BY <1>1, <1>2, <1>3, PTL DEF Spec

\* The references to a key, in all clusters.
Total(r, k) == SumFunction([c \in Cluster |-> r[c][k]])

\* They are a number.
LEMMA TotalType ==
  ASSUME NEW r \in [Cluster -> [Keys -> Nat]]
  PROVE  \A k \in Keys : Total(r, k) \in Nat
<1> TAKE k \in Keys
<1>1. [c \in Cluster |-> r[c][k]] \in [Cluster -> Nat]
  OBVIOUS
<1>2. IsFiniteSet(Cluster)
  BY DivisionAssumption
<1> QED
  BY <1>1, <1>2, SumType DEF Total

\* A change in one cluster is a change of the sum.
LEMMA TotalChange ==
  ASSUME NEW r \in [Cluster -> [Keys -> Nat]], NEW s \in [Cluster -> [Keys -> Nat]],
         NEW c \in Cluster, NEW h \in Keys
  PROVE  (\A d \in Cluster, j \in Keys : d # c \/ j # h => s[d][j] = r[d][j]) =>
           /\ \A j \in Keys : j # h => Total(s, j) = Total(r, j)
           /\ Total(s, h) = Total(r, h) + s[c][h] - r[c][h]
<1> DEFINE f(x) == [d \in Cluster |-> x[d][h]]
           Same == \A d \in Cluster, j \in Keys : d # c \/ j # h => s[d][j] = r[d][j]
<1>1. IsFiniteSet(Cluster)
  BY DivisionAssumption
<1>2. ASSUME Same, NEW j \in Keys, j # h PROVE Total(s, j) = Total(r, j)
  <2>1. [d \in Cluster |-> s[d][j]] = [d \in Cluster |-> r[d][j]]
    BY <1>2
  <2> QED
    BY <2>1 DEF Total
<1>3. /\ f(r) \in [Cluster -> Int] /\ f(s) \in [Cluster -> Int]
      /\ f(r)[c] = r[c][h] /\ f(s)[c] = s[c][h]
      /\ r[c][h] \in Nat /\ s[c][h] \in Nat
      /\ Total(r, h) = SumFunction(f(r)) /\ Total(s, h) = SumFunction(f(s))
  BY DEF Total
<1>4. Same => \A x \in Cluster \ {c} : f(s)[x] = f(r)[x]
  OBVIOUS
<1> HIDE DEF f, Same
<1>5. ASSUME NEW p \in [Cluster -> Int], NEW q \in [Cluster -> Int],
             \A x \in Cluster \ {c} : q[x] = p[x]
      PROVE  SumFunction(q) = SumFunction(p) + q[c] - p[c]
  BY <1>1, <1>5, SumChange
<1>5a. Same => SumFunction(f(s)) = SumFunction(f(r)) + f(s)[c] - f(r)[c]
  BY <1>3, <1>4, <1>5
<1>6. SumFunction(f(r)) \in Int
  BY <1>1, <1>3, SumType
<1>7. Same => Total(s, h) = Total(r, h) + s[c][h] - r[c][h]
  BY <1>3, <1>5a, <1>6
<1> QED
  BY <1>2, <1>7 DEF Same

\* What else the balance of a key counts.
Rest(k) == InHand(k) + dropped[k] - cnt[k] - BoardRef(k)

\* It is a number, and a key is in hand, or the lower board's, once at most.
LEMMA RestType ==
  /\ Typed => \A k \in Keys : Rest(k) \in Int /\ cnt[k] \in Int /\ dropped[k] \in Int
  /\ Typed' => \A k \in Keys : Rest(k)' \in Int /\ cnt'[k] \in Int /\ dropped'[k] \in Int
  /\ \A k : InHand(k) \in {0, 1} /\ BoardRef(k) \in {0, 1}
  /\ \A k : InHand(k)' \in {0, 1} /\ BoardRef(k)' \in {0, 1}
<1>1. \A k : InHand(k) \in {0, 1} /\ BoardRef(k) \in {0, 1} /\ InHand(k)' \in {0, 1} /\ BoardRef(k)' \in {0, 1}
  BY DEF InHand, BoardRef
<1>2. ASSUME Typed, NEW k \in Keys PROVE Rest(k) \in Int /\ cnt[k] \in Int /\ dropped[k] \in Int
  <2>1. cnt[k] \in Int /\ dropped[k] \in Int
    BY <1>2 DEF Typed
  <2> QED
    BY <1>1, <2>1 DEF Rest
<1>3. ASSUME Typed', NEW k \in Keys PROVE Rest(k)' \in Int /\ cnt'[k] \in Int /\ dropped'[k] \in Int
  <2>1. cnt'[k] \in Int /\ dropped'[k] \in Int
    BY <1>3 DEF Typed
  <2> QED
    BY <1>1, <2>1 DEF Rest
<1> QED
  BY <1>1, <1>2, <1>3

\* The two sides of a balance.
LEMMA Sides ==
  ASSUME NEW t \in Int, NEW i \in Int, NEW d \in Int, NEW c \in Int, NEW b \in Int
  PROVE  t + i + d = c + b <=> t + (i + d - c - b) = 0
OBVIOUS

\* The conservation of references, with the sum on one side.
LEMMA Balance ==
  /\ Typed => (RefsConserved <=> \A k \in Keys : Total(refs, k) + Rest(k) = 0)
  /\ Typed' => (RefsConserved' <=> \A k \in Keys : Total(refs', k) + Rest(k)' = 0)
<1>1. ASSUME Typed, NEW k \in Keys
      PROVE  Total(refs, k) + InHand(k) + dropped[k] = cnt[k] + BoardRef(k)
               <=> Total(refs, k) + Rest(k) = 0
  <2>1. Total(refs, k) \in Nat
    BY <1>1, TotalType DEF Typed
  <2>2. Rest(k) = InHand(k) + dropped[k] - cnt[k] - BoardRef(k)
    BY DEF Rest
  <2>3. /\ cnt[k] \in Int /\ dropped[k] \in Int
        /\ InHand(k) \in {0, 1} /\ BoardRef(k) \in {0, 1}
    BY <1>1, RestType
  <2> QED
    <3>1. /\ Total(refs, k) \in Int /\ InHand(k) \in Int /\ dropped[k] \in Int
          /\ cnt[k] \in Int /\ BoardRef(k) \in Int
      BY <2>1, <2>3
    <3>2. Total(refs, k) + InHand(k) + dropped[k] = cnt[k] + BoardRef(k)
            <=> Total(refs, k) + (InHand(k) + dropped[k] - cnt[k] - BoardRef(k)) = 0
      BY <3>1, Sides
    <3> QED
      BY <2>2, <3>2
<1>2. ASSUME Typed', NEW k \in Keys
      PROVE  Total(refs', k) + InHand(k)' + dropped'[k] = cnt'[k] + BoardRef(k)'
               <=> Total(refs', k) + Rest(k)' = 0
  <2>1. Total(refs', k) \in Nat
    BY <1>2, TotalType DEF Typed
  <2>2. Rest(k)' = InHand(k)' + dropped'[k] - cnt'[k] - BoardRef(k)'
    BY DEF Rest
  <2>3. /\ cnt'[k] \in Int /\ dropped'[k] \in Int
        /\ InHand(k)' \in {0, 1} /\ BoardRef(k)' \in {0, 1}
    BY <1>2, RestType
  <2> QED
    <3>1. /\ Total(refs', k) \in Int /\ InHand(k)' \in Int /\ dropped'[k] \in Int
          /\ cnt'[k] \in Int /\ BoardRef(k)' \in Int
      BY <2>1, <2>3
    <3>2. Total(refs', k) + InHand(k)' + dropped'[k] = cnt'[k] + BoardRef(k)'
            <=> Total(refs', k) + (InHand(k)' + dropped'[k] - cnt'[k] - BoardRef(k)') = 0
      BY <3>1, Sides
    <3> QED
      BY <2>2, <3>2
<1> QED
  BY <1>1, <1>2 DEF RefsConserved, Total

\* A step without a reference in or out of a cluster.
LEMMA QuietBalance ==
  ASSUME Typed, Typed', RefsConserved, refs' = refs, \A k \in Keys : Rest(k)' = Rest(k)
  PROVE  RefsConserved'
BY Balance

\* A step that changes the references to one key in one cluster.
LEMMA OneChange ==
  ASSUME Typed, Typed', RefsConserved, NEW c \in Cluster, NEW h \in Keys, NEW n \in Int,
         \A d \in Cluster, j \in Keys : d # c \/ j # h => refs'[d][j] = refs[d][j],
         refs'[c][h] = refs[c][h] + n,
         \A k \in Keys : Rest(k)' = Rest(k) - (IF k = h THEN n ELSE 0)
  PROVE  RefsConserved'
<1>1. refs \in [Cluster -> [Keys -> Nat]] /\ refs' \in [Cluster -> [Keys -> Nat]]
  BY DEF Typed
<1>2. /\ \A j \in Keys : j # h => Total(refs', j) = Total(refs, j)
      /\ Total(refs', h) = Total(refs, h) + refs'[c][h] - refs[c][h]
  BY <1>1, TotalChange
<1>3. ASSUME NEW k \in Keys PROVE Total(refs', k) + Rest(k)' = 0
  <2>1. Total(refs, k) + Rest(k) = 0 /\ Total(refs, k) \in Nat /\ Rest(k) \in Int
    BY <1>1, Balance, TotalType, RestType
  <2>2. CASE k = h
    <3>1. refs[c][h] \in Nat
      BY <1>1
    <3>2. Total(refs', k) = Total(refs, k) + n
      BY <1>2, <2>1, <2>2, <3>1
    <3> QED
      BY <2>1, <2>2, <3>2
  <2>3. CASE k # h
    BY <1>2, <2>1, <2>3
  <2> QED
    BY <2>2, <2>3
<1> QED
  BY <1>3, Balance

\* The reference of the lower board comes before the take and goes with the
\* delete.
LEMMA BoardRefs ==
  /\ Doing \notin {"take", "put", "unboard"} => \A k : BoardRef(k) = 0
  /\ Doing' \notin {"take", "put", "unboard"} => \A k : BoardRef(k)' = 0
  /\ Doing' = Doing /\ Cut' = Cut => \A k : BoardRef(k)' = BoardRef(k)
  /\ Doing \in {"take", "put", "unboard"} => \A k : BoardRef(k) = IF k = Cut THEN 1 ELSE 0
  /\ Doing' \in {"take", "put", "unboard"} => \A k : BoardRef(k)' = IF k = Cut' THEN 1 ELSE 0
BY DEF BoardRef

\* A step of the dividing thread that moves no reference.
LEMMA QuietDividing ==
  ASSUME Typed, Typed', RefsConserved, UNCHANGED <<refs, cnt, dropped>>, dv'.hand = dv.hand,
         \/ Doing' = Doing /\ Cut' = Cut
         \/ Doing \notin {"take", "put", "unboard"} /\ Doing' \notin {"take", "put", "unboard"}
         \/ Cut' = Cut /\ {Doing, Doing'} \subseteq {"take", "put", "unboard"}
  PROVE  RefsConserved'
<1>1. \A k : BoardRef(k)' = BoardRef(k) /\ InHand(k)' = InHand(k)
  <2>1. \A k : BoardRef(k)' = BoardRef(k)
    BY BoardRefs
  <2> QED
    BY <2>1 DEF InHand
<1>2. \A k \in Keys : Rest(k)' = Rest(k)
  BY <1>1 DEF Rest
<1> QED
  BY <1>2, QuietBalance

\* The dividing thread neither loses nor invents a reference, but for those it
\* drops.
LEMMA DividingBalance ==
  ASSUME RouteInv, RefsConserved, Typed', Divide \/ Scan
  PROVE  RefsConserved'
<1>0. Typed /\ StepInv /\ BoardInv /\ RefInv /\ dv \in DvType
  BY DEF RouteInv, Typed
<1>a. /\ \A k \in Keys : k \in Nat /\ k # 0
      /\ \A k \in Keys : Rest(k) \in Int /\ cnt[k] \in Int /\ dropped[k] \in Int
      /\ \A k \in Keys : InHand(k) \in Int /\ BoardRef(k) \in Int
      /\ dv.at # "put" => dv.hand = 0
  BY <1>0, Numbers, RestType DEF StepInv
<1>1. CASE Start \/ Spin
  <2>1. UNCHANGED <<refs, cnt, dropped, dv>>
    BY <1>1 DEF Start, Spin, vars, tree
  <2>2. Doing' = Doing /\ Cut' = Cut
    BY <2>1 DEF Doing, Cut
  <2> QED
    BY <1>0, <2>1, <2>2, QuietDividing
<1>2. CASE Leave
  <2>1. UNCHANGED <<refs, cnt, dropped>> /\ dv' = Onward /\ dv.at \in LeaveStep
    BY <1>2 DEF Leave, DividerIs, tree
  <2>2. dv'.hand = dv.hand
    <3>1. dv.hand = 0
      BY <1>a, <2>1 DEF LeaveStep
    <3> QED
      BY <1>0, <2>1, <3>1 DEF Onward, LeaveStep, DvType, Resting
  <2>3. \/ Doing' = Doing /\ Cut' = Cut
        \/ Doing \notin {"take", "put", "unboard"} /\ Doing' \notin {"take", "put", "unboard"}
    BY <1>0, <2>1 DEF Onward, LeaveStep, Doing, DvType, Resting, Cut
  <2> QED
    BY <1>0, <2>1, <2>2, <2>3, QuietDividing
<1>3. CASE Wait
  <2>1. UNCHANGED <<refs, cnt, dropped>> /\ dv' = AfterWait /\ dv.at \in {"wait", "pausing"}
    BY <1>3 DEF Wait, DividerIs, tree
  <2>2. dv'.hand = dv.hand /\ Cut' = Cut
    BY <1>0, <2>1 DEF AfterWait, DvType, Cut
  <2>3. \/ Doing' = Doing
        \/ Doing \notin {"take", "put", "unboard"} /\ Doing' \notin {"take", "put", "unboard"}
    BY <1>0, <2>1 DEF AfterWait, DvType, Doing, StepInv
  <2> QED
    BY <1>0, <2>1, <2>2, <2>3, QuietDividing
<1>4. CASE Pause
  <2>1. UNCHANGED <<refs, cnt, dropped>> /\ Doing' = Doing /\ dv'.hand = dv.hand /\ Cut' = Cut
    BY <1>0, <1>4, PauseStepInv DEF Pause, tree, Cut
  <2> QED
    BY <1>0, <2>1, QuietDividing
<1>5. CASE Scan \/ Sort
  <2>1. UNCHANGED <<refs, cnt, dropped>> /\ dv'.hand = dv.hand
        /\ Doing \in {"scan", "sort"} /\ Doing' \in {"sort", "sorted"}
    BY <1>0, <1>5, ScanStepInv, SortStepInv DEF Scan, Sort, tree, RefInv
  <2> QED
    BY <1>0, <2>1, QuietDividing
<1>6. CASE Mask \/ Retract
  <2>1. UNCHANGED <<refs, cnt, dropped>> /\ dv'.hand = dv.hand
        /\ Doing \in {"mask", "retract"} /\ Doing' \in {"masked", "moved"}
    BY <1>0, <1>6, MaskRoutes, RetractRoutes DEF Mask, Retract, DvType
  <2> QED
    BY <1>0, <2>1, QuietDividing
<1>7. CASE Publish
  <2>1. UNCHANGED <<refs, cnt, dropped>> /\ dv'.hand = dv.hand
        /\ Doing = "publish" /\ Doing' \in {"retract", "moved"}
    BY <1>0, <1>7, PublishStepInv DEF Publish, At, DividerIs, DvType
  <2> QED
    BY <1>0, <2>1, QuietDividing
<1>8. CASE Emptied
  <2>1. /\ UNCHANGED <<refs, cnt, dropped>> /\ dv'.hand = dv.hand
        /\ Doing = "take" /\ Doing' = "unboard" /\ Cut' = Cut
    BY <1>0, <1>8 DEF Emptied, At, DividerIs, DvType, Doing, Cut, tree
  <2> QED
    BY <1>0, <2>1, QuietDividing
<1>9. CASE Board
  <2>0. /\ UNCHANGED <<cnt, dropped>> /\ Doing = "board" /\ Doing' = "take" /\ Cut' = Cut
        /\ refs' = [refs EXCEPT ![dv.src][Cut] = @ + 1] /\ dv'.hand = dv.hand
    BY <1>0, <1>9 DEF Board, At, DividerIs, DvType, Doing, Cut
  <2>1. Cut \in Keys /\ dv.src \in Cluster
    BY <1>0, <2>0, MaskFacts DEF Masking
  <2>2. /\ \A d \in Cluster, j \in Keys : d # dv.src \/ j # Cut => refs'[d][j] = refs[d][j]
        /\ refs'[dv.src][Cut] = refs[dv.src][Cut] + 1
    BY <1>0, <2>0, <2>1 DEF Typed
  <2>3. \A k : BoardRef(k) = 0 /\ BoardRef(k)' = (IF k = Cut THEN 1 ELSE 0) /\ InHand(k)' = InHand(k)
    BY <2>0, BoardRefs DEF InHand
  <2>4. ASSUME NEW k \in Keys PROVE Rest(k)' = Rest(k) - (IF k = Cut THEN 1 ELSE 0)
    <3>1. Rest(k)' = InHand(k) + dropped[k] - cnt[k] - (IF k = Cut THEN 1 ELSE 0)
      BY <2>0, <2>3 DEF Rest
    <3>2. Rest(k) = InHand(k) + dropped[k] - cnt[k] - 0
      BY <2>3 DEF Rest
    <3> QED
      BY <1>a, <3>1, <3>2
  <2> QED
    BY <1>0, <2>1, <2>2, <2>4, OneChange
<1>10. CASE Take
  <2>0. /\ UNCHANGED <<cnt, dropped>> /\ Doing = "take" /\ Doing' = "put" /\ Cut' = Cut
        /\ dv.hand = 0
    BY <1>0, <1>a, <1>10 DEF Take, At, DividerIs, DvType, Doing, Cut
  <2>1. PICK h \in Keys : h = dv'.hand
    BY <1>0, <1>10, TakeStepInv
  <2>2. /\ dv.src \in Cluster /\ refs[dv.src][h] > 0
        /\ refs' = [refs EXCEPT ![dv.src][h] = @ - 1]
    BY <1>0, <1>10, <2>1, TakeStepInv
  <2>3. /\ \A d \in Cluster, j \in Keys : d # dv.src \/ j # h => refs'[d][j] = refs[d][j]
        /\ refs'[dv.src][h] = refs[dv.src][h] + (-1)
    <3>1. refs[dv.src][h] \in Nat
      BY <1>0, <2>2 DEF Typed
    <3>2. refs[dv.src][h] - 1 = refs[dv.src][h] + (-1)
      BY <3>1
    <3> QED
      BY <1>0, <2>2, <3>2 DEF Typed
  <2>4. \A k \in Keys : BoardRef(k)' = BoardRef(k) /\ InHand(k) = 0
                        /\ InHand(k)' = IF k = h THEN 1 ELSE 0
    BY <1>a, <2>0, <2>1, BoardRefs DEF InHand
  <2>5. ASSUME NEW k \in Keys PROVE Rest(k)' = Rest(k) - (IF k = h THEN -1 ELSE 0)
    <3>1. Rest(k)' = (IF k = h THEN 1 ELSE 0) + dropped[k] - cnt[k] - BoardRef(k)
      BY <2>0, <2>4 DEF Rest
    <3>2. Rest(k) = 0 + dropped[k] - cnt[k] - BoardRef(k)
      BY <2>4 DEF Rest
    <3> QED
      BY <1>a, <3>1, <3>2
  <2> QED
    BY <1>0, <2>2, <2>3, <2>5, OneChange
<1>11. CASE Put
  <2>0. /\ UNCHANGED cnt /\ Doing = "put" /\ Doing' = "take" /\ Cut' = Cut
    BY <1>0, <1>11 DEF Put, At, DividerIs, DvType, Doing, Cut
  <2>1. PICK h \in Keys : h = dv.hand
    BY <1>0, <1>11, PutStepInv
  <2>2. dv.dst \in Cluster /\ dv'.hand = 0
    BY <1>0, <1>11, PutStepInv
  <2>3. \A k \in Keys : BoardRef(k)' = BoardRef(k) /\ InHand(k)' = 0
                        /\ InHand(k) = IF k = h THEN 1 ELSE 0
    BY <1>a, <2>0, <2>1, <2>2, BoardRefs DEF InHand
  <2>4. CASE refs' = [refs EXCEPT ![dv.dst][h] = @ + 1] /\ UNCHANGED dropped
    <3>1. /\ \A d \in Cluster, j \in Keys : d # dv.dst \/ j # h => refs'[d][j] = refs[d][j]
          /\ refs'[dv.dst][h] = refs[dv.dst][h] + 1
      BY <1>0, <2>2, <2>4 DEF Typed
    <3>2. ASSUME NEW k \in Keys PROVE Rest(k)' = Rest(k) - (IF k = h THEN 1 ELSE 0)
      <4>1. Rest(k)' = 0 + dropped[k] - cnt[k] - BoardRef(k)
        BY <2>0, <2>3, <2>4 DEF Rest
      <4>2. Rest(k) = (IF k = h THEN 1 ELSE 0) + dropped[k] - cnt[k] - BoardRef(k)
        BY <2>3 DEF Rest
      <4> QED
        BY <1>a, <4>1, <4>2
    <3> QED
      BY <1>0, <2>2, <3>1, <3>2, OneChange
  <2>5. CASE dropped' = [dropped EXCEPT ![h] = @ + 1] /\ UNCHANGED refs
    <3>1. ASSUME NEW k \in Keys PROVE Rest(k)' = Rest(k)
      <4>1. dropped'[k] = dropped[k] + (IF k = h THEN 1 ELSE 0)
        BY <1>0, <1>a, <2>5 DEF Typed
      <4>2. Rest(k)' = 0 + (dropped[k] + (IF k = h THEN 1 ELSE 0)) - cnt[k] - BoardRef(k)
        BY <2>0, <2>3, <4>1 DEF Rest
      <4>3. Rest(k) = (IF k = h THEN 1 ELSE 0) + dropped[k] - cnt[k] - BoardRef(k)
        BY <2>3 DEF Rest
      <4> QED
        BY <1>a, <4>2, <4>3
    <3> QED
      BY <1>0, <2>5, <3>1, QuietBalance
  <2> QED
    BY <1>11, <2>1, <2>4, <2>5 DEF Put
<1>12. CASE Unboard
  <2>0. /\ UNCHANGED <<cnt, dropped>> /\ Doing = "unboard" /\ Doing' = "publish" /\ Cut' = Cut
        /\ refs' = [refs EXCEPT ![dv.dst][Cut] = @ - 1] /\ refs[dv.dst][Cut] > 0
        /\ dv'.hand = dv.hand
    BY <1>0, <1>12 DEF Unboard, At, DividerIs, DvType, Doing, Cut
  <2>1. Cut \in Keys /\ dv.dst \in Cluster
    BY <1>0, <1>12, UnboardStepInv
  <2>2. /\ \A d \in Cluster, j \in Keys : d # dv.dst \/ j # Cut => refs'[d][j] = refs[d][j]
        /\ refs'[dv.dst][Cut] = refs[dv.dst][Cut] + (-1)
    <3>1. refs[dv.dst][Cut] \in Nat
      BY <1>0, <2>1 DEF Typed
    <3>2. refs[dv.dst][Cut] - 1 = refs[dv.dst][Cut] + (-1)
      BY <3>1
    <3> QED
      BY <1>0, <2>0, <2>1, <3>2 DEF Typed
  <2>3. \A k : BoardRef(k)' = 0 /\ BoardRef(k) = (IF k = Cut THEN 1 ELSE 0) /\ InHand(k)' = InHand(k)
    BY <2>0, BoardRefs DEF InHand
  <2>4. ASSUME NEW k \in Keys PROVE Rest(k)' = Rest(k) - (IF k = Cut THEN -1 ELSE 0)
    <3>1. Rest(k)' = InHand(k) + dropped[k] - cnt[k] - 0
      BY <2>0, <2>3 DEF Rest
    <3>2. Rest(k) = InHand(k) + dropped[k] - cnt[k] - (IF k = Cut THEN 1 ELSE 0)
      BY <2>3 DEF Rest
    <3> QED
      BY <1>a, <3>1, <3>2
  <2> QED
    BY <1>0, <2>1, <2>2, <2>4, OneChange
<1> QED
  BY <1>1, <1>2, <1>3, <1>4, <1>5, <1>6, <1>7, <1>8, <1>9, <1>10, <1>11, <1>12 DEF Divide

\* A worker is told of the reference it adds or takes.
LEMMA WorkerBalance ==
  ASSUME RouteInv, RefsConserved, Typed', NEW t \in Worker, Insert(t) \/ Delete(t)
  PROVE  RefsConserved'
<1> DEFINE c == wk[t].lower
           h == wk[t].key
<1>0. Typed /\ StepInv /\ BoardInv /\ RefInv /\ WorkRight(t)
  BY DEF RouteInv, WorkInv
<1>1. c \in Cluster /\ h \in Keys
  BY <1>0, InsertStep, DeleteStep
<1>2. UNCHANGED <<dv, dropped>>
  BY DEF Insert, Delete
<1>3. \/ refs' = [refs EXCEPT ![c][h] = @ + 1] /\ cnt' = [cnt EXCEPT ![h] = @ + 1]
      \/ refs[c][h] > 0 /\ refs' = [refs EXCEPT ![c][h] = @ - 1] /\ cnt' = [cnt EXCEPT ![h] = @ - 1]
      \/ UNCHANGED <<refs, cnt>>
  BY DEF Insert, Delete
<1> HIDE DEF c, h
<1>4. refs \in [Cluster -> [Keys -> Nat]] /\ cnt \in [Keys -> Int] /\ refs[c][h] \in Nat
  BY <1>0, <1>1 DEF Typed
<1>5. \A k : InHand(k)' = InHand(k) /\ BoardRef(k)' = BoardRef(k)
  BY <1>2 DEF InHand, BoardRef, Doing, Cut
<1>a. /\ \A k \in Keys : Rest(k) \in Int /\ cnt[k] \in Int /\ dropped[k] \in Int
      /\ \A k \in Keys : InHand(k) \in Int /\ BoardRef(k) \in Int
  BY <1>0, RestType
<1>6. ASSUME NEW n \in {1, -1}, refs'[c][h] = refs[c][h] + n, cnt' = [cnt EXCEPT ![h] = @ + n],
             \A d \in Cluster, j \in Keys : d # c \/ j # h => refs'[d][j] = refs[d][j]
      PROVE  RefsConserved'
  <2>0. n \in Int
    BY <1>6
  <2>1. ASSUME NEW k \in Keys PROVE Rest(k)' = Rest(k) - (IF k = h THEN n ELSE 0)
    <3>1. cnt'[k] = cnt[k] + (IF k = h THEN n ELSE 0)
      BY <1>4, <1>6, <1>a
    <3>2. Rest(k)' = InHand(k) + dropped[k] - (cnt[k] + (IF k = h THEN n ELSE 0)) - BoardRef(k)
      BY <1>2, <1>5, <3>1 DEF Rest
    <3>3. Rest(k) = InHand(k) + dropped[k] - cnt[k] - BoardRef(k)
      BY DEF Rest
    <3> QED
      BY <1>a, <2>0, <3>2, <3>3
  <2> QED
    BY <1>0, <1>1, <1>6, <2>0, <2>1, OneChange
<1>7. CASE refs' = [refs EXCEPT ![c][h] = @ + 1] /\ cnt' = [cnt EXCEPT ![h] = @ + 1]
  <2>1. /\ refs'[c][h] = refs[c][h] + 1
        /\ \A d \in Cluster, j \in Keys : d # c \/ j # h => refs'[d][j] = refs[d][j]
    BY <1>1, <1>4, <1>7
  <2> QED
    BY <1>6, <1>7, <2>1
<1>8. CASE refs' = [refs EXCEPT ![c][h] = @ - 1] /\ cnt' = [cnt EXCEPT ![h] = @ - 1]
  <2>1. refs[c][h] - 1 = refs[c][h] + (-1) /\ cnt[h] - 1 = cnt[h] + (-1)
    BY <1>1, <1>4
  <2>2. /\ refs'[c][h] = refs[c][h] + (-1)
        /\ \A d \in Cluster, j \in Keys : d # c \/ j # h => refs'[d][j] = refs[d][j]
    BY <1>1, <1>4, <1>8, <2>1
  <2>3. cnt' = [cnt EXCEPT ![h] = @ + (-1)]
    BY <1>8, <2>1
  <2> QED
    BY <1>6, <2>2, <2>3
<1>9. CASE UNCHANGED <<refs, cnt>>
  <2>1. \A k \in Keys : Rest(k)' = Rest(k)
    BY <1>2, <1>5, <1>9 DEF Rest
  <2> QED
    BY <1>0, <1>9, <2>1, QuietBalance
<1> QED
  BY <1>3, <1>7, <1>8, <1>9

\* At first every reference is in the one cluster its key is routed to.
LEMMA InitBalance == Init => RefsConserved
<1> SUFFICES ASSUME Init PROVE RefsConserved
  OBVIOUS
<1>0. /\ Typed
      /\ refs = [c \in Cluster |-> [k \in Keys |-> IF plower[Route(k)] = c THEN Filled[k] ELSE 0]]
      /\ dv.hand = 0 /\ Doing = "scan"
      /\ cnt = Filled
      /\ dropped = [k \in Keys |-> 0]
  BY InitRoutes DEF Init, Resting, Doing
<1>1. IsFiniteSet(Cluster) /\ Filled \in [Keys -> Nat]
  BY DivisionAssumption
<1>2. ASSUME NEW k \in Keys
      PROVE  Total(refs, k) + InHand(k) + dropped[k] = cnt[k] + BoardRef(k)
  <2>1. plower[Route(k)] \in Cluster
    <3>1. board \in SUBSET Boards /\ Top \in board
      BY <1>0 DEF Typed
    <3>2. Route(k) \in board
      BY <3>1, RouteIn, RouteOf
    <3> QED
      BY <3>2, FirstBoards
  <2> DEFINE f == [c \in Cluster |-> refs[c][k]]
             r == plower[Route(k)]
  <2>2. f \in [Cluster -> Nat] /\ f[r] = Filled[k] /\ \A x \in Cluster \ {r} : f[x] = 0
    BY <1>0, <1>1, <2>1
  <2>3. Total(refs, k) = SumFunction(f)
    BY DEF Total
  <2> HIDE DEF f, r
  <2>4. SumFunction(f) = Filled[k]
    BY <1>1, <2>1, <2>2, SumSingle DEF r
  <2>5. InHand(k) = 0 /\ BoardRef(k) = 0
    BY <1>0, Numbers DEF InHand, BoardRef
  <2>6. Filled[k] \in Nat
    BY <1>1
  <2> QED
    BY <1>0, <2>3, <2>4, <2>5, <2>6
<1> QED
  BY <1>2 DEF RefsConserved, Total

\* The references and what the workers were told stay in balance.
LEMMA BalanceInvariant == Spec /\ Spt!GracePeriod => []RefsConserved
<1>1. Init => RefsConserved
  BY InitBalance
<1>2. RouteInv /\ RouteInv' /\ RefsConserved /\ [Next]_vars => RefsConserved'
  <2> SUFFICES ASSUME RouteInv, RouteInv', RefsConserved, [Next]_vars PROVE RefsConserved'
    OBVIOUS
  <2>0. Typed /\ Typed'
    BY DEF RouteInv
  <2>1. CASE Bystanding
    <3>1. UNCHANGED <<refs, dv, cnt, dropped>>
      BY <2>0, <2>1, BystandingStep
         DEF Bystanding, Scheduling, WorkerStart, Ask, FindBoard, ReadLower, WorkerLeave, Over, vars, tree
    <3>2. \A k : Rest(k)' = Rest(k)
      BY <3>1 DEF Rest, InHand, BoardRef, Doing, Cut
    <3> QED
      BY <2>0, <3>1, <3>2, QuietBalance
  <2>2. CASE Divide \/ Scan
    BY <2>0, <2>2, DividingBalance
  <2>3. ASSUME NEW t \in Worker, Insert(t) \/ Delete(t) PROVE RefsConserved'
    BY <2>0, <2>3, WorkerBalance
  <2> QED
    BY <2>1, <2>2, <2>3, StepKinds
<1> QED
  BY <1>1, <1>2, RouteInvariant, PTL DEF Spec
-----------------------------------------------------------------------------
\* A worker at work is where all references to its key are: none is in another
\* cluster, in the dividing thread's hand or the lower board's.
LEMMA AllHere ==
  ASSUME Typed, StepInv, BoardInv, RefInv, NEW t \in Worker, WorkRight(t), wk[t].at = "act"
  PROVE  /\ wk[t].lower \in Cluster /\ wk[t].key \in Keys
         /\ \A d \in Cluster : d # wk[t].lower => refs[d][wk[t].key] = 0
         /\ InHand(wk[t].key) = 0 /\ BoardRef(wk[t].key) = 0
<1> DEFINE c == wk[t].lower
           k == wk[t].key
<1>1. /\ c \in Cluster /\ k \in Keys
      /\ \/ plower[Route(k)] # Null /\ c = plower[Route(k)]
         \/ plower[Route(k)] = Null /\ c = dv.src /\ Doing \in Settled
  BY ActFacts
<1> HIDE DEF c, k
<1>2. refs \in [Cluster -> [Keys -> Nat]]
  BY DEF Typed
<1>3. ASSUME NEW d \in Cluster, d # c PROVE refs[d][k] = 0
  <2>1. refs[d][k] \in Nat
    BY <1>1, <1>2
  <2>2. ~ (refs[d][k] > 0)
    BY <1>1, <1>3 DEF RefInv, RoutedRight
  <2> QED
    BY <2>1, <2>2
<1>4. InHand(k) = 0
  <2>1. SUFFICES ASSUME dv.hand = k PROVE FALSE
    BY DEF InHand
  <2>2. dv.at = "put" /\ Doing = "put"
    BY <1>1, <2>1, Numbers DEF StepInv, Doing
  <2>3. Route(k) = Cut /\ plower[Cut] = Null
    BY <2>1, <2>2, MaskFacts DEF RefInv, Masking
  <2> QED
    BY <1>1, <2>2, <2>3 DEF Settled
<1>5. BoardRef(k) = 0
  <2>1. SUFFICES ASSUME Doing \in {"take", "put", "unboard"}, k = Cut PROVE FALSE
    BY DEF BoardRef
  <2>2. plower[Route(k)] = Null
    BY <2>1, MaskFacts DEF Masking
  <2> QED
    BY <1>1, <2>1, <2>2 DEF Settled
<1> QED
  BY <1>1, <1>3, <1>4, <1>5 DEF c, k

\* So many references has its key there as the workers were told, but for those
\* that fell.
LEMMA AllCounted ==
  ASSUME RouteInv, RefsConserved, NEW t \in Worker, wk[t].at = "act"
  PROVE  /\ wk[t].lower \in Cluster /\ wk[t].key \in Keys
         /\ cnt[wk[t].key] = refs[wk[t].lower][wk[t].key] + dropped[wk[t].key]
<1> DEFINE c == wk[t].lower
           k == wk[t].key
           f == [d \in Cluster |-> refs[d][k]]
<1>0. Typed /\ StepInv /\ BoardInv /\ RefInv /\ WorkRight(t)
  BY DEF RouteInv, WorkInv
<1>1. /\ c \in Cluster /\ k \in Keys
      /\ \A d \in Cluster : d # c => refs[d][k] = 0
      /\ InHand(k) = 0 /\ BoardRef(k) = 0
  BY <1>0, AllHere
<1>2. SumFunction(f) + InHand(k) + dropped[k] = cnt[k] + BoardRef(k)
  BY <1>1 DEF RefsConserved
<1> HIDE DEF c, k
<1>3. f \in [Cluster -> Nat] /\ f[c] = refs[c][k] /\ \A d \in Cluster \ {c} : f[d] = 0
  BY <1>0, <1>1 DEF Typed
<1> HIDE DEF f
<1>4. SumFunction(f) = refs[c][k]
  BY <1>1, <1>3, SumSingle, DivisionAssumption
<1>5. refs[c][k] \in Nat /\ cnt[k] \in Int /\ dropped[k] \in Nat
  BY <1>0, <1>1 DEF Typed
<1>6. cnt[k] = refs[c][k] + dropped[k]
  BY <1>1, <1>2, <1>4, <1>5
<1> QED
  BY <1>1, <1>6 DEF c, k

\* The upper cluster tells the truth, before, during and after a division.
THEOREM RoutedRightly == Spec /\ Spt!GracePeriod => []RoutedRight
<1>1. RouteInv => RoutedRight
  BY DEF RouteInv, RefInv
<1> QED
  BY <1>1, RouteInvariant, PTL

\* A division neither loses nor invents a reference.
THEOREM ReferencesConserved == Spec /\ Spt!GracePeriod => []RefsConserved
BY BalanceInvariant

\* Only a delete can be told "not found", and only where its key has no reference.
LEMMA NotFoundStep ==
  ASSUME RouteInv, RefsConserved, [Next]_vars, NEW t \in Worker,
         wk[t].at = "act", wk'[t].ret = NOT_FOUND, wk'[t].at = "idle"
  PROVE  cnt[wk[t].key] <= dropped[wk[t].key]
<1>0. wk \in [Worker -> WkType]
  BY DEF RouteInv, Typed
<1>1. CASE Bystanding
  <2>1. ASSUME NEW u \in Thread, Scheduling(u) PROVE FALSE
    BY <2>1 DEF Scheduling
  <2>2. ASSUME NEW u \in Worker, WorkerStart(u) PROVE FALSE
    BY <2>2 DEF WorkerStart
  <2>3. ASSUME NEW u \in Worker, Ask(u) \/ FindBoard(u) \/ ReadLower(u) \/ WorkerLeave(u)
        PROVE  FALSE
    <3>1. u # t => wk'[t] = wk[t]
      BY <1>0, <2>3 DEF Ask, FindBoard, ReadLower, WorkerLeave, WorkerIs
    <3>2. u # t
      BY <2>3 DEF Ask, FindBoard, ReadLower, WorkerLeave
    <3> QED
      BY <3>1, <3>2
  <2>4. CASE Over \/ UNCHANGED vars
    BY <2>4 DEF Over, vars
  <2> QED
    BY <1>1, <2>1, <2>2, <2>3, <2>4 DEF Bystanding
<1>2. CASE Divide \/ Scan
  <2>1. wk' = wk
    BY <1>2 DEF Divide, Scan, Start, Leave, Wait, Sort, Mask, Board, Take, Put, Emptied,
                Unboard, Spin, Pause, Publish, Retract, vars
  <2> QED
    BY <2>1
<1>3. ASSUME NEW u \in Worker, Insert(u) PROVE FALSE
  <2>1. wk' = [wk EXCEPT ![u] = [Idle EXCEPT !.ret = OK]]
    BY <1>3 DEF Insert, Done, WorkerIs
  <2> QED
    BY <1>0, <2>1 DEF Idle, OK, NOT_FOUND
<1>4. ASSUME NEW u \in Worker, Delete(u) PROVE cnt[wk[t].key] <= dropped[wk[t].key]
  <2>1. \/ wk' = [wk EXCEPT ![u] = [Idle EXCEPT !.ret = OK]]
        \/ /\ refs[wk[u].lower][wk[u].key] = 0
           /\ wk' = [wk EXCEPT ![u] = [Idle EXCEPT !.ret = NOT_FOUND]]
    BY <1>4 DEF Delete, Done, WorkerIs
  <2>2. u = t /\ refs[wk[t].lower][wk[t].key] = 0
    BY <1>0, <2>1 DEF Idle, OK, NOT_FOUND
  <2>3. /\ wk[t].key \in Keys
        /\ cnt[wk[t].key] = refs[wk[t].lower][wk[t].key] + dropped[wk[t].key]
    BY AllCounted
  <2>4. dropped[wk[t].key] \in Nat
    BY <2>3 DEF RouteInv, Typed
  <2> QED
    BY <2>2, <2>3, <2>4
<1> QED
  BY <1>1, <1>2, <1>3, <1>4, StepKinds

\* A delete is told "not found" only when no reference to its key is anywhere.
THEOREM NotFoundIsRight == Spec /\ Spt!GracePeriod => NotFoundRight
<1>1. RouteInv /\ RefsConserved /\ [Next]_vars =>
        [\A t \in Worker : wk[t].at = "act" /\ wk'[t].ret = NOT_FOUND /\ wk'[t].at = "idle"
                             => cnt[wk[t].key] <= dropped[wk[t].key]]_vars
  BY NotFoundStep
<1> QED
  BY <1>1, RouteInvariant, BalanceInvariant, PTL DEF Spec, NotFoundRight

\* The workers are never told of fewer references than none.
CntInv == \A k \in Keys : cnt[k] >= 0

\* A delete takes a reference where there is one, and what is there was counted.
LEMMA CntStep ==
  ASSUME RouteInv, RefsConserved, CntInv, [Next]_vars
  PROVE  CntInv'
<1>0. cnt \in [Keys -> Int]
  BY DEF RouteInv, Typed
<1>1. CASE Bystanding
  BY <1>1 DEF Bystanding, Scheduling, WorkerStart, Ask, FindBoard, ReadLower, WorkerLeave,
              Over, vars, CntInv
<1>2. CASE Divide \/ Scan
  BY <1>2 DEF Divide, Scan, Start, Leave, Wait, Sort, Mask, Board, Take, Put, Emptied,
              Unboard, Spin, Pause, Publish, Retract, vars, CntInv
<1>3. ASSUME NEW t \in Worker, Insert(t) PROVE CntInv'
  BY <1>0, <1>3 DEF Insert, CntInv
<1>4. ASSUME NEW t \in Worker, Delete(t) PROVE CntInv'
  <2> DEFINE c == wk[t].lower
             k == wk[t].key
  <2>1. /\ c \in Cluster /\ k \in Keys /\ cnt[k] = refs[c][k] + dropped[k]
    BY <1>4, AllCounted DEF Delete
  <2>2. \/ refs[c][k] > 0 /\ cnt' = [cnt EXCEPT ![k] = @ - 1]
        \/ UNCHANGED cnt
    BY <1>4 DEF Delete
  <2> HIDE DEF c, k
  <2>3. refs[c][k] \in Nat /\ dropped[k] \in Nat
    BY <2>1 DEF RouteInv, Typed
  <2>4. CASE refs[c][k] > 0 /\ cnt' = [cnt EXCEPT ![k] = @ - 1]
    <3>1. cnt[k] - 1 >= 0
      BY <2>1, <2>3, <2>4
    <3> QED
      BY <1>0, <2>1, <2>4, <3>1 DEF CntInv
  <2>5. CASE UNCHANGED cnt
    BY <2>5 DEF CntInv
  <2> QED
    BY <2>2, <2>4, <2>5
<1> QED
  BY <1>1, <1>2, <1>3, <1>4, StepKinds

\* The variables of the division are typed.
THEOREM TypeCorrect == Spec /\ Spt!GracePeriod => []TypeOK
<1>1. Init => CntInv
  <2>1. Init => cnt = Filled
    BY DEF Init
  <2> QED
    BY <2>1, DivisionAssumption DEF CntInv
<1>2. RouteInv /\ RefsConserved /\ CntInv /\ [Next]_vars => CntInv'
  BY CntStep
<1>3. RouteInv /\ CntInv /\ Spt!TypeOK => TypeOK
  <2> SUFFICES ASSUME Typed, CntInv, Spt!TypeOK PROVE TypeOK
    BY DEF RouteInv
  <2>1. cnt \in [Keys -> Nat]
    BY DEF Typed, CntInv
  <2>2. /\ dv.at \in Step /\ dv.back \in Step
        /\ dv.loop \in 0 .. MoveTimes /\ dv.pauses \in 0 .. MaxPause
        /\ dv.src \in Cluster \union {Null} /\ dv.dst \in Cluster \union {Null}
        /\ dv.hand \in Keys \union {0} /\ dv.second \in BOOLEAN
        /\ dv.cuts \in {<<>>} \union [1 .. MoveTimes -> Keys]
    BY DEF Typed, DvType
  <2>3. \A i \in DOMAIN dv.cuts : dv.cuts[i] \in Keys
    <3>1. \A i \in DOMAIN <<>> : <<>>[i] \in Keys
      OBVIOUS
    <3>2. dv.cuts = <<>> \/ dv.cuts \in [1 .. MoveTimes -> Keys]
      BY <2>2
    <3>3. CASE dv.cuts = <<>>
      BY <3>1, <3>3
    <3>4. CASE dv.cuts \in [1 .. MoveTimes -> Keys]
      BY <3>4
    <3> QED
      BY <3>2, <3>3, <3>4
  <2>4. ASSUME NEW t \in Worker
        PROVE  /\ wk[t].at \in {"idle", "route", "read", "masked", "act"}
               /\ <<wk[t].op, wk[t].key>> \in {"INSERT", "DELETE"} \X Keys
               /\ wk[t].board \in Boards /\ wk[t].lower \in Cluster \union {Null}
               /\ wk[t].ret \in {OK, NOT_FOUND}
    BY DEF Typed, WkType
  <2> QED
    BY <2>1, <2>2, <2>3, <2>4 DEF TypeOK, Typed
<1> QED
  BY <1>1, <1>2, <1>3, RouteInvariant, BalanceInvariant, SessionFacts, PTL DEF Spec
-----------------------------------------------------------------------------
\* As many threads as a wait has ticks, or fewer.
FewThreads == IsFiniteSet(Thread) /\ Cardinality(Thread) <= WaitTicks

\* Then the grace period holds, in a division as in SptThread.
LEMMA FewThreadsWait == ASSUME FewThreads PROVE Spec => Spt!GracePeriod
<1>0. SptProof!IsFiniteSet(Thread) /\ SptProof!Cardinality(Thread) <= WaitTicks
  <2>1. SptProof!IsFiniteSet(Thread)
    BY DEF FewThreads, IsFiniteSet, SptProof!IsFiniteSet
  <2>2. SptProof!Cardinality(Thread) = Cardinality(Thread)
    BY DEF Cardinality, SptProof!Cardinality
  <2> QED
    BY <2>1, <2>2 DEF FewThreads
<1>1. Spt!Init => SptProof!Init
  BY SptSame
<1>2. [Spt!Next]_(Spt!vars) => [SptProof!Next]_(SptProof!vars)
  BY SptSame
<1>3. Spt!Spec => SptProof!Spec
  BY <1>1, <1>2, PTL DEF Spt!Spec, SptProof!Spec
<1>4. SptProof!Spec => SptProof!GracePeriod
  BY <1>0, SptSame, SptProof!EnoughTicks
<1>5. [\A w \in Thread : w \in waiters /\ w \notin waiters' => held[w] = {}]_(SptProof!vars)
        => [\A w \in Thread : w \in waiters /\ w \notin waiters' => held[w] = {}]_(Spt!vars)
  BY DEF Spt!vars, SptProof!vars
<1> QED
  BY <1>3, <1>4, <1>5, SessionsImplemented, PTL DEF SptProof!GracePeriod, Spt!GracePeriod

\* With the two ticks of splitter.c:1781, a dividing thread and a worker, all of
\* this holds of every division, of any keys, clusters, cuts and rounds.
THEOREM FewThreadsDivide ==
  ASSUME FewThreads
  PROVE  Spec => [](TypeOK /\ RefsConserved /\ RoutedRight) /\ NotFoundRight
BY FewThreadsWait, TypeCorrect, ReferencesConserved, RoutedRightly, NotFoundIsRight, PTL
=============================================================================
