-------------------------- MODULE BitString_proofs --------------------------
(***************************************************************************)
(* The two functions of BitString are right for all strings, addresses and *)
(* ranges.  The loops keep one invariant: what lies before the pointers    *)
(* has been found to hold no set bit, or no difference, and what the loops *)
(* have still to look at is the rest of the range.                         *)
(***************************************************************************)
EXTENDS BitString, WellFoundedInduction, TLAPS

\* A set of natural numbers that is not empty has a least element.
LEMMA LeastOf ==
  ASSUME NEW S, S \subseteq Nat, S # {}
  PROVE  /\ Min(S) \in S
         /\ Min(S) \in Nat
         /\ \A y \in S : Min(S) <= y
<1> DEFINE Less == {ss \in Nat \X Nat : ss[1] < ss[2]}
<1>1. IsWellFoundedOn(Less, Nat)
  BY NatLessThanWellFounded, Zenon DEF OpToRel
<1>2. \A x, y \in Nat : <<y, x>> \in Less <=> y < x
  OBVIOUS
<1> HIDE DEF Less
<1>3. PICK x \in S : \A y \in S : ~ (<<y, x>> \in Less)
  BY <1>1, WFMin
<1>4. ASSUME NEW y \in S PROVE x <= y
  <2>1. x \in Nat /\ y \in Nat
    OBVIOUS
  <2>2. ~ (y < x)
    BY <2>1, <1>2, <1>3
  <2> QED
    BY <2>1, <2>2
<1>5. Min(S) \in S /\ \A y \in S : Min(S) <= y
  BY <1>4 DEF Min
<1> QED
  BY <1>5

\* s has no element from i up to o.
NoneIn(s, i, o) == \A j \in s : ~ (i <= j /\ j < o)

\* o is the first element of s from i on, or e if there is none before e.
IsFirst(s, i, e, o) ==
  /\ i <= o /\ o <= e
  /\ NoneIn(s, i, o)
  /\ o < e => o \in s

\* IsFirst determines First.
LEMMA FirstIs ==
  ASSUME NEW s, s \subseteq Nat, NEW i \in Nat, NEW e \in Nat, NEW o \in Nat,
         IsFirst(s, i, e, o)
  PROVE  First(s, i, e) = o
<1> DEFINE R == {j \in s : i <= j /\ j < e}
<1>1. R \subseteq Nat
  OBVIOUS
<1>2. CASE R = {}
  <2>1. o = e
    BY <1>2 DEF IsFirst
  <2> QED
    BY <1>2, <2>1 DEF First
<1>3. CASE R # {}
  <2> HIDE DEF R
  <2>1. Min(R) \in R /\ Min(R) \in Nat /\ \A y \in R : Min(R) <= y
    BY <1>1, <1>3, LeastOf
  <2> USE DEF R
  <2>2. o <= Min(R)
    BY <2>1 DEF IsFirst, NoneIn
  <2>3. o \in R
    BY <2>1, <2>2 DEF IsFirst
  <2>4. Min(R) = o
    BY <2>1, <2>2, <2>3
  <2> QED
    BY <1>3, <2>4 DEF First
<1> QED
  BY <1>2, <1>3
-----------------------------------------------------------------------------
LEMMA DivMod ==
  ASSUME NEW x \in Nat
  PROVE  x % 8 \in 0 .. 7 /\ x \div 8 \in Nat /\ x = 8 * (x \div 8) + (x % 8)
OBVIOUS

\* The range of a call, cut into bytes.
LEMMA Cut ==
  ASSUME in \in Inputs
  PROVE  /\ in.a \subseteq Nat /\ in.b \subseteq Nat
         /\ in.fn \in {"find_fs", "diff_identify"}
         /\ in.adr_a \in Nat /\ in.adr_b \in Nat
         /\ in.start \in Nat /\ in.len \in Nat /\ End \in Nat
         /\ End = in.start + in.len
         /\ BitStart \in 0 .. 7 /\ BitEnd \in 0 .. 7 /\ LenByte \in Nat
         /\ in.start \div 8 \in Nat
         /\ in.start = 8 * (in.start \div 8) + BitStart
         /\ BitStart + in.len = 8 * LenByte + BitEnd
<1>1. /\ in.a \subseteq Nat /\ in.b \subseteq Nat
      /\ in.fn \in {"find_fs", "diff_identify"}
      /\ in.adr_a \in Nat /\ in.adr_b \in Nat
      /\ in.start \in Nat /\ in.len \in Nat
  BY InputsAssumption
<1>2. /\ BitStart \in 0 .. 7 /\ in.start \div 8 \in Nat
      /\ in.start = 8 * (in.start \div 8) + BitStart
  BY <1>1, DivMod DEF BitStart
<1>3. BitStart + in.len \in Nat
  BY <1>1, <1>2
<1>4. /\ BitEnd \in 0 .. 7 /\ LenByte \in Nat
      /\ BitStart + in.len = 8 * LenByte + BitEnd
  BY <1>3, DivMod DEF BitEnd, LenByte
<1> QED
  BY <1>1, <1>2, <1>4 DEF End

\* What is searched is the range, or all of it but the last bits.
LEMMA SearchedIs ==
  ASSUME in \in Inputs
  PROVE  /\ Searched \in Nat /\ Searched <= End
         /\ Searched \in {End, End - BitEnd}
         /\ in.fn = "diff_identify" => Searched = End
         /\ LenByte = 0 => Searched = End
<1>1. End \in Nat /\ BitEnd \in 0 .. 7 /\ in.start \in Nat /\ in.len \in Nat
      /\ End = in.start + in.len /\ LenByte \in Nat
      /\ BitStart \in 0 .. 7 /\ in.start \div 8 \in Nat
      /\ in.start = 8 * (in.start \div 8) + BitStart
      /\ BitStart + in.len = 8 * LenByte + BitEnd
  BY Cut
<1>2. End - BitEnd = 8 * (in.start \div 8 + LenByte)
  BY <1>1
<1>3. End - BitEnd \in Nat /\ End - BitEnd <= End
  BY <1>1, <1>2
<1> QED
  BY <1>1, <1>3 DEF Searched

\* A gap is a number of bytes.
LEMMA GapNat ==
  ASSUME NEW adr \in Nat, NEW k \in Nat, NEW w \in {1, 2, 4, 8}
  PROVE  Gap(adr, k, w) \in Nat
<1>1. (adr + k) % w \in 0 .. w - 1
  OBVIOUS
<1>2. (w - ((adr + k) % w)) \in Nat
  BY <1>1
<1> QED
  BY <1>2 DEF Gap
-----------------------------------------------------------------------------
\* Where the scan of str began: nothing is set from there up to out.
Origin == IF in.fn = "find_fs" THEN in.start ELSE pos

\* The difference has been found, and the smaller string is scanned.
Found ==
  /\ IsFirst(Differ(in.a, in.b), in.start, End, pos)
  /\ pos < End
  /\ ret = Sign(pos)
  /\ str = Smaller(pos)

Begun ==
  pc \in {"find_fs", "diff_identify"} =>
    /\ pc = in.fn
    /\ at = in.start \div 8
    /\ out = in.start /\ pos = in.start /\ ret = 0

Matching ==
  pc \in {"plan", "compare"} =>
    /\ in.fn = "diff_identify"
    /\ pos = 8 * at /\ in.start <= pos
    /\ NoneIn(Differ(in.a, in.b), in.start, pos)
    /\ ret = 0
    /\ pc = "plan" => 8 * (at + n) + BitEnd = End

Scanning ==
  pc = "scan" =>
    /\ out = 8 * at /\ Origin <= out
    /\ NoneIn(str, Origin, out)
    /\ in.fn = "diff_identify" => Found

\* Bits are left to a loop only if no bytes follow it.
LastBits == pc \in {"scan", "compare"} /\ rest # None => bits = 0

FoundFirst == pc = "done" /\ in.fn = "find_fs" => IsFirst(in.a, in.start, Searched, out)

FoundDiff ==
  pc = "done" /\ in.fn = "diff_identify" =>
    \/ pos = End /\ ret = 0 /\ NoneIn(Differ(in.a, in.b), in.start, End)
    \/ Found /\ IsFirst(str, pos, End, out)

\* The inductive invariant.
ScanInv ==
  /\ TypeOK
  /\ str \subseteq Nat
  /\ in.fn = "find_fs" => str = in.a
  /\ Begun /\ Matching /\ Scanning /\ LastBits
  /\ Covered
  /\ FoundFirst /\ FoundDiff

LEMMA ScanInvInit == Init => ScanInv
<1> SUFFICES ASSUME Init PROVE ScanInv
  OBVIOUS
<1> USE DEF Init
<1>1. in.fn \in {"find_fs", "diff_identify"} /\ in.a \subseteq Nat
      /\ in.start \in Nat /\ in.start \div 8 \in Nat
  BY Cut
<1>2. TypeOK
  BY <1>1 DEF TypeOK, None
<1>3. Begun /\ Matching /\ Scanning /\ LastBits /\ Covered /\ FoundFirst /\ FoundDiff
  BY <1>1 DEF Begun, Matching, Scanning, LastBits, Covered, FoundFirst, FoundDiff
<1> QED
  BY <1>1, <1>2, <1>3 DEF ScanInv

\* What depends on the call alone does not change.
LEMMA SameCall ==
  ASSUME in' = in
  PROVE  /\ End' = End /\ BitEnd' = BitEnd /\ Searched' = Searched
         /\ \A d : Smaller(d)' = Smaller(d) /\ Sign(d)' = Sign(d)
<1>1. End' = End /\ BitEnd' = BitEnd /\ BitStart' = BitStart /\ LenByte' = LenByte
  BY DEF End, BitEnd, BitStart, LenByte
<1>2. WholeBytes' = WholeBytes /\ FirstWhole' = FirstWhole
  BY <1>1 DEF WholeBytes, FirstWhole
<1>3. Searched' = Searched
  BY <1>1, <1>2 DEF Searched, Gap
<1> QED
  BY <1>1, <1>3 DEF Smaller, Sign

\* A word of zeros is passed, or its first set bit is the first of all.
LEMMA WordStep ==
  ASSUME NEW s, s \subseteq Nat, NEW k \in Nat, NEW w \in Nat, NEW i \in Nat, NEW e \in Nat,
         i <= 8 * k, NoneIn(s, i, 8 * k), 8 * (k + w) <= e
  PROVE  /\ Word(s, k, w) = {} => NoneIn(s, i, 8 * (k + w))
         /\ Word(s, k, w) # {} =>
              /\ Min(Word(s, k, w)) \in Nat
              /\ 8 * k <= Min(Word(s, k, w)) /\ Min(Word(s, k, w)) < 8 * (k + w)
              /\ IsFirst(s, i, e, Min(Word(s, k, w)))
<1>1. ASSUME Word(s, k, w) = {} PROVE NoneIn(s, i, 8 * (k + w))
  <2> SUFFICES ASSUME NEW j \in s, i <= j, j < 8 * (k + w) PROVE FALSE
    BY DEF NoneIn
  <2>1. j \in Nat /\ ~ (j < 8 * k)
    BY DEF NoneIn
  <2>2. j \in Word(s, k, w)
    BY <2>1 DEF Word
  <2> QED
    BY <2>2, <1>1
<1>2. ASSUME Word(s, k, w) # {}
      PROVE  /\ Min(Word(s, k, w)) \in Nat
             /\ 8 * k <= Min(Word(s, k, w)) /\ Min(Word(s, k, w)) < 8 * (k + w)
             /\ IsFirst(s, i, e, Min(Word(s, k, w)))
  <2> DEFINE m == Min(Word(s, k, w))
  <2>1. Word(s, k, w) \subseteq Nat
    BY DEF Word
  <2>2. m \in Word(s, k, w) /\ m \in Nat /\ \A y \in Word(s, k, w) : m <= y
    BY <1>2, <2>1, LeastOf
  <2> HIDE DEF m
  <2>3. m \in s /\ 8 * k <= m /\ m < 8 * (k + w)
    BY <2>2 DEF Word
  <2>4. NoneIn(s, i, m)
    <3> SUFFICES ASSUME NEW j \in s, i <= j, j < m PROVE FALSE
      BY DEF NoneIn
    <3>1. j \in Nat /\ ~ (j < 8 * k)
      BY DEF NoneIn
    <3>2. j \in Word(s, k, w)
      BY <3>1, <2>2, <2>3 DEF Word
    <3> QED
      BY <3>1, <3>2, <2>2
  <2>5. IsFirst(s, i, e, m)
    BY <2>2, <2>3, <2>4 DEF IsFirst
  <2> QED
    BY <2>2, <2>3, <2>5 DEF m
<1> QED
  BY <1>1, <1>2

\* The same for the bits that end at e.
LEMMA BitsStep ==
  ASSUME NEW s, s \subseteq Nat, NEW c \in Nat, NEW i \in Nat, NEW e \in Nat,
         i <= e, NEW B, B = {j \in s : c <= j /\ j < e}, NoneIn(s, i, c)
  PROVE  /\ B = {} => IsFirst(s, i, e, e)
         /\ B # {} /\ i <= c => Min(B) \in Nat /\ c <= Min(B) /\ Min(B) < e /\ IsFirst(s, i, e, Min(B))
<1>1. ASSUME B = {} PROVE IsFirst(s, i, e, e)
  <2>1. NoneIn(s, i, e)
    BY <1>1 DEF NoneIn
  <2> QED
    BY <2>1 DEF IsFirst
<1>2. ASSUME B # {}, i <= c
      PROVE  Min(B) \in Nat /\ c <= Min(B) /\ Min(B) < e /\ IsFirst(s, i, e, Min(B))
  <2>1. Min(B) \in B /\ Min(B) \in Nat /\ \A y \in B : Min(B) <= y
    BY <1>2, LeastOf
  <2>2. Min(B) \in s /\ c <= Min(B) /\ Min(B) < e
    BY <2>1
  <2>3. NoneIn(s, i, Min(B))
    BY <2>1, <2>2 DEF NoneIn
  <2> QED
    BY <1>2, <2>1, <2>2, <2>3 DEF IsFirst
<1> QED
  BY <1>1, <1>2

\* The same for a search that begins there.
LEMMA BitsFrom ==
  ASSUME NEW s, s \subseteq Nat, NEW i \in Nat, NEW e \in Nat, i <= e,
         NEW B, B = {j \in s : i <= j /\ j < e}
  PROVE  /\ B = {} => NoneIn(s, i, e)
         /\ B # {} => Min(B) \in Nat /\ Min(B) < e /\ IsFirst(s, i, e, Min(B))
<1>1. NoneIn(s, i, i)
  <2> SUFFICES ASSUME NEW j \in s, i <= j, j < i PROVE FALSE
    BY DEF NoneIn
  <2> QED
    OBVIOUS
<1>2. i <= i
  OBVIOUS
<1>3. /\ B = {} => IsFirst(s, i, e, e)
      /\ B # {} => Min(B) \in Nat /\ Min(B) < e /\ IsFirst(s, i, e, Min(B))
  BY <1>1, <1>2, BitsStep
<1> QED
  BY <1>3 DEF IsFirst
-----------------------------------------------------------------------------
\* Found speaks of the call, and of where and how the difference was found.
LEMMA SameFound ==
  ASSUME in' = in, pos' = pos, ret' = ret, str' = str
  PROVE  /\ Found' = Found /\ Origin' = Origin
         /\ End' = End /\ BitEnd' = BitEnd /\ Searched' = Searched
<1>1. End' = End /\ BitEnd' = BitEnd /\ Searched' = Searched
  BY SameCall
<1>2. Found' = Found /\ Origin' = Origin
  BY <1>1 DEF Found, Origin, Differ, Smaller, Sign
<1> QED
  BY <1>1, <1>2

\* The conjuncts that a step of the scan does not disturb.
LEMMA ScanFacts ==
  ASSUME ScanInv, pc = "scan"
  PROVE  /\ in \in Inputs /\ at \in Nat /\ n \in Nat /\ out \in Nat /\ pos \in Nat
         /\ width \in {1, 2, 4, 8} /\ bits \in 0 .. 7 /\ rest \in Nat \union {None}
         /\ str \subseteq Nat /\ Origin \in Nat
         /\ out = 8 * at /\ Origin <= out /\ NoneIn(str, Origin, out)
         /\ rest # None => bits = 0
         /\ 8 * (at + n) + bits + (IF rest = None THEN 0 ELSE 8 * rest + BitEnd) = Searched
         /\ Searched \in Nat /\ BitEnd \in 0 .. 7
BY Cut, SearchedIs DEF ScanInv, TypeOK, Scanning, LastBits, Covered, Origin

\* The scan goes on behind bytes that hold no set bit.
LEMMA ScanOn ==
  ASSUME ScanInv, pc = "scan", UNCHANGED <<in, wide, str, pos, ret>>,
         pc' = "scan", TypeOK', Covered', LastBits',
         out' = 8 * at', Origin <= out', NoneIn(str, Origin, out')
  PROVE  ScanInv'
<1>1. Found' = Found /\ Origin' = Origin
  BY SameFound
<1>2. Scanning'
  BY <1>1 DEF ScanInv, Scanning, NoneIn
<1> QED
  BY <1>2, Zenon DEF ScanInv, Begun, Matching, FoundFirst, FoundDiff

\* The scan ends at the first set bit, or at the end.
LEMMA ScanEnds ==
  ASSUME ScanInv, pc = "scan", UNCHANGED <<in, at, wide, str, pos, ret>>, Finish,
         out' \in Nat, IsFirst(str, Origin, Searched, out')
  PROVE  ScanInv'
<1>1. Found' = Found /\ Origin' = Origin /\ End' = End /\ Searched' = Searched
  BY SameFound
<1>2. TypeOK'
  BY DEF ScanInv, TypeOK, Finish
<1>3. pc' = "done"
  BY DEF Finish
<1>4. Begun' /\ Matching' /\ Scanning' /\ LastBits' /\ Covered'
  BY <1>3 DEF Begun, Matching, Scanning, LastBits, Covered
<1>5. FoundFirst'
  BY <1>1, <1>3 DEF ScanInv, FoundFirst, Origin, IsFirst, NoneIn
<1>6. FoundDiff'
  <2>1. in.fn = "diff_identify" => Found'
    BY <1>1 DEF ScanInv, Scanning
  <2>2. in.fn = "diff_identify" => Origin = pos /\ Searched = End
    BY SearchedIs DEF Origin, ScanInv, TypeOK
  <2> QED
    BY <1>1, <2>1, <2>2 DEF FoundDiff, IsFirst, NoneIn
<1> QED
  BY <1>2, <1>4, <1>5, <1>6, Zenon DEF ScanInv

LEMMA ScanStep ==
  ASSUME ScanInv, Scan
  PROVE  ScanInv'
<1>1. pc = "scan" /\ n >= width /\ UNCHANGED <<in, wide, str, pos, ret>>
  BY DEF Scan
<1> DEFINE W == Word(str, at, width)
<1>2. /\ in \in Inputs /\ at \in Nat /\ n \in Nat /\ out \in Nat
      /\ width \in {1, 2, 4, 8} /\ bits \in 0 .. 7 /\ rest \in Nat \union {None}
      /\ str \subseteq Nat /\ Origin \in Nat
      /\ out = 8 * at /\ Origin <= out /\ NoneIn(str, Origin, out)
      /\ rest # None => bits = 0
      /\ 8 * (at + n) + bits + (IF rest = None THEN 0 ELSE 8 * rest + BitEnd) = Searched
  BY <1>1, ScanFacts
<1>3. Searched \in Nat /\ BitEnd \in 0 .. 7
  BY <1>1, ScanFacts
<1>4. 8 * (at + width) <= Searched
  BY <1>1, <1>2, <1>3
<1>5. /\ W = {} => NoneIn(str, Origin, 8 * (at + width))
      /\ W # {} => /\ Min(W) \in Nat /\ 8 * at <= Min(W)
                   /\ IsFirst(str, Origin, Searched, Min(W))
  BY <1>2, <1>3, <1>4, WordStep
<1> HIDE DEF W
<1>6. CASE W = {}
  <2>1. /\ out' = out + 8 * width /\ at' = at + width
        /\ Loop("scan", n - width, bits, width, rest)
    BY <1>6 DEF Scan, W
  <2>2. /\ pc' = "scan" /\ n' = n - width /\ bits' = bits
        /\ width' = width /\ rest' = rest
    BY <2>1 DEF Loop
  <2>3. TypeOK'
    BY <1>1, <1>2, <2>1, <2>2 DEF ScanInv, TypeOK
  <2>4. Searched' = Searched /\ BitEnd' = BitEnd
    BY <1>1, SameCall
  <2>5. Covered'
    BY <1>1, <1>2, <1>3, <2>1, <2>2, <2>4 DEF Covered
  <2>6. LastBits'
    BY <1>2, <2>2 DEF LastBits
  <2>7. out' = 8 * at' /\ Origin <= out' /\ NoneIn(str, Origin, out')
    BY <1>2, <1>5, <1>6, <2>1
  <2> QED
    BY <1>1, <2>2, <2>3, <2>5, <2>6, <2>7, ScanOn
<1>7. CASE W # {}
  <2>1. out' = out + (Min(W) - 8 * at) /\ Finish /\ UNCHANGED at
    BY <1>7 DEF Scan, W
  <2>2. out' = Min(W)
    BY <1>2, <1>5, <1>7, <2>1
  <2> QED
    BY <1>1, <1>5, <1>7, <2>1, <2>2, ScanEnds
<1> QED
  BY <1>6, <1>7

LEMMA NarrowStep ==
  ASSUME ScanInv, Narrow
  PROVE  ScanInv'
<1>1. /\ pc \in {"scan", "compare"} /\ width > 1 /\ width' = width \div 2
      /\ UNCHANGED <<in, pc, at, n, bits, rest, wide, str, out, pos, ret>>
  BY DEF Narrow
<1>2. width' \in {1, 2, 4, 8}
  BY <1>1 DEF ScanInv, TypeOK
<1>3. TypeOK'
  BY <1>1, <1>2 DEF ScanInv, TypeOK
<1>4. /\ Found' = Found /\ Origin' = Origin /\ End' = End
      /\ Searched' = Searched /\ BitEnd' = BitEnd
  BY <1>1, SameFound
<1>5. Begun' /\ Scanning' /\ LastBits' /\ FoundFirst' /\ FoundDiff'
  BY <1>1, <1>4 DEF ScanInv, Begun, Scanning, LastBits, FoundFirst, FoundDiff, NoneIn
<1>6. Matching' /\ Covered'
  BY <1>1, <1>4 DEF ScanInv, Matching, Covered, NoneIn, Differ
<1> QED
  BY <1>1, <1>3, <1>5, <1>6 DEF ScanInv
LEMMA ScanBitsStep ==
  ASSUME ScanInv, ScanBits
  PROVE  ScanInv'
<1> DEFINE L == Lead(str, at, bits)
<1>1. /\ pc = "scan" /\ n = 0 /\ UNCHANGED <<in, at, wide, str, pos, ret>>
      /\ out' = IF L = {} THEN out + bits ELSE out + (Min(L) - 8 * at)
      /\ IF rest = None THEN Finish ELSE Loop("scan", rest, BitEnd, wide, None)
  BY DEF ScanBits
<1>2. /\ in \in Inputs /\ at \in Nat /\ n \in Nat /\ out \in Nat
      /\ width \in {1, 2, 4, 8} /\ bits \in 0 .. 7 /\ rest \in Nat \union {None}
      /\ str \subseteq Nat /\ Origin \in Nat
      /\ out = 8 * at /\ Origin <= out /\ NoneIn(str, Origin, out)
      /\ rest # None => bits = 0
      /\ 8 * (at + n) + bits + (IF rest = None THEN 0 ELSE 8 * rest + BitEnd) = Searched
  BY <1>1, ScanFacts
<1>3. Searched \in Nat /\ BitEnd \in 0 .. 7
  BY <1>1, ScanFacts
<1>4. CASE rest = None
  <2>1. Searched = out + bits
    BY <1>1, <1>2, <1>3, <1>4
  <2>2. L = {j \in str : out <= j /\ j < Searched}
    BY <1>2, <2>1 DEF Lead
  <2>3. Origin <= Searched
    BY <1>2, <1>3, <2>1
  <2> HIDE DEF L
  <2>4. /\ L = {} => IsFirst(str, Origin, Searched, Searched)
        /\ L # {} => Min(L) \in Nat /\ IsFirst(str, Origin, Searched, Min(L))
    <3>1. /\ str \subseteq Nat /\ out \in Nat /\ Origin \in Nat /\ Searched \in Nat
          /\ Origin <= out /\ NoneIn(str, Origin, out)
      BY <1>2, <1>3
    <3> QED
      BY <2>2, <2>3, <3>1, BitsStep
  <2>5. out' \in Nat /\ IsFirst(str, Origin, Searched, out')
    BY <1>1, <1>2, <1>3, <2>1, <2>4
  <2>6. Finish
    BY <1>1, <1>4
  <2> QED
    BY <1>1, <2>5, <2>6, ScanEnds
<1>5. CASE rest # None
  <2>1. L = {}
    <3>1. bits = 0
      BY <1>2, <1>5
    <3> SUFFICES ASSUME NEW j \in str, 8 * at <= j, j < 8 * at + bits PROVE FALSE
      BY DEF Lead
    <3>2. j \in Nat /\ 8 * at \in Nat
      BY <1>2
    <3> QED
      BY <3>1, <3>2
  <2>2. out' = out
    BY <1>1, <1>2, <1>5, <2>1
  <2>3. /\ pc' = "scan" /\ n' = rest /\ bits' = BitEnd
        /\ width' = wide /\ rest' = None
    BY <1>1, <1>5 DEF Loop
  <2>4. TypeOK'
    BY <1>1, <1>2, <1>3, <1>5, <2>2, <2>3 DEF ScanInv, TypeOK
  <2>5. Searched' = Searched /\ BitEnd' = BitEnd
    BY <1>1, SameCall
  <2>6. Covered'
    BY <1>1, <1>2, <1>3, <1>5, <2>3, <2>5 DEF Covered
  <2>7. LastBits'
    BY <2>3 DEF LastBits
  <2>8. out' = 8 * at' /\ Origin <= out' /\ NoneIn(str, Origin, out')
    BY <1>1, <1>2, <2>2
  <2> QED
    BY <1>1, <2>3, <2>4, <2>6, <2>7, <2>8, ScanOn
<1> QED
  BY <1>4, <1>5

LEMMA FindHeadStep ==
  ASSUME ScanInv, FindHead
  PROVE  ScanInv'
<1> DEFINE F == From(Word(str, at, 1), in.start)
           k == IF BitStart = 0 THEN at ELSE at + 1
           left == IF BitStart = 0 THEN LenByte ELSE LenByte - 1
<1>1. /\ pc = "find_fs" /\ UNCHANGED <<in, wide, str, pos, ret>>
      /\ in \in Inputs /\ in.fn = "find_fs" /\ str = in.a
      /\ at = in.start \div 8 /\ out = in.start
      /\ wide \in {1, 2, 4, 8} /\ pos \in Nat /\ ret \in {-1, 0, 1}
      /\ n \in Nat /\ bits \in 0 .. 7 /\ rest \in Nat \union {None} /\ width \in {1, 2, 4, 8}
  BY DEF FindHead, ScanInv, Begun, TypeOK
<1>2. /\ in.a \subseteq Nat /\ in.adr_a \in Nat
      /\ in.start \in Nat /\ in.len \in Nat /\ End \in Nat
      /\ End = in.start + in.len
      /\ BitStart \in 0 .. 7 /\ BitEnd \in 0 .. 7 /\ LenByte \in Nat
      /\ at \in Nat
      /\ in.start = 8 * at + BitStart
      /\ BitStart + in.len = 8 * LenByte + BitEnd
      /\ Searched \in Nat /\ Searched \in {End, End - BitEnd} /\ Searched <= End
      /\ LenByte = 0 => Searched = End
  BY <1>1, Cut, SearchedIs
<1>3. /\ Origin = in.start /\ Origin' = Origin
      /\ Searched' = Searched /\ BitEnd' = BitEnd
  BY <1>1, SameFound DEF Origin
<1>4. ASSUME Finish, at' = at, out' \in Nat, IsFirst(in.a, in.start, Searched, out')
      PROVE  ScanInv'
  <2>1. pc' = "done"
    BY <1>4 DEF Finish
  <2>2. TypeOK'
    BY <1>1, <1>2, <1>4 DEF TypeOK, Finish
  <2>3. Begun' /\ Matching' /\ Scanning' /\ LastBits' /\ Covered'
    BY <2>1 DEF Begun, Matching, Scanning, LastBits, Covered
  <2>4. FoundFirst' /\ FoundDiff'
    BY <1>1, <1>3, <1>4 DEF FoundFirst, FoundDiff, IsFirst, NoneIn
  <2> QED
    BY <1>1, <1>2, <2>2, <2>3, <2>4 DEF ScanInv
<1>5. CASE LenByte = 0
  <2> DEFINE B == F \intersect Lead(str, at, BitEnd)
  <2>1. out' = (IF B = {} THEN End ELSE Min(F)) /\ Finish /\ at' = at
    BY <1>5 DEF FindHead
  <2>2. End = 8 * at + BitEnd /\ in.start <= End /\ Searched = End
    BY <1>2, <1>5
  <2>3. B = {j \in in.a : in.start <= j /\ j < End}
    BY <1>1, <1>2, <2>2 DEF From, Word, Lead
  <2>4. /\ B = {} => NoneIn(in.a, in.start, End)
        /\ B # {} => Min(B) \in Nat /\ Min(B) < End /\ IsFirst(in.a, in.start, End, Min(B))
    <3> HIDE DEF B
    <3>1. in.a \subseteq Nat /\ in.start \in Nat /\ End \in Nat /\ in.start <= End
      BY <1>2, <2>2
    <3> QED
      BY <2>3, <3>1, BitsFrom
  <2>5. CASE B = {}
    <3>1. IsFirst(in.a, in.start, Searched, End)
      BY <1>2, <2>2, <2>4, <2>5 DEF IsFirst
    <3> QED
      BY <1>2, <1>4, <2>1, <2>5, <3>1
  <2>6. CASE B # {}
    <3>1. Min(F) = Min(B)
      <4>1. F \subseteq Nat /\ F # {} /\ B \subseteq Nat
        BY <1>1, <1>2, <2>6 DEF From, Word
      <4>2. /\ Min(F) \in F /\ Min(F) \in Nat /\ \A y \in F : Min(F) <= y
            /\ Min(B) \in B /\ Min(B) \in Nat /\ \A y \in B : Min(B) <= y
        <5> HIDE DEF F, B
        <5> QED
          BY <2>6, <4>1, LeastOf
      <4>3. Min(F) <= Min(B)
        BY <4>2
      <4>4. Min(B) < End
        BY <2>4, <2>6
      <4>5. Min(F) \in B
        <5> HIDE DEF F, B
        <5>1. Min(F) < End
          BY <1>2, <4>2, <4>3, <4>4
        <5>2. Min(F) \in in.a /\ in.start <= Min(F)
          BY <1>1, <4>2 DEF From, Word, F
        <5> QED
          BY <2>3, <5>1, <5>2
      <4>6. Min(B) <= Min(F)
        BY <4>2, <4>5
      <4> QED
        BY <4>2, <4>3, <4>6
    <3> HIDE DEF B, F
    <3>2. out' \in Nat /\ IsFirst(in.a, in.start, Searched, out')
      BY <2>1, <2>2, <2>4, <2>6, <3>1
    <3> QED
      BY <1>4, <2>1, <3>2
  <2> QED
    BY <2>5, <2>6
<1>6. CASE LenByte # 0 /\ BitStart # 0 /\ F # {}
  <2>1. out' = Min(F) /\ Finish /\ at' = at
    BY <1>6 DEF FindHead
  <2> DEFINE e == 8 * (at + 1)
  <2>2. e \in Nat /\ in.start <= e /\ e <= Searched
    BY <1>2, <1>6
  <2>3. F = {j \in in.a : in.start <= j /\ j < e}
    BY <1>1, <1>2 DEF From, Word
  <2> HIDE DEF e, F
  <2>5. Min(F) \in Nat /\ Min(F) < e /\ IsFirst(in.a, in.start, e, Min(F))
    <3>1. in.a \subseteq Nat /\ in.start \in Nat /\ F # {}
      BY <1>2, <1>6
    <3> QED
      BY <2>2, <2>3, <3>1, BitsFrom
  <2>6. IsFirst(in.a, in.start, Searched, Min(F))
    BY <1>2, <2>2, <2>5 DEF IsFirst
  <2> QED
    BY <1>4, <2>1, <2>5, <2>6
<1>7. CASE LenByte # 0 /\ ~ (BitStart # 0 /\ F # {})
  <2>1. /\ out' = IF BitStart = 0 THEN out ELSE out + 8 - BitStart
        /\ at' = k
        /\ ToAligned("scan", Gap(in.adr_a, k, 8), left, 8, 0)
    BY <1>7 DEF FindHead
  <2>2. /\ k \in Nat /\ left \in Nat /\ 8 * (k + left) + BitEnd = End
        /\ out' = 8 * k /\ in.start <= 8 * k
    <3>1. CASE BitStart = 0
      <4>1. k = at /\ left = LenByte /\ out' = in.start
        BY <1>1, <2>1, <3>1
      <4> QED
        BY <1>2, <3>1, <4>1
    <3>2. CASE BitStart # 0
      <4>1. k = at + 1 /\ left = LenByte - 1 /\ out' = in.start + 8 - BitStart
        BY <1>1, <2>1, <3>2
      <4>2. LenByte - 1 \in Nat
        BY <1>2, <1>7
      <4> QED
        BY <1>2, <3>2, <4>1, <4>2
    <3> QED
      BY <3>1, <3>2
  <2>3. NoneIn(str, in.start, 8 * k)
    <3>1. CASE BitStart = 0
      BY <1>1, <1>2, <3>1 DEF NoneIn
    <3>2. CASE BitStart # 0
      <4>1. F = {} /\ k = at + 1
        BY <1>7, <3>2
      <4> SUFFICES ASSUME NEW j \in str, in.start <= j, j < 8 * (at + 1) PROVE FALSE
        BY <4>1 DEF NoneIn
      <4>2. j \in Nat /\ 8 * at <= j
        BY <1>1, <1>2
      <4>3. j \in F
        BY <1>1, <1>2, <4>2 DEF From, Word
      <4> QED
        BY <4>1, <4>3
    <3> QED
      BY <3>1, <3>2
  <2>10. k = FirstWhole /\ left = WholeBytes
    BY <1>1 DEF FirstWhole, WholeBytes
  <2> HIDE DEF k, left, F
  <2>4. Gap(in.adr_a, k, 8) \in Nat
    BY <1>2, <2>2, GapNat
  <2>5. /\ pc' = "scan" /\ n' \in Nat /\ bits' \in 0 .. 7 /\ rest' \in Nat \union {None}
        /\ width' \in {1, 2, 4, 8}
        /\ rest' # None => bits' = 0
        /\ 8 * (k + n') + bits' + (IF rest' = None THEN 0 ELSE 8 * rest' + BitEnd) = Searched
    <3> DEFINE gap == Gap(in.adr_a, k, 8)
    <3>1. Searched = IF left < gap THEN End - BitEnd ELSE End
      BY <1>1, <1>7, <2>10 DEF Searched
    <3>2. gap \in Nat /\ ToAligned("scan", gap, left, 8, 0)
      BY <2>1, <2>4
    <3> HIDE DEF gap
    <3>3. 8 * (k + left) + (IF left < gap THEN 0 ELSE BitEnd) = Searched
      BY <1>2, <2>2, <3>1, <3>2
    <3>4. k \in Nat /\ left \in Nat /\ BitEnd \in 0 .. 7 /\ Searched \in Nat /\ 8 \in {1, 2, 4, 8}
      BY <1>2, <2>2
    <3>5. CASE gap = 0
      BY <3>2, <3>3, <3>4, <3>5 DEF ToAligned, Loop, None
    <3>6. CASE gap # 0 /\ left < gap
      BY <3>2, <3>3, <3>4, <3>6 DEF ToAligned, Loop, None
    <3>7. CASE gap # 0 /\ ~ (left < gap)
      BY <3>2, <3>3, <3>4, <3>7 DEF ToAligned, Loop, None
    <3> QED
      BY <3>5, <3>6, <3>7
  <2>6. TypeOK'
    BY <1>1, <2>1, <2>2, <2>5 DEF TypeOK
  <2>7. Covered'
    BY <1>3, <2>1, <2>5 DEF Covered
  <2>8. Scanning'
    BY <1>1, <1>3, <2>1, <2>2, <2>3 DEF Scanning, NoneIn
  <2>9. Begun' /\ Matching' /\ LastBits' /\ FoundFirst' /\ FoundDiff'
    BY <2>5 DEF Begun, Matching, LastBits, FoundFirst, FoundDiff
  <2> QED
    BY <1>1, <1>2, <2>6, <2>7, <2>8, <2>9 DEF ScanInv
<1> QED
  BY <1>5, <1>6, <1>7
-----------------------------------------------------------------------------
\* Found, once pos, ret and str are set to the first difference.
LEMMA FoundNow ==
  ASSUME in' = in, ret' = Sign(pos'), str' = Smaller(pos'),
         IsFirst(Differ(in.a, in.b), in.start, End, pos'), pos' < End
  PROVE  Found'
BY SameCall DEF Found, Sign, Smaller, IsFirst, NoneIn, Differ

\* The smaller string has no bit left before e, or its next one is known.
LEMMA SmallerBits ==
  ASSUME in \in Inputs, NEW d \in Nat, NEW e \in Nat, d <= e, e <= End,
         NEW B, B = {i \in Smaller(d) : d <= i /\ i < e}
  PROVE  /\ Smaller(d) \subseteq Nat
         /\ B = {} => NoneIn(Smaller(d), d, e)
         /\ B # {} => Min(B) \in Nat /\ IsFirst(Smaller(d), d, End, Min(B))
<1>1. Smaller(d) \subseteq Nat /\ End \in Nat
  BY Cut DEF Smaller
<1> DEFINE s == Smaller(d)
<1>2. B = {i \in s : d <= i /\ i < e} /\ s \subseteq Nat
  BY <1>1
<1> HIDE DEF s
<1>3. /\ B = {} => NoneIn(s, d, e)
      /\ B # {} => Min(B) \in Nat /\ Min(B) < e /\ IsFirst(s, d, e, Min(B))
  BY <1>2, BitsFrom
<1>4. B # {} => IsFirst(s, d, End, Min(B))
  BY <1>1, <1>3 DEF IsFirst
<1> QED
  BY <1>1, <1>3, <1>4 DEF s

\* Both strings are equal up to the pointers, and the comparison goes on.
LEMMA MatchOn ==
  ASSUME ScanInv, in.fn = "diff_identify", in' = in, str' = str, ret' = 0,
         pc' \in {"plan", "compare"}, TypeOK', Covered', LastBits',
         pc' = "plan" => 8 * (at' + n') + BitEnd = End,
         pos' = 8 * at', in.start <= pos', NoneIn(Differ(in.a, in.b), in.start, pos')
  PROVE  ScanInv'
<1>1. End' = End /\ BitEnd' = BitEnd
  BY SameCall
<1>2. Matching'
  BY <1>1 DEF Matching, NoneIn, Differ
<1>3. Begun' /\ Scanning' /\ FoundFirst' /\ FoundDiff'
  BY DEF Begun, Scanning, FoundFirst, FoundDiff
<1> QED
  BY <1>2, <1>3 DEF ScanInv

\* Both strings are equal in the whole range.
LEMMA MatchEnds ==
  ASSUME ScanInv, in.fn = "diff_identify", in' = in, str' = str, ret' = 0,
         pc' = "done", TypeOK',
         pos' = End, NoneIn(Differ(in.a, in.b), in.start, End)
  PROVE  ScanInv'
<1>1. End' = End
  BY SameCall
<1>2. FoundDiff'
  BY <1>1 DEF FoundDiff, NoneIn, Differ
<1>3. Begun' /\ Matching' /\ Scanning' /\ LastBits' /\ Covered' /\ FoundFirst'
  BY DEF Begun, Matching, Scanning, LastBits, Covered, FoundFirst
<1> QED
  BY <1>2, <1>3 DEF ScanInv

\* The difference has been found, and the smaller string is scanned on.
LEMMA DiffScans ==
  ASSUME ScanInv, in.fn = "diff_identify", in' = in, str' \subseteq Nat,
         pc' = "scan", TypeOK', Covered', LastBits', Found',
         out' = 8 * at', pos' <= out', NoneIn(str', pos', out')
  PROVE  ScanInv'
<1>1. Origin' = pos'
  BY DEF Origin
<1>2. Scanning'
  BY <1>1 DEF Scanning, NoneIn
<1>3. Begun' /\ Matching' /\ FoundFirst' /\ FoundDiff'
  BY DEF Begun, Matching, FoundFirst, FoundDiff
<1> QED
  BY <1>2, <1>3 DEF ScanInv

\* The difference and the smaller string's next bit have been found.
LEMMA DiffEnds ==
  ASSUME ScanInv, in.fn = "diff_identify", in' = in, str' \subseteq Nat,
         pc' = "done", TypeOK', Found', IsFirst(str', pos', End, out')
  PROVE  ScanInv'
<1>1. End' = End
  BY SameCall
<1>2. FoundDiff'
  BY <1>1 DEF FoundDiff, IsFirst, NoneIn
<1>3. Begun' /\ Matching' /\ Scanning' /\ LastBits' /\ Covered' /\ FoundFirst'
  BY DEF Begun, Matching, Scanning, LastBits, Covered, FoundFirst
<1> QED
  BY <1>2, <1>3 DEF ScanInv
\* A mismatch at pos', in a byte whose bits end at e.
LEMMA MismatchStep ==
  ASSUME ScanInv, in.fn = "diff_identify", in' = in, wide' = wide,
         pos' \in Nat, IsFirst(Differ(in.a, in.b), in.start, End, pos'), pos' < End,
         ret' = Sign(pos'), str' = Smaller(pos'),
         NEW e \in Nat, pos' <= e, e <= End,
         NEW B, B = {i \in Smaller(pos') : pos' <= i /\ i < e}
  PROVE  /\ Found' /\ str' \subseteq Nat /\ ret' \in {-1, 0, 1}
         /\ B = {} => NoneIn(str', pos', e)
         /\ B # {} /\ out' = Min(B) /\ Finish /\ at' = at => ScanInv'
         /\ e = End /\ out' = e /\ B = {} /\ Finish /\ at' = at => ScanInv'
<1>1. in \in Inputs /\ End \in Nat
  BY Cut DEF ScanInv, TypeOK
<1>2. Found'
  BY FoundNow
<1>3. ret' \in {-1, 0, 1}
  BY DEF Sign
<1> DEFINE d == pos'
<1>4. d \in Nat /\ d <= e /\ B = {i \in Smaller(d) : d <= i /\ i < e}
  OBVIOUS
<1>5. /\ Smaller(d) \subseteq Nat
      /\ B = {} => NoneIn(Smaller(d), d, e)
      /\ B # {} => Min(B) \in Nat /\ IsFirst(Smaller(d), d, End, Min(B))
  <2> HIDE DEF d
  <2> QED
    BY <1>1, <1>4, SmallerBits
<1>6. str' \subseteq Nat /\ (B = {} => NoneIn(str', pos', e))
  BY <1>5
<1>7. ASSUME Finish, at' = at, out' \in Nat, IsFirst(str', pos', End, out') PROVE ScanInv'
  <2>1. pc' = "done"
    BY <1>7 DEF Finish
  <2>2. TypeOK'
    BY <1>3, <1>7 DEF ScanInv, TypeOK, Finish
  <2> QED
    BY <1>2, <1>6, <1>7, <2>1, <2>2, DiffEnds
<1>8. ASSUME B # {}, out' = Min(B), Finish, at' = at PROVE ScanInv'
  <2>1. out' \in Nat /\ IsFirst(str', pos', End, out')
    BY <1>5, <1>8
  <2> QED
    BY <1>7, <1>8, <2>1
<1>9. ASSUME e = End, out' = e, B = {}, Finish, at' = at PROVE ScanInv'
  <2>1. IsFirst(str', pos', End, out')
    BY <1>1, <1>6, <1>9 DEF IsFirst
  <2> QED
    BY <1>1, <1>7, <1>9, <2>1
<1> QED
  BY <1>2, <1>3, <1>6, <1>8, <1>9

\* diff_identify searches the whole range.
LEMMA DiffSearched ==
  ASSUME in \in Inputs, in.fn = "diff_identify", in' = in
  PROVE  End' = End /\ BitEnd' = BitEnd /\ Searched' = End
BY SameCall, SearchedIs

\* The conjuncts that a step of the comparison does not disturb.
LEMMA MatchFacts ==
  ASSUME ScanInv, pc \in {"plan", "compare"}
  PROVE  /\ in \in Inputs /\ at \in Nat /\ n \in Nat /\ out \in Nat /\ pos \in Nat
         /\ {width, wide} \subseteq {1, 2, 4, 8} /\ bits \in 0 .. 7 /\ rest \in Nat \union {None}
         /\ str \subseteq Nat /\ Differ(in.a, in.b) \subseteq Nat
         /\ in.start \in Nat /\ End \in Nat /\ BitEnd \in 0 .. 7
         /\ in.fn = "diff_identify" /\ ret = 0
         /\ pos = 8 * at /\ in.start <= pos /\ NoneIn(Differ(in.a, in.b), in.start, pos)
         /\ pc = "plan" => 8 * (at + n) + BitEnd = End
         /\ pc = "compare" => (rest # None => bits = 0)
         /\ pc = "compare" => 8 * (at + n) + bits + (IF rest = None THEN 0 ELSE 8 * rest + BitEnd) = End
<1>1. in \in Inputs
  BY DEF ScanInv, TypeOK
<1>2. Differ(in.a, in.b) \subseteq Nat
  BY <1>1, Cut DEF Differ
<1> QED
  BY <1>1, <1>2, Cut, SearchedIs DEF ScanInv, TypeOK, Matching, LastBits, Covered

LEMMA CompareWordStep ==
  ASSUME ScanInv, CompareWord
  PROVE  ScanInv'
<1>1. pc = "compare" /\ n >= width /\ UNCHANGED <<in, wide, str, out, ret>>
  BY DEF CompareWord
<1> DEFINE D == Differ(in.a, in.b)
<1>2. /\ in \in Inputs /\ at \in Nat /\ n \in Nat /\ out \in Nat /\ pos \in Nat
      /\ {width, wide} \subseteq {1, 2, 4, 8} /\ bits \in 0 .. 7 /\ rest \in Nat \union {None}
      /\ str \subseteq Nat /\ D \subseteq Nat
      /\ in.start \in Nat /\ End \in Nat /\ BitEnd \in 0 .. 7
      /\ in.fn = "diff_identify" /\ ret = 0
      /\ pos = 8 * at /\ in.start <= pos /\ NoneIn(D, in.start, pos)
      /\ rest # None => bits = 0
      /\ 8 * (at + n) + bits + (IF rest = None THEN 0 ELSE 8 * rest + BitEnd) = End
  BY <1>1, MatchFacts
<1>3. End' = End /\ BitEnd' = BitEnd /\ Searched' = End
  BY <1>1, <1>2, DiffSearched
<1>4. CASE Word(in.a, at, width) = Word(in.b, at, width)
  <2>1. /\ pos' = pos + 8 * width /\ at' = at + width
        /\ pc' = "compare" /\ n' = n - width /\ bits' = bits /\ width' = width /\ rest' = rest
    BY <1>4 DEF CompareWord, Loop
  <2>2. Word(D, at, width) = {}
    BY <1>4 DEF Word, Differ
  <2>3. 8 * (at + width) <= End /\ in.start <= 8 * at
    BY <1>1, <1>2
  <2>4. NoneIn(D, in.start, 8 * (at + width))
    <3> HIDE DEF D
    <3>1. D \subseteq Nat /\ at \in Nat /\ width \in Nat /\ NoneIn(D, in.start, 8 * at)
      BY <1>2
    <3> QED
      BY <1>2, <2>2, <2>3, <3>1, WordStep
  <2>5. pos' = 8 * at' /\ in.start <= pos' /\ NoneIn(D, in.start, pos')
    BY <1>2, <2>1, <2>4
  <2>6. TypeOK'
    BY <1>1, <1>2, <2>1 DEF TypeOK
  <2>7. Covered' /\ LastBits'
    BY <1>1, <1>2, <1>3, <2>1 DEF Covered, LastBits
  <2> QED
    BY <1>1, <1>2, <2>1, <2>5, <2>6, <2>7, MatchOn
<1>5. CASE Word(in.a, at, width) # Word(in.b, at, width)
  <2>1. /\ pos' = pos /\ at' = at
        /\ pc' = "compare" /\ n' = n /\ bits' = bits /\ width' = 1 /\ rest' = rest
    BY <1>5 DEF CompareWord, Loop
  <2>2. TypeOK'
    BY <1>1, <1>2, <2>1 DEF TypeOK
  <2>3. Covered' /\ LastBits'
    BY <1>1, <1>2, <1>3, <2>1 DEF Covered, LastBits
  <2> QED
    BY <1>1, <1>2, <2>1, <2>2, <2>3, MatchOn
<1> QED
  BY <1>4, <1>5
LEMMA CompareByteStep ==
  ASSUME ScanInv, CompareByte
  PROVE  ScanInv'
<1> DEFINE D == Differ(in.a, in.b)
           d == Min(Word(D, at, 1))
           e == pos + 8
           B == {i \in Smaller(d) : d <= i /\ i < e}
<1>1. pc = "compare" /\ n >= 1 /\ width = 1 /\ Word(D, at, 1) # {} /\ UNCHANGED <<in, wide>>
  BY DEF CompareByte
<1>2. /\ in \in Inputs /\ at \in Nat /\ n \in Nat /\ out \in Nat /\ pos \in Nat
      /\ {width, wide} \subseteq {1, 2, 4, 8} /\ bits \in 0 .. 7 /\ rest \in Nat \union {None}
      /\ str \subseteq Nat /\ D \subseteq Nat
      /\ in.start \in Nat /\ End \in Nat /\ BitEnd \in 0 .. 7
      /\ in.fn = "diff_identify" /\ ret = 0
      /\ pos = 8 * at /\ in.start <= pos /\ NoneIn(D, in.start, pos)
      /\ rest # None => bits = 0
      /\ 8 * (at + n) + bits + (IF rest = None THEN 0 ELSE 8 * rest + BitEnd) = End
  BY <1>1, MatchFacts
<1>3. 8 * (at + 1) <= End /\ e = 8 * (at + 1) /\ in.start <= 8 * at
  BY <1>1, <1>2
<1>4. /\ d \in Nat /\ d < 8 * (at + 1) /\ IsFirst(D, in.start, End, d)
  <2> HIDE DEF D
  <2>1. /\ D \subseteq Nat /\ at \in Nat /\ 1 \in Nat /\ NoneIn(D, in.start, 8 * at)
        /\ in.start \in Nat /\ End \in Nat
    BY <1>2
  <2> QED
    BY <1>1, <1>3, <2>1, WordStep
<1>5. /\ pos' = d /\ ret' = Sign(d) /\ str' = Smaller(d)
      /\ IF B # {} THEN out' = Min(B) /\ Finish /\ at' = at
         ELSE out' = e /\ at' = at + 1 /\ Loop("scan", n - 1, bits, 1, rest)
  BY DEF CompareByte, Mismatch
<1> HIDE DEF D, d
<1>6. /\ Found' /\ str' \subseteq Nat /\ ret' \in {-1, 0, 1}
      /\ B = {} => NoneIn(str', pos', e)
      /\ B # {} /\ out' = Min(B) /\ Finish /\ at' = at => ScanInv'
  <2>1. d < End /\ d <= e /\ e <= End /\ e \in Nat
    BY <1>2, <1>3, <1>4
  <2>2. IsFirst(Differ(in.a, in.b), in.start, End, pos')
    BY <1>4, <1>5 DEF D
  <2>3. B = {i \in Smaller(pos') : pos' <= i /\ i < e}
    BY <1>3, <1>5
  <2>4. pos' \in Nat /\ pos' < End /\ pos' <= e /\ ret' = Sign(pos') /\ str' = Smaller(pos')
    BY <1>4, <1>5, <2>1
  <2> HIDE DEF B, e
  <2> QED
    BY <1>1, <1>2, <2>1, <2>2, <2>3, <2>4, MismatchStep
<1>7. CASE B # {}
  BY <1>5, <1>6, <1>7
<1>8. CASE B = {}
  <2>1. /\ out' = e /\ at' = at + 1
        /\ pc' = "scan" /\ n' = n - 1 /\ bits' = bits /\ width' = 1 /\ rest' = rest
    BY <1>5, <1>8 DEF Loop
  <2>2. TypeOK'
    BY <1>1, <1>2, <1>4, <1>5, <1>6, <2>1 DEF TypeOK
  <2>3. End' = End /\ BitEnd' = BitEnd /\ Searched' = End
    BY <1>1, <1>2, DiffSearched
  <2>4. Covered' /\ LastBits'
    BY <1>1, <1>2, <2>1, <2>3 DEF Covered, LastBits
  <2>5. out' = 8 * at' /\ pos' <= out' /\ NoneIn(str', pos', out')
    BY <1>2, <1>3, <1>4, <1>5, <1>6, <1>8, <2>1
  <2> QED
    BY <1>1, <1>2, <1>6, <2>1, <2>2, <2>4, <2>5, DiffScans
<1> QED
  BY <1>7, <1>8

LEMMA CompareBitsStep ==
  ASSUME ScanInv, CompareBits
  PROVE  ScanInv'
<1> DEFINE D == Differ(in.a, in.b)
           L == Lead(D, at, bits)
           d == Min(L)
           e == pos + bits
           B == {i \in Smaller(d) : d <= i /\ i < e}
<1>1. pc = "compare" /\ n = 0 /\ width = 1 /\ UNCHANGED <<in, wide>>
  BY DEF CompareBits
<1>2. /\ in \in Inputs /\ at \in Nat /\ out \in Nat /\ pos \in Nat
      /\ {width, wide} \subseteq {1, 2, 4, 8} /\ bits \in 0 .. 7 /\ rest \in Nat \union {None}
      /\ str \subseteq Nat /\ D \subseteq Nat
      /\ in.start \in Nat /\ End \in Nat /\ BitEnd \in 0 .. 7
      /\ in.fn = "diff_identify" /\ ret = 0
      /\ pos = 8 * at /\ in.start <= pos /\ NoneIn(D, in.start, pos)
      /\ rest # None => bits = 0
      /\ 8 * at + bits + (IF rest = None THEN 0 ELSE 8 * rest + BitEnd) = End
  BY <1>1, MatchFacts
<1>3. L = {j \in D : pos <= j /\ j < e} /\ e \in Nat /\ in.start <= e
  BY <1>2 DEF Lead
<1>4. /\ L = {} => NoneIn(D, in.start, e)
      /\ L # {} => d \in Nat /\ d < e /\ IsFirst(D, in.start, e, d)
  <2> HIDE DEF D, L, e
  <2>1. /\ D \subseteq Nat /\ pos \in Nat /\ in.start \in Nat /\ in.start <= pos
        /\ NoneIn(D, in.start, pos)
    BY <1>2
  <2>2. /\ L = {} => IsFirst(D, in.start, e, e)
        /\ L # {} => Min(L) \in Nat /\ Min(L) < e /\ IsFirst(D, in.start, e, Min(L))
    BY <1>3, <2>1, BitsStep
  <2> QED
    BY <2>2 DEF IsFirst
<1>5. End' = End /\ BitEnd' = BitEnd /\ Searched' = End
  BY <1>1, <1>2, DiffSearched
<1>6. CASE L # {}
  <2>1. /\ pos' = d /\ ret' = Sign(d) /\ str' = Smaller(d)
        /\ IF B # {} THEN out' = Min(B) /\ Finish /\ at' = at
           ELSE out' = e /\ Finish /\ at' = at
    BY <1>6 DEF CompareBits, Mismatch
  <2>2. bits # 0
    <3> SUFFICES ASSUME bits = 0 PROVE FALSE
      OBVIOUS
    <3>1. PICK j \in L : TRUE
      BY <1>6
    <3>2. j \in Nat /\ pos <= j /\ j < pos
      BY <1>2, <1>3, <3>1
    <3> QED
      BY <1>2, <3>2
  <2>3. e = End
    BY <1>2, <2>2
  <2>4. d \in Nat /\ d < e /\ IsFirst(D, in.start, e, d)
    BY <1>4, <1>6
  <2>5. IsFirst(Differ(in.a, in.b), in.start, End, pos') /\ pos' \in Nat /\ pos' < End
    BY <2>1, <2>3, <2>4
  <2> HIDE DEF d, L
  <2>6. B = {i \in Smaller(pos') : pos' <= i /\ i < e} /\ pos' <= e /\ e <= End
        /\ ret' = Sign(pos') /\ str' = Smaller(pos')
    BY <1>2, <1>3, <2>1, <2>3, <2>4
  <2> HIDE DEF B, e
  <2> QED
    BY <1>1, <1>2, <1>3, <2>1, <2>3, <2>5, <2>6, MismatchStep
<1>7. CASE L = {}
  <2>1. /\ pos' = pos + bits
        /\ out' = IF bits = 0 THEN out ELSE pos + bits
        /\ IF rest = None THEN Finish ELSE Loop("compare", rest, BitEnd, IF wide = 4 THEN 8 ELSE wide, None)
        /\ UNCHANGED <<at, str, ret>>
    BY <1>7 DEF CompareBits
  <2>2. out' \in Nat /\ pos' \in Nat
    BY <1>2, <2>1
  <2>3. CASE rest = None
    <3>1. pos' = End
      BY <1>2, <2>1, <2>3
    <3>2. NoneIn(D, in.start, End)
      BY <1>4, <1>7, <2>1, <3>1
    <3>3. TypeOK' /\ pc' = "done"
      BY <1>1, <1>2, <2>1, <2>2, <2>3 DEF ScanInv, TypeOK, Finish
    <3> QED
      BY <1>1, <1>2, <2>1, <3>1, <3>2, <3>3, MatchEnds
  <2>4. CASE rest # None
    <3>1. /\ pc' = "compare" /\ n' = rest /\ bits' = BitEnd /\ rest' = None
          /\ width' \in {1, 2, 4, 8}
      BY <1>2, <2>1, <2>4 DEF Loop
    <3>2. TypeOK'
      BY <1>1, <1>2, <2>1, <2>2, <2>4, <3>1 DEF TypeOK
    <3>3. bits = 0 /\ rest \in Nat
      BY <1>2, <2>4
    <3>4. Covered' /\ LastBits'
      BY <1>1, <1>2, <1>5, <2>1, <3>1, <3>3 DEF Covered, LastBits, None
    <3>5. pos' = 8 * at' /\ in.start <= pos' /\ NoneIn(D, in.start, pos')
      BY <1>2, <2>1, <3>3
    <3> QED
      BY <1>1, <1>2, <2>1, <3>1, <3>2, <3>4, <3>5, MatchOn
  <2> QED
    BY <2>3, <2>4
<1> QED
  BY <1>6, <1>7
LEMMA PlanStep ==
  ASSUME ScanInv, Plan
  PROVE  ScanInv'
<1> DEFINE D == Differ(in.a, in.b)
           fits == {w \in {1, 2, 4, 8} : (in.adr_a + at) % w = (in.adr_b + at) % w}
           m == Max(fits)
           gap == Gap(in.adr_a, at, m)
<1>1. /\ pc = "plan" /\ UNCHANGED <<in, at, str, out, pos, ret>>
      /\ ToAligned("compare", gap, n, m, BitEnd) /\ wide' = m
  BY DEF Plan
<1>2. /\ in \in Inputs /\ at \in Nat /\ n \in Nat /\ out \in Nat /\ pos \in Nat
      /\ in.start \in Nat /\ End \in Nat /\ BitEnd \in 0 .. 7
      /\ in.fn = "diff_identify" /\ ret = 0
      /\ pos = 8 * at /\ in.start <= pos /\ NoneIn(D, in.start, pos)
      /\ 8 * (at + n) + BitEnd = End
  BY <1>1, MatchFacts
<1>3. in.adr_a \in Nat /\ in.adr_b \in Nat
  BY <1>2, Cut
<1>4. m \in {1, 2, 4, 8}
  <2>1. 1 \in fits
    BY <1>2, <1>3
  <2>2. fits \subseteq {1, 2, 4, 8}
    OBVIOUS
  <2> HIDE DEF fits
  <2>3. \E x \in fits : \A y \in fits : x >= y
    <3>1. CASE 8 \in fits
      BY <2>2, <3>1
    <3>2. CASE 8 \notin fits /\ 4 \in fits
      BY <2>2, <3>2
    <3>3. CASE 8 \notin fits /\ 4 \notin fits /\ 2 \in fits
      BY <2>2, <3>3
    <3>4. CASE 8 \notin fits /\ 4 \notin fits /\ 2 \notin fits
      BY <2>1, <2>2, <3>4
    <3> QED
      BY <3>1, <3>2, <3>3, <3>4
  <2>4. m \in fits
    BY <2>3 DEF Max
  <2> QED
    BY <2>2, <2>4
<1> HIDE DEF m
<1>5. gap \in Nat
  BY <1>2, <1>3, <1>4, GapNat
<1> HIDE DEF gap
<1>6. /\ pc' = "compare" /\ n' \in Nat /\ bits' \in 0 .. 7 /\ rest' \in Nat \union {None}
      /\ width' \in {1, 2, 4, 8}
      /\ rest' # None => bits' = 0
      /\ 8 * (at + n') + bits' + (IF rest' = None THEN 0 ELSE 8 * rest' + BitEnd) = End
  <2>1. CASE gap = 0
    BY <1>1, <1>2, <1>4, <2>1 DEF ToAligned, Loop, None
  <2>2. CASE gap # 0 /\ n < gap
    BY <1>1, <1>2, <1>4, <1>5, <2>2 DEF ToAligned, Loop, None
  <2>3. CASE gap # 0 /\ ~ (n < gap)
    BY <1>1, <1>2, <1>4, <1>5, <2>3 DEF ToAligned, Loop, None
  <2> QED
    BY <2>1, <2>2, <2>3
<1>7. TypeOK'
  BY <1>1, <1>2, <1>4, <1>6 DEF TypeOK
<1>8. End' = End /\ BitEnd' = BitEnd /\ Searched' = End
  BY <1>1, <1>2, DiffSearched
<1>9. Covered' /\ LastBits'
  BY <1>1, <1>6, <1>8 DEF Covered, LastBits
<1> QED
  BY <1>1, <1>2, <1>6, <1>7, <1>9, MatchOn

\* A range that begins at bit b of byte k, with l whole bytes and c bits more.
LEMMA HeadCut ==
  ASSUME NEW st \in Nat, NEW ln \in Nat, NEW k \in Nat, NEW l \in Nat,
         NEW b \in 0 .. 7, NEW c \in 0 .. 7, st = 8 * k + b, b + ln = 8 * l + c
  PROVE  /\ 8 * (k + l) + c = st + ln
         /\ l # 0 => /\ st <= 8 * (k + 1) /\ 8 * (k + 1) <= st + ln /\ l - 1 \in Nat
                     /\ 8 * ((k + 1) + (l - 1)) + c = st + ln
OBVIOUS

LEMMA DiffHeadStep ==
  ASSUME ScanInv, DiffHead
  PROVE  ScanInv'
<1> DEFINE D == Differ(in.a, in.b)
           e == IF LenByte = 0 THEN End ELSE 8 * (at + 1)
           L == {i \in D : in.start <= i /\ i < e}
           d == Min(L)
           B == {i \in Smaller(d) : d <= i /\ i < e}
           gap == Gap(IF d \in in.a THEN in.adr_b ELSE in.adr_a, at + 1, 8)
<1> HIDE DEF D
<1>0. at = in.start \div 8
  BY DEF DiffHead, ScanInv, Begun
<1>1. /\ UNCHANGED <<in, wide>> /\ TypeOK
      /\ in \in Inputs /\ in.fn = "diff_identify" /\ ret = 0
      /\ out = in.start /\ pos = in.start /\ str \subseteq Nat
      /\ at \in Nat /\ out \in Nat /\ n \in Nat
  BY DEF DiffHead, ScanInv, Begun, TypeOK
<1>2. /\ in.adr_a \in Nat /\ in.adr_b \in Nat
      /\ in.start \in Nat /\ in.len \in Nat /\ End \in Nat
      /\ End = in.start + in.len
      /\ BitEnd \in 0 .. 7 /\ LenByte \in Nat
      /\ D \subseteq Nat
  BY <1>1, Cut DEF Differ, D
<1>3. End' = End /\ BitEnd' = BitEnd /\ Searched' = End
  BY <1>1, <1>2, DiffSearched
<1>4. /\ 8 * (at + LenByte) + BitEnd = End
      /\ BitStart = 0 => in.start = 8 * at
      /\ LenByte # 0 => /\ in.start <= 8 * (at + 1) /\ 8 * (at + 1) <= End /\ LenByte - 1 \in Nat
                        /\ 8 * ((at + 1) + (LenByte - 1)) + BitEnd = End
  <2>1. /\ BitStart \in 0 .. 7 /\ BitEnd \in 0 .. 7 /\ LenByte \in Nat
        /\ in.start \in Nat /\ in.len \in Nat /\ at \in Nat
        /\ in.start = 8 * at + BitStart
        /\ BitStart + in.len = 8 * LenByte + BitEnd
    BY <1>0, <1>1, Cut
  <2>2. BitStart = 0 => in.start = 8 * at
    BY <2>1
  <2> QED
    BY <1>2, <2>1, <2>2, HeadCut
<1>9. e \in Nat /\ in.start <= e /\ e <= End
  BY <1>1, <1>2, <1>4
<1>5. NoneIn(D, in.start, in.start)
  BY <1>2 DEF NoneIn
<1>6. CASE LenByte # 0 /\ BitStart = 0
  <2>1. /\ pc' = "plan" /\ n' = LenByte /\ bits' = 0 /\ width' = 1 /\ rest' = None
        /\ UNCHANGED <<at, str, out, pos, ret>>
    BY <1>6 DEF DiffHead, Loop
  <2>2. TypeOK'
    BY <1>1, <1>2, <2>1 DEF TypeOK
  <2>3. Covered' /\ LastBits'
    BY <2>1 DEF Covered, LastBits
  <2>4. 8 * (at' + n') + BitEnd = End /\ pos' = 8 * at' /\ in.start <= pos' /\ pos' = in.start
    BY <1>1, <1>2, <1>4, <1>6, <2>1
  <2>5. NoneIn(D, in.start, pos') /\ ret' = 0 /\ str' = str
    BY <1>1, <1>5, <2>1, <2>4
  <2> QED
    BY <1>1, <2>1, <2>2, <2>3, <2>4, <2>5, MatchOn DEF D
<1>7. CASE ~ (LenByte # 0 /\ BitStart = 0) /\ L # {}
  <2>1. /\ pos' = d /\ ret' = Sign(d) /\ str' = Smaller(d)
        /\ IF B # {} THEN out' = Min(B) /\ Finish /\ at' = at
           ELSE /\ out' = e
                /\ IF LenByte = 0 THEN Finish /\ at' = at
                   ELSE at' = at + 1 /\ ToAligned("scan", gap, LenByte - 1, 8, BitEnd)
    BY <1>7 DEF DiffHead, Mismatch, D
  <2>2. /\ d \in Nat /\ d < e /\ IsFirst(D, in.start, e, d)
    <3> HIDE DEF e
    <3>1. D \subseteq Nat /\ in.start \in Nat /\ L # {} /\ L = {j \in D : in.start <= j /\ j < e}
      BY <1>2, <1>7
    <3> HIDE DEF L
    <3>2. Min(L) \in Nat /\ Min(L) < e /\ IsFirst(D, in.start, e, Min(L))
      BY <1>9, <3>1, BitsFrom
    <3> QED
      BY <3>2
  <2>3. d < End /\ IsFirst(D, in.start, End, d)
    <3> HIDE DEF e, L, d
    <3> QED
      BY <1>2, <1>9, <2>2 DEF IsFirst
  <2> HIDE DEF d, L
  <2>4. /\ pos' \in Nat /\ pos' < End /\ pos' <= e
        /\ ret' = Sign(pos') /\ str' = Smaller(pos')
        /\ B = {i \in Smaller(pos') : pos' <= i /\ i < e}
    <3> HIDE DEF e
    <3> QED
      BY <1>9, <2>1, <2>2, <2>3
  <2>5. IsFirst(Differ(in.a, in.b), in.start, End, pos')
    BY <2>1, <2>3 DEF D
  <2> HIDE DEF B
  <2>6. /\ Found' /\ str' \subseteq Nat /\ ret' \in {-1, 0, 1}
        /\ B = {} => NoneIn(str', pos', e)
        /\ B # {} /\ out' = Min(B) /\ Finish /\ at' = at => ScanInv'
        /\ e = End /\ out' = e /\ B = {} /\ Finish /\ at' = at => ScanInv'
    <3> HIDE DEF e
    <3> QED
      BY <1>1, <1>9, <2>4, <2>5, MismatchStep
  <2>7. CASE B # {}
    BY <2>1, <2>6, <2>7
  <2>8. CASE B = {} /\ LenByte = 0
    BY <2>1, <2>6, <2>8
  <2>9. CASE B = {} /\ LenByte # 0
    <3>1. /\ out' = e /\ e = 8 * (at + 1) /\ at' = at + 1
          /\ ToAligned("scan", gap, LenByte - 1, 8, BitEnd)
      BY <2>1, <2>9
    <3>2. /\ LenByte - 1 \in Nat /\ at + 1 \in Nat
          /\ 8 * ((at + 1) + (LenByte - 1)) + BitEnd = End
      BY <1>1, <1>4, <2>9
    <3>4. gap \in Nat
      BY <1>2, <3>2, GapNat
    <3> HIDE DEF gap
    <3>5. /\ pc' = "scan" /\ n' \in Nat /\ bits' \in 0 .. 7 /\ rest' \in Nat \union {None}
          /\ width' \in {1, 2, 4, 8}
          /\ rest' # None => bits' = 0
          /\ 8 * ((at + 1) + n') + bits' + (IF rest' = None THEN 0 ELSE 8 * rest' + BitEnd) = End
      <4>1. CASE gap = 0
        BY <1>2, <3>1, <3>2, <4>1 DEF ToAligned, Loop, None
      <4>2. CASE gap # 0 /\ LenByte - 1 < gap
        BY <1>2, <3>1, <3>2, <3>4, <4>2 DEF ToAligned, Loop, None
      <4>3. CASE gap # 0 /\ ~ (LenByte - 1 < gap)
        BY <1>2, <3>1, <3>2, <3>4, <4>3 DEF ToAligned, Loop, None
      <4> QED
        BY <4>1, <4>2, <4>3
    <3>6. TypeOK'
      BY <1>1, <1>2, <2>4, <2>6, <3>1, <3>2, <3>5 DEF TypeOK
    <3>7. Covered' /\ LastBits'
      BY <1>3, <3>1, <3>5 DEF Covered, LastBits
    <3>8. out' = 8 * at' /\ pos' <= out' /\ NoneIn(str', pos', out')
      BY <2>4, <2>6, <2>9, <3>1
    <3> QED
      BY <1>1, <2>6, <3>5, <3>6, <3>7, <3>8, DiffScans
  <2> QED
    BY <2>7, <2>8, <2>9
<1>8. CASE ~ (LenByte # 0 /\ BitStart = 0) /\ L = {}
  <2>1. /\ pos' = e /\ UNCHANGED <<str, out, ret>>
        /\ IF LenByte = 0 THEN Finish /\ at' = at
           ELSE at' = at + 1 /\ Loop("plan", LenByte - 1, 0, 1, None)
    BY <1>8 DEF DiffHead, D
  <2>2. NoneIn(D, in.start, e)
    BY <1>8 DEF NoneIn
  <2>3. CASE LenByte = 0
    <3>1. pos' = End /\ NoneIn(D, in.start, End)
      BY <2>1, <2>2, <2>3
    <3>2. TypeOK' /\ pc' = "done"
      BY <1>1, <1>2, <2>1, <2>3 DEF TypeOK, Finish
    <3> QED
      BY <1>1, <2>1, <3>1, <3>2, MatchEnds DEF D
  <2>4. CASE LenByte # 0
    <3>1. /\ pos' = e /\ e = 8 * (at + 1) /\ at' = at + 1
          /\ pc' = "plan" /\ n' = LenByte - 1 /\ bits' = 0 /\ width' = 1 /\ rest' = None
      BY <2>1, <2>4 DEF Loop
    <3>2. n' \in Nat /\ 8 * (at' + n') + BitEnd = End
      BY <1>4, <2>4, <3>1
    <3>3. TypeOK'
      BY <1>1, <1>2, <1>9, <2>1, <3>1, <3>2 DEF TypeOK
    <3>4. Covered' /\ LastBits'
      BY <3>1 DEF Covered, LastBits
    <3>5. pos' = 8 * at' /\ in.start <= pos' /\ NoneIn(D, in.start, pos')
      BY <1>9, <2>2, <3>1
    <3> QED
      BY <1>1, <2>1, <3>1, <3>2, <3>3, <3>4, <3>5, MatchOn DEF D
  <2> QED
    BY <2>3, <2>4
<1> QED
  BY <1>6, <1>7, <1>8
-----------------------------------------------------------------------------
LEMMA Stutter ==
  ASSUME ScanInv, UNCHANGED vars
  PROVE  ScanInv'
<1>1. /\ in' = in /\ pc' = pc /\ at' = at /\ n' = n /\ bits' = bits /\ rest' = rest
      /\ width' = width /\ wide' = wide /\ str' = str /\ out' = out /\ pos' = pos /\ ret' = ret
  BY DEF vars
<1>2. /\ Found' = Found /\ Origin' = Origin
      /\ End' = End /\ BitEnd' = BitEnd /\ Searched' = Searched
  BY <1>1, SameFound
<1>3. TypeOK' /\ Begun' /\ Matching' /\ Scanning'
  BY <1>1, <1>2 DEF ScanInv, TypeOK, Begun, Matching, Scanning, NoneIn, Differ
<1>4. LastBits' /\ Covered' /\ FoundFirst' /\ FoundDiff'
  BY <1>1, <1>2 DEF ScanInv, LastBits, Covered, FoundFirst, FoundDiff, IsFirst, NoneIn, Differ
<1> QED
  BY <1>1, <1>3, <1>4 DEF ScanInv

LEMMA ScanInvStep == ScanInv /\ [Next]_vars => ScanInv'
<1> SUFFICES ASSUME ScanInv, [Next]_vars PROVE ScanInv'
  OBVIOUS
<1>1. CASE FindHead
  BY <1>1, FindHeadStep
<1>2. CASE Scan
  BY <1>2, ScanStep
<1>3. CASE Narrow
  BY <1>3, NarrowStep
<1>4. CASE ScanBits
  BY <1>4, ScanBitsStep
<1>5. CASE DiffHead
  BY <1>5, DiffHeadStep
<1>6. CASE Plan
  BY <1>6, PlanStep
<1>7. CASE CompareWord
  BY <1>7, CompareWordStep
<1>8. CASE CompareByte
  BY <1>8, CompareByteStep
<1>9. CASE CompareBits
  BY <1>9, CompareBitsStep
<1>10. CASE Done \/ UNCHANGED vars
  BY <1>10, Stutter DEF Done
<1> QED
  BY <1>1, <1>2, <1>3, <1>4, <1>5, <1>6, <1>7, <1>8, <1>9, <1>10 DEF Next, Step

LEMMA ScanInvAlways == Spec => []ScanInv
<1>1. Init => ScanInv
  BY ScanInvInit
<1>2. ScanInv /\ [Next]_vars => ScanInv'
  BY ScanInvStep
<1> QED
  BY <1>1, <1>2, PTL DEF Spec
-----------------------------------------------------------------------------
\* The loop counters of find_fs and diff_identify stay natural numbers, the
\* words 1, 2, 4 or 8 bytes and the last bits fewer than eight, for every
\* call: no loop runs past what it was given.
THEOREM TypeCorrect == Spec => []TypeOK
<1>1. ScanInv => TypeOK
  BY DEF ScanInv
<1> QED
  BY <1>1, ScanInvAlways, PTL

\* For every string, address and range, what the loops of find_fs and
\* diff_identify have still to look at is exactly the rest of what is to be
\* searched: the range, but for the last bits that find_fs may leave out.
THEOREM RangeCovered == Spec => []Covered
<1>1. ScanInv => Covered
  BY DEF ScanInv
<1> QED
  BY <1>1, ScanInvAlways, PTL

\* find_fs returns the first set bit of what it searches, or its end, for
\* every string and every range, wherever they lie in memory.
THEOREM FindCorrect == Spec => []FindRight
<1>1. ScanInv => FindRight
  <2> SUFFICES ASSUME ScanInv, pc = "done", in.fn = "find_fs"
               PROVE  out = First(in.a, in.start, Searched)
    BY DEF FindRight
  <2>1. in \in Inputs /\ out \in Nat /\ IsFirst(in.a, in.start, Searched, out)
    BY DEF ScanInv, TypeOK, FoundFirst
  <2>2. in.a \subseteq Nat /\ in.start \in Nat /\ Searched \in Nat
    BY <2>1, Cut, SearchedIs
  <2> QED
    BY <2>1, <2>2, FirstIs
<1> QED
  BY <1>1, ScanInvAlways, PTL

\* A number of whole bytes that is no further than e is no further than the
\* last byte that ends by e.
LEMMA WholeBelow ==
  ASSUME NEW k \in Nat, k % 8 = 0, NEW b \in Nat, NEW c \in 0 .. 7, k <= 8 * b + c
  PROVE  k <= 8 * b
OBVIOUS

\* The key ends within what is searched.
LEMMA KeySearched ==
  ASSUME in \in Inputs, in.fn = "find_fs"
  PROVE  in.key \in Nat /\ in.start <= in.key /\ in.key <= Searched
<1>1. /\ in.key \in Nat /\ in.key % 8 = 0 /\ in.start <= in.key
      /\ in.len \in {in.key - in.start, in.key}
  BY InputsAssumption
<1>2. /\ in.start \in Nat /\ in.len \in Nat /\ End = in.start + in.len
      /\ BitEnd \in 0 .. 7 /\ LenByte \in Nat
      /\ in.start \div 8 \in Nat /\ BitStart \in 0 .. 7
      /\ in.start = 8 * (in.start \div 8) + BitStart
      /\ BitStart + in.len = 8 * LenByte + BitEnd
  BY Cut
<1>3. in.key <= End
  <2> DEFINE st == in.start
             ln == in.len
             k == in.key
  <2>1. st \in Nat /\ ln \in Nat /\ k \in Nat /\ ln \in {k - st, k} /\ End = st + ln
    BY <1>1, <1>2
  <2> HIDE DEF st, ln, k
  <2>2. k <= End
    BY <2>1
  <2> QED
    BY <2>2 DEF k
<1> DEFINE b == in.start \div 8 + LenByte
<1>4. b \in Nat /\ End = 8 * b + BitEnd
  BY <1>2, HeadCut
<1> HIDE DEF b
<1>5. in.key <= 8 * b
  BY <1>1, <1>2, <1>3, <1>4, WholeBelow
<1>6. in.key <= End - BitEnd
  BY <1>2, <1>4, <1>5
<1> QED
  BY <1>1, <1>3, <1>6, SearchedIs

\* find_fs finds the first set bit of the rest of a key, or none that is the
\* key's, for every key, every address and both lengths it is called with.
THEOREM KeyCorrect == Spec => []KeyFound
<1>1. ScanInv => KeyFound
  <2> DEFINE f == First(in.a, in.start, in.key)
  <2> SUFFICES ASSUME ScanInv, pc = "done", in.fn = "find_fs"
               PROVE  IF f < in.key THEN out = f ELSE out \in in.key .. End
    BY DEF KeyFound
  <2>1. in \in Inputs /\ out \in Nat /\ IsFirst(in.a, in.start, Searched, out)
    BY DEF ScanInv, TypeOK, FoundFirst
  <2>2. /\ in.a \subseteq Nat /\ in.start \in Nat /\ Searched \in Nat /\ Searched <= End
        /\ in.key \in Nat /\ in.start <= in.key /\ in.key <= Searched /\ End \in Nat
    BY <2>1, Cut, SearchedIs, KeySearched
  <2> HIDE DEF f
  <2>3. CASE out < in.key
    <3>1. IsFirst(in.a, in.start, in.key, out)
      BY <2>1, <2>2, <2>3 DEF IsFirst
    <3>2. f = out
      BY <2>1, <2>2, <3>1, FirstIs DEF f
    <3> QED
      BY <2>3, <3>2
  <2>4. CASE ~ (out < in.key)
    <3>1. NoneIn(in.a, in.start, in.key)
      BY <2>1, <2>2, <2>4 DEF IsFirst, NoneIn
    <3>2. IsFirst(in.a, in.start, in.key, in.key)
      BY <2>2, <3>1 DEF IsFirst
    <3>3. f = in.key
      BY <2>2, <3>2, FirstIs DEF f
    <3>4. in.key <= out /\ out <= End
      BY <2>1, <2>2, <2>4 DEF IsFirst
    <3> QED
      BY <2>1, <2>2, <3>3, <3>4
  <2> QED
    BY <2>3, <2>4
<1> QED
  BY <1>1, ScanInvAlways, PTL

\* diff_identify returns the first bit of the range where two strings differ
\* and which of them is smaller, or says that they are equal there.
THEOREM DiffCorrect == Spec => []DiffRight
<1>1. ScanInv => DiffRight
  <2> DEFINE D == Differ(in.a, in.b)
             d == First(D, in.start, End)
  <2> SUFFICES ASSUME ScanInv, pc = "done", in.fn = "diff_identify"
               PROVE  pos = d /\ ret = IF d = End THEN 0 ELSE Sign(d)
    BY DEF DiffRight
  <2>1. /\ in \in Inputs /\ pos \in Nat
        /\ \/ pos = End /\ ret = 0 /\ NoneIn(D, in.start, End)
           \/ pos < End /\ ret = Sign(pos) /\ IsFirst(D, in.start, End, pos)
    BY DEF ScanInv, TypeOK, FoundDiff, Found
  <2>2. /\ D \subseteq Nat /\ in.start \in Nat /\ End \in Nat
        /\ in.start <= End
    <3>1. in.start \in Nat /\ in.len \in Nat /\ End = in.start + in.len /\ End \in Nat
      BY <2>1, Cut
    <3>2. in.start <= End
      BY <3>1
    <3> QED
      BY <2>1, <3>1, <3>2, Cut DEF Differ
  <2> HIDE DEF D, d
  <2>3. IsFirst(D, in.start, End, pos)
    BY <2>1, <2>2 DEF IsFirst
  <2>4. d = pos
    BY <2>1, <2>2, <2>3, FirstIs DEF d
  <2> QED
    BY <2>1, <2>2, <2>4
<1> QED
  BY <1>1, ScanInvAlways, PTL

\* smallfs is the first set bit of the smaller string from the difference on,
\* or the range's end.
THEOREM SmallCorrect == Spec => []SmallRight
<1>1. ScanInv => SmallRight
  <2> SUFFICES ASSUME ScanInv, pc = "done", in.fn = "diff_identify", ret # 0
               PROVE  out = First(Smaller(pos), pos, End)
    BY DEF SmallRight
  <2>1. /\ in \in Inputs /\ pos \in Nat /\ out \in Nat
        /\ IsFirst(Smaller(pos), pos, End, out)
    BY DEF ScanInv, TypeOK, FoundDiff, Found
  <2>2. Smaller(pos) \subseteq Nat /\ End \in Nat
    BY <2>1, Cut DEF Smaller
  <2> QED
    BY <2>1, <2>2, FirstIs
<1> QED
  BY <1>1, ScanInvAlways, PTL
=============================================================================
