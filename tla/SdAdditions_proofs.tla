------------------------- MODULE SdAdditions_proofs -------------------------
(***************************************************************************)
(* The tree of SdTree with threads that only add and look up, for any      *)
(* number of threads, keys of any width and any calls.  Such threads never *)
(* leave the loops of find_data stuck, act on the record of their key,     *)
(* keep all variables in range, and refine RefSet; and every record stays  *)
(* linked, one for a key.                                                  *)
(*                                                                         *)
(* The invariant (AddInv) has two parts.  The tree is a binary trie: each  *)
(* node v stands for the keys that begin as R[v] does, what a word points  *)
(* to belongs there, and the walk from a node leads to every node and      *)
(* record below it (Store).  And what a thread has read still tells it     *)
(* enough (Knows): the word it holds was true of its node, and sends its   *)
(* key the right way, unless the key has been absent since the call.  The  *)
(* tree only grows, so what was read stays true (Grown).                   *)
(*                                                                         *)
(* The order: bits and beginnings of keys; the steps that read; what       *)
(* others' additions leave true; the insertions as graftings of one node   *)
(* or two into a trie; the invariant; the refinement; what the head leads  *)
(* to.                                                                     *)
(***************************************************************************)
EXTENDS SdTree_proofs

-----------------------------------------------------------------------------
(* Threads that only add and look up.  Every word is valid then, nodes and  *)
(* records are never taken out, and the tree is a binary trie: each node    *)
(* stands for the keys that begin as its representative R[v] does.           *)

\* Nobody calls a delete.
Adding == \A t \in Thread, k \in Keys : <<"DELETE", k>> \notin Work[t]

\* The first n bits of a key.
Pre(k, n) == [i \in 0 .. n - 1 |-> Bit(k, i)]

\* The first bit below node v; key k is that of a record below v, if it is in
\* the tree; the neighbour of a word that a key with bit b goes on to.
Start(V, v) == V[v].pos + 1
On(V, R, v, k) == Pre(k, Start(V, v)) = Pre(R[v], Start(V, v))
Child(w, k, n) ==
  IF n >= Width THEN Nil
  ELSE IF Bit(k, n) = 0 THEN w.down
  ELSE IF w.ty = "RIGHT" THEN w.rd ELSE Nil

\* What a word w of node v points to belongs there: to the right the keys with
\* a one at the first bit below v, downwards those with zeros up to the next node.
Fine(V, D, R, v, w) ==
  /\ w.st = "VALID"
  /\ w.down # Nil =>
       /\ V[w.down].pos > V[v].pos
       /\ On(V, R, v, R[w.down])
       /\ \A i \in Start(V, v) .. V[w.down].pos : Bit(R[w.down], i) = 0
  /\ w.ty = "RIGHT" =>
       /\ V[w.rd].pos > V[v].pos
       /\ On(V, R, v, R[w.rd])
       /\ Bit(R[w.rd], Start(V, v)) = 1
       /\ V[w.rd].down # Nil
  /\ w.ty = "DATA" /\ w.rd # Nil =>
       /\ On(V, R, v, D[w.rd].key)
       /\ Start(V, v) < Width => Bit(D[w.rd].key, Start(V, v)) = 1

\* A walk for k goes on from w to a node it belongs below, or ends at its record.
Route(V, D, R, v, w, k) ==
  LET y == Child(w, k, Start(V, v))
  IN  IF y # Nil THEN On(V, R, y, k)
      ELSE /\ Start(V, v) < Width => Bit(k, Start(V, v)) = 1
           /\ w.ty = "DATA" /\ w.rd # Nil /\ D[w.rd].key = k

\* A walk from v towards a node at position p that k belongs below does not
\* pass it.
Leads(V, R, v, k, p) ==
  LET y == Child(V[v], k, Start(V, v))
  IN  y # Nil /\ V[y].pos <= p /\ On(V, R, y, k)

\* The trie: every word is fine, every node and every record is found from each
\* node above it, no two nodes are in one place and no two records have one key.
Store(V, D, R) ==
  /\ R \in [1 .. Len(V) -> Nat]
  /\ \A v \in 1 .. Len(V) : Fine(V, D, R, v, V[v])
  /\ \A u, v \in 1 .. Len(V) :
       On(V, R, v, R[u]) /\ V[v].pos < V[u].pos => Leads(V, R, v, R[u], V[u].pos)
  /\ \A u, v \in 1 .. Len(V) : On(V, R, v, R[u]) /\ V[v].pos = V[u].pos => u = v
  /\ \A d \in 1 .. Len(D), v \in 1 .. Len(V) :
       On(V, R, v, D[d].key) => Route(V, D, R, v, V[v], D[d].key)
  /\ \A d, e \in 1 .. Len(D) : D[d].key = D[e].key => d = e
  /\ \A d \in 1 .. Len(D) : D[d].ref > 0

\* No record has the key k.
Gone(D, k) == \A d \in 1 .. Len(D) : D[d].key # k

\* If the key has not been missed, a walk for it that belongs below v is sent
\* the right way by w.
Sure(V, D, R, k, v, w, miss) == On(V, R, v, k) /\ ~miss => Route(V, D, R, v, w, k)

\* A walk stands at cur: the key is zero up to fs, and begins as cur does, or
\* as the record it carries.
Standing(V, D, R, m, miss) ==
  /\ Fine(V, D, R, m.cur, m.cw)
  /\ m.dir = "RIGHT" => m.cw.down # Nil
  /\ \A i \in m.start .. m.fs - 1 : Bit(m.key, i) = 0
  /\ m.fs < Width => Bit(m.key, m.fs) = 1
  /\ IF m.cd \in {Unset, Nil} THEN On(V, R, m.cur, m.key)
     ELSE Pre(m.key, m.start) = Pre(D[m.cd].key, m.start)
  /\ Sure(V, D, R, m.key, m.cur, m.cw, miss)

\* So it does of the neighbour it has read.
Beside(V, D, R, m, miss) ==
  Fine(V, D, R, m.nxt, m.nw) /\ Sure(V, D, R, m.key, m.nxt, m.nw, miss)

\* The record cd is confirmed to be the one on the right.
Settled(V, D, R, m) ==
  /\ On(V, R, m.cur, m.key) /\ On(V, R, m.cur, D[m.cd].key)
  /\ m.cw.ty = "RIGHT" => On(V, R, m.nxt, D[m.cd].key)

\* get_data_id is at gc, below gv.
Descended(V, D, R, m) ==
  Fine(V, D, R, m.gc, m.gw) /\ On(V, R, m.gv, R[m.gc]) /\ V[m.gv].pos <= V[m.gc].pos

\* The points of threads that only add and look up.
Walking == {"right", "down", "gid", "gid_next"}
Inserting == {"insert_last", "insert_mid", "insert_up", "insert_down"}
AddPoints == Walking \union Inserting \union {"idle", "forward", "insert_first", "found", "return"}

\* What a thread knows at each point.  miss and see: its key has been absent,
\* has been present, since it called.
Knows(V, D, R, m, miss, see) ==
  /\ m.pc \in AddPoints
  /\ m.pc # "idle" => m.op = m.goal /\ m.goal \in {"FIND", "INSERT"}
  /\ m.pc = "forward" => m.cur = Head1
  /\ m.pc \in Walking \union Inserting => Standing(V, D, R, m, miss)
  /\ m.pc \in {"gid", "gid_next"} =>
       /\ m.back \in {"compare", "confirm"} => Beside(V, D, R, m, miss)
       /\ m.back = "near" => m.op = "FIND" /\ miss
  /\ m.pc = "gid_next" => Descended(V, D, R, m)
  /\ m.pc \in Inserting \union {"insert_first"} => m.op = "INSERT"
  /\ m.pc \in {"insert_up", "insert_down"} => Settled(V, D, R, m)
  /\ m.pc = "insert_up" => Bit(m.key, SplitAt(D, m)) = 1
  /\ m.pc = "insert_down" => Bit(m.key, SplitAt(D, m)) # 1
  /\ m.pc = "insert_first" => m.cw.rd = Nil /\ Bit(m.key, 0) = 1
  /\ m.pc = "found" => D[FoundData(m)].key = m.key
  /\ m.pc = "return" =>
       \/ m.ret \in Trouble
       \/ m.op = "FIND" /\ m.ret = OK /\ see
       \/ m.op = "FIND" /\ m.ret \in {NOT_FOUND, NullCode} /\ miss
       \/ m.op = "INSERT" /\ m.ret = OK

\* The inductive invariant: some choice of the keys that nodes stand for makes the
\* tree a trie, and every thread knows what it should.
AddInv ==
  \E R \in [1 .. Len(vec) -> Nat] :
    /\ Store(vec, dat, R)
    /\ \A t \in Thread : Knows(vec, dat, R, loc[t], t \in missed, t \in seen)

\* The histories hold what is the case.
Kept ==
  \A t \in Thread : loc[t].pc # "idle" =>
    IF Gone(dat, loc[t].key) THEN t \in missed ELSE t \in seen

\* A step of t that changes no node and no record.
Learned(t, R, miss, see) ==
  /\ UNCHANGED <<vec, dat>> /\ loc' = [loc EXCEPT ![t] = loc'[t]]
  /\ Knows(vec, dat, R, loc'[t], miss, see)

-----------------------------------------------------------------------------
(* Bits and beginnings of keys.                                             *)

\* The recursion that defines the powers of two has a solution.
LEMMA Pow2Is ==
  /\ Pow2[0] = 1
  /\ \A n \in 0 .. Width - 1 : Pow2[n + 1] = 2 * Pow2[n]
<1> DEFINE Value(p, n) == IF n = 0 THEN 1 ELSE 2 * p[n - 1]
           Solves(p, m) == p = [n \in 0 .. m |-> Value(p, n)]
           Fails == {m \in Nat : ~ \E p : Solves(p, m)}
<1>1. Width \in Nat
  BY WidthIs
<1>2. Fails = {}
  <2> SUFFICES ASSUME Fails # {} PROVE FALSE
    OBVIOUS
  <2>1. PICK m \in Fails : \A k \in Fails : m <= k
    <3>1. Fails \in SUBSET Nat
      OBVIOUS
    <3> HIDE DEF Fails
    <3> QED
      BY <3>1, LeastNat
  <2>2. m \in Nat /\ ~ \E p : Solves(p, m)
    OBVIOUS
  <2>3. CASE m = 0
    <3> DEFINE p == [n \in 0 .. 0 |-> 1]
    <3>1. \A n \in 0 .. 0 : Value(p, n) = 1
      OBVIOUS
    <3>2. Solves(p, 0)
      BY <3>1
    <3> QED
      BY <2>2, <2>3, <3>2
  <2>4. CASE m # 0
    <3>1. m - 1 \in Nat /\ ~ (m <= m - 1)
      BY <2>2, <2>4
    <3>2. m - 1 \notin Fails
      <4> HIDE DEF Fails
      <4> QED
        BY <2>1, <3>1
    <3>3. PICK p : Solves(p, m - 1)
      BY <3>1, <3>2
    <3> DEFINE q == [n \in 0 .. m |-> Value(p, n)]
    <3>4. \A n \in 0 .. m - 1 : p[n] = Value(p, n) /\ q[n] = p[n]
      BY <2>2, <3>3
    <3>5. ASSUME NEW n \in 0 .. m PROVE Value(p, n) = Value(q, n)
      <4>1. n # 0 => n - 1 \in 0 .. m - 1
        BY <2>2
      <4> HIDE DEF q
      <4> QED
        BY <3>4, <4>1
    <3>6. Solves(q, m)
      BY <3>5
    <3> QED
      BY <2>2, <3>6
  <2> QED
    BY <2>3, <2>4
<1>3. \E p : Solves(p, Width)
  BY <1>1, <1>2
<1>4. Pow2 = [n \in 0 .. Width |-> Value(Pow2, n)]
  BY <1>3 DEF Pow2
<1>5. ASSUME NEW n \in 0 .. Width - 1 PROVE Pow2[n + 1] = 2 * Pow2[n]
  <2>1. n + 1 \in 0 .. Width /\ n + 1 # 0 /\ (n + 1) - 1 = n
    BY <1>1
  <2>2. Pow2[n + 1] = Value(Pow2, n + 1)
    BY <1>4, <2>1
  <2> QED
    BY <2>1, <2>2
<1>6. Pow2[0] = 1
  BY <1>1, <1>4
<1> QED
  BY <1>5, <1>6

\* The powers of two are positive.
LEMMA Pow2Positive == \A n \in 0 .. Width : Pow2[n] \in Nat \ {0}
<1> DEFINE Bad == {n \in 0 .. Width : Pow2[n] \notin Nat \ {0}}
<1>1. Width \in Nat
  BY WidthIs
<1> SUFFICES ASSUME Bad # {} PROVE FALSE
  OBVIOUS
<1>2. PICK n \in Bad : \A k \in Bad : n <= k
  <2>1. Bad \in SUBSET Nat
    BY <1>1
  <2> HIDE DEF Bad
  <2> QED
    BY <2>1, LeastNat
<1>3. n # 0
  BY Pow2Is
<1>4. n - 1 \in 0 .. Width - 1 /\ n - 1 \in 0 .. Width /\ ~ (n <= n - 1) /\ (n - 1) + 1 = n
  BY <1>1, <1>3
<1>5. n - 1 \notin Bad
  <2> HIDE DEF Bad
  <2> QED
    BY <1>2, <1>4
<1>6. Pow2[n] = 2 * Pow2[n - 1] /\ Pow2[n - 1] \in Nat \ {0}
  BY <1>4, <1>5, Pow2Is
<1>7. Pow2[n] \in Nat \ {0}
  BY <1>6
<1> QED
  BY <1>7

\* A bit is zero or one.
LEMMA BitIs ==
  ASSUME NEW k \in Int, NEW i \in 0 .. Width - 1
  PROVE  Bit(k, i) \in {0, 1}
<1> DEFINE p == Pow2[Width - 1 - i]
           q == k \div p
<1>1. Width - 1 - i \in 0 .. Width
  BY WidthIs
<1>2. p \in Int /\ p > 0
  BY <1>1, Pow2Positive
<1> HIDE DEF p
<1>3. q \in Int
  BY <1>2
<1>4. Bit(k, i) = q % 2
  BY DEF Bit, p
<1> HIDE DEF q
<1> QED
  BY <1>3, <1>4

\* Halving by steps.
LEMMA HalfAgain ==
  ASSUME NEW k \in Int, NEW p \in Nat \ {0}
  PROVE  k \div p = 2 * (k \div (2 * p)) + ((k \div p) % 2)
<1> DEFINE a == k \div p
           s == k % p
           b == a \div 2
           r == a % 2
<1>1. k = p * a + s /\ a \in Int /\ s \in 0 .. p - 1
  OBVIOUS
<1>2. a = 2 * b + r /\ b \in Int /\ r \in {0, 1}
  <2>1. a \in Int
    BY <1>1
  <2> HIDE DEF a
  <2> QED
    BY <2>1
<1> DEFINE e == p * r + s
           d == 2 * p
<1> HIDE DEF a, s, b, r
<1>3. e \in 0 .. d - 1 /\ d \in Nat \ {0} /\ e \in Int
  <2>1. CASE r = 0
    BY <1>1, <2>1
  <2>2. CASE r = 1
    BY <1>1, <2>2
  <2> QED
    BY <1>2, <2>1, <2>2
<1>4. k = d * b + e
  <2>1. k = p * (2 * b + r) + s
    BY <1>1, <1>2
  <2>2. p * (2 * b + r) = p * (2 * b) + p * r
    BY <1>2
  <2>3. p * (2 * b) = d * b
    BY <1>2
  <2> QED
    BY <1>1, <1>2, <1>3, <2>1, <2>2, <2>3
<1> HIDE DEF e, d
<1>5. k \div d = b
  <2> DEFINE c == k \div d
             u == k % d
  <2>1. k = d * c + u /\ c \in Int /\ u \in 0 .. d - 1
    BY <1>3
  <2> HIDE DEF c, u
  <2>2. d * b + e = d * c + u /\ d \in Int /\ u \in Int /\ d > 0 /\ e < d /\ u < d /\ e >= 0 /\ u >= 0
    BY <1>3, <1>4, <2>1
  <2>3. ASSUME NEW x \in Int, NEW y \in Int, x < y PROVE d * y >= d * x + d
    <3>1. PICK z \in Nat : y = x + 1 + z
      <4>1. y - x - 1 \in Nat /\ y = x + 1 + (y - x - 1)
        BY <2>3
      <4> QED
        BY <4>1
    <3>2. d * y = d * x + d + d * z
      BY <2>2, <3>1
    <3>3. d * z >= 0 /\ d * z \in Int /\ d * x \in Int
      BY <1>3, <3>1
    <3> QED
      BY <2>2, <3>2, <3>3
  <2>4. d * b \in Int /\ d * c \in Int
    BY <1>2, <2>1, <2>2
  <2>5. ~ (b < c)
    <3>1. b < c => d * c >= d * b + d
      BY <1>2, <2>1, <2>3
    <3> QED
      BY <1>3, <2>2, <2>4, <3>1
  <2>6. ~ (c < b)
    <3>1. c < b => d * b >= d * c + d
      BY <1>2, <2>1, <2>3
    <3> QED
      BY <1>3, <2>2, <2>4, <3>1
  <2> QED
    BY <1>2, <2>1, <2>5, <2>6 DEF c
<1> QED
  BY <1>2, <1>5 DEF a, b, r, d

\* A key is a number.
LEMMA KeyInt ==
  ASSUME NEW k \in Keys
  PROVE  k \in Int
<1>1. k \in 0 .. Pow2[Width] - 1
  BY TreeAssumption
<1> QED
  BY <1>1

\* A key is made of its bits.
LEMMA KeyOfBits ==
  ASSUME NEW j \in Keys, NEW k \in Keys, Pre(j, Width) = Pre(k, Width)
  PROVE  j = k
<1> DEFINE Lead(x, n) == x \div Pow2[Width - n]
           Bad == {n \in 0 .. Width : Lead(j, n) # Lead(k, n)}
<1>1. Width \in Nat
  BY WidthIs
<1>2. j \in 0 .. Pow2[Width] - 1 /\ k \in 0 .. Pow2[Width] - 1 /\ j \in Int /\ k \in Int
      /\ Pow2[Width] \in Nat \ {0}
  <2>1. Pow2[Width] \in Nat \ {0}
    BY <1>1, Pow2Positive
  <2>2. j \in 0 .. Pow2[Width] - 1 /\ k \in 0 .. Pow2[Width] - 1
    BY TreeAssumption
  <2> QED
    BY <2>1, <2>2
<1>3. Bad = {}
  <2> SUFFICES ASSUME Bad # {} PROVE FALSE
    OBVIOUS
  <2>1. PICK n \in Bad : \A i \in Bad : n <= i
    <3>1. Bad \in SUBSET Nat
      BY <1>1
    <3> HIDE DEF Bad
    <3> QED
      BY <3>1, LeastNat
  <2>2. n \in 0 .. Width /\ Lead(j, n) # Lead(k, n)
    OBVIOUS
  <2>3. n # 0
    <3>1. j \div Pow2[Width] = 0 /\ k \div Pow2[Width] = 0
      BY <1>2
    <3>2. Width - 0 = Width
      BY <1>1
    <3> QED
      BY <2>2, <3>1, <3>2
  <2>4. /\ n - 1 \in 0 .. Width - 1 /\ ~ (n <= n - 1) /\ Width - n \in 0 .. Width - 1
        /\ Width - (n - 1) = (Width - n) + 1 /\ Width - 1 - (n - 1) = Width - n
        /\ Width - n \in 0 .. Width
    BY <1>1, <2>2, <2>3
  <2>5. Lead(j, n - 1) = Lead(k, n - 1)
    <3>1. n - 1 \in 0 .. Width
      BY <1>1, <2>4
    <3> HIDE DEF Lead
    <3>2. n - 1 \notin Bad
      <4> HIDE DEF Bad
      <4> QED
        BY <2>1, <2>4
    <3> QED
      BY <3>1, <3>2
  <2>6. Bit(j, n - 1) = Bit(k, n - 1)
    <3>1. Pre(j, Width)[n - 1] = Bit(j, n - 1) /\ Pre(k, Width)[n - 1] = Bit(k, n - 1)
      BY <2>4 DEF Pre
    <3> QED
      BY <3>1
  <2> DEFINE p == Pow2[Width - n]
  <2>7. p \in Nat \ {0} /\ Pow2[Width - (n - 1)] = 2 * p
    BY <2>4, Pow2Is, Pow2Positive
  <2>8. Bit(j, n - 1) = (j \div p) % 2 /\ Bit(k, n - 1) = (k \div p) % 2
    BY <2>4 DEF Bit
  <2>9. j \div (2 * p) = k \div (2 * p)
    BY <2>5, <2>7
  <2>10. j \div p # k \div p
    BY <2>2
  <2> HIDE DEF p
  <2>11. j \div p = 2 * (j \div (2 * p)) + ((j \div p) % 2)
         /\ k \div p = 2 * (k \div (2 * p)) + ((k \div p) % 2)
    BY <1>2, <2>7, HalfAgain
  <2> QED
    BY <2>6, <2>8, <2>9, <2>10, <2>11
<1>4. j \div 1 = k \div 1
  <2>1. Width \in 0 .. Width /\ Width - Width = 0
    BY <1>1
  <2>2. Width \notin Bad
    BY <1>3
  <2>3. Lead(j, Width) = Lead(k, Width)
    BY <2>1, <2>2
  <2> QED
    BY <2>1, <2>3, Pow2Is
<1> QED
  BY <1>2, <1>4

\* What begins alike begins alike for less, and has the same bits there.
LEMMA PreLess ==
  ASSUME NEW j, NEW k, NEW n \in Int, Pre(j, n) = Pre(k, n)
  PROVE  /\ \A i \in 0 .. n - 1 : Bit(j, i) = Bit(k, i)
         /\ \A i \in Int : i <= n => Pre(j, i) = Pre(k, i)
<1>1. ASSUME NEW i \in 0 .. n - 1 PROVE Bit(j, i) = Bit(k, i)
  <2>1. Pre(j, n)[i] = Bit(j, i) /\ Pre(k, n)[i] = Bit(k, i)
    BY DEF Pre
  <2> QED
    BY <2>1
<1>2. ASSUME NEW i \in Int, i <= n PROVE Pre(j, i) = Pre(k, i)
  <2>1. \A e \in 0 .. i - 1 : Bit(j, e) = Bit(k, e)
    BY <1>1, <1>2
  <2> QED
    BY <2>1 DEF Pre
<1> QED
  BY <1>1, <1>2

\* And it begins alike for more, if the bits there are the same.
LEMMA PreMore ==
  ASSUME NEW j, NEW k, NEW n \in Nat, NEW o \in Int, Pre(j, n) = Pre(k, n),
         \A i \in n .. o - 1 : Bit(j, i) = Bit(k, i)
  PROVE  Pre(j, o) = Pre(k, o)
<1>1. \A i \in 0 .. n - 1 : Bit(j, i) = Bit(k, i)
  BY PreLess
<1>2. \A i \in 0 .. o - 1 : Bit(j, i) = Bit(k, i)
  BY <1>1
<1> QED
  BY <1>2 DEF Pre

\* Nothing is where every key begins.
LEMMA PreNone ==
  ASSUME NEW j, NEW k
  PROVE  Pre(j, 0) = Pre(k, 0)
BY DEF Pre

-----------------------------------------------------------------------------
(* What is known along a walk.                                              *)

\* A call that adds or looks up.
Adds(m) == m.op = m.goal /\ m.goal \in {"FIND", "INSERT"}

\* What is known of the place of a walk depends on its fields only.
LEMMA StandSame ==
  ASSUME NEW V, NEW D, NEW R, NEW miss, NEW m, NEW n, SameWalk(n, m), n.key = m.key
  PROVE  Standing(V, D, R, m, miss) => Standing(V, D, R, n, miss)
BY DEF SameWalk, Standing

\* What is known of a neighbour depends on what was read of it and on the key.
LEMMA BesideSame ==
  ASSUME NEW V, NEW D, NEW R, NEW miss, NEW m, NEW n, SameNext(n, m), n.key = m.key
  PROVE  Beside(V, D, R, m, miss) => Beside(V, D, R, n, miss)
BY DEF SameNext, Beside

\* Whether the record is confirmed depends on cur, its word and the neighbour.
LEMMA SettledSame ==
  ASSUME NEW V, NEW D, NEW R, NEW m, NEW n, SameWalk(n, m), SameNext(n, m), n.key = m.key
  PROVE  Settled(V, D, R, m) => Settled(V, D, R, n)
BY DEF SameWalk, SameNext, Settled

\* Where get_data_id is depends on its own variables.
LEMMA DescendedSame ==
  ASSUME NEW V, NEW D, NEW R, NEW m, NEW n, n.gv = m.gv, n.gc = m.gc, n.gw = m.gw
  PROVE  Descended(V, D, R, m) => Descended(V, D, R, n)
BY DEF Descended

\* A walk goes on to another point without other work.
LEMMA GoKnows ==
  ASSUME NEW R, NEW miss, NEW see, NEW m \in Locals, Adds(m),
         NEW p \in {"right", "down", "insert_first"} \union Inserting,
         p # "insert_first" => Standing(vec, dat, R, m, miss),
         p \in Inserting \union {"insert_first"} => m.op = "INSERT",
         p \in {"insert_up", "insert_down"} => Settled(vec, dat, R, m),
         p = "insert_up" => Bit(m.key, SplitAt(dat, m)) = 1,
         p = "insert_down" => Bit(m.key, SplitAt(dat, m)) # 1,
         p = "insert_first" => m.cw.rd = Nil /\ Bit(m.key, 0) = 1
  PROVE  Knows(vec, dat, R, [m EXCEPT !.pc = p], miss, see)
<1> DEFINE n == [m EXCEPT !.pc = p]
<1>1. /\ n.pc = p /\ SameCall(n, m) /\ SameWalk(n, m) /\ SameNext(n, m)
  BY DEF Locals, SameCall, SameWalk, SameNext
<1> HIDE DEF n
<1>2. n.op = m.op /\ n.goal = m.goal /\ n.key = m.key /\ n.cw = m.cw
  BY <1>1 DEF SameCall, SameWalk
<1>3. p # "insert_first" => Standing(vec, dat, R, n, miss)
  BY <1>1, <1>2, StandSame
<1>4. p \in {"insert_up", "insert_down"} => Settled(vec, dat, R, n)
  BY <1>1, <1>2, SettledSame
<1>5. SplitAt(dat, n) = SplitAt(dat, m)
  BY <1>1, <1>2, SplitSame
<1> QED
  BY <1>1, <1>2, <1>3, <1>4, <1>5 DEF Knows, Adds, AddPoints, Walking, Inserting, n

\* The record of the key was found.
LEMMA FoundKnows ==
  ASSUME NEW R, NEW miss, NEW see, NEW m \in Locals, Adds(m), NEW n, n.pc = "found",
         n.op = m.op, n.goal = m.goal, n.key = m.key, dat[FoundData(n)].key = m.key
  PROVE  Knows(vec, dat, R, n, miss, see)
BY DEF Knows, Adds, AddPoints, Walking, Inserting

\* get_data_id is called.
LEMMA GetDataIdKnows ==
  ASSUME NEW R, NEW miss, NEW see, NEW m \in Locals, Adds(m), NEW v,
         NEW back \in {"compare", "confirm", "recheck", "near"},
         Standing(vec, dat, R, m, miss),
         back \in {"compare", "confirm"} => Beside(vec, dat, R, m, miss),
         back = "near" => m.op = "FIND" /\ miss
  PROVE  Knows(vec, dat, R, GetDataId(m, v, back), miss, see)
<1> DEFINE n == GetDataId(m, v, back)
<1>1. /\ n.pc = "gid" /\ n.back = back /\ SameCall(n, m) /\ SameWalk(n, m) /\ SameNext(n, m)
  BY DEF Locals, SameCall, SameWalk, SameNext, GetDataId
<1> HIDE DEF n
<1>2. n.op = m.op /\ n.goal = m.goal /\ n.key = m.key
  BY <1>1 DEF SameCall
<1>3. Standing(vec, dat, R, n, miss)
  BY <1>1, <1>2, StandSame
<1>4. back \in {"compare", "confirm"} => Beside(vec, dat, R, n, miss)
  BY <1>1, <1>2, BesideSame
<1> QED
  BY <1>1, <1>2, <1>3, <1>4 DEF Knows, Adds, AddPoints, Walking, Inserting, n

\* A lookup is answered.
LEMMA MissKnows ==
  ASSUME NEW R, NEW miss, NEW see, NEW m \in Locals, Adds(m), m.op = "FIND", miss,
         NEW code \in {NOT_FOUND, NullCode}
  PROVE  Knows(vec, dat, R, Answer(m, code), miss, see)
<1> DEFINE n == Answer(m, code)
<1>1. n.pc = "return" /\ n.op = m.op /\ n.goal = m.goal /\ n.ret = code
  BY DEF Locals, Answer
<1> HIDE DEF n
<1> QED
  BY <1>1 DEF Knows, Adds, AddPoints, Walking, Inserting, n

\* A walk begins again.
LEMMA RestartKnows ==
  ASSUME NEW R, NEW miss, NEW see, NEW m \in Locals, Adds(m)
  PROVE  Knows(vec, dat, R, Restart(m), miss, see)
<1> DEFINE n == Restart(m)
<1>1. n.pc = "forward" /\ n.op = m.op /\ n.goal = m.goal /\ n.cur = Head1
  BY DEF Locals, Restart
<1> HIDE DEF n
<1> QED
  BY <1>1 DEF Knows, Adds, AddPoints, Walking, Inserting, n

\* The bit at which a walk stands is set, or the key is zero there.
LEMMA StandBit ==
  ASSUME NEW V, NEW D, NEW R, NEW miss, NEW m, At(V, D, m), Standing(V, D, R, m, miss)
  PROVE  /\ m.start = Start(V, m.cur) /\ m.start \in Nat /\ m.start < Width /\ m.fs \in Int
         /\ m.fs = m.start => Bit(m.key, m.start) = 1
         /\ m.fs > m.start => Bit(m.key, m.start) = 0
         /\ m.fs >= m.start
<1>1. m.start = Start(V, m.cur) /\ m.start \in Nat /\ m.start < Width /\ m.fs \in m.start .. Width
  BY WidthIs DEF At, WordOf, Start
<1> QED
  BY <1>1, WidthIs DEF Standing

\* A call in progress that adds or looks up has not found its key yet.
LEMMA AddsRet ==
  ASSUME NEW V, NEW D, NEW m, Active(V, D, m), Adds(m)
  PROVE  m.ret = NOT_FOUND /\ m.key \in Keys /\ m \in Locals /\ m.op \in {"FIND", "INSERT"}
BY DEF Active, Ranges, Wants, Owed, Adds

\* The key is zero as far as fs: down, or to an end.
LEMMA DownKnows ==
  ASSUME NEW R, NEW miss \in BOOLEAN, NEW see, NEW m, Active(vec, dat, m), Adds(m), Downward(vec, dat, m),
         Standing(vec, dat, R, m, miss)
  PROVE  Knows(vec, dat, R, Down(m), miss, see)
<1>1. m \in Locals /\ m.op \in {"FIND", "INSERT"}
  BY AddsRet
<1>2. CASE m.cw.down # Nil
  <2>1. Knows(vec, dat, R, [m EXCEPT !.pc = "down"], miss, see)
    BY <1>1, GoKnows DEF Inserting
  <2> QED
    BY <1>2, <2>1 DEF Down
<1>3. CASE m.cw.down = Nil
  <2>1. m.dir # "RIGHT"
    BY <1>3 DEF Standing
  <2>2. CASE m.op = "INSERT"
    <3>1. Knows(vec, dat, R, [m EXCEPT !.pc = "insert_last"], miss, see)
      BY <1>1, <2>2, GoKnows DEF Inserting
    <3> QED
      BY <1>3, <2>1, <2>2, <3>1 DEF Down
  <2>3. CASE m.op = "FIND"
    <3>1. miss
      <4>1. On(vec, R, m.cur, m.key)
        BY DEF Standing, Downward
      <4>2. At(vec, dat, m) /\ m.fs > m.start
        BY DEF Downward
      <4>3. m.start = Start(vec, m.cur) /\ m.start < Width /\ Bit(m.key, m.start) = 0
            /\ m.start \in Nat
        BY <4>2, StandBit
      <4>4. Child(m.cw, m.key, m.start) = Nil
        BY <1>3, <4>3, WidthIs DEF Child
      <4>5. ~ Route(vec, dat, R, m.cur, m.cw, m.key)
        BY <4>3, <4>4 DEF Route
      <4> QED
        BY <4>1, <4>5 DEF Standing, Sure
    <3>2. Knows(vec, dat, R, GetDataId(m, m.cur, "near"), miss, see)
      BY <1>1, <2>3, <3>1, GetDataIdKnows
    <3> QED
      BY <1>3, <2>1, <2>3, <3>2 DEF Down
  <2> QED
    BY <1>1, <2>2, <2>3
<1> QED
  BY <1>2, <1>3

\* What a node word says of the nodes beside it.
LEMMA WordSays ==
  ASSUME NEW V, NEW D, NEW R, Nodes(V, D), NEW v, NEW w, WordOf(V, D, v, w), Fine(V, D, R, v, w)
  PROVE  /\ Start(V, v) \in 0 .. Width /\ Start(V, v) \in Nat /\ V[v].pos \in Int
         /\ w.ty = "RIGHT" => w.rd \in 2 .. Len(V) /\ w.rd # Nil
                              /\ Start(V, w.rd) \in Nat /\ Start(V, v) < Start(V, w.rd)
                              /\ Start(V, w.rd) < Width
         /\ w.down # Nil => w.down \in 2 .. Len(V) /\ Start(V, w.down) \in Nat
                            /\ Start(V, v) < Start(V, w.down) /\ Start(V, w.down) <= Width
         /\ w.ty \in {"DATA", "RIGHT"}
<1>1. V[v].pos \in -1 .. Width - 1
  BY WidthIs DEF WordOf
<1>2. ASSUME w.ty = "RIGHT"
      PROVE  /\ w.rd \in 2 .. Len(V) /\ w.rd # Nil
             /\ Start(V, w.rd) \in Nat /\ Start(V, v) < Start(V, w.rd) /\ Start(V, w.rd) < Width
  <2>1. w.rd \in 2 .. Len(V) /\ w.rd \in 1 .. Len(V)
    BY <1>2 DEF WordOf, Inner, Nodes
  <2>2. WordOf(V, D, w.rd, V[w.rd])
    BY <2>1, NodeWord
  <2>3. V[w.rd].pos \in -1 .. Width - 2 /\ V[w.rd].pos > V[v].pos
    BY <1>2, <2>2, WidthIs DEF WordOf, Fine
  <2>4. Start(V, v) = V[v].pos + 1 /\ Start(V, w.rd) = V[w.rd].pos + 1
    BY DEF Start
  <2>5. w.rd # Nil
    BY <2>1 DEF Nil
  <2>6. V[v].pos \in Int /\ V[w.rd].pos \in Int /\ Width \in Int
    BY <1>1, <2>3, WidthIs
  <2>7. /\ V[w.rd].pos + 1 \in Nat /\ V[v].pos + 1 < V[w.rd].pos + 1
        /\ V[w.rd].pos + 1 < Width
    BY <1>1, <2>3, <2>6
  <2> QED
    BY <2>1, <2>4, <2>5, <2>7
<1>3. ASSUME w.down # Nil
      PROVE  /\ w.down \in 2 .. Len(V) /\ Start(V, w.down) \in Nat
             /\ Start(V, v) < Start(V, w.down) /\ Start(V, w.down) <= Width
  <2>1. w.down \in 2 .. Len(V) /\ w.down \in 1 .. Len(V)
    BY <1>3 DEF WordOf, Inner, Nodes
  <2>2. WordOf(V, D, w.down, V[w.down])
    BY <2>1, NodeWord
  <2>3. V[w.down].pos \in -1 .. Width - 1 /\ V[w.down].pos > V[v].pos
    BY <1>3, <2>2, WidthIs DEF WordOf, Fine
  <2>4. Start(V, v) = V[v].pos + 1 /\ Start(V, w.down) = V[w.down].pos + 1
    BY DEF Start
  <2>6. V[v].pos \in Int /\ V[w.down].pos \in Int /\ Width \in Int
    BY <1>1, <2>3, WidthIs
  <2>7. /\ V[w.down].pos + 1 \in Nat /\ V[v].pos + 1 < V[w.down].pos + 1
        /\ V[w.down].pos + 1 <= Width
    BY <1>1, <2>3, <2>6
  <2> QED
    BY <2>1, <2>4, <2>7
<1>4. /\ Start(V, v) \in 0 .. Width /\ Start(V, v) \in Nat /\ V[v].pos \in Int
      /\ w.ty \in {"DATA", "RIGHT"}
  BY <1>1, WidthIs DEF Start, WordOf, Types
<1>5. /\ w.ty = "RIGHT" => w.rd \in 2 .. Len(V) /\ w.rd # Nil
                           /\ Start(V, w.rd) \in Nat /\ Start(V, v) < Start(V, w.rd)
                           /\ Start(V, w.rd) < Width
  BY <1>2
<1>6. w.down # Nil => w.down \in 2 .. Len(V) /\ Start(V, w.down) \in Nat
                      /\ Start(V, v) < Start(V, w.down) /\ Start(V, w.down) <= Width
  BY <1>3
<1> QED
  BY <1>4, <1>5, <1>6

\* A key that differs from the record confirmed on the right is not found
\* there.
LEMMA SplitMiss ==
  ASSUME NEW R, NEW miss, NEW m, Nodes(vec, dat), Active(vec, dat, m), Inserts(vec, dat, m),
         Standing(vec, dat, R, m, miss), Settled(vec, dat, R, m)
  PROVE  ~ Route(vec, dat, R, m.cur, m.cw, m.key)
<1> DEFINE s == m.start
           p == SplitAt(dat, m)
<1>1. At(vec, dat, m) /\ m.fs = m.start /\ WordOf(vec, dat, m.cur, m.cw)
  BY DEF Inserts, At
<1>2. s = Start(vec, m.cur) /\ s \in Nat /\ s < Width /\ Bit(m.key, s) = 1
  BY <1>1, StandBit
<1>3. /\ SegmentEnd(m) \in Int /\ p \in s .. Width - 1 /\ p < SegmentEnd(m)
  BY SplitRange DEF SplitAt, DiffPos
<1>4. Bit(m.key, p) # Bit(dat[m.cd].key, p)
  <2>1. s \in Int /\ s <= SegmentEnd(m) /\ Width \in Int
    BY <1>2, <1>3, WidthIs
  <2> QED
    BY <1>3, <2>1, FirstDiffIs DEF SplitAt
<1> HIDE DEF s, p
<1>5. CASE m.cw.ty = "RIGHT"
  <2>1. Child(m.cw, m.key, s) = m.cw.rd
    BY <1>2, <1>5, WidthIs DEF Child
  <2>2. m.nxt = m.cw.rd /\ m.cw.rd # Nil /\ Start(vec, m.nxt) = SegmentEnd(m)
        /\ Start(vec, m.nxt) \in Int
    <3>1. ReadOnRight(vec, dat, m)
      BY <1>5 DEF Inserts
    <3>2. m.nxt = m.cw.rd /\ m.nw.pos = vec[m.nxt].pos
      BY <3>1 DEF ReadOnRight, WordOf
    <3> QED
      BY <1>1, <1>3, <1>5, <3>2, WordSays DEF SegmentEnd, Start, Standing
  <2>3. ASSUME On(vec, R, m.nxt, m.key) PROVE FALSE
    <3>1. On(vec, R, m.nxt, dat[m.cd].key)
      BY <1>5 DEF Settled
    <3>2. Pre(m.key, Start(vec, m.nxt)) = Pre(dat[m.cd].key, Start(vec, m.nxt))
      BY <2>3, <3>1 DEF On
    <3>3. p \in 0 .. Start(vec, m.nxt) - 1
      BY <1>2, <1>3, <2>2
    <3> QED
      BY <1>4, <2>2, <3>2, <3>3, PreLess
  <2> QED
    BY <1>2, <2>1, <2>2, <2>3 DEF Route
<1>6. CASE m.cw.ty = "DATA"
  <2>1. Child(m.cw, m.key, s) = Nil
    BY <1>2, <1>6, WidthIs DEF Child
  <2>2. m.cw.rd = m.cd
    BY <1>6 DEF Inserts
  <2> QED
    BY <1>2, <1>4, <2>1, <2>2 DEF Route
<1> QED
  BY <1>1, <1>5, <1>6 DEF WordOf, Types

\* A record that is not the key's: an insert goes on beside it, a lookup ends.
LEMMA MismatchKnows ==
  ASSUME NEW R, NEW miss \in BOOLEAN, NEW see, NEW m, Nodes(vec, dat), Active(vec, dat, m), Adds(m),
         Inserts(vec, dat, m), Standing(vec, dat, R, m, miss), Settled(vec, dat, R, m)
  PROVE  Knows(vec, dat, R, Mismatch(m), miss, see)
<1>1. m \in Locals /\ m.op \in {"FIND", "INSERT"} /\ m.ret = NOT_FOUND
  BY AddsRet
<1>2. CASE m.op = "FIND"
  <2>1. miss
    BY SplitMiss DEF Standing, Sure, Settled
  <2>2. Knows(vec, dat, R, Answer(m, m.ret), miss, see)
    BY <1>1, <1>2, <2>1, MissKnows
  <2> QED
    BY <1>2, <2>2 DEF Mismatch
<1>3. CASE m.op = "INSERT"
  <2>1. SplitAt(dat, m) = DiffPos(m)
    BY DEF SplitAt, DiffPos
  <2>2. CASE Bit(m.key, DiffPos(m)) = 1
    <3>1. Knows(vec, dat, R, [m EXCEPT !.pc = "insert_up"], miss, see)
      BY <1>1, <1>3, <2>1, <2>2, GoKnows DEF Inserting
    <3> QED
      BY <1>3, <2>2, <3>1 DEF Mismatch
  <2>3. CASE Bit(m.key, DiffPos(m)) # 1
    <3>1. Knows(vec, dat, R, [m EXCEPT !.pc = "insert_down"], miss, see)
      BY <1>1, <1>3, <2>1, <2>3, GoKnows DEF Inserting
    <3> QED
      BY <1>3, <2>3, <3>1 DEF Mismatch
  <2> QED
    BY <2>2, <2>3
<1> QED
  BY <1>1, <1>2, <1>3

\* A node at the last bit holds the record of the only key that ends there.
LEMMA EndKnows ==
  ASSUME NEW R, Nodes(vec, dat), NEW v, NEW w, WordOf(vec, dat, v, w), Fine(vec, dat, R, v, w),
         w.ty = "DATA", w.rd # Nil, Start(vec, v) >= Width,
         NEW k \in Keys, On(vec, R, v, k)
  PROVE  dat[w.rd].key = k
<1>1. Start(vec, v) = Width /\ Width \in Nat
  BY WordSays, WidthIs
<1>2. w.rd \in 1 .. Len(dat) /\ dat[w.rd].key \in Keys
  <2>1. w.rd \in 0 .. Len(dat) /\ Len(dat) \in Nat /\ dat \in Seq(Records)
    BY DEF WordOf, Nodes
  <2>2. w.rd \in 1 .. Len(dat)
    BY <2>1 DEF Nil
  <2>3. dat[w.rd] \in Records
    BY <2>1, <2>2
  <2> QED
    BY <2>2, <2>3 DEF Records
<1>3. On(vec, R, v, dat[w.rd].key)
  BY DEF Fine
<1>4. Pre(dat[w.rd].key, Width) = Pre(k, Width)
  BY <1>1, <1>3 DEF On
<1> QED
  BY <1>2, <1>4, KeyOfBits

\* cur holds a record, or nothing yet.
LEMMA AtDataKnows ==
  ASSUME NEW R, NEW miss \in BOOLEAN, NEW see, NEW m, Nodes(vec, dat), Active(vec, dat, m), Adds(m),
         At(vec, dat, m), m.fs = m.start, m.cw.ty = "DATA", m.cw.st = "VALID", m.cd # Nil,
         Standing(vec, dat, R, m, miss)
  PROVE  Knows(vec, dat, R, AtData(m), miss, see)
<1> DEFINE n == [m EXCEPT !.cd = m.cw.rd]
           u == [m EXCEPT !.cd = Unset]
<1>1. Len(vec) \in Nat \ {0} /\ Len(dat) \in Nat
  BY DEF Nodes
<1>2. /\ m.cw.rd \in 0 .. Len(dat) /\ (m.cur # Head1 => m.cw.rd # Nil)
      /\ (m.cur = Head1 => m.cw.pos = -1) /\ WordOf(vec, dat, m.cur, m.cw)
  BY DEF At, WordOf
<1>3. Active(vec, dat, u) /\ SameCall(u, m)
  BY <1>1, SetCd
<1>4. /\ Active(vec, dat, n)
      /\ n.cd = m.cw.rd /\ SameCall(n, m) /\ SameNext(n, m)
      /\ n.cur = m.cur /\ n.cw = m.cw /\ n.pre = m.pre /\ n.start = m.start /\ n.fs = m.fs
      /\ n.dir = m.dir
  BY <1>1, <1>2, SetCd
<1>5. AtData(m) = IF m.cd # Unset /\ m.cd # m.cw.rd THEN Restart(u)
                  ELSE IF n.cd = Nil
                  THEN IF m.op = "INSERT" THEN [n EXCEPT !.pc = "insert_first"] ELSE Answer(n, m.ret)
                  ELSE IF DiffPos(n) = Width THEN [n EXCEPT !.pc = "found", !.start = Width]
                  ELSE Mismatch(n)
  BY DEF AtData
<1> HIDE DEF n, u
<1>6. At(vec, dat, n)
  BY <1>4 DEF At
<1>7. /\ Adds(n) /\ Adds(u) /\ n.op = m.op /\ n.key = m.key /\ n.goal = m.goal
      /\ n \in Locals /\ u \in Locals /\ m.ret = NOT_FOUND /\ m.key \in Keys
      /\ m.op \in {"FIND", "INSERT"}
  BY <1>3, <1>4, AddsRet DEF Adds, SameCall, Active, Ranges
<1>8. /\ m.start = Start(vec, m.cur) /\ m.start \in Nat /\ m.start < Width
      /\ Bit(m.key, m.start) = 1 /\ Width \in Nat
  BY StandBit, WidthIs
<1>9. CASE m.cd # Unset /\ m.cd # m.cw.rd
  BY <1>5, <1>7, <1>9, RestartKnows
<1>10. CASE ~ (m.cd # Unset /\ m.cd # m.cw.rd) /\ n.cd = Nil
  <2>1. m.cur = Head1 /\ m.start = 0 /\ m.cw.rd = Nil
    BY <1>2, <1>4, <1>10 DEF At
  <2>2. CASE m.op = "INSERT"
    <3>1. Knows(vec, dat, R, [n EXCEPT !.pc = "insert_first"], miss, see)
      BY <1>4, <1>7, <1>8, <2>1, <2>2, GoKnows DEF Inserting
    <3> QED
      BY <1>5, <1>10, <2>2, <3>1
  <2>3. CASE m.op = "FIND"
    <3>1. On(vec, R, m.cur, m.key)
      BY <1>8, <2>1, PreNone DEF On
    <3>2. ~ Route(vec, dat, R, m.cur, m.cw, m.key)
      <4>1. Child(m.cw, m.key, m.start) = Nil
        BY <1>8 DEF Child
      <4> QED
        BY <1>8, <2>1, <4>1 DEF Route
    <3>3. miss
      BY <3>1, <3>2 DEF Standing, Sure
    <3>4. Knows(vec, dat, R, Answer(n, m.ret), miss, see)
      BY <1>7, <2>3, <3>3, MissKnows
    <3> QED
      BY <1>5, <1>10, <2>3, <3>4
  <2> QED
    BY <1>7, <2>2, <2>3
<1>11. CASE ~ (m.cd # Unset /\ m.cd # m.cw.rd) /\ n.cd # Nil
  <2>1. n.cd \in 1 .. Len(dat) /\ n.cd = m.cw.rd /\ m.cw.rd # Nil
    BY <1>1, <1>2, <1>4, <1>11 DEF Nil
  <2>2. On(vec, R, m.cur, dat[n.cd].key)
    BY <2>1 DEF Standing, Fine
  <2>3. On(vec, R, m.cur, m.key)
    <3>1. CASE m.cd = Unset
      BY <3>1 DEF Standing
    <3>2. CASE m.cd # Unset
      <4>1. m.cd = n.cd
        BY <1>11, <2>1, <3>2
      <4>2. Pre(m.key, m.start) = Pre(dat[n.cd].key, m.start)
        BY <3>2, <4>1 DEF Standing
      <4> QED
        BY <1>8, <2>2, <4>2 DEF On
    <3> QED
      BY <3>1, <3>2
  <2>4. Pre(m.key, m.start) = Pre(dat[n.cd].key, m.start)
    BY <1>8, <2>2, <2>3 DEF On
  <2>5. SegmentEnd(n) = Width
    BY <1>4 DEF SegmentEnd
  <2>6. CASE DiffPos(n) = Width
    <3>1. \A i \in m.start .. Width - 1 : Bit(m.key, i) = Bit(dat[n.cd].key, i)
      <4>1. n.start \in Int /\ Width \in Int /\ n.start <= Width /\ ~ (Width < Width)
        BY <1>4, <1>8
      <4> QED
        BY <1>4, <1>7, <2>5, <2>6, <4>1, FirstDiffIs DEF DiffPos
    <3>2. Pre(m.key, Width) = Pre(dat[n.cd].key, Width)
      BY <1>8, <2>4, <3>1, PreMore
    <3>3. dat[n.cd].key \in Keys
      <4>1. dat[n.cd] \in Records
        BY <2>1 DEF Nodes
      <4> QED
        BY <4>1 DEF Records
    <3>4. dat[n.cd].key = m.key
      BY <1>7, <3>2, <3>3, KeyOfBits
    <3> DEFINE q == [n EXCEPT !.pc = "found", !.start = Width]
    <3>5. q.pc = "found" /\ q.op = n.op /\ q.goal = n.goal /\ q.key = n.key /\ q.cd = n.cd
          /\ q.cw = n.cw
      BY <1>7 DEF Locals
    <3> HIDE DEF q
    <3>6. FoundData(q) = n.cd
      BY <1>4, <3>5 DEF FoundData
    <3>7. Knows(vec, dat, R, q, miss, see)
      BY <1>7, <3>4, <3>5, <3>6, FoundKnows
    <3> QED
      BY <1>5, <1>11, <2>6, <3>7 DEF q
  <2>7. CASE DiffPos(n) # Width
    <3>1. SplitAt(dat, n) \in n.start .. Width /\ SplitAt(dat, n) = DiffPos(n)
      <4>1. n.start \in Int /\ Width \in Int /\ n.start <= Width
        BY <1>4, <1>8
      <4> QED
        BY <2>5, <4>1, FirstDiffIs DEF SplitAt, DiffPos
    <3>2. Differs(vec, dat, n)
      BY <1>8, <2>1, <2>5, <2>7, <3>1 DEF Differs
    <3>3. Inserts(vec, dat, n)
      BY <1>4, <1>6, <3>2 DEF Inserts
    <3>4. Settled(vec, dat, R, n)
      BY <1>4, <1>7, <2>2, <2>3 DEF Settled
    <3>5. Standing(vec, dat, R, n, miss)
      <4>1. n.cd \notin {Unset, Nil}
        BY <1>1, <2>1 DEF Unset, Nil
      <4> QED
        BY <1>4, <1>7, <2>4, <4>1 DEF Standing
    <3>6. Knows(vec, dat, R, Mismatch(n), miss, see)
      BY <1>4, <1>7, <3>3, <3>4, <3>5, MismatchKnows
    <3> QED
      BY <1>5, <1>11, <2>7, <3>6
  <2> QED
    BY <2>6, <2>7
<1> QED
  BY <1>9, <1>10, <1>11

\* The walk goes on from the word of cur, or ends at its record.
LEMMA WalkKnows ==
  ASSUME NEW R, NEW miss \in BOOLEAN, NEW see, NEW m, Nodes(vec, dat), Active(vec, dat, m), Adds(m),
         Proceeds(vec, dat, m),
         m.start < Width => Standing(vec, dat, R, m, miss),
         m.start >= Width => dat[m.cw.rd].key = m.key
  PROVE  Knows(vec, dat, R, Walk(m), miss, see)
<1>1. m \in Locals /\ Width \in Int /\ m.start \in Int /\ m.fs \in Int /\ m.cur \in Nat
  BY TreeAssumption DEF Active, Ranges, Locals
<1>2. CASE m.start >= Width
  <2> DEFINE n == [m EXCEPT !.pc = "found"]
  <2>1. m.cd = Unset
    BY <1>1, <1>2 DEF Proceeds, At
  <2>2. n.pc = "found" /\ n.op = m.op /\ n.goal = m.goal /\ n.key = m.key /\ n.cd = m.cd /\ n.cw = m.cw
    BY <1>1 DEF Locals
  <2> HIDE DEF n
  <2>3. FoundData(n) = m.cw.rd
    BY <2>1, <2>2 DEF FoundData
  <2>4. Knows(vec, dat, R, n, miss, see)
    BY <1>1, <1>2, <2>2, <2>3, FoundKnows
  <2> QED
    BY <1>2, <2>4 DEF Walk, n
<1>3. CASE ~ (m.start >= Width)
  <2>1. At(vec, dat, m) /\ Standing(vec, dat, R, m, miss)
    BY <1>1, <1>3 DEF Proceeds
  <2>2. CASE m.fs = m.start /\ m.cw.ty = "DATA"
    <3>1. Knows(vec, dat, R, AtData(m), miss, see)
      BY <2>1, <2>2, AtDataKnows DEF Proceeds
    <3> QED
      BY <1>3, <2>2, <3>1 DEF Walk
  <2>3. CASE m.fs = m.start /\ m.cw.ty # "DATA"
    <3>1. Knows(vec, dat, R, [m EXCEPT !.pc = "right"], miss, see)
      BY <1>1, <2>1, GoKnows DEF Inserting
    <3> QED
      BY <1>3, <2>3, <3>1 DEF Walk
  <2>4. CASE m.fs # m.start /\ m.cd # Unset
    <3>1. Knows(vec, dat, R, GetDataId(m, m.cur, "recheck"), miss, see)
      BY <1>1, <2>1, GetDataIdKnows
    <3> QED
      BY <1>3, <2>4, <3>1 DEF Walk
  <2>5. CASE m.fs # m.start /\ m.cd = Unset
    <3>1. Downward(vec, dat, m)
      BY <1>1, <2>1, <2>5 DEF Downward, At
    <3>2. Knows(vec, dat, R, Down(m), miss, see)
      BY <2>1, <3>1, DownKnows
    <3> QED
      BY <1>3, <2>5, <3>2 DEF Walk
  <2> QED
    BY <2>2, <2>3, <2>4, <2>5
<1> QED
  BY <1>2, <1>3

\* The walk goes on from a node it has gone down to.
LEMMA ContinueKnows ==
  ASSUME NEW R, NEW miss \in BOOLEAN, NEW see, NEW m, Nodes(vec, dat), Active(vec, dat, m), Adds(m),
         m.fs >= m.start,
         m.fs > m.start => Downward(vec, dat, m) /\ Standing(vec, dat, R, m, miss),
         m.fs = m.start => Proceeds(vec, dat, m),
         m.start < Width => Standing(vec, dat, R, m, miss),
         m.start >= Width => dat[m.cw.rd].key = m.key
  PROVE  Knows(vec, dat, R, Continue(m), miss, see)
<1>1. m.start \in Int /\ m.fs \in Int
  BY DEF Active, Ranges, Locals
<1>2. CASE m.fs > m.start
  BY <1>1, <1>2, DownKnows DEF Continue
<1>3. CASE m.fs = m.start
  BY <1>1, <1>3, WalkKnows DEF Continue
<1> QED
  BY <1>1, <1>2, <1>3

\* The segment to the right is compared with the record cd.
LEMMA CompareKnows ==
  ASSUME NEW R, NEW miss \in BOOLEAN, NEW see, NEW m, Nodes(vec, dat), Active(vec, dat, m), Adds(m),
         ReadOnRight(vec, dat, m), Usable(m.nw), m.cd \in 1 .. Len(dat),
         Standing(vec, dat, R, m, miss), Beside(vec, dat, R, m, miss)
  PROVE  Knows(vec, dat, R, Compare(m), miss, see)
<1> DEFINE s == SegmentEnd(m)
           f == FirstSet(m.key, SegmentEnd(m), Width)
           n == [m EXCEPT !.pre = m.cur, !.cur = m.nxt, !.cw = m.nw, !.dir = "RIGHT",
                          !.start = s, !.fs = f]
<1>1. SegmentEnd(m) = m.nw.pos + 1 /\ m.nw.pos \in -1 .. Width - 2 /\ Width \in Int
  BY WidthIs DEF ReadOnRight, Rightward, SegmentEnd, WordOf, Usable
<1>2. m.nxt \in Nat /\ m.nxt \in 2 .. Len(vec) /\ m.nxt \in 1 .. Len(vec) /\ m.nw \in Words
      /\ Len(vec) \in Nat /\ m.nxt # Head1 /\ WordOf(vec, dat, m.nxt, m.nw)
  BY DEF ReadOnRight, Rightward, At, WordOf, Inner, Nodes, Head1
<1>3. CASE DiffPos(m) < SegmentEnd(m)
  <2>1. Knows(vec, dat, R, GetDataId(m, m.nxt, "confirm"), miss, see)
    BY GetDataIdKnows DEF Active, Ranges
  <2> QED
    BY <1>3, <2>1 DEF Compare
<1>4. CASE ~ (DiffPos(m) < SegmentEnd(m))
  <2>1. ~ (SegmentEnd(m) >= Width) /\ SegmentEnd(m) \in Int /\ SegmentEnd(m) <= Width
        /\ SegmentEnd(m) \in Nat
    BY <1>1
  <2>2. FirstSet(m.key, SegmentEnd(m), Width) \in SegmentEnd(m) .. Width /\ Width \in Int
    <3>1. m.key \in Keys
      BY DEF Active, Wants
    <3> QED
      BY SMTT(30), <1>1, <2>1, <3>1, FirstSetWidth, WidthIs
  <2>3. Compare(m) = Walk(n)
    BY <1>4, <2>1 DEF Compare
  <2>4. /\ Active(vec, dat, n)
        /\ n.cur = m.nxt /\ n.cw = m.nw /\ n.dir = "RIGHT" /\ n.start = s
        /\ n.fs = f /\ n.cd = m.cd /\ SameCall(n, m)
    <3>1. f \in Int /\ s \in Int
      BY <2>1, <2>2
    <3> HIDE DEF s, f
    <3>2. m \in Locals /\ m.cur \in Nat
      BY DEF Active, Ranges, Locals
    <3>3. n \in Locals
      BY <1>2, <3>1, <3>2 DEF Locals
    <3>4. /\ n.cur = m.nxt /\ n.cw = m.nw /\ n.dir = "RIGHT" /\ n.start = s /\ n.fs = f
          /\ n.cd = m.cd /\ n.pre = m.cur
      BY <3>2 DEF Locals
    <3>5. SameCall(n, m) /\ SameNext(n, m)
      BY <3>2 DEF Locals, SameCall, SameNext
    <3> HIDE DEF n
    <3>6. n.cur \in 0 .. Len(vec) /\ n.pre \in 0 .. Len(vec) /\ n.nxt \in 0 .. Len(vec)
          /\ n.cd \in {Unset} \union 0 .. Len(dat)
      BY <1>2, <3>4, <3>5 DEF Active, Ranges, SameNext
    <3> QED
      BY <3>3, <3>4, <3>5, <3>6, StaysActive
  <2> HIDE DEF n
  <2>5. At(vec, dat, n)
    BY <1>1, <1>2, <2>1, <2>2, <2>4 DEF At
  <2>6. Proceeds(vec, dat, n)
    BY <2>4, <2>5 DEF Proceeds, Usable, Nil
  <2>7. Adds(n) /\ n.key = m.key
    BY <2>4 DEF Adds, SameCall
  <2>8. /\ At(vec, dat, m) /\ m.start \in Nat /\ m.start <= SegmentEnd(m)
    <3>1. At(vec, dat, m) /\ m.nxt = m.cw.rd /\ m.cw.ty = "RIGHT" /\ WordOf(vec, dat, m.cur, m.cw)
          /\ m.nw.pos = vec[m.nxt].pos
      BY DEF ReadOnRight, Rightward, At, WordOf
    <3>2. m.start = Start(vec, m.cur) /\ m.start \in Nat
      BY <3>1, StandBit
    <3>3. Start(vec, m.nxt) = SegmentEnd(m)
      BY <1>1, <3>1 DEF Start
    <3>4. Fine(vec, dat, R, m.cur, m.cw)
      BY DEF Standing
    <3>5. Start(vec, m.cur) < Start(vec, m.nxt)
      BY <3>1, <3>4, WordSays
    <3> QED
      BY <2>1, <3>1, <3>2, <3>3, <3>5
  <2>9. Pre(m.key, s) = Pre(dat[m.cd].key, s)
    <3>1. Pre(m.key, m.start) = Pre(dat[m.cd].key, m.start)
      <4>1. m.cd \notin {Unset, Nil}
        BY DEF Unset, Nil, Nodes
      <4> QED
        BY <4>1 DEF Standing
    <3>2. \A i \in m.start .. SegmentEnd(m) - 1 : Bit(m.key, i) = Bit(dat[m.cd].key, i)
      BY <1>4, <2>1, <2>8, FirstDiffIs DEF DiffPos
    <3> QED
      BY <2>1, <2>8, <3>1, <3>2, PreMore
  <2>10. Standing(vec, dat, R, n, miss)
    <3>1. Fine(vec, dat, R, n.cur, n.cw) /\ Sure(vec, dat, R, n.key, n.cur, n.cw, miss)
      BY <2>4, <2>7 DEF Beside
    <3>2. n.cw.down # Nil
      BY <2>4 DEF Usable
    <3>3. \A i \in n.start .. n.fs - 1 : Bit(n.key, i) = 0
      <4>1. \A i \in s .. f - 1 : Bit(m.key, i) # 1
        BY <1>1, <2>1, FirstSetIs
      <4>2. ASSUME NEW i \in s .. f - 1 PROVE Bit(m.key, i) = 0
        <5>1. i \in 0 .. Width - 1
          BY <1>1, <2>1, <2>2, WidthIs
        <5>2. m.key \in Int
          BY KeyInt DEF Active, Wants
        <5> QED
          BY <4>1, <5>1, <5>2, BitIs
      <4> QED
        BY <2>4, <2>7, <4>2
    <3>4. n.fs < Width => Bit(n.key, n.fs) = 1
      BY <1>1, <2>1, <2>4, <2>7, FirstSetIs
    <3>5. n.cd \notin {Unset, Nil}
      BY <2>4 DEF Unset, Nil, Nodes
    <3> QED
      BY <2>4, <2>7, <2>9, <3>1, <3>2, <3>3, <3>4, <3>5 DEF Standing
  <2>11. n.start < Width /\ ~ (n.start >= Width)
    BY <1>1, <2>1, <2>4
  <2>12. Knows(vec, dat, R, Walk(n), miss, see)
    BY <2>4, <2>6, <2>7, <2>10, <2>11, WalkKnows
  <2> QED
    BY <2>3, <2>12 DEF n
<1> QED
  BY <1>3, <1>4

\* get_data_id returns to the walk: a record r below gv, or nothing if gv is
\* the head.
LEMMA GidReturnKnows ==
  ASSUME NEW R, NEW miss \in BOOLEAN, NEW see, NEW m, Nodes(vec, dat), Active(vec, dat, m), Adds(m),
         Calling(vec, dat, m), Standing(vec, dat, R, m, miss),
         m.back \in {"compare", "confirm"} => Beside(vec, dat, R, m, miss),
         m.back = "near" => m.op = "FIND" /\ miss,
         NEW r, r \in 1 .. Len(dat) \/ (r = Nil /\ m.gv = Head1),
         r \in 1 .. Len(dat) => On(vec, R, m.gv, dat[r].key)
  PROVE  Knows(vec, dat, R, GidReturn(m, r), miss, see)
<1> DEFINE n == [m EXCEPT !.gv = Nil, !.gc = Nil, !.gw = NoWord, !.gn = Nil, !.gx = NoWord,
                          !.back = "NONE"]
           nr == [n EXCEPT !.cd = r]
           nu == [n EXCEPT !.cd = Unset]
<1>0. Len(dat) \in Nat /\ Len(vec) \in Nat \ {0}
  BY DEF Nodes
<1>1. Active(vec, dat, n) /\ SameCall(n, m) /\ SameWalk(n, m) /\ SameNext(n, m)
  BY GidCleared
<1>2. /\ r \in 1 .. Len(dat) =>
           /\ Active(vec, dat, nr) /\ nr.cd = r /\ SameNext(nr, n) /\ SameCall(nr, n)
           /\ nr.cur = n.cur /\ nr.cw = n.cw /\ nr.pre = n.pre /\ nr.start = n.start
           /\ nr.fs = n.fs /\ nr.dir = n.dir
      /\ /\ Active(vec, dat, nu) /\ nu.cd = Unset /\ SameNext(nu, n) /\ SameCall(nu, n)
         /\ nu.cur = n.cur /\ nu.cw = n.cw /\ nu.pre = n.pre /\ nu.start = n.start
         /\ nu.fs = n.fs /\ nu.dir = n.dir
  <2> HIDE DEF n
  <2>1. ASSUME r \in 1 .. Len(dat)
        PROVE  /\ Active(vec, dat, nr) /\ nr.cd = r /\ SameNext(nr, n) /\ SameCall(nr, n)
               /\ nr.cur = n.cur /\ nr.cw = n.cw /\ nr.pre = n.pre /\ nr.start = n.start
               /\ nr.fs = n.fs /\ nr.dir = n.dir
    <3>1. r \in {Unset} \union 0 .. Len(dat)
      BY <1>0, <2>1
    <3> QED
      BY <1>0, <1>1, <3>1, SetCd
  <2>2. /\ Active(vec, dat, nu) /\ nu.cd = Unset /\ SameNext(nu, n) /\ SameCall(nu, n)
        /\ nu.cur = n.cur /\ nu.cw = n.cw /\ nu.pre = n.pre /\ nu.start = n.start
        /\ nu.fs = n.fs /\ nu.dir = n.dir
    BY <1>0, <1>1, SetCd
  <2> QED
    BY <2>1, <2>2
<1>3. /\ m.back = "compare" /\ r > 0 => GidReturn(m, r) = Compare(nr)
      /\ m.back = "confirm" => GidReturn(m, r) = IF r = m.cd THEN Mismatch(n) ELSE Restart(n)
      /\ m.back = "recheck" => GidReturn(m, r) = IF r = m.cd THEN Continue(nu) ELSE Restart(n)
      /\ m.back = "near" => GidReturn(m, r) =
             IF r > 0 THEN Answer(n, m.ret)
             ELSE IF r = DO_AGAIN THEN Restart(n)
             ELSE Fail(n, IF r = Nil THEN NullCode ELSE r)
  BY DEF GidReturn
<1>4. r \in 1 .. Len(dat) => r > 0 /\ r # Nil /\ r # Unset
  BY DEF Nil, Unset
<1> HIDE DEF n, nr, nu
<1>5. /\ n.op = m.op /\ n.key = m.key /\ n.goal = m.goal /\ n.ret = m.ret /\ Adds(n)
      /\ n.cur = m.cur /\ n.cw = m.cw /\ n.start = m.start /\ n.fs = m.fs /\ n.dir = m.dir
      /\ n.cd = m.cd /\ n.nxt = m.nxt /\ n.nw = m.nw
      /\ n \in Locals /\ n.ret = NOT_FOUND
  BY <1>1, AddsRet DEF SameCall, SameWalk, SameNext, Adds
<1>6. Standing(vec, dat, R, n, miss)
  BY <1>1, <1>5, StandSame
<1>7. Knows(vec, dat, R, Restart(n), miss, see)
  BY <1>5, RestartKnows
<1>8. ASSUME m.back \in {"compare", "confirm"}, NEW k, On(vec, R, m.nxt, k)
      PROVE  On(vec, R, m.cur, k)
  <2>1. m.cw.ty = "RIGHT" /\ m.nxt = m.cw.rd /\ WordOf(vec, dat, m.cur, m.cw)
    BY <1>8 DEF Calling, ReadOnRight, Rightward, At
  <2>2. Fine(vec, dat, R, m.cur, m.cw)
    BY DEF Standing
  <2>3. Start(vec, m.cur) < Start(vec, m.nxt) /\ Start(vec, m.cur) \in Int /\ Start(vec, m.nxt) \in Int
    BY <2>1, <2>2, WordSays
  <2>4. On(vec, R, m.cur, R[m.nxt])
    BY <2>1, <2>2 DEF Fine
  <2>5. Pre(k, Start(vec, m.cur)) = Pre(R[m.nxt], Start(vec, m.cur))
    BY <1>8, <2>3, PreLess DEF On
  <2> QED
    BY <2>4, <2>5 DEF On
<1>9. m.back \in {"compare", "confirm"} => m.start = Start(vec, m.cur)
  BY DEF Calling, ReadOnRight, Rightward, At, WordOf, Start
<1>10. CASE m.back = "compare"
  <2>1. ReadOnRight(vec, dat, m) /\ Usable(m.nw) /\ m.gv = m.nxt /\ m.cd = Unset
    BY <1>10 DEF Calling
  <2>2. r \in 1 .. Len(dat)
    BY <2>1 DEF ReadOnRight, Rightward, At, WordOf, Inner, Head1
  <2>3. ReadOnRight(vec, dat, nr) /\ Usable(nr.nw)
    BY <1>1, <1>2, <1>4, <2>1, <2>2
    DEF ReadOnRight, Rightward, At, SameWalk, SameNext
  <2>4. nr.key = m.key /\ nr.nxt = m.nxt /\ nr.nw = m.nw /\ Adds(nr)
    BY <1>2, <1>5, <2>2 DEF SameCall, SameNext, Adds
  <2>5. Beside(vec, dat, R, nr, miss)
    BY <1>10, <2>4 DEF Beside
  <2>6. On(vec, R, m.cur, m.key)
    BY <2>1 DEF Standing
  <2>7. Pre(m.key, m.start) = Pre(dat[r].key, m.start)
    <3>1. On(vec, R, m.cur, dat[r].key)
      BY <1>8, <1>10, <2>1, <2>2
    <3> QED
      BY <1>9, <1>10, <2>6, <3>1 DEF On
  <2>8. Standing(vec, dat, R, nr, miss)
    <3>1. nr.cd \notin {Unset, Nil}
      BY <1>2, <1>4, <2>2
    <3>2. Pre(nr.key, nr.start) = Pre(dat[nr.cd].key, nr.start)
      BY <1>2, <1>5, <2>2, <2>4, <2>7
    <3> QED
      BY <1>2, <1>5, <1>6, <2>2, <2>4, <3>1, <3>2 DEF Standing
  <2>9. Knows(vec, dat, R, Compare(nr), miss, see)
    BY <1>2, <2>2, <2>3, <2>4, <2>5, <2>8, CompareKnows
  <2> QED
    BY <1>3, <1>4, <1>10, <2>2, <2>9
<1>11. CASE m.back = "confirm"
  <2>1. ReadOnRight(vec, dat, m) /\ Differs(vec, dat, m) /\ m.gv = m.nxt /\ m.cd \in 1 .. Len(dat)
    BY <1>11 DEF Calling, Differs
  <2>2. CASE r = m.cd
    <3>1. On(vec, R, m.nxt, dat[m.cd].key)
      BY <2>1, <2>2
    <3>2. On(vec, R, m.cur, dat[m.cd].key)
      BY <1>8, <1>11, <3>1
    <3>3. m.cd \notin {Unset, Nil}
      BY <1>4, <2>1, <2>2
    <3>4. On(vec, R, m.cur, m.key)
      BY <1>9, <1>11, <3>2, <3>3 DEF Standing, On
    <3>5. Settled(vec, dat, R, n)
      BY <1>5, <3>1, <3>2, <3>4 DEF Settled
    <3>6. Inserts(vec, dat, n)
      <4>1. Inserts(vec, dat, m)
        BY <2>1 DEF Inserts, ReadOnRight, Rightward
      <4>2. SplitAt(dat, n) = SplitAt(dat, m) /\ SegmentEnd(n) = SegmentEnd(m)
        BY <1>5 DEF SplitAt, SegmentEnd
      <4> QED
        BY <1>5, <4>1, <4>2 DEF Inserts, Differs, At, ReadOnRight, Rightward
    <3>7. Knows(vec, dat, R, Mismatch(n), miss, see)
      BY <1>1, <1>5, <1>6, <3>5, <3>6, MismatchKnows
    <3> QED
      BY <1>3, <1>11, <2>2, <3>7
  <2> QED
    BY <1>3, <1>7, <1>11, <2>2
<1>12. CASE m.back = "recheck"
  <2>1. At(vec, dat, m) /\ m.fs > m.start /\ m.gv = m.cur /\ m.cd \in 1 .. Len(dat)
    BY <1>12 DEF Calling
  <2>2. CASE r = m.cd
    <3>1. Downward(vec, dat, nu)
      BY <1>1, <1>2, <2>1 DEF Downward, At, SameWalk
    <3>2. nu.fs > nu.start /\ nu.fs >= nu.start /\ nu.fs # nu.start /\ nu.start < Width
          /\ ~ (nu.start >= Width)
      BY <3>1, WidthIs DEF Downward, At, WordOf
    <3>3. nu.key = m.key /\ Adds(nu)
      BY <1>2, <1>5 DEF SameCall, Adds
    <3>4. On(vec, R, m.cur, m.key)
      <4>1. On(vec, R, m.cur, dat[m.cd].key)
        BY <2>1, <2>2
      <4>2. Pre(m.key, m.start) = Pre(dat[m.cd].key, m.start)
        BY <1>4, <2>1, <2>2 DEF Standing
      <4>3. m.start = Start(vec, m.cur)
        BY <2>1 DEF At, WordOf, Start
      <4> QED
        BY <4>1, <4>2, <4>3 DEF On
    <3>5. Standing(vec, dat, R, nu, miss)
      BY <1>2, <1>5, <1>6, <3>3, <3>4 DEF Standing
    <3>6. Knows(vec, dat, R, Continue(nu), miss, see)
      BY <1>2, <3>1, <3>2, <3>3, <3>5, ContinueKnows
    <3> QED
      BY <1>3, <1>12, <2>2, <3>6
  <2> QED
    BY <1>3, <1>7, <1>12, <2>2
<1>13. CASE m.back = "near"
  <2>1. CASE r \in 1 .. Len(dat)
    <3>1. Knows(vec, dat, R, Answer(n, m.ret), miss, see)
      BY <1>5, <1>13, MissKnows
    <3> QED
      BY <1>3, <1>4, <1>13, <2>1, <3>1
  <2>2. CASE r = Nil
    <3>1. Knows(vec, dat, R, Answer(n, NullCode), miss, see)
      BY <1>5, <1>13, MissKnows
    <3>2. GidReturn(m, r) = Fail(n, NullCode)
      BY <1>3, <1>13, <2>2 DEF Nil, DO_AGAIN
    <3>3. n.ret # OK
      BY <1>5 DEF NOT_FOUND, OK
    <3> QED
      BY <3>1, <3>2, <3>3 DEF Fail
  <2> QED
    BY <2>1, <2>2
<1> QED
  BY <1>10, <1>11, <1>12, <1>13 DEF Calling

\* get_data_id goes on from a valid word.
LEMMA GidWalkKnows ==
  ASSUME NEW R, NEW miss \in BOOLEAN, NEW see, NEW m, Nodes(vec, dat), Active(vec, dat, m), Adds(m),
         Descending(vec, dat, m), Descended(vec, dat, R, m), Standing(vec, dat, R, m, miss),
         m.back \in {"compare", "confirm"} => Beside(vec, dat, R, m, miss),
         m.back = "near" => m.op = "FIND" /\ miss
  PROVE  Knows(vec, dat, R, GidWalk(m), miss, see)
<1>1. WordOf(vec, dat, m.gc, m.gw) /\ (m.gv # Head1 => m.gc # Head1) /\ Calling(vec, dat, m)
      /\ m.gw.st = "VALID"
  BY DEF Descending, Descended, Fine
<1>2. CASE m.gw.ty = "DATA"
  <2>1. m.gw.rd \in 1 .. Len(dat) \/ (m.gw.rd = Nil /\ m.gv = Head1)
    <3>1. m.gw.rd \in 0 .. Len(dat) /\ Len(dat) \in Nat
      BY <1>1, <1>2 DEF WordOf, Nodes
    <3>2. m.gw.rd = Nil => m.gv = Head1
      BY <1>1, <1>2 DEF WordOf
    <3> QED
      BY <3>1, <3>2 DEF Nil
  <2>2. ASSUME m.gw.rd \in 1 .. Len(dat) PROVE On(vec, R, m.gv, dat[m.gw.rd].key)
    <3>1. m.gw.rd # Nil
      BY <2>2 DEF Nil
    <3>2. On(vec, R, m.gc, dat[m.gw.rd].key) /\ On(vec, R, m.gv, R[m.gc])
      BY <1>2, <3>1 DEF Descended, Fine
    <3>3. Start(vec, m.gv) \in Int /\ Start(vec, m.gc) \in Int /\ Start(vec, m.gv) <= Start(vec, m.gc)
      <4>1. m.gv \in 1 .. Len(vec)
        BY <1>1 DEF Calling, ReadOnRight, Rightward, Downward, At, WordOf, Inner
      <4>2. WordOf(vec, dat, m.gv, vec[m.gv])
        BY <4>1, NodeWord
      <4>3. vec[m.gv].pos \in Int /\ vec[m.gc].pos \in Int /\ vec[m.gv].pos <= vec[m.gc].pos
        BY <1>1, <4>2 DEF WordOf, Descended
      <4> QED
        BY <4>3 DEF Start
    <3>4. Pre(dat[m.gw.rd].key, Start(vec, m.gv)) = Pre(R[m.gc], Start(vec, m.gv))
      BY <3>2, <3>3, PreLess DEF On
    <3> QED
      BY <3>2, <3>4 DEF On
  <2>3. Knows(vec, dat, R, GidReturn(m, m.gw.rd), miss, see)
    BY <1>1, <2>1, <2>2, GidReturnKnows
  <2> QED
    BY <1>2, <2>3 DEF GidWalk
<1>3. CASE m.gw.ty # "DATA"
  <2> DEFINE n == [m EXCEPT !.pc = "gid_next", !.gn = m.gw.rd]
  <2>1. m \in Locals
    BY DEF Active, Ranges
  <2>2. n.pc = "gid_next" /\ n.gv = m.gv /\ n.gc = m.gc /\ n.gw = m.gw /\ n.back = m.back
    BY <2>1 DEF Locals
  <2>3. SameCall(n, m) /\ SameWalk(n, m) /\ SameNext(n, m)
    BY <2>1 DEF Locals, SameCall, SameWalk, SameNext
  <2>4. GidWalk(m) = n
    BY <1>3 DEF GidWalk
  <2> HIDE DEF n
  <2>5. n.op = m.op /\ n.goal = m.goal /\ n.key = m.key
    BY <2>3 DEF SameCall
  <2>6. Standing(vec, dat, R, n, miss) /\ Descended(vec, dat, R, n)
        /\ (m.back \in {"compare", "confirm"} => Beside(vec, dat, R, n, miss))
    BY <2>2, <2>3, <2>5, StandSame, BesideSame, DescendedSame
  <2> QED
    BY <2>2, <2>4, <2>5, <2>6 DEF Knows, Adds, AddPoints, Walking, Inserting
<1> QED
  BY <1>2, <1>3

-----------------------------------------------------------------------------
(* The steps that read.                                                     *)

\* A step of t to a place where it knows enough.
LEMMA BecomeLearned ==
  ASSUME TreeInv, NEW R, NEW miss \in BOOLEAN, NEW see, NEW t \in Thread, NEW m, Become(t, m), UNCHANGED <<vec, dat>>,
         Knows(vec, dat, R, m, miss, see)
  PROVE  Learned(t, R, miss, see)
<1>1. loc' = [loc EXCEPT ![t] = m] /\ loc'[t] = m
  BY DEF Become, TreeInv
<1> QED
  BY <1>1 DEF Learned

\* A thread at a point past its call, that adds or looks up.
LEMMA AddCall ==
  ASSUME TreeInv, NEW R, NEW miss, NEW see, NEW t \in Thread, loc[t].pc \notin {"idle", "return"},
         Knows(vec, dat, R, loc[t], miss, see)
  PROVE  /\ Active(vec, dat, loc[t]) /\ Where(vec, dat, loc[t]) /\ loc[t] \in Locals
         /\ Nodes(vec, dat) /\ Len(vec) \in Nat \ {0} /\ Len(dat) \in Nat
         /\ Adds(loc[t]) /\ loc[t].key \in Keys /\ loc[t].op \in {"FIND", "INSERT"}
         /\ loc[t].ret = NOT_FOUND
<1>1. /\ Active(vec, dat, loc[t]) /\ Where(vec, dat, loc[t]) /\ loc[t] \in Locals
      /\ Nodes(vec, dat) /\ Len(vec) \in Nat \ {0} /\ Len(dat) \in Nat
  BY InCall
<1>2. Adds(loc[t])
  BY DEF Knows, Adds
<1> QED
  BY <1>1, <1>2, AddsRet

\* A word that is read tells the way to a key that has not been missed.
LEMMA ReadSure ==
  ASSUME NEW R, NEW miss \in BOOLEAN, Store(vec, dat, R), NEW k, Gone(dat, k) => miss,
         NEW v \in 1 .. Len(vec)
  PROVE  Fine(vec, dat, R, v, vec[v]) /\ Sure(vec, dat, R, k, v, vec[v], miss)
<1>1. Fine(vec, dat, R, v, vec[v])
  BY DEF Store
<1>2. ASSUME On(vec, R, v, k), ~ miss PROVE Route(vec, dat, R, v, vec[v], k)
  <2>1. PICK d \in 1 .. Len(dat) : dat[d].key = k
    BY <1>2 DEF Gone
  <2> QED
    BY <1>2, <2>1 DEF Store
<1> QED
  BY <1>1, <1>2 DEF Sure

\* An operation is called.
LEMMA CallKnows ==
  ASSUME TreeInv, Adding, NEW R, NEW miss \in BOOLEAN, NEW see, NEW t \in Thread, NEW op \in Operation, NEW key \in Keys, Call(t, op, key)
  PROVE  Learned(t, R, miss, see)
<1> DEFINE m == [Restart(Idle) EXCEPT !.op = op, !.goal = op, !.key = key]
<1>1. op \in {"FIND", "INSERT"}
  BY DEF Call, Adding, Operation
<1>2. m.pc = "forward" /\ m.cur = Head1 /\ m.op = op /\ m.goal = op
  BY DEF Restart, Idle
<1>3. \A code : Answer(m, code).pc = "return" /\ Answer(m, code).op = op
                /\ Answer(m, code).goal = op /\ Answer(m, code).ret = code
  BY DEF Restart, Idle, Answer
<1>4. Become(t, m) \/ \E code \in Trouble : Become(t, Answer(m, code))
  BY DEF Call
<1> HIDE DEF m
<1>5. Knows(vec, dat, R, m, miss, see)
  BY <1>1, <1>2 DEF Knows, AddPoints, Walking, Inserting
<1>6. ASSUME NEW code \in Trouble PROVE Knows(vec, dat, R, Answer(m, code), miss, see)
  <2> DEFINE n == Answer(m, code)
  <2>1. n.pc = "return" /\ n.op = op /\ n.goal = op /\ n.ret = code
    BY <1>3
  <2> HIDE DEF n
  <2> QED
    BY <1>1, <2>1 DEF Knows, AddPoints, Walking, Inserting, n
<1>7. UNCHANGED <<vec, dat>>
  BY DEF Call
<1> QED
  BY <1>4, <1>5, <1>6, <1>7, BecomeLearned

\* A call returns.
LEMMA ReturnKnows ==
  ASSUME TreeInv, NEW R, NEW miss \in BOOLEAN, NEW see, NEW t \in Thread, Return(t)
  PROVE  Learned(t, R, miss, see)
<1>1. Become(t, Idle) /\ UNCHANGED <<vec, dat>> /\ Idle.pc = "idle"
  BY DEF Return, Idle
<1>2. Knows(vec, dat, R, Idle, miss, see)
  BY <1>1 DEF Knows, AddPoints, Walking, Inserting
<1> QED
  BY <1>1, <1>2, BecomeLearned

\* An insertion that gets no memory.
LEMMA InsertTroubleKnows ==
  ASSUME TreeInv, NEW R, NEW miss \in BOOLEAN, NEW see, NEW t \in Thread, InsertTrouble(t),
         Knows(vec, dat, R, loc[t], miss, see)
  PROVE  Learned(t, R, miss, see)
<1>1. PICK code \in Trouble : Become(t, Answer(loc[t], code))
  BY DEF InsertTrouble
<1>2. UNCHANGED <<vec, dat>> /\ Adds(loc[t]) /\ loc[t] \in Locals
  BY AddCall DEF InsertTrouble, Quiet
<1> DEFINE n == Answer(loc[t], code)
<1>3. n.pc = "return" /\ n.op = loc[t].op /\ n.goal = loc[t].goal /\ n.ret = code
  BY <1>2 DEF Answer, Locals
<1> HIDE DEF n
<1>4. Knows(vec, dat, R, n, miss, see)
  BY <1>2, <1>3 DEF Knows, Adds, AddPoints, Walking, Inserting
<1> QED
  BY <1>1, <1>2, <1>4, BecomeLearned DEF n

\* The walk starts at the head, and it is there.
LEMMA ForwardKnows ==
  ASSUME TreeInv, NEW R, NEW miss \in BOOLEAN, NEW see, Store(vec, dat, R), NEW t \in Thread, Forward(t),
         Knows(vec, dat, R, loc[t], miss, see),
         Gone(dat, loc[t].key) => miss
  PROVE  Learned(t, R, miss, see)
<1> DEFINE m == loc[t]
           w == vec[m.cur]
           n(f) == [m EXCEPT !.cw = w, !.pre = Nil, !.nxt = Nil, !.nw = NoWord, !.start = 0,
                             !.fs = f, !.dir = "START", !.cd = Unset]
<1>1. /\ Active(vec, dat, m) /\ m \in Locals /\ m.cur = Head1 /\ m.key \in Keys /\ Adds(m)
      /\ Nodes(vec, dat) /\ Len(vec) \in Nat \ {0} /\ Len(dat) \in Nat /\ m.cur \in 1 .. Len(vec)
  <2>1. m.pc = "forward"
    BY DEF Forward
  <2>2. m.cur = Head1
    BY <2>1 DEF Knows
  <2>3. m.pc \notin {"idle", "return"}
    BY <2>1
  <2>4. /\ Active(vec, dat, m) /\ m \in Locals /\ m.key \in Keys /\ Adds(m)
        /\ Nodes(vec, dat) /\ Len(vec) \in Nat \ {0} /\ Len(dat) \in Nat
    BY <2>3, AddCall
  <2>5. Head1 \in 1 .. Len(vec)
    BY <2>4 DEF Head1
  <2> QED
    BY <2>2, <2>4, <2>5
<1>2. WordOf(vec, dat, m.cur, w) /\ UNCHANGED <<vec, dat>> /\ w.st = "VALID" /\ w.pos = -1
      /\ w \in Words
  BY <1>1 DEF Nodes, Forward, Quiet, WordOf
<1>3. PICK f \in FirstSetFrom(m.key, 0) : Become(t, Walk(n(f)))
  BY <1>1, <1>2 DEF Forward
<1>4. /\ f \in 0 .. Width /\ f \in Int
      /\ \A i \in 0 .. f - 1 : Bit(m.key, i) = 0
      /\ f < Width => Bit(m.key, f) = 1
  <2> DEFINE g == FirstSet(m.key, 0, Width)
  <2>1. Width \in Int /\ 0 <= Width /\ 0 < Width /\ Width \in Nat
    BY WidthIs
  <2>2. /\ g \in 0 .. Width
        /\ \A i \in 0 .. g - 1 : Bit(m.key, i) # 1
        /\ g < Width => Bit(m.key, g) = 1
    BY <1>1, <2>1, FirstSetIs, FirstSetWidth
  <2>3. f = g
    BY <1>3, <2>1, <2>2 DEF FirstSetFrom
  <2> HIDE DEF g
  <2>4. ASSUME NEW i \in 0 .. f - 1 PROVE Bit(m.key, i) = 0
    <3>1. i \in 0 .. Width - 1 /\ m.key \in Int
      BY <1>1, <2>1, <2>2, <2>3, KeyInt
    <3> QED
      BY <2>2, <2>3, <3>1, BitIs
  <2> QED
    BY <2>2, <2>3, <2>4
<1>5. m \in Locals /\ w \in Words /\ NoWord \in Words /\ Nil \in Nat /\ Unset \in Int /\ 0 \in Int
  BY <1>1, <1>2 DEF NoWord, Words, Nil, Unset
<1>6. n(f) \in Locals
  <2> HIDE DEF m, w
  <2> QED
    BY ZenonT(60), <1>4, <1>5 DEF Locals
<1>7. /\ n(f).cw = w /\ n(f).pre = Nil /\ n(f).nxt = Nil /\ n(f).start = 0 /\ n(f).fs = f
      /\ n(f).dir = "START" /\ n(f).cd = Unset /\ n(f).cur = m.cur
  <2> HIDE DEF m, w
  <2> QED
    BY <1>5 DEF Locals
<1>8. SameCall(n(f), m)
  <2> HIDE DEF m, w
  <2> QED
    BY <1>5 DEF Locals, SameCall
<1> HIDE DEF n, w
<1>9. Active(vec, dat, n(f)) /\ Adds(n(f)) /\ n(f).key = m.key
  <2>1. n(f).cur \in 0 .. Len(vec) /\ n(f).pre \in 0 .. Len(vec) /\ n(f).nxt \in 0 .. Len(vec)
        /\ n(f).cd \in {Unset} \union 0 .. Len(dat)
    BY <1>1, <1>7 DEF Nil
  <2>2. Active(vec, dat, n(f))
    BY <1>1, <1>6, <1>8, <2>1, StaysActive
  <2> QED
    BY <1>1, <1>8, <2>2 DEF Adds, SameCall
<1>10. Proceeds(vec, dat, n(f)) /\ n(f).start < Width /\ ~ (n(f).start >= Width)
  <2>1. n(f).start < Width /\ ~ (n(f).start >= Width)
    BY <1>7, WidthIs
  <2>2. At(vec, dat, n(f))
    BY <1>2, <1>4, <1>7, <2>1 DEF At
  <2> QED
    BY <1>2, <1>7, <2>1, <2>2 DEF Proceeds, Unset, Nil
<1>11. Standing(vec, dat, R, n(f), miss)
  <2>1. Fine(vec, dat, R, m.cur, w) /\ Sure(vec, dat, R, m.key, m.cur, w, miss)
    BY <1>1, ReadSure DEF w
  <2>2. On(vec, R, m.cur, m.key)
    <3>1. Start(vec, m.cur) = 0
      BY <1>2 DEF Start, w
    <3> QED
      BY <3>1, PreNone DEF On
  <2>3. n(f).start = 0 /\ n(f).fs = f /\ n(f).dir # "RIGHT" /\ n(f).cd \in {Unset, Nil}
        /\ n(f).cur = m.cur /\ n(f).cw = w /\ n(f).key = m.key
    BY <1>7, <1>9
  <2> HIDE DEF m
  <2>4. (\A i \in n(f).start .. n(f).fs - 1 : Bit(n(f).key, i) = 0)
        /\ (n(f).fs < Width => Bit(n(f).key, n(f).fs) = 1)
    BY <1>4, <2>3
  <2> QED
    BY <2>1, <2>2, <2>3, <2>4 DEF Standing
<1>12. Knows(vec, dat, R, Walk(n(f)), miss, see)
  BY <1>1, <1>9, <1>10, <1>11, WalkKnows
<1> QED
  BY <1>2, <1>3, <1>12, BecomeLearned

\* The right neighbour is read: it is valid and has nodes below.
LEMMA ReadRightKnows ==
  ASSUME TreeInv, NEW R, NEW miss \in BOOLEAN, NEW see, Store(vec, dat, R), NEW t \in Thread,
         ReadRight(t), Knows(vec, dat, R, loc[t], miss, see),
         Gone(dat, loc[t].key) => miss
  PROVE  Learned(t, R, miss, see)
<1> DEFINE l == loc[t]
           m == [l EXCEPT !.nxt = l.cw.rd, !.nw = vec[l.cw.rd]]
<1>0. l.pc = "right" /\ l.pc \notin {"idle", "return"}
  BY DEF ReadRight
<1>1. /\ Active(vec, dat, l) /\ Rightward(vec, dat, l) /\ Adds(l) /\ l.key \in Keys
      /\ Nodes(vec, dat) /\ Len(vec) \in Nat \ {0} /\ Len(dat) \in Nat
  BY <1>0, AddCall DEF Where
<1>2. Become(t, IF m.nw.st = "RAW" THEN Restart(m)
                   ELSE IF m.nw.st = "INVALID" THEN [m EXCEPT !.pc = "right_unlink"]
                   ELSE IF m.nw.down = Nil THEN [m EXCEPT !.pc = "right_invalidate"]
                   ELSE IF m.cd = Unset THEN GetDataId(m, m.nxt, "compare")
                   ELSE Compare(m))
      /\ UNCHANGED <<vec, dat>>
  BY DEF ReadRight, Quiet
<1>3. Standing(vec, dat, R, l, miss)
  BY <1>0 DEF Knows, Walking
<1>4. l.cw.rd \in 1 .. Len(vec) /\ WordOf(vec, dat, l.cw.rd, vec[l.cw.rd])
      /\ vec[l.cw.rd].down # Nil
  <2>1. l.cw.rd \in Inner(vec) /\ l.cw.ty = "RIGHT"
    BY <1>1 DEF Rightward, At, WordOf
  <2>2. vec[l.cw.rd].down # Nil
    BY <1>3, <2>1 DEF Standing, Fine
  <2> QED
    BY <1>1, <2>1, <2>2, NodeWord
<1>5. /\ Active(vec, dat, m)
      /\ m.nxt = l.cw.rd /\ m.nw = vec[l.cw.rd] /\ SameCall(m, l) /\ SameWalk(m, l) /\ SameGid(m, l)
  <2>1. vec[l.cw.rd] \in Words
    BY <1>4 DEF WordOf
  <2> HIDE DEF l
  <2> QED
    BY <1>1, <1>4, <2>1, SetNext
<1> HIDE DEF m, l
<1>6. ReadOnRight(vec, dat, m)
  BY <1>1, <1>4, <1>5, WalkSame DEF ReadOnRight, SameWalk
<1>7. m.key = l.key /\ Adds(m) /\ m \in Locals
  BY <1>1, <1>5 DEF SameCall, Adds, Active, Ranges
<1>8. Standing(vec, dat, R, m, miss)
  BY <1>3, <1>5, <1>7, StandSame
<1>9. Beside(vec, dat, R, m, miss)
  BY <1>4, <1>5, <1>7, ReadSure DEF Beside, l
<1>10. m.nw.st = "VALID" /\ m.nw.down # Nil
  BY <1>4, <1>5, <1>9 DEF Beside, Fine
<1>11. Knows(vec, dat, R, IF m.cd = Unset THEN GetDataId(m, m.nxt, "compare") ELSE Compare(m),
             miss, see)
  <2>1. CASE m.cd = Unset
    <3>1. Knows(vec, dat, R, GetDataId(m, m.nxt, "compare"), miss, see)
      BY <1>7, <1>8, <1>9, GetDataIdKnows
    <3> QED
      BY <2>1, <3>1
  <2>2. CASE m.cd # Unset
    <3>1. m.cd \in 1 .. Len(dat)
      BY <1>1, <1>5, <1>6, <2>2 DEF ReadOnRight, Rightward, Active, Ranges, Nil
    <3>2. Knows(vec, dat, R, Compare(m), miss, see)
      BY <1>1, <1>5, <1>6, <1>7, <1>8, <1>9, <1>10, <3>1, CompareKnows DEF Usable
    <3> QED
      BY <2>2, <3>2
  <2> QED
    BY <2>1, <2>2
<1>12. Become(t, IF m.cd = Unset THEN GetDataId(m, m.nxt, "compare") ELSE Compare(m))
  BY <1>2, <1>10
<1> QED
  BY <1>2, <1>11, <1>12, BecomeLearned

\* The down neighbour is read, and gone to, if the key is zero as far as it.
LEMMA ReadDownKnows ==
  ASSUME TreeInv, NEW R, NEW miss \in BOOLEAN, NEW see, Store(vec, dat, R), NEW t \in Thread,
         ReadDown(t), Knows(vec, dat, R, loc[t], miss, see),
         Gone(dat, loc[t].key) => miss
  PROVE  Learned(t, R, miss, see)
<1> DEFINE l == loc[t]
           m == [l EXCEPT !.nxt = l.cw.down, !.nw = vec[l.cw.down]]
           end == m.nw.pos + 1
           stop == IF m.nw.ty = "DATA" /\ m.nw.rd = Nil THEN "down_unlink" ELSE "down_validate"
           past == CASE m.op = "FIND" -> GetDataId(m, m.cur, "near")
                     [] m.op = "INSERT" -> [m EXCEPT !.pc = "insert_mid"]
                     [] m.op = "DELETE" -> Answer(m, m.ret)
           n == [m EXCEPT !.pre = m.cur, !.cur = m.nxt, !.cw = m.nw, !.dir = "DOWN", !.start = end]
           r == IF m.nw.st = "RAW" THEN Restart(m)
                ELSE IF m.nw.st = "INVALID" THEN [m EXCEPT !.pc = stop]
                ELSE IF m.fs < end THEN past
                ELSE Continue(n)
<1>0. l.pc = "down" /\ l.pc \notin {"idle", "return"}
  BY DEF ReadDown
<1>1. /\ Active(vec, dat, l) /\ Downward(vec, dat, l) /\ l.cw.down # Nil
      /\ Adds(l) /\ l.key \in Keys /\ l.op \in {"FIND", "INSERT"}
      /\ Nodes(vec, dat) /\ Len(vec) \in Nat \ {0} /\ Len(dat) \in Nat
  <2>1. /\ Active(vec, dat, l) /\ Where(vec, dat, l)
        /\ Adds(l) /\ l.key \in Keys /\ l.op \in {"FIND", "INSERT"}
        /\ Nodes(vec, dat) /\ Len(vec) \in Nat \ {0} /\ Len(dat) \in Nat
    BY <1>0, AddCall
  <2> QED
    BY <1>0, <2>1 DEF Where
<1>2. Become(t, r) /\ UNCHANGED <<vec, dat>>
  BY DEF ReadDown, Quiet
<1>3. Standing(vec, dat, R, l, miss)
  BY <1>0 DEF Knows, Walking
<1>4. /\ l.cw.down \in Inner(vec) /\ l.cw.down \in 1 .. Len(vec) /\ l.cw.down # Head1
      /\ WordOf(vec, dat, l.cw.down, vec[l.cw.down])
  <2>1. l.cw.down \in Inner(vec)
    BY <1>1 DEF Downward, At, WordOf
  <2> QED
    BY <1>1, <2>1, NodeWord
<1>5. /\ Active(vec, dat, m)
      /\ m.nxt = l.cw.down /\ m.nw = vec[l.cw.down] /\ SameCall(m, l) /\ SameWalk(m, l) /\ SameGid(m, l)
  <2>1. vec[l.cw.down] \in Words
    BY <1>4 DEF WordOf
  <2> HIDE DEF l
  <2> QED
    BY <1>1, <1>4, <2>1, SetNext
<1> HIDE DEF m, l
<1>6. ReadBelow(vec, dat, m)
  BY <1>1, <1>4, <1>5, WalkSame DEF ReadBelow, SameWalk
<1>7. m.key = l.key /\ m.op = l.op /\ m.goal = l.goal /\ Adds(m) /\ m \in Locals
      /\ m.cur = l.cur /\ m.cw = l.cw /\ m.start = l.start /\ m.fs = l.fs
  BY <1>1, <1>5 DEF SameCall, SameWalk, Adds, Active, Ranges
<1>8. Standing(vec, dat, R, m, miss)
  BY <1>3, <1>5, <1>7, StandSame
<1>9. Fine(vec, dat, R, m.nxt, m.nw) /\ Sure(vec, dat, R, m.key, m.nxt, m.nw, miss)
  BY <1>4, <1>5, <1>7, ReadSure DEF l
<1>10. /\ On(vec, R, m.cur, m.key) /\ At(vec, dat, m)
       /\ Start(vec, m.cur) = m.start /\ Start(vec, m.nxt) = end
       /\ m.start \in Nat /\ end \in Nat /\ m.start < end /\ end <= Width /\ m.fs \in Int
       /\ m.start < Width /\ m.fs > m.start /\ m.fs <= Width /\ Width \in Nat
       /\ Bit(m.key, m.start) = 0
       /\ On(vec, R, m.cur, R[m.nxt])
       /\ \A i \in m.start .. end - 1 : Bit(R[m.nxt], i) = 0
       /\ \A i \in m.start .. m.fs - 1 : Bit(m.key, i) = 0
       /\ m.fs < Width => Bit(m.key, m.fs) = 1
  <2>1. On(vec, R, m.cur, m.key) /\ At(vec, dat, m) /\ m.fs > m.start
    BY <1>6, <1>8 DEF Standing, ReadBelow, Downward
  <2>2. m.start = Start(vec, m.cur) /\ m.start \in Nat /\ m.start < Width /\ m.fs \in Int
        /\ Bit(m.key, m.start) = 0 /\ m.fs <= Width
    <3>1. m.fs \in m.start .. Width /\ Width \in Nat
      BY <2>1, WidthIs DEF At
    <3> QED
      BY <1>8, <2>1, <3>1, StandBit
  <2>3. WordOf(vec, dat, m.cur, m.cw) /\ Fine(vec, dat, R, m.cur, m.cw) /\ m.cw.down = m.nxt
        /\ m.nxt # Nil /\ vec[m.nxt].pos = m.nw.pos
    BY <1>1, <1>4, <1>5, <1>7, <1>8, <2>1 DEF At, Standing
  <2>4. /\ Start(vec, m.nxt) \in Nat
        /\ Start(vec, m.cur) < Start(vec, m.nxt) /\ Start(vec, m.nxt) <= Width
    BY <1>1, <2>3, WordSays
  <2>5. Start(vec, m.nxt) = end
    BY <2>3 DEF Start
  <2>6. On(vec, R, m.cur, R[m.nxt]) /\ \A i \in m.start .. vec[m.nxt].pos : Bit(R[m.nxt], i) = 0
    BY <2>2, <2>3 DEF Fine
  <2>7. m.nw.pos \in Int
    BY <1>4, <1>5 DEF WordOf
  <2>8. \A i \in m.start .. end - 1 : Bit(R[m.nxt], i) = 0
    BY <2>3, <2>6, <2>7
  <2>9. /\ \A i \in m.start .. m.fs - 1 : Bit(m.key, i) = 0
        /\ m.fs < Width => Bit(m.key, m.fs) = 1
    BY <1>8 DEF Standing
  <2> HIDE DEF end
  <2> QED
    BY <2>1, <2>2, <2>4, <2>5, <2>6, <2>8, <2>9, WidthIs
<1>11. CASE m.fs < end
  <2>1. Child(m.cw, m.key, m.start) = m.nxt /\ m.nxt # Nil
    BY <1>1, <1>5, <1>7, <1>10 DEF Child
  <2>2. ~ On(vec, R, m.nxt, m.key)
    <3> SUFFICES ASSUME On(vec, R, m.nxt, m.key) PROVE FALSE
      OBVIOUS
    <3>1. Pre(m.key, end) = Pre(R[m.nxt], end)
      BY <1>10 DEF On
    <3> HIDE DEF end
    <3>2. m.fs \in 0 .. end - 1 /\ m.fs \in m.start .. end - 1 /\ m.fs < Width
      BY <1>10, <1>11
    <3>3. Bit(m.key, m.fs) = Bit(R[m.nxt], m.fs)
      BY <1>10, <3>1, <3>2, PreLess
    <3> QED
      BY <1>10, <3>2, <3>3
  <2>5. Knows(vec, dat, R, past, miss, see)
    <3>1. CASE m.op = "FIND"
      <4>1. Knows(vec, dat, R, GetDataId(m, m.cur, "near"), miss, see)
        <5>1. ~ Route(vec, dat, R, m.cur, m.cw, m.key)
          BY <1>10, <2>1, <2>2 DEF Route
        <5>2. miss
          BY <1>8, <1>10, <5>1 DEF Standing, Sure
        <5> QED
          BY <1>7, <1>8, <3>1, <5>2, GetDataIdKnows
      <4>2. past = GetDataId(m, m.cur, "near")
        BY <3>1
      <4> QED
        BY <4>1, <4>2
    <3>2. CASE m.op = "INSERT"
      <4>1. Knows(vec, dat, R, [m EXCEPT !.pc = "insert_mid"], miss, see)
        BY <1>7, <1>8, <3>2, GoKnows DEF Inserting
      <4>2. past = [m EXCEPT !.pc = "insert_mid"]
        BY <3>2
      <4> QED
        BY <4>1, <4>2
    <3> QED
      BY <1>1, <1>7, <3>1, <3>2
  <2>6. r = past
    <3>1. m.nw.st = "VALID"
      BY <1>9 DEF Fine
    <3> HIDE DEF past
    <3> QED
      BY <1>11, <3>1
  <2> HIDE DEF r, past
  <2> QED
    BY <1>2, <2>5, <2>6, BecomeLearned
<1>12. CASE ~ (m.fs < end)
  <2>1. m.nw.st = "VALID"
    BY <1>9 DEF Fine
  <2>2. r = Continue(n)
    BY <1>12, <2>1
  <2>3. m \in Locals /\ m.cur \in Nat /\ m.nw \in Words /\ m.nxt \in Nat /\ m.nxt \in 1 .. Len(vec)
        /\ m.nxt # Head1 /\ WordOf(vec, dat, m.nxt, m.nw)
    <3>1. m.nw \in Words /\ WordOf(vec, dat, m.nxt, m.nw)
      BY <1>4, <1>5 DEF WordOf
    <3>2. m \in Locals /\ m.cur \in Nat
      BY <1>5 DEF Active, Ranges, Locals
    <3> QED
      BY <1>1, <1>4, <1>5, <3>1, <3>2
  <2> HIDE DEF end, r
  <2>4. n \in Locals
    <3>1. end \in Int
      BY <1>10
    <3> QED
      BY <2>3, <3>1 DEF Locals
  <2>5. /\ n.cur = m.nxt /\ n.cw = m.nw /\ n.dir = "DOWN" /\ n.start = end /\ n.fs = m.fs
        /\ n.cd = m.cd /\ n.pre = m.cur
    BY <2>3 DEF Locals
  <2>6. SameCall(n, m) /\ SameNext(n, m)
    BY <2>3 DEF Locals, SameCall, SameNext
  <2> HIDE DEF n
  <2>7. Active(vec, dat, n) /\ Adds(n) /\ n.key = m.key
    <3>1. n.cur \in 0 .. Len(vec) /\ n.pre \in 0 .. Len(vec) /\ n.nxt \in 0 .. Len(vec)
          /\ n.cd \in {Unset} \union 0 .. Len(dat)
      BY <1>1, <1>5, <2>3, <2>5, <2>6 DEF Active, Ranges, SameNext
    <3>2. Active(vec, dat, n)
      BY <1>5, <2>4, <2>6, <3>1, StaysActive
    <3> QED
      BY <1>7, <2>6, <3>2 DEF SameCall, Adds
  <2>8. n.cd = Unset /\ n.fs >= n.start /\ n.start = m.nw.pos + 1
    <3>1. n.fs >= n.start
      BY <1>10, <1>12, <2>5
    <3> QED
      BY <1>6, <2>5, <3>1 DEF ReadBelow, Downward, end
  <2>9. n.start < Width => At(vec, dat, n)
    <3>1. n.fs \in n.start .. Width
      BY <1>10, <2>5, <2>8
    <3> QED
      BY <2>3, <2>5, <2>8, <3>1 DEF At
  <2>10. n.fs > n.start => Downward(vec, dat, n)
    <3>1. n.fs > n.start => n.start < Width
      BY <1>10, <2>5, WidthIs
    <3> QED
      BY <2>8, <2>9, <3>1 DEF Downward
  <2>11. On(vec, R, m.nxt, m.key)
    <3>1. Pre(m.key, m.start) = Pre(R[m.nxt], m.start)
      BY <1>10 DEF On
    <3>2. \A i \in m.start .. end - 1 : Bit(m.key, i) = Bit(R[m.nxt], i)
      <4>1. \A i \in m.start .. end - 1 : i \in m.start .. m.fs - 1
        BY <1>10, <1>12
      <4> QED
        BY <1>10, <4>1
    <3>3. Pre(m.key, end) = Pre(R[m.nxt], end)
      BY <1>10, <3>1, <3>2, PreMore
    <3> QED
      BY <1>10, <3>3 DEF On
  <2>12. Standing(vec, dat, R, n, miss)
    <3>1. \A i \in n.start .. n.fs - 1 : Bit(n.key, i) = 0
      <4>1. \A i \in end .. m.fs - 1 : i \in m.start .. m.fs - 1
        BY <1>10
      <4> QED
        BY <1>10, <2>5, <2>7, <4>1
    <3>2. n.fs < Width => Bit(n.key, n.fs) = 1
      BY <1>10, <2>5, <2>7
    <3>3. n.dir # "RIGHT"
      BY <2>5
    <3> QED
      BY <1>9, <2>5, <2>7, <2>8, <2>11, <3>1, <3>2, <3>3 DEF Standing
  <2>13. n.start >= Width => dat[n.cw.rd].key = n.key /\ Holds(vec, dat, n)
    <3> SUFFICES ASSUME n.start >= Width PROVE dat[n.cw.rd].key = n.key /\ Holds(vec, dat, n)
      OBVIOUS
    <3>1. m.nw.ty = "DATA" /\ m.nw.rd # Nil
      <4>1. m.nw.pos >= Width - 1
        BY <2>3, <2>8, WidthIs DEF WordOf
      <4> QED
        BY <2>1, <2>3, <4>1 DEF WordOf
    <3>2. dat[m.nw.rd].key = m.key
      <4>1. Start(vec, m.nxt) >= Width
        BY <1>10, <2>5
      <4> QED
        BY <1>1, <1>7, <1>9, <2>3, <2>11, <3>1, <4>1, EndKnows
    <3> QED
      BY <2>3, <2>5, <2>7, <3>1, <3>2 DEF Holds
  <2>14. n.fs = n.start => Proceeds(vec, dat, n)
    <3>1. n.start >= Width \/ n.start < Width
      BY <1>10, <2>5
    <3> QED
      BY <2>1, <2>5, <2>8, <2>9, <2>13, <3>1 DEF Proceeds, Unset, Nil
  <2>15. Knows(vec, dat, R, Continue(n), miss, see)
    BY <1>1, <2>7, <2>8, <2>10, <2>12, <2>13, <2>14, ContinueKnows
  <2> QED
    BY <1>2, <2>2, <2>15, BecomeLearned
<1> QED
  BY <1>11, <1>12

\* get_data_id begins at gv.
LEMMA GidKnows ==
  ASSUME TreeInv, NEW R, NEW miss \in BOOLEAN, NEW see, Store(vec, dat, R), NEW t \in Thread,
         Gid(t), Knows(vec, dat, R, loc[t], miss, see)
  PROVE  Learned(t, R, miss, see)
<1> DEFINE l == loc[t]
           m == [l EXCEPT !.gc = l.gv, !.gw = vec[l.gv]]
           r == IF m.gw.st # "VALID" THEN GidReturn(m, DO_AGAIN) ELSE GidWalk(m)
<1>0. l.pc = "gid" /\ l.pc \notin {"idle", "return"}
  BY DEF Gid
<1>1. /\ Active(vec, dat, l) /\ Calling(vec, dat, l) /\ Nodes(vec, dat) /\ Adds(l)
  <2>1. Active(vec, dat, l) /\ Where(vec, dat, l) /\ Nodes(vec, dat) /\ Adds(l)
    BY <1>0, AddCall
  <2> QED
    BY <1>0, <2>1 DEF Where
<1>2. Become(t, r) /\ UNCHANGED <<vec, dat>>
  BY DEF Gid, Quiet
<1>3. l.gv \in 1 .. Len(vec) /\ l.gv \in Nat
  <2>1. CASE l.back \in {"compare", "confirm"}
    <3>1. WordOf(vec, dat, l.gv, l.nw)
      BY <1>1, <2>1 DEF Calling, ReadOnRight
    <3> QED
      BY <3>1, <1>1 DEF WordOf, Nodes
  <2>2. CASE l.back \in {"recheck", "near"}
    <3>1. WordOf(vec, dat, l.gv, l.cw)
      BY <1>1, <2>2 DEF Calling, Downward, At
    <3> QED
      BY <3>1, <1>1 DEF WordOf, Nodes
  <2> QED
    BY <1>1, <2>1, <2>2 DEF Calling
<1>4. WordOf(vec, dat, l.gv, vec[l.gv]) /\ vec[l.gv] \in Words
  BY <1>1, <1>3, NodeWord
<1>5. /\ Standing(vec, dat, R, l, miss)
      /\ l.back \in {"compare", "confirm"} => Beside(vec, dat, R, l, miss)
      /\ l.back = "near" => l.op = "FIND" /\ miss
  BY <1>0 DEF Knows, Walking
<1>6. /\ Active(vec, dat, m) /\ m.gc = l.gv /\ m.gw = vec[l.gv]
      /\ SameCall(m, l) /\ SameWalk(m, l) /\ SameNext(m, l) /\ m.gv = l.gv /\ m.back = l.back
  <2>1. l \in Locals
    BY <1>1 DEF Active, Ranges
  <2> HIDE DEF l
  <2>2. m \in Locals
    BY <1>3, <1>4, <2>1 DEF Locals
  <2>3. m.gc = l.gv /\ m.gw = vec[l.gv] /\ m.gv = l.gv /\ m.back = l.back
    BY <2>1 DEF Locals
  <2>4. SameCall(m, l) /\ SameWalk(m, l) /\ SameNext(m, l)
    BY <2>1 DEF Locals, SameCall, SameWalk, SameNext
  <2> HIDE DEF m
  <2> QED
    BY <1>1, <2>2, <2>3, <2>4, SameActive
<1> HIDE DEF m, l
<1>7. Descending(vec, dat, m)
  <2>1. Calling(vec, dat, m)
    BY <1>1, <1>6, CallingSame
  <2> QED
    BY <1>4, <1>6, <2>1 DEF Descending
<1>8. Descended(vec, dat, R, m)
  <2>1. Fine(vec, dat, R, m.gc, m.gw)
    BY <1>3, <1>6 DEF Store
  <2>2. vec[m.gv].pos \in Int
    BY <1>4, <1>6 DEF WordOf
  <2> QED
    BY <1>6, <2>1, <2>2 DEF Descended, On
<1>9. m.key = l.key /\ m.op = l.op /\ Adds(m)
  BY <1>1, <1>6 DEF SameCall, Adds
<1>10. /\ Standing(vec, dat, R, m, miss)
       /\ m.back \in {"compare", "confirm"} => Beside(vec, dat, R, m, miss)
       /\ m.back = "near" => m.op = "FIND" /\ miss
  BY <1>5, <1>6, <1>9, StandSame, BesideSame
<1>11. Knows(vec, dat, R, GidWalk(m), miss, see)
  BY <1>1, <1>6, <1>7, <1>8, <1>9, <1>10, GidWalkKnows
<1>12. m.gw.st = "VALID"
  BY <1>8 DEF Descended, Fine
<1>13. r = GidWalk(m)
  BY <1>12
<1> HIDE DEF r
<1> QED
  BY <1>2, <1>11, <1>13, BecomeLearned

\* get_data_id goes on to a node on the right.
LEMMA GidNextKnows ==
  ASSUME TreeInv, NEW R, NEW miss \in BOOLEAN, NEW see, Store(vec, dat, R), NEW t \in Thread,
         GidNext(t), Knows(vec, dat, R, loc[t], miss, see)
  PROVE  Learned(t, R, miss, see)
<1> DEFINE l == loc[t]
           m == [l EXCEPT !.gx = vec[l.gn]]
           n == [m EXCEPT !.gc = m.gn, !.gw = m.gx]
           r == IF m.gx.st = "RAW" THEN [m EXCEPT !.pc = "gid"]
                ELSE IF m.gx.st = "INVALID" THEN [m EXCEPT !.pc = "gid_unlink"]
                ELSE IF m.gx.down = Nil THEN [m EXCEPT !.pc = "gid_invalidate"]
                ELSE GidWalk(n)
<1>0. l.pc = "gid_next" /\ l.pc \notin {"idle", "return"}
  BY DEF GidNext
<1>1. Active(vec, dat, l) /\ Stepping(vec, dat, l) /\ Nodes(vec, dat) /\ Adds(l)
  <2>1. Active(vec, dat, l) /\ Where(vec, dat, l) /\ Nodes(vec, dat) /\ Adds(l)
    BY <1>0, AddCall
  <2> QED
    BY <1>0, <2>1 DEF Where
<1>2. Become(t, r) /\ UNCHANGED <<vec, dat>>
  BY DEF GidNext, Quiet
<1>3. l.gn \in Inner(vec) /\ l.gn = l.gw.rd /\ l.gw.ty = "RIGHT" /\ WordOf(vec, dat, l.gc, l.gw)
  BY <1>1 DEF Stepping, Descending, WordOf
<1>4. /\ WordOf(vec, dat, l.gn, vec[l.gn]) /\ vec[l.gn] \in Words /\ l.gn # Head1 /\ l.gn \in Nat
      /\ l.gn \in 1 .. Len(vec)
  BY <1>1, <1>3, NodeWord
<1>5. /\ Standing(vec, dat, R, l, miss) /\ Descended(vec, dat, R, l)
      /\ l.back \in {"compare", "confirm"} => Beside(vec, dat, R, l, miss)
      /\ l.back = "near" => l.op = "FIND" /\ miss
  BY <1>0 DEF Knows, Walking
<1>6. /\ Active(vec, dat, m) /\ m.gx = vec[l.gn] /\ SameCall(m, l) /\ SameWalk(m, l) /\ SameNext(m, l)
      /\ m.gv = l.gv /\ m.back = l.back /\ m.gc = l.gc /\ m.gw = l.gw /\ m.gn = l.gn
  <2> HIDE DEF l
  <2> QED
    BY <1>1, <1>4, SetGx
<1> HIDE DEF m, l
<1>7. Fine(vec, dat, R, m.gn, m.gx) /\ m.gx.down # Nil
  <2>1. Fine(vec, dat, R, l.gn, vec[l.gn])
    BY <1>4 DEF Store
  <2>2. vec[l.gn].down # Nil
    BY <1>3, <1>5 DEF Descended, Fine
  <2> QED
    BY <1>6, <2>1, <2>2
<1>8. m.gn \in Nat /\ m.gx \in Words /\ m.gx.st = "VALID"
  BY <1>4, <1>6, <1>7 DEF Fine
<1>9. r = GidWalk(n)
  BY <1>7, <1>8
<1>10. /\ Active(vec, dat, n) /\ n.gc = m.gn /\ n.gw = m.gx
       /\ SameCall(n, m) /\ SameWalk(n, m) /\ SameNext(n, m) /\ n.gv = m.gv /\ n.back = m.back
  <2>1. m \in Locals
    BY <1>6 DEF Active, Ranges
  <2>2. n \in Locals
    BY <1>8, <2>1 DEF Locals
  <2>3. n.gc = m.gn /\ n.gw = m.gx /\ n.gv = m.gv /\ n.back = m.back
    BY <2>1 DEF Locals
  <2>4. SameCall(n, m) /\ SameWalk(n, m) /\ SameNext(n, m)
    BY <2>1 DEF Locals, SameCall, SameWalk, SameNext
  <2> HIDE DEF n
  <2> QED
    BY <1>6, <2>2, <2>3, <2>4, SameActive
<1> HIDE DEF n, r
<1>11. Descending(vec, dat, n)
  <2>1. Calling(vec, dat, m)
    BY <1>1, <1>6, CallingSame DEF Stepping, Descending
  <2>2. Calling(vec, dat, n)
    BY <1>10, <2>1, CallingSame
  <2> QED
    BY <1>4, <1>6, <1>10, <2>2 DEF Descending
<1>12. Descended(vec, dat, R, n)
  <2>1. /\ On(vec, R, l.gc, R[l.gn]) /\ On(vec, R, l.gv, R[l.gc]) /\ vec[l.gv].pos <= vec[l.gc].pos
        /\ vec[l.gc].pos < vec[l.gn].pos
    BY <1>3, <1>5, <1>4 DEF Descended, Fine, WordOf
  <2>2. /\ Start(vec, l.gv) \in Int /\ Start(vec, l.gc) \in Int /\ Start(vec, l.gv) <= Start(vec, l.gc)
        /\ vec[l.gv].pos <= vec[l.gn].pos
    <3>1. l.gv \in 1 .. Len(vec)
      BY <1>1 DEF Stepping, Descending, Calling, ReadOnRight, Rightward, Downward, At, WordOf, Inner
    <3>2. WordOf(vec, dat, l.gv, vec[l.gv])
      BY <1>1, <3>1, NodeWord
    <3>3. vec[l.gv].pos \in Int /\ vec[l.gc].pos \in Int /\ vec[l.gn].pos \in Int
      BY <1>3, <1>4, <3>2 DEF WordOf
    <3> QED
      BY <2>1, <3>3 DEF Start
  <2>3. Pre(R[l.gn], Start(vec, l.gv)) = Pre(R[l.gc], Start(vec, l.gv))
    BY <2>1, <2>2, PreLess DEF On
  <2>4. On(vec, R, l.gv, R[l.gn])
    BY <2>1, <2>3 DEF On
  <2> QED
    BY <1>6, <1>7, <1>10, <2>2, <2>4 DEF Descended
<1>13. n.key = l.key /\ n.op = l.op /\ n.back = l.back /\ Adds(n) /\ SameWalk(n, l) /\ SameNext(n, l)
  BY <1>1, <1>6, <1>10 DEF SameCall, SameWalk, SameNext, Adds
<1>14. /\ Standing(vec, dat, R, n, miss)
       /\ n.back \in {"compare", "confirm"} => Beside(vec, dat, R, n, miss)
       /\ n.back = "near" => n.op = "FIND" /\ miss
  BY <1>5, <1>13, StandSame, BesideSame
<1>15. Knows(vec, dat, R, GidWalk(n), miss, see)
  BY <1>1, <1>10, <1>11, <1>12, <1>13, <1>14, GidWalkKnows
<1> QED
  BY <1>2, <1>9, <1>15, BecomeLearned

\* What a thread found, it answers, or counts one reference more.
Answers(t) ==
  /\ loc' = [loc EXCEPT ![t] = Answer(loc[t], OK)] /\ vec' = vec
  /\ FoundData(loc[t]) \in 1 .. Len(dat) /\ dat[FoundData(loc[t])].key = loc[t].key
  /\ loc[t].op = "FIND" => dat' = dat
  /\ loc[t].op = "INSERT" =>
       dat' = [dat EXCEPT ![FoundData(loc[t])].ref = dat[FoundData(loc[t])].ref + 1]

\* The record a walk has found: a lookup is answered, an insertion counts one more.
LEMMA FoundRecord ==
  ASSUME TreeInv, NEW R, NEW miss \in BOOLEAN, NEW see, Store(vec, dat, R), NEW t \in Thread,
         Found(t), Knows(vec, dat, R, loc[t], miss, see),
         ~ Gone(dat, loc[t].key) => see
  PROVE  Knows(vec, dat, R, loc'[t], miss, see) /\ Answers(t)
<1> DEFINE m == loc[t]
           d == FoundData(m)
<1>1. m.pc = "found" /\ m.pc \notin {"idle", "return"}
  BY DEF Found
<1>2. /\ Active(vec, dat, m) /\ Holds(vec, dat, m) /\ m.cd \in {Unset, m.cw.rd}
      /\ Nodes(vec, dat) /\ Adds(m) /\ m \in Locals /\ m.op \in {"FIND", "INSERT"}
      /\ Len(dat) \in Nat
  <2>1. /\ Active(vec, dat, m) /\ Where(vec, dat, m) /\ Nodes(vec, dat) /\ Adds(m) /\ m \in Locals
        /\ m.op \in {"FIND", "INSERT"} /\ Len(dat) \in Nat
    BY <1>1, AddCall
  <2> QED
    BY <1>1, <2>1 DEF Where
<1>3. m.cw.ty = "DATA" /\ m.cw.rd # Nil /\ m.cw.rd \in 1 .. Len(dat) /\ d = m.cw.rd
      /\ ~ Broken(m)
  <2>1. m.cw.ty = "DATA" /\ m.cw.rd # Nil /\ m.cw.rd \in 0 .. Len(dat)
    BY <1>2 DEF Holds, WordOf
  <2>2. d = m.cw.rd
    BY <1>2 DEF FoundData
  <2> QED
    BY <1>2, <2>1, <2>2 DEF Broken, Nil
<1>4. dat[d].key = m.key
  BY <1>1 DEF Knows
<1>5. dat[d].ref # 0
  BY <1>3 DEF Store
<1>6. see
  BY <1>3, <1>4 DEF Gone
<1>7. /\ loc' = [loc EXCEPT ![t] = Answer(m, OK)] /\ vec' = vec
      /\ m.op = "FIND" => dat' = dat
      /\ m.op = "INSERT" => dat' = [dat EXCEPT ![d].ref = dat[d].ref + 1]
  <2>1. CASE m.op = "FIND"
    BY <1>3, <2>1 DEF Found, Become
  <2>2. CASE m.op = "INSERT"
    BY <1>3, <1>5, <2>2 DEF Found, Become
  <2> QED
    BY <1>2, <2>1, <2>2
<1>8. loc'[t] = Answer(m, OK)
  BY <1>7 DEF TreeInv
<1> DEFINE n == Answer(m, OK)
<1>9. n.pc = "return" /\ n.op = m.op /\ n.goal = m.goal /\ n.ret = OK
  BY <1>2 DEF Answer, Locals
<1> HIDE DEF n, m
<1>10. Knows(vec, dat, R, n, miss, see)
  BY <1>2, <1>6, <1>9 DEF Knows, Adds, AddPoints, Walking, Inserting
<1> QED
  BY <1>3, <1>4, <1>7, <1>8, <1>10 DEF m, n, Answers

-----------------------------------------------------------------------------
(* What a thread knows stays true when others add.                          *)

\* A tree grown from another: nodes stay where they are, and one that had nodes
\* below it still has.
Grown(V, D, R, V2, D2, R2) ==
  /\ Grow(V, D, V2, D2)
  /\ \A v \in 1 .. Len(V) : R2[v] = R[v] /\ (V[v].down # Nil => V2[v].down # Nil)

\* A node that was there stands for the keys it stood for.
LEMMA GrownOn ==
  ASSUME NEW V, NEW D, NEW R, NEW V2, NEW D2, NEW R2, Grown(V, D, R, V2, D2, R2),
         NEW v \in 1 .. Len(V)
  PROVE  /\ V2[v].pos = V[v].pos /\ Start(V2, v) = Start(V, v) /\ R2[v] = R[v]
         /\ v \in 1 .. Len(V2)
         /\ \A k : On(V2, R2, v, k) <=> On(V, R, v, k)
<1>1. V2[v].pos = V[v].pos /\ R2[v] = R[v] /\ v \in 1 .. Len(V2)
  BY DEF Grown, Grow
<1>2. Start(V2, v) = Start(V, v)
  BY <1>1 DEF Start
<1> QED
  BY <1>1, <1>2 DEF On

\* A word that was fine still is, and what it points to belongs there.
LEMMA GrownFine ==
  ASSUME NEW V, NEW D, NEW R, NEW V2, NEW D2, NEW R2, Grown(V, D, R, V2, D2, R2),
         NEW v, NEW w, WordOf(V, D, v, w), Fine(V, D, R, v, w)
  PROVE  Fine(V2, D2, R2, v, w)
<1>1. /\ v \in 1 .. Len(V) /\ V2[v].pos = V[v].pos /\ Start(V2, v) = Start(V, v)
      /\ \A k : On(V2, R2, v, k) <=> On(V, R, v, k)
  BY GrownOn DEF WordOf
<1>2. Inner(V) \subseteq 1 .. Len(V)
  BY DEF Inner, Grown, Grow
<1>3. w.down # Nil => w.down \in 1 .. Len(V) /\ V2[w.down].pos = V[w.down].pos /\ R2[w.down] = R[w.down]
  BY <1>2, GrownOn DEF WordOf
<1>4. w.ty = "RIGHT" => w.rd \in 1 .. Len(V) /\ V2[w.rd].pos = V[w.rd].pos /\ R2[w.rd] = R[w.rd]
                        /\ (V[w.rd].down # Nil => V2[w.rd].down # Nil)
  BY <1>2, GrownOn DEF WordOf, Grown
<1>5. w.ty = "DATA" /\ w.rd # Nil => D2[w.rd].key = D[w.rd].key
  BY DEF WordOf, Grown, Grow, Nil
<1> QED
  BY <1>1, <1>3, <1>4, <1>5 DEF Fine

\* Where a word leads to is a node, if anything.
LEMMA ChildNode ==
  ASSUME NEW V, NEW D, NEW v, NEW w, WordOf(V, D, v, w), NEW k, NEW n, Len(V) \in Nat
  PROVE  Child(w, k, n) # Nil =>
            Child(w, k, n) \in 2 .. Len(V) /\ Child(w, k, n) \in 1 .. Len(V)
BY DEF Child, WordOf, Inner, Nil

\* A word that sent a key the right way still does.
LEMMA GrownRoute ==
  ASSUME NEW V, NEW D, NEW R, NEW V2, NEW D2, NEW R2, Grown(V, D, R, V2, D2, R2),
         NEW v, NEW w, WordOf(V, D, v, w), NEW k
  PROVE  Route(V, D, R, v, w, k) => Route(V2, D2, R2, v, w, k)
<1>1. Start(V2, v) = Start(V, v)
  BY GrownOn DEF WordOf
<1>2. Len(V) \in Nat /\ Len(D) \in Nat
  BY DEF Grown, Grow
<1> DEFINE y == Child(w, k, Start(V, v))
<1>3. y # Nil => (On(V2, R2, y, k) <=> On(V, R, y, k))
  BY <1>2, ChildNode, GrownOn
<1>4. w.ty = "DATA" /\ w.rd # Nil => D2[w.rd].key = D[w.rd].key
  BY DEF WordOf, Grown, Grow, Nil
<1> QED
  BY <1>1, <1>3, <1>4 DEF Route

\* So what a word tells of a key that has not been missed stays true.
LEMMA GrownSure ==
  ASSUME NEW V, NEW D, NEW R, NEW V2, NEW D2, NEW R2, Grown(V, D, R, V2, D2, R2),
         NEW v, NEW w, WordOf(V, D, v, w), NEW k, NEW miss \in BOOLEAN, NEW miss2 \in BOOLEAN,
         miss => miss2, Sure(V, D, R, k, v, w, miss)
  PROVE  Sure(V2, D2, R2, k, v, w, miss2)
<1>1. On(V2, R2, v, k) <=> On(V, R, v, k)
  BY GrownOn DEF WordOf
<1> QED
  BY <1>1, GrownRoute DEF Sure

\* A walk still knows what it knew of where it stands.
LEMMA GrownStanding ==
  ASSUME NEW V, NEW D, NEW R, NEW V2, NEW D2, NEW R2, Grown(V, D, R, V2, D2, R2),
         NEW m, Active(V, D, m), At(V, D, m), NEW miss \in BOOLEAN, NEW miss2 \in BOOLEAN,
         miss => miss2, Standing(V, D, R, m, miss)
  PROVE  Standing(V2, D2, R2, m, miss2)
<1>1. WordOf(V, D, m.cur, m.cw) /\ m.cur \in 1 .. Len(V)
  BY DEF At, WordOf
<1>2. Fine(V2, D2, R2, m.cur, m.cw)
  BY <1>1, GrownFine DEF Standing
<1>3. Sure(V2, D2, R2, m.key, m.cur, m.cw, miss2)
  BY <1>1, GrownSure DEF Standing
<1>4. On(V2, R2, m.cur, m.key) <=> On(V, R, m.cur, m.key)
  BY <1>1, GrownOn
<1>5. m.cd \notin {Unset, Nil} => D2[m.cd].key = D[m.cd].key
  BY DEF Active, Ranges, Grown, Grow, Nil
<1> QED
  BY <1>2, <1>3, <1>4, <1>5 DEF Standing

\* And of the neighbour it has read.
LEMMA GrownBeside ==
  ASSUME NEW V, NEW D, NEW R, NEW V2, NEW D2, NEW R2, Grown(V, D, R, V2, D2, R2),
         NEW m, WordOf(V, D, m.nxt, m.nw), NEW miss \in BOOLEAN, NEW miss2 \in BOOLEAN,
         miss => miss2, Beside(V, D, R, m, miss)
  PROVE  Beside(V2, D2, R2, m, miss2)
BY GrownFine, GrownSure DEF Beside

\* All that a thread knows stays true in a tree grown from the one it read.
LEMMA GrownKnows ==
  ASSUME NEW V, NEW D, NEW R, NEW V2, NEW D2, NEW R2, Grown(V, D, R, V2, D2, R2), Len(V) >= 1,
         NEW m, Local(V, D, m), NEW miss \in BOOLEAN, NEW miss2 \in BOOLEAN, miss => miss2,
         NEW see, NEW see2, see => see2, Knows(V, D, R, m, miss, see)
  PROVE  Knows(V2, D2, R2, m, miss2, see2)
<1>1. CASE m.pc \in {"idle", "return"}
  BY <1>1 DEF Knows, AddPoints, Walking, Inserting
<1>2. CASE m.pc \notin {"idle", "return"}
  <2>1. Active(V, D, m) /\ Where(V, D, m) /\ m.pc \in AddPoints
    BY <1>2 DEF Local, Idle, Knows
  <2>2. m.pc \in Walking \union Inserting => At(V, D, m)
    BY <2>1 DEF Where, Walking, Inserting, Rightward, Downward, Calling, ReadOnRight, ReadBelow,
                Stepping, Descending, Inserts
  <2>3. m.pc \in Walking \union Inserting => Standing(V2, D2, R2, m, miss2)
    BY <2>1, <2>2, GrownStanding DEF Knows
  <2>4. m.pc \in {"gid", "gid_next"} =>
          /\ m.back \in {"compare", "confirm"} => Beside(V2, D2, R2, m, miss2)
          /\ m.back = "near" => m.op = "FIND" /\ miss2
    <3> SUFFICES ASSUME m.pc \in {"gid", "gid_next"}
                 PROVE  /\ m.back \in {"compare", "confirm"} => Beside(V2, D2, R2, m, miss2)
                        /\ m.back = "near" => m.op = "FIND" /\ miss2
      OBVIOUS
    <3>1. Calling(V, D, m)
      BY <2>1 DEF Where, Stepping, Descending
    <3>2. /\ m.back \in {"compare", "confirm"} => Beside(V, D, R, m, miss)
          /\ m.back = "near" => m.op = "FIND" /\ miss
      BY DEF Knows
    <3>3. m.back \in {"compare", "confirm"} => WordOf(V, D, m.nxt, m.nw)
      BY <3>1 DEF Calling, ReadOnRight
    <3> QED
      BY <3>2, <3>3, GrownBeside
  <2>5. m.pc = "gid_next" => Descended(V2, D2, R2, m)
    <3> SUFFICES ASSUME m.pc = "gid_next" PROVE Descended(V2, D2, R2, m)
      OBVIOUS
    <3>1. Descending(V, D, m) /\ Descended(V, D, R, m)
      BY <2>1 DEF Where, Stepping, Knows
    <3>2. WordOf(V, D, m.gc, m.gw) /\ m.gc \in 1 .. Len(V) /\ m.gv \in 1 .. Len(V)
      BY <3>1 DEF Descending, Calling, ReadOnRight, Rightward, Downward, At, WordOf, Inner
    <3>3. Fine(V2, D2, R2, m.gc, m.gw)
      BY <3>1, <3>2, GrownFine DEF Descended
    <3>4. V2[m.gv].pos = V[m.gv].pos /\ V2[m.gc].pos = V[m.gc].pos /\ R2[m.gc] = R[m.gc]
          /\ (On(V2, R2, m.gv, R[m.gc]) <=> On(V, R, m.gv, R[m.gc]))
      BY <3>2, GrownOn
    <3> QED
      BY <3>1, <3>3, <3>4 DEF Descended
  <2>6. m.pc \in {"insert_up", "insert_down"} =>
          Settled(V2, D2, R2, m) /\ SplitAt(D2, m) = SplitAt(D, m)
    <3> SUFFICES ASSUME m.pc \in {"insert_up", "insert_down"}
                 PROVE  Settled(V2, D2, R2, m) /\ SplitAt(D2, m) = SplitAt(D, m)
      OBVIOUS
    <3>1. Inserts(V, D, m) /\ Settled(V, D, R, m)
      BY <2>1 DEF Where, Knows
    <3>2. D2[m.cd].key = D[m.cd].key
      BY <3>1 DEF Inserts, Differs, Grown, Grow
    <3>3. m.cur \in 1 .. Len(V) /\ (m.cw.ty = "RIGHT" => m.nxt \in 1 .. Len(V))
      BY <3>1 DEF Inserts, At, ReadOnRight, WordOf
    <3>4. Settled(V2, D2, R2, m)
      BY <3>1, <3>2, <3>3, GrownOn DEF Settled
    <3> QED
      BY <3>2, <3>4 DEF SplitAt
  <2>7. m.pc = "found" => D2[FoundData(m)].key = m.key
    <3> SUFFICES ASSUME m.pc = "found" PROVE D2[FoundData(m)].key = m.key
      OBVIOUS
    <3>1. Holds(V, D, m) /\ m.cd \in {Unset, m.cw.rd} /\ D[FoundData(m)].key = m.key
      BY <2>1 DEF Where, Knows
    <3>2. FoundData(m) = m.cw.rd /\ m.cw.rd \in 1 .. Len(D)
      BY <3>1 DEF FoundData, Holds, WordOf, Nil
    <3> QED
      BY <3>1, <3>2 DEF Grown, Grow
  <2> QED
    BY <1>2, <2>1, <2>3, <2>4, <2>5, <2>6, <2>7 DEF Knows
<1> QED
  BY <1>1, <1>2

-----------------------------------------------------------------------------
(* The trie on any set of nodes and of records, so that an insertion of two  *)
(* nodes is two graftings of one.                                            *)

\* Fine, but for the node on the right, which may have nothing below it yet.
Near(V, D, R, v, w) ==
  /\ w.st = "VALID"
  /\ w.down # Nil =>
       /\ V[w.down].pos > V[v].pos
       /\ On(V, R, v, R[w.down])
       /\ \A i \in Start(V, v) .. V[w.down].pos : Bit(R[w.down], i) = 0
  /\ w.ty = "RIGHT" =>
       /\ V[w.rd].pos > V[v].pos
       /\ On(V, R, v, R[w.rd])
       /\ Bit(R[w.rd], Start(V, v)) = 1
  /\ w.ty = "DATA" /\ w.rd # Nil =>
       /\ On(V, R, v, D[w.rd].key)
       /\ Start(V, v) < Width => Bit(D[w.rd].key, Start(V, v)) = 1

\* The word of v points into the trie.
Inside(N, V, M, v) ==
  /\ V[v].pos \in -1 .. Width - 1
  /\ V[v].down \in N \union {Nil}
  /\ V[v].ty \in Types
  /\ V[v].ty = "RIGHT" => V[v].rd \in N
  /\ V[v].ty = "DATA" => V[v].rd \in M \union {Nil}

\* Every word points into the trie to something that belongs there.
Sound(N, V, M, D, R) ==
  /\ Nil \notin N /\ Nil \notin M
  /\ \A v \in N : R[v] \in Int /\ Inside(N, V, M, v) /\ Near(V, D, R, v, V[v])
  /\ \A d \in M : D[d].key \in Int

\* From a node that another belongs below, the walk leads towards it; no two
\* nodes are in one place.
Ways(N, V, R) ==
  /\ \A u, v \in N :
       On(V, R, v, R[u]) /\ V[v].pos < V[u].pos => Leads(V, R, v, R[u], V[u].pos)
  /\ \A u, v \in N : On(V, R, v, R[u]) /\ V[v].pos = V[u].pos => u = v

\* Every record is found.
Finds(N, V, M, D, R) ==
  \A d \in M, v \in N : On(V, R, v, D[d].key) => Route(V, D, R, v, V[v], D[d].key)

Trie(N, V, M, D, R) == Sound(N, V, M, D, R) /\ Ways(N, V, R) /\ Finds(N, V, M, D, R)

\* Which of two neighbours a walk goes on to depends on one bit of the key.
LEMMA SameChild ==
  ASSUME NEW w, NEW j, NEW k, NEW n, Bit(j, n) = Bit(k, n)
  PROVE  Child(w, j, n) = Child(w, k, n)
BY DEF Child

\* A walk does not leave the trie.
LEMMA ChildInside ==
  ASSUME NEW N, NEW V, NEW M, NEW v, Inside(N, V, M, v), NEW k, NEW n, Nil \notin N,
         Child(V[v], k, n) # Nil
  PROVE  Child(V[v], k, n) \in N
BY DEF Inside, Child

\* On is what the key begins with, and less of it is so too.
LEMMA OnLess ==
  ASSUME NEW V, NEW R, NEW v, NEW j, NEW k, NEW n \in Int, V[v].pos \in Int,
         Pre(j, n) = Pre(k, n), Start(V, v) <= n
  PROVE  On(V, R, v, j) <=> On(V, R, v, k)
<1>1. Start(V, v) \in Int
  BY DEF Start
<1>2. Pre(j, Start(V, v)) = Pre(k, Start(V, v))
  BY <1>1, PreLess
<1> QED
  BY <1>2 DEF On

\* Of two nodes that a key belongs below, one is above the other, and there the
\* walk for the key leads towards the other.
LEMMA Placed ==
  ASSUME NEW N, NEW V, NEW M, NEW D, NEW R, Sound(N, V, M, D, R), Ways(N, V, R),
         NEW u \in N, NEW v \in N, NEW k, On(V, R, u, k), On(V, R, v, k)
  PROVE  /\ V[v].pos < V[u].pos => Leads(V, R, v, k, V[u].pos)
         /\ V[v].pos = V[u].pos => v = u
<1>1. V[u].pos \in -1 .. Width - 1 /\ V[v].pos \in -1 .. Width - 1 /\ Width \in Int
  BY WidthIs DEF Sound, Inside
<1>2. Start(V, u) = V[u].pos + 1 /\ Start(V, v) = V[v].pos + 1
  BY DEF Start
<1>3. Start(V, v) \in Int /\ Start(V, u) \in Nat /\ Start(V, v) \in 0 .. Width
  BY <1>1, <1>2
<1>4. Pre(k, Start(V, u)) = Pre(R[u], Start(V, u))
  BY DEF On
<1>5. ASSUME V[v].pos <= V[u].pos PROVE On(V, R, v, R[u])
  <2>1. Start(V, v) <= Start(V, u)
    BY <1>1, <1>2, <1>5
  <2> QED
    BY <1>1, <1>3, <1>4, <2>1, OnLess
<1>6. ASSUME V[v].pos = V[u].pos PROVE v = u
  <2>1. V[v].pos <= V[u].pos
    BY <1>1, <1>6
  <2> QED
    BY <1>5, <1>6, <2>1 DEF Ways
<1>7. ASSUME V[v].pos < V[u].pos PROVE Leads(V, R, v, k, V[u].pos)
  <2>1. V[v].pos <= V[u].pos
    BY <1>1, <1>7
  <2>2. Leads(V, R, v, R[u], V[u].pos)
    BY <1>5, <1>7, <2>1 DEF Ways
  <2> DEFINE y == Child(V[v], R[u], Start(V, v))
  <2>3. y # Nil /\ V[y].pos <= V[u].pos /\ On(V, R, y, R[u])
    BY <2>2 DEF Leads
  <2>4. Start(V, v) \in 0 .. Start(V, u) - 1
    BY <1>1, <1>2, <1>3, <1>7
  <2>5. Bit(k, Start(V, v)) = Bit(R[u], Start(V, v))
    BY <1>3, <1>4, <2>4, PreLess
  <2>6. Child(V[v], k, Start(V, v)) = y
    BY <2>5, SameChild
  <2>7. y \in N
    BY <2>3, ChildInside DEF Sound
  <2> HIDE DEF y
  <2>8. V[y].pos \in Int /\ Start(V, y) <= Start(V, u)
    <3>1. V[y].pos \in -1 .. Width - 1
      BY <2>7 DEF Sound, Inside
    <3>2. Start(V, y) = V[y].pos + 1
      BY DEF Start
    <3> QED
      BY <1>1, <1>2, <2>3, <3>1, <3>2
  <2>9. On(V, R, y, k)
    BY <1>3, <1>4, <2>3, <2>8, OnLess
  <2> QED
    BY <2>3, <2>6, <2>9 DEF Leads
<1> QED
  BY <1>6, <1>7

-----------------------------------------------------------------------------
(* A node z is grafted between c and its child towards k, if it has one.     *)

\* c is one of the nodes of k, and z, at position q, becomes its child there:
\* what was below c towards k is now below z.
Graft(N, V, M, D, R, V2, D2, R2, c, z, k) ==
  LET n == Start(V, c)
      q == V2[z].pos
      x == Child(V[c], k, n)
      r == V[c].rd
  IN  /\ c \in N /\ z \notin N /\ z # Nil /\ k \in Int
      /\ \A v \in N : R2[v] = R[v] /\ V2[v].pos = V[v].pos /\ (v # c => V2[v] = V[v])
      /\ \A d \in M : D2[d].key = D[d].key
      /\ R2[z] = k /\ On(V, R, c, k)
      /\ q \in n .. Width - 1
      /\ \A j \in Int : Child(V2[c], j, n) = IF Bit(j, n) = Bit(k, n) THEN z ELSE Child(V[c], j, n)
      /\ Bit(k, n) = 0 => V2[c].ty = V[c].ty /\ V2[c].rd = V[c].rd
      /\ x # Nil =>
           /\ q < V[x].pos
           /\ Pre(R[x], q + 1) = Pre(k, q + 1)
           /\ Child(V2[z], R[x], q + 1) = x
      /\ x = Nil /\ Bit(k, n) = 1 /\ V[c].ty = "DATA" /\ r # Nil =>
           /\ Pre(D[r].key, q + 1) = Pre(k, q + 1)
           /\ V2[z].ty = "DATA" /\ V2[z].rd = r
           /\ q + 1 < Width => Bit(D[r].key, q + 1) = 1

\* What a graft leaves of the positions and of the keys nodes stand for.
LEMMA GraftSays ==
  ASSUME NEW N, NEW V, NEW M, NEW D, NEW R, NEW V2, NEW D2, NEW R2, NEW c, NEW z, NEW k,
         Sound(N, V, M, D, R), Graft(N, V, M, D, R, V2, D2, R2, c, z, k)
  PROVE  /\ Start(V, c) \in 0 .. Width - 1 /\ Start(V2, c) = Start(V, c)
         /\ V2[z].pos \in Int /\ Start(V, c) <= V2[z].pos /\ V2[z].pos < Width
         /\ V[c].pos < V2[z].pos /\ V[c].pos \in Int
         /\ Start(V2, z) = V2[z].pos + 1
         /\ Width \in Nat
         /\ Bit(k, Start(V, c)) \in {0, 1}
         /\ On(V2, R2, z, k)
         /\ \A v \in N : /\ V[v].pos \in -1 .. Width - 1 /\ Start(V, v) = V[v].pos + 1
                         /\ V2[v].pos = V[v].pos /\ Start(V2, v) = Start(V, v) /\ R2[v] = R[v]
                         /\ \A j : On(V2, R2, v, j) <=> On(V, R, v, j)
<1>1. ASSUME NEW v \in N
      PROVE  /\ V[v].pos \in -1 .. Width - 1 /\ Start(V, v) = V[v].pos + 1
             /\ V2[v].pos = V[v].pos /\ Start(V2, v) = Start(V, v) /\ R2[v] = R[v]
             /\ \A j : On(V2, R2, v, j) <=> On(V, R, v, j)
  <2>1. V2[v].pos = V[v].pos /\ R2[v] = R[v] /\ V[v].pos \in -1 .. Width - 1
    BY DEF Graft, Sound, Inside
  <2>2. Start(V2, v) = Start(V, v) /\ Start(V, v) = V[v].pos + 1
    BY <2>1 DEF Start
  <2> QED
    BY <2>1, <2>2 DEF On
<1>2. c \in N /\ V2[z].pos \in Start(V, c) .. Width - 1 /\ R2[z] = k /\ k \in Int
  BY DEF Graft
<1>3. Width \in Nat /\ Start(V, c) = V[c].pos + 1 /\ V[c].pos \in -1 .. Width - 1
  BY <1>1, <1>2, WidthIs
<1>4. Start(V, c) \in 0 .. Width - 1 /\ V2[z].pos \in Int /\ V2[z].pos < Width
      /\ Start(V, c) <= V2[z].pos /\ V[c].pos < V2[z].pos /\ V[c].pos \in Int
  BY <1>2, <1>3
<1>5. Start(V2, z) = V2[z].pos + 1 /\ On(V2, R2, z, k)
  BY <1>2 DEF Start, On
<1> QED
  BY <1>1, <1>2, <1>3, <1>4, <1>5, BitIs

\* Nothing was where z is.
LEMMA GraftPlace ==
  ASSUME NEW N, NEW V, NEW M, NEW D, NEW R, NEW V2, NEW D2, NEW R2, NEW c, NEW z, NEW k,
         Sound(N, V, M, D, R), Ways(N, V, R), Graft(N, V, M, D, R, V2, D2, R2, c, z, k),
         NEW v \in N, On(V, R, v, k)
  PROVE  /\ V[v].pos # V2[z].pos
         /\ V[v].pos < V2[z].pos =>
              v = c \/ (V[v].pos < V[c].pos /\ Leads(V, R, v, k, V[c].pos))
         /\ V[v].pos > V2[z].pos =>
              LET x == Child(V[c], k, Start(V, c)) IN x # Nil /\ On(V, R, x, k)
<1> DEFINE x == Child(V[c], k, Start(V, c))
<1>1. c \in N /\ On(V, R, c, k) /\ (x # Nil => V2[z].pos < V[x].pos)
  BY DEF Graft
<1>2. V[v].pos \in Int /\ V[c].pos \in Int /\ V2[z].pos \in Int /\ V[c].pos < V2[z].pos
  BY <1>1, GraftSays
<1>3. V[c].pos < V[v].pos => x # Nil /\ V[x].pos <= V[v].pos /\ On(V, R, x, k)
  BY <1>1, Placed DEF Leads
<1>4. x # Nil => V[x].pos \in Int
  BY <1>1, ChildInside, GraftSays DEF Sound
<1>5. V[v].pos < V[c].pos => Leads(V, R, v, k, V[c].pos)
  BY <1>1, Placed
<1>6. V[v].pos = V[c].pos => v = c
  BY <1>1, Placed
<1> HIDE DEF x
<1>7. V[v].pos # V2[z].pos
  BY <1>1, <1>2, <1>3, <1>4
<1>8. V[v].pos < V2[z].pos => v = c \/ (V[v].pos < V[c].pos /\ Leads(V, R, v, k, V[c].pos))
  BY <1>1, <1>2, <1>3, <1>4, <1>5, <1>6
<1>9. V[v].pos > V2[z].pos => x # Nil /\ On(V, R, x, k)
  BY <1>1, <1>2, <1>3
<1> QED
  BY <1>7, <1>8, <1>9 DEF x

\* What belongs below z belonged to the part of the trie below c.
LEMMA GraftBelow ==
  ASSUME NEW N, NEW V, NEW M, NEW D, NEW R, NEW V2, NEW D2, NEW R2, NEW c, NEW z, NEW k,
         Sound(N, V, M, D, R), Graft(N, V, M, D, R, V2, D2, R2, c, z, k),
         NEW j, On(V2, R2, z, j)
  PROVE  On(V, R, c, j) /\ Bit(j, Start(V, c)) = Bit(k, Start(V, c))
<1>1. /\ Start(V, c) \in 0 .. Width - 1 /\ Start(V2, z) = V2[z].pos + 1
      /\ V2[z].pos \in Int /\ Start(V, c) <= V2[z].pos /\ Width \in Nat /\ V[c].pos \in Int
  BY GraftSays
<1>2. Pre(j, Start(V2, z)) = Pre(k, Start(V2, z)) /\ On(V, R, c, k)
  BY DEF Graft, On
<1>3. Start(V2, z) \in Int /\ Start(V, c) <= Start(V2, z) /\ Start(V, c) \in 0 .. Start(V2, z) - 1
  BY <1>1
<1> QED
  BY <1>1, <1>2, <1>3, OnLess, PreLess

\* What belongs below the child of c belongs below z, which leads it there.
LEMMA GraftThrough ==
  ASSUME NEW N, NEW V, NEW M, NEW D, NEW R, NEW V2, NEW D2, NEW R2, NEW c, NEW z, NEW k,
         Sound(N, V, M, D, R), Graft(N, V, M, D, R, V2, D2, R2, c, z, k),
         NEW j, Child(V[c], k, Start(V, c)) # Nil, On(V, R, Child(V[c], k, Start(V, c)), j)
  PROVE  /\ On(V2, R2, z, j)
         /\ Child(V2[z], j, Start(V2, z)) = Child(V[c], k, Start(V, c))
<1> DEFINE x == Child(V[c], k, Start(V, c))
           q == V2[z].pos
<1>1. /\ c \in N /\ q < V[x].pos /\ Pre(R[x], q + 1) = Pre(k, q + 1)
      /\ Child(V2[z], R[x], q + 1) = x
  BY DEF Graft
<1>2. x \in N
  BY <1>1, ChildInside DEF Sound
<1>3. Pre(j, Start(V, x)) = Pre(R[x], Start(V, x))
  BY DEF On
<1>4. Start(V2, z) = q + 1 /\ q \in Nat /\ R2[z] = k
  <2>1. Start(V2, z) = q + 1 /\ q \in Int /\ Start(V, c) \in 0 .. Width - 1 /\ Start(V, c) <= q
    BY GraftSays
  <2> QED
    BY <2>1 DEF Graft
<1>5. Start(V, x) \in Int /\ q + 1 \in Int /\ q + 1 <= Start(V, x) /\ q + 1 \in 0 .. Start(V, x) - 1
  <2>1. V[x].pos \in -1 .. Width - 1 /\ Start(V, x) = V[x].pos + 1 /\ Width \in Nat
    BY <1>2, GraftSays
  <2> HIDE DEF x, q
  <2> QED
    BY <1>1, <1>4, <2>1
<1> HIDE DEF x, q
<1>6. Pre(j, q + 1) = Pre(R[x], q + 1) /\ Bit(j, q + 1) = Bit(R[x], q + 1)
  BY <1>3, <1>5, PreLess
<1>7. Child(V2[z], j, q + 1) = Child(V2[z], R[x], q + 1)
  BY <1>6, SameChild
<1> QED
  BY <1>1, <1>4, <1>6, <1>7 DEF On, x, q

\* Of two nodes the walk from the upper one still leads towards the lower one.
LEMMA GraftWays ==
  ASSUME NEW N, NEW V, NEW M, NEW D, NEW R, NEW V2, NEW D2, NEW R2, NEW c, NEW z, NEW k,
         Sound(N, V, M, D, R), Ways(N, V, R), Graft(N, V, M, D, R, V2, D2, R2, c, z, k)
  PROVE  Ways(N \union {z}, V2, R2)
<1> DEFINE n == Start(V, c)
           q == V2[z].pos
           x == Child(V[c], k, n)
<1>1. /\ c \in N /\ z \notin N /\ k \in Int /\ R2[z] = k /\ On(V, R, c, k)
      /\ \A v \in N : v # c => V2[v] = V[v]
      /\ \A j \in Int : Child(V2[c], j, n) = IF Bit(j, n) = Bit(k, n) THEN z ELSE Child(V[c], j, n)
      /\ x # Nil => q < V[x].pos
  BY DEF Graft
<1>2. /\ n \in 0 .. Width - 1 /\ Start(V2, c) = n /\ q \in Int /\ n <= q /\ q < Width
      /\ V[c].pos < q /\ V[c].pos \in Int /\ Start(V2, z) = q + 1 /\ Width \in Nat
      /\ On(V2, R2, z, k)
      /\ \A v \in N : /\ V[v].pos \in -1 .. Width - 1 /\ Start(V, v) = V[v].pos + 1
                      /\ V2[v].pos = V[v].pos /\ Start(V2, v) = Start(V, v) /\ R2[v] = R[v]
                      /\ \A j : On(V2, R2, v, j) <=> On(V, R, v, j)
  BY GraftSays
<1>3. Nil \notin N /\ \A v \in N : R[v] \in Int /\ V[v].pos \in Int
  BY <1>2 DEF Sound
<1>4. x # Nil => x \in N /\ V[x].pos \in Int
  BY <1>1, <1>3, ChildInside DEF Sound
<1>5. z # Nil
  BY DEF Graft
<1> HIDE DEF n, q, x
<1>6. ASSUME NEW u \in N \union {z}, NEW v \in N \union {z}, On(V2, R2, v, R2[u]), V2[v].pos = V2[u].pos
      PROVE  u = v
  <2>1. CASE u \in N /\ v \in N
    BY <1>2, <1>6, <2>1 DEF Ways
  <2>2. CASE u = z /\ v \in N
    <3>1. On(V, R, v, k) /\ V[v].pos = q
      BY <1>1, <1>2, <1>6, <2>2 DEF q
    <3> QED
      BY <2>2, <3>1, GraftPlace DEF q
  <2>3. CASE u \in N /\ v = z
    <3>1. V[u].pos = q /\ R2[u] = R[u] /\ Start(V, u) = Start(V2, z)
      BY <1>2, <1>6, <2>3 DEF q
    <3>2. On(V, R, u, k)
      BY <1>1, <1>6, <2>3, <3>1 DEF On
    <3> QED
      BY <2>3, <3>1, <3>2, GraftPlace DEF q
  <2> QED
    BY <2>1, <2>2, <2>3
<1>7. ASSUME NEW u \in N \union {z}, NEW v \in N \union {z}, On(V2, R2, v, R2[u]), V2[v].pos < V2[u].pos
      PROVE  Leads(V2, R2, v, R2[u], V2[u].pos)
  <2>1. CASE u \in N /\ v \in N
    <3>1. Leads(V, R, v, R[u], V[u].pos) /\ R2[u] = R[u] /\ R[u] \in Int
      BY <1>2, <1>3, <1>6, <1>7, <2>1 DEF Ways
    <3> DEFINE y == Child(V[v], R[u], Start(V, v))
    <3>2. y # Nil /\ V[y].pos <= V[u].pos /\ On(V, R, y, R[u])
      BY <3>1 DEF Leads
    <3>3. y \in N
      BY <2>1, <3>2, ChildInside DEF Sound
    <3>4. CASE Child(V2[v], R[u], Start(V, v)) = y
      BY <1>2, <2>1, <3>1, <3>2, <3>3, <3>4 DEF Leads
    <3>5. CASE v = c /\ Bit(R[u], n) = Bit(k, n)
      <4>1. Child(V2[c], R[u], n) = z
        BY <1>1, <3>1, <3>5
      <4>2. y = x
        BY <3>5, SameChild DEF x, n
      <4>3. On(V2, R2, z, R[u])
        BY <3>2, <4>2, GraftThrough DEF x, n
      <4>4. q <= V[u].pos
        BY <1>1, <1>2, <1>3, <1>4, <2>1, <3>2, <4>2
      <4> HIDE DEF y
      <4> QED
        BY <1>2, <1>5, <2>1, <3>1, <3>5, <4>1, <4>3, <4>4 DEF Leads, q
    <3>6. CASE ~ (v = c /\ Bit(R[u], n) = Bit(k, n))
      <4>1. Child(V2[v], R[u], Start(V, v)) = y
        BY <1>1, <2>1, <3>1, <3>6 DEF n
      <4> QED
        BY <3>4, <4>1
    <3> QED
      BY <3>5, <3>6
  <2>2. CASE u = z /\ v \in N
    <3>1. On(V, R, v, k) /\ V[v].pos < q /\ R2[u] = k /\ V2[u].pos = q
      BY <1>1, <1>2, <1>7, <2>2 DEF q
    <3>2. CASE v = c
      <4>1. Child(V2[c], k, n) = z
        BY <1>1
      <4> QED
        BY <1>2, <1>5, <2>2, <3>1, <3>2, <4>1 DEF Leads
    <3>3. CASE V[v].pos < V[c].pos /\ Leads(V, R, v, k, V[c].pos)
      <4> DEFINE y == Child(V[v], k, Start(V, v))
      <4>1. y # Nil /\ V[y].pos <= V[c].pos /\ On(V, R, y, k)
        BY <3>3 DEF Leads
      <4>2. y \in N
        BY <2>2, <4>1, ChildInside DEF Sound
      <4>3. V2[v] = V[v]
        BY <1>1, <1>2, <2>2, <3>3
      <4>4. V2[y].pos <= q
        BY <1>2, <4>1, <4>2
      <4> QED
        BY <1>2, <2>2, <3>1, <4>1, <4>2, <4>3, <4>4 DEF Leads
    <3> QED
      BY <2>2, <3>1, <3>2, <3>3, GraftPlace DEF q
  <2>3. CASE u \in N /\ v = z
    <3> DEFINE j == R[u]
    <3>1. On(V2, R2, z, j) /\ q < V[u].pos /\ j \in Int /\ R2[u] = j /\ V2[u].pos = V[u].pos
      BY <1>2, <1>3, <1>7, <2>3 DEF q
    <3>2. On(V, R, c, j) /\ Bit(j, n) = Bit(k, n)
      BY <3>1, GraftBelow DEF n
    <3>3. Leads(V, R, c, j, V[u].pos)
      <4>1. V[c].pos < V[u].pos
        BY <1>2, <1>3, <2>3, <3>1
      <4> QED
        BY <1>1, <2>3, <3>2, <4>1 DEF Ways
    <3>4. x # Nil /\ V[x].pos <= V[u].pos /\ On(V, R, x, j)
      <4>1. Child(V[c], j, n) = x
        BY <3>2, SameChild DEF x
      <4> QED
        BY <3>3, <4>1 DEF Leads, n
    <3>5. Child(V2[z], j, Start(V2, z)) = x
      BY <3>4, GraftThrough DEF x, n
    <3> HIDE DEF j
    <3> QED
      BY <1>2, <1>4, <2>3, <3>1, <3>4, <3>5 DEF Leads
  <2>4. CASE u = z /\ v = z
    BY <1>2, <1>7, <2>4 DEF q
  <2> QED
    BY <2>1, <2>2, <2>3, <2>4
<1> QED
  BY <1>6, <1>7 DEF Ways

\* A record that was found is.
LEMMA GraftFinds ==
  ASSUME NEW N, NEW V, NEW M, NEW D, NEW R, NEW V2, NEW D2, NEW R2, NEW c, NEW z, NEW k,
         Sound(N, V, M, D, R), Finds(N, V, M, D, R), Graft(N, V, M, D, R, V2, D2, R2, c, z, k)
  PROVE  Finds(N \union {z}, V2, M, D2, R2)
<1> DEFINE n == Start(V, c)
           q == V2[z].pos
           x == Child(V[c], k, n)
           r == V[c].rd
<1>1. /\ c \in N /\ z \notin N /\ k \in Int /\ R2[z] = k /\ On(V, R, c, k)
      /\ \A v \in N : v # c => V2[v] = V[v]
      /\ \A d \in M : D2[d].key = D[d].key
      /\ \A j \in Int : Child(V2[c], j, n) = IF Bit(j, n) = Bit(k, n) THEN z ELSE Child(V[c], j, n)
      /\ Bit(k, n) = 0 => V2[c].ty = V[c].ty /\ V2[c].rd = V[c].rd
      /\ x = Nil /\ Bit(k, n) = 1 /\ V[c].ty = "DATA" /\ r # Nil =>
           /\ Pre(D[r].key, q + 1) = Pre(k, q + 1)
           /\ V2[z].ty = "DATA" /\ V2[z].rd = r
           /\ q + 1 < Width => Bit(D[r].key, q + 1) = 1
  BY DEF Graft
<1>2. /\ n \in 0 .. Width - 1 /\ Start(V2, c) = n /\ q \in Int /\ n <= q /\ q < Width
      /\ V[c].pos < q /\ V[c].pos \in Int /\ Start(V2, z) = q + 1 /\ Width \in Nat
      /\ On(V2, R2, z, k) /\ Bit(k, n) \in {0, 1}
      /\ \A v \in N : /\ V[v].pos \in -1 .. Width - 1 /\ Start(V, v) = V[v].pos + 1
                      /\ V2[v].pos = V[v].pos /\ Start(V2, v) = Start(V, v) /\ R2[v] = R[v]
                      /\ \A j : On(V2, R2, v, j) <=> On(V, R, v, j)
  BY GraftSays
<1>3. Nil \notin N /\ Nil \notin M /\ \A d \in M : D[d].key \in Int
  BY DEF Sound
<1>4. x # Nil => x \in N /\ V[x].pos \in Int
  BY <1>1, <1>2, <1>3, ChildInside DEF Sound
<1>5. z # Nil
  BY DEF Graft
<1>6. V[c].ty = "DATA" => r \in M \union {Nil}
  BY <1>1 DEF Sound, Inside
<1>7. n < Width
  BY <1>2
<1> HIDE DEF n, q, x, r
<1> SUFFICES ASSUME NEW d \in M, NEW v \in N \union {z}, On(V2, R2, v, D2[d].key)
             PROVE  Route(V2, D2, R2, v, V2[v], D2[d].key)
  BY DEF Finds
<1> DEFINE j == D[d].key
<1>8. D2[d].key = j /\ j \in Int
  BY <1>1, <1>3
<1> HIDE DEF j
<1>9. CASE v \in N
  <2>1. Route(V, D, R, v, V[v], j) /\ Start(V2, v) = Start(V, v)
    BY <1>2, <1>8, <1>9 DEF Finds, j
  <2> DEFINE y == Child(V[v], j, Start(V, v))
  <2>2. y # Nil => On(V, R, y, j) /\ y \in N
    BY <1>3, <1>9, <2>1, ChildInside DEF Route, Sound
  <2>3. y = Nil => /\ Start(V, v) < Width => Bit(j, Start(V, v)) = 1
                   /\ V[v].ty = "DATA" /\ V[v].rd # Nil /\ D[V[v].rd].key = j
    BY <2>1 DEF Route
  <2>4. CASE Child(V2[v], j, Start(V, v)) = y /\ y # Nil
    <3>1. On(V2, R2, y, j)
      BY <1>2, <2>2, <2>4
    <3> QED
      BY <1>8, <2>1, <2>4, <3>1 DEF Route
  <2>5. CASE Child(V2[v], j, Start(V, v)) = y /\ y = Nil /\ V2[v].ty = V[v].ty /\ V2[v].rd = V[v].rd
    <3>1. V[v].rd \in M
      BY <1>9, <2>3, <2>5 DEF Sound, Inside
    <3> QED
      BY <1>1, <1>8, <2>1, <2>3, <2>5, <3>1 DEF Route
  <2>6. CASE v # c
    <3>1. V2[v] = V[v]
      BY <1>1, <1>9, <2>6
    <3> QED
      BY <2>4, <2>5, <3>1
  <2>7. CASE v = c /\ Bit(j, n) # Bit(k, n)
    <3>1. Child(V2[v], j, Start(V, v)) = y
      BY <1>1, <1>8, <2>7 DEF n
    <3>2. y = Nil => Bit(j, n) = 1
      BY <1>7, <2>3, <2>7 DEF n
    <3>3. y = Nil => V2[v].ty = V[v].ty /\ V2[v].rd = V[v].rd
      BY <1>1, <1>2, <2>7, <3>2
    <3> QED
      BY <2>4, <2>5, <3>1, <3>3
  <2>8. CASE v = c /\ Bit(j, n) = Bit(k, n)
    <3>1. Child(V2[c], j, n) = z
      BY <1>1, <1>8, <2>8
    <3>2. y = x
      BY <2>8, SameChild DEF x, n
    <3>3. On(V2, R2, z, j)
      <4>1. CASE y # Nil
        BY <2>2, <3>2, <4>1, GraftThrough DEF x, n
      <4>2. CASE y = Nil
        <5>1. Bit(k, n) = 1 /\ V[c].ty = "DATA" /\ r # Nil /\ D[r].key = j
          BY <1>7, <2>3, <2>8, <4>2 DEF n, r
        <5>2. Pre(j, q + 1) = Pre(k, q + 1)
          BY <1>1, <3>2, <4>2, <5>1
        <5> QED
          BY <1>1, <1>2, <5>2 DEF On
      <4> QED
        BY <4>1, <4>2
    <3> HIDE DEF y
    <3> QED
      BY <1>2, <1>5, <1>8, <2>8, <3>1, <3>3 DEF Route
  <2> QED
    BY <2>6, <2>7, <2>8
<1>10. CASE v = z
  <2>1. On(V2, R2, z, j)
    BY <1>8, <1>10
  <2>2. On(V, R, c, j) /\ Bit(j, n) = Bit(k, n)
    BY <2>1, GraftBelow DEF n
  <2>3. Route(V, D, R, c, V[c], j)
    BY <1>1, <2>2 DEF Finds, j
  <2>4. Child(V[c], j, n) = x
    BY <2>2, SameChild DEF x
  <2>5. CASE x # Nil
    <3>1. On(V, R, x, j)
      BY <2>3, <2>4, <2>5 DEF Route, n
    <3>2. Child(V2[z], j, Start(V2, z)) = x
      BY <2>5, <3>1, GraftThrough DEF x, n
    <3>3. On(V2, R2, x, j)
      BY <1>2, <1>4, <2>5, <3>1
    <3> QED
      BY <1>8, <1>10, <2>5, <3>2, <3>3 DEF Route
  <2>6. CASE x = Nil
    <3>1. Bit(k, n) = 1 /\ V[c].ty = "DATA" /\ r # Nil /\ D[r].key = j
      BY <1>7, <2>2, <2>3, <2>4, <2>6 DEF Route, n, r
    <3>2. /\ V2[z].ty = "DATA" /\ V2[z].rd = r
          /\ q + 1 < Width => Bit(j, q + 1) = 1
      BY <1>1, <2>6, <3>1
    <3>3. Child(V2[z], j, q + 1) = Nil
      <4>1. q + 1 >= Width \/ Bit(j, q + 1) = 1
        BY <1>2, <3>2
      <4> QED
        BY <3>2, <4>1 DEF Child
    <3>4. D2[r].key = j
      BY <1>1, <1>6, <3>1
    <3> QED
      BY <1>2, <1>8, <1>10, <3>1, <3>2, <3>3, <3>4 DEF Route
  <2> QED
    BY <2>5, <2>6
<1> QED
  BY <1>9, <1>10

\* The other words still hold.
LEMMA GraftSound ==
  ASSUME NEW N, NEW V, NEW M, NEW D, NEW R, NEW V2, NEW D2, NEW R2, NEW c, NEW z, NEW k,
         Sound(N, V, M, D, R), Graft(N, V, M, D, R, V2, D2, R2, c, z, k),
         NEW M2, M \subseteq M2, Nil \notin M2, \A d \in M2 : D2[d].key \in Int,
         \A v \in {c, z} : Inside(N \union {z}, V2, M2, v) /\ Near(V2, D2, R2, v, V2[v])
  PROVE  Sound(N \union {z}, V2, M2, D2, R2)
<1>1. /\ c \in N /\ z \notin N /\ z # Nil /\ k \in Int /\ R2[z] = k
      /\ \A v \in N : v # c => V2[v] = V[v]
      /\ \A d \in M : D2[d].key = D[d].key
  BY DEF Graft
<1>2. \A v \in N : /\ V2[v].pos = V[v].pos /\ Start(V2, v) = Start(V, v) /\ R2[v] = R[v]
                   /\ \A j : On(V2, R2, v, j) <=> On(V, R, v, j)
  BY GraftSays
<1>3. ASSUME NEW v \in N, v # c
      PROVE  Inside(N \union {z}, V2, M2, v) /\ Near(V2, D2, R2, v, V2[v])
  <2>1. Inside(N, V, M, v) /\ Near(V, D, R, v, V[v]) /\ V2[v] = V[v] /\ Nil \notin N
    BY <1>1, <1>3 DEF Sound
  <2>2. Inside(N \union {z}, V2, M2, v)
    BY <2>1 DEF Inside
  <2>3. V[v].down # Nil => V[v].down \in N
    BY <2>1 DEF Inside
  <2>4. V[v].ty = "RIGHT" => V[v].rd \in N
    BY <2>1 DEF Inside
  <2>5. V[v].ty = "DATA" /\ V[v].rd # Nil => D2[V[v].rd].key = D[V[v].rd].key
    BY <1>1, <2>1 DEF Inside
  <2>6. Near(V2, D2, R2, v, V[v])
    BY <1>2, <1>3, <2>1, <2>3, <2>4, <2>5 DEF Near
  <2> QED
    BY <2>1, <2>2, <2>6
<1>4. \A v \in N \union {z} : R2[v] \in Int
  BY <1>1, <1>2 DEF Sound
<1>5. \A v \in N \union {z} : Inside(N \union {z}, V2, M2, v) /\ Near(V2, D2, R2, v, V2[v])
  BY <1>3
<1> QED
  BY <1>1, <1>4, <1>5 DEF Sound

\* A trie with a node grafted is a trie, if the two words that changed fit.
LEMMA GraftTrie ==
  ASSUME NEW N, NEW V, NEW M, NEW D, NEW R, NEW V2, NEW D2, NEW R2, NEW c, NEW z, NEW k,
         Trie(N, V, M, D, R), Graft(N, V, M, D, R, V2, D2, R2, c, z, k),
         \A v \in {c, z} : Inside(N \union {z}, V2, M, v) /\ Near(V2, D2, R2, v, V2[v])
  PROVE  Trie(N \union {z}, V2, M, D2, R2)
<1>1. Sound(N, V, M, D, R) /\ Ways(N, V, R) /\ Finds(N, V, M, D, R)
  BY DEF Trie
<1>2. Ways(N \union {z}, V2, R2) /\ Finds(N \union {z}, V2, M, D2, R2)
  BY <1>1, GraftWays, GraftFinds
<1>3. Nil \notin M /\ \A d \in M : D2[d].key \in Int
  BY <1>1 DEF Sound, Graft
<1>4. Sound(N \union {z}, V2, M, D2, R2)
  BY <1>1, <1>3, GraftSound
<1> QED
  BY <1>2, <1>4 DEF Trie

\* A walk for k ends at c, or below it at a node that k does not belong below.
Ends(V, R, c, k) ==
  LET x == Child(V[c], k, Start(V, c))
  IN  IF x = Nil THEN Bit(k, Start(V, c)) = 0 ELSE ~ On(V, R, x, k)

\* No record has a key whose walk ends without one.
LEMMA EndsGone ==
  ASSUME NEW N, NEW V, NEW M, NEW D, NEW R, Finds(N, V, M, D, R), NEW c \in N, NEW k,
         On(V, R, c, k), Start(V, c) < Width, Ends(V, R, c, k)
  PROVE  \A d \in M : D[d].key # k
BY DEF Finds, Route, Ends

\* z holds the record e, for the new key k, and its word and that of c fit.
Holding(N, V, M, R, V2, D2, R2, c, z, k, e) ==
  /\ e \notin M /\ e # Nil /\ D2[e].key = k /\ V2[z].ty = "DATA" /\ V2[z].rd = e
  /\ Ends(V, R, c, k)
  /\ Start(V2, z) < Width => Bit(k, Start(V2, z)) = 1
  /\ \A v \in {c, z} : Inside(N \union {z}, V2, M \union {e}, v) /\ Near(V2, D2, R2, v, V2[v])

\* A node with the record of a new key is grafted.
LEMMA GraftRecord ==
  ASSUME NEW N, NEW V, NEW M, NEW D, NEW R, NEW V2, NEW D2, NEW R2, NEW c, NEW z, NEW k,
         Trie(N, V, M, D, R), Graft(N, V, M, D, R, V2, D2, R2, c, z, k),
         NEW e, Holding(N, V, M, R, V2, D2, R2, c, z, k, e)
  PROVE  /\ Trie(N \union {z}, V2, M \union {e}, D2, R2)
         /\ \A d \in M : D2[d].key # k
<1> DEFINE n == Start(V, c)
           x == Child(V[c], k, n)
           M2 == M \union {e}
<1>0. /\ e \notin M /\ e # Nil /\ D2[e].key = k /\ V2[z].ty = "DATA" /\ V2[z].rd = e
      /\ Ends(V, R, c, k)
      /\ Start(V2, z) < Width => Bit(k, Start(V2, z)) = 1
      /\ \A v \in {c, z} : Inside(N \union {z}, V2, M2, v) /\ Near(V2, D2, R2, v, V2[v])
  BY DEF Holding
<1>1. Sound(N, V, M, D, R) /\ Ways(N, V, R) /\ Finds(N, V, M, D, R)
  BY DEF Trie
<1>2. /\ c \in N /\ z \notin N /\ z # Nil /\ k \in Int /\ R2[z] = k /\ On(V, R, c, k)
      /\ \A v \in N : v # c => V2[v] = V[v]
      /\ \A d \in M : D2[d].key = D[d].key
      /\ \A j \in Int : Child(V2[c], j, n) = IF Bit(j, n) = Bit(k, n) THEN z ELSE Child(V[c], j, n)
  BY DEF Graft
<1>3. /\ n \in 0 .. Width - 1 /\ Start(V2, c) = n /\ Width \in Nat /\ On(V2, R2, z, k)
      /\ V[c].pos < V2[z].pos /\ V[c].pos \in Int /\ V2[z].pos \in Int
      /\ \A v \in N : /\ V[v].pos \in -1 .. Width - 1
                      /\ V2[v].pos = V[v].pos /\ Start(V2, v) = Start(V, v) /\ R2[v] = R[v]
                      /\ \A j : On(V2, R2, v, j) <=> On(V, R, v, j)
  BY <1>1, GraftSays
<1>4. Ways(N \union {z}, V2, R2) /\ Finds(N \union {z}, V2, M, D2, R2)
  BY <1>1, GraftWays, GraftFinds
<1>5. Nil \notin M2 /\ (\A d \in M2 : D2[d].key \in Int) /\ M \subseteq M2
  BY <1>0, <1>1, <1>2 DEF Sound
<1>6. Sound(N \union {z}, V2, M2, D2, R2)
  BY <1>0, <1>1, <1>5, GraftSound
<1>7. \A d \in M : D2[d].key # k
  BY <1>0, <1>1, <1>2, <1>3, EndsGone
<1> HIDE DEF n, x
<1>8. ASSUME NEW v \in N \union {z}, On(V2, R2, v, k) PROVE Route(V2, D2, R2, v, V2[v], k)
  <2>1. CASE v = z
    <3>1. Child(V2[z], k, Start(V2, z)) = Nil
      <4>1. Start(V2, z) >= Width \/ Bit(k, Start(V2, z)) = 1
        <5>1. Start(V2, z) \in Int
          BY <1>3 DEF Start
        <5> QED
          BY <1>0, <1>3, <5>1
      <4> QED
        BY <1>0, <4>1 DEF Child
    <3> QED
      BY <1>0, <2>1, <3>1 DEF Route
  <2>2. CASE v \in N
    <3>1. On(V, R, v, k) /\ V[v].pos \in Int
      BY <1>3, <1>8, <2>2
    <3>2. CASE v = c
      <4>1. Child(V2[c], k, n) = z
        BY <1>2
      <4> QED
        BY <1>2, <1>3, <3>2, <4>1 DEF Route
    <3>3. CASE v # c /\ V[v].pos < V2[z].pos
      <4>1. V[v].pos < V[c].pos /\ Leads(V, R, v, k, V[c].pos)
        BY <1>1, <2>2, <3>1, <3>3, GraftPlace
      <4> DEFINE y == Child(V[v], k, Start(V, v))
      <4>2. y # Nil /\ On(V, R, y, k)
        BY <4>1 DEF Leads
      <4>3. y \in N
        BY <1>1, <2>2, <4>2, ChildInside DEF Sound
      <4> QED
        BY <1>2, <1>3, <2>2, <3>3, <4>2, <4>3 DEF Route
    <3>4. CASE V[v].pos > V2[z].pos
      <4>1. x # Nil /\ On(V, R, x, k)
        BY <1>1, <2>2, <3>1, <3>4, GraftPlace DEF x, n
      <4> QED
        BY <1>0, <4>1 DEF Ends, x, n
    <3>5. V[v].pos # V2[z].pos
      BY <1>1, <2>2, <3>1, GraftPlace
    <3> QED
      BY <1>3, <3>1, <3>2, <3>3, <3>4, <3>5
  <2> QED
    BY <2>1, <2>2
<1>9. Finds(N \union {z}, V2, M2, D2, R2)
  BY <1>0, <1>4, <1>8 DEF Finds
<1> QED
  BY <1>4, <1>6, <1>7, <1>9 DEF Trie

-----------------------------------------------------------------------------
(* The tree as a trie, and the tree a compare-and-swap leaves.               *)

\* There is always something below a node on the right.
Ended(V) == \A v \in 1 .. Len(V) : V[v].ty = "RIGHT" => V[V[v].rd].down # Nil

\* All nodes and all records of the tree.
TreeTrie(V, D, R) == Trie(1 .. Len(V), V, 1 .. Len(D), D, R)

\* The tree of the invariant is a trie in this sense.
LEMMA StoreTrie ==
  ASSUME NEW V, NEW D, NEW R, Nodes(V, D), Store(V, D, R)
  PROVE  TreeTrie(V, D, R) /\ Ended(V)
<1> DEFINE N == 1 .. Len(V)
           M == 1 .. Len(D)
<1>1. Nil \notin N /\ Nil \notin M
  BY DEF Nodes, Nil
<1>2. ASSUME NEW v \in N PROVE Inside(N, V, M, v)
  <2>1. WordOf(V, D, v, V[v]) /\ Inner(V) \subseteq N
    BY DEF Nodes, Inner
  <2>2. V[v].pos \in -1 .. Width - 1
    BY <2>1, WidthIs DEF WordOf
  <2>3. V[v].down \in N \union {Nil} /\ V[v].ty \in Types /\ (V[v].ty = "RIGHT" => V[v].rd \in N)
    BY <2>1 DEF WordOf
  <2>4. V[v].ty = "DATA" => V[v].rd \in M \union {Nil}
    <3>1. V[v].ty = "DATA" => V[v].rd \in 0 .. Len(D)
      BY <2>1 DEF WordOf
    <3>2. Len(D) \in Nat
      BY DEF Nodes
    <3> QED
      BY <3>1, <3>2 DEF Nil
  <2> HIDE DEF N, M
  <2> QED
    BY <2>2, <2>3, <2>4 DEF Inside
<1>3. \A v \in N : R[v] \in Int /\ Near(V, D, R, v, V[v])
  BY DEF Store, Fine, Near
<1>4. ASSUME NEW d \in M PROVE D[d].key \in Int
  <2>1. D[d] \in Records
    BY DEF Nodes
  <2> QED
    BY <2>1, KeyInt DEF Records
<1>5. Sound(N, V, M, D, R)
  BY <1>1, <1>2, <1>3, <1>4 DEF Sound
<1>6. Ways(N, V, R) /\ Finds(N, V, M, D, R)
  BY DEF Ways, Finds, Store
<1>7. Ended(V)
  BY DEF Ended, Store, Fine
<1> QED
  BY <1>5, <1>6, <1>7 DEF Trie, TreeTrie

\* And the other way round, if records have one key each and are referred to.
LEMMA TrieStore ==
  ASSUME NEW V, NEW D, NEW R \in [1 .. Len(V) -> Nat], TreeTrie(V, D, R), Ended(V),
         \A d, e \in 1 .. Len(D) : D[d].key = D[e].key => d = e,
         \A d \in 1 .. Len(D) : D[d].ref > 0
  PROVE  Store(V, D, R)
<1>1. \A v \in 1 .. Len(V) : Fine(V, D, R, v, V[v])
  BY DEF TreeTrie, Trie, Sound, Near, Fine, Ended
<1> QED
  BY <1>1 DEF TreeTrie, Trie, Ways, Finds, Store

\* The word of node c is replaced, and nodes and a record for key k are added.
Joined(V, D, V2, D2, c, new, nodes, k) ==
  /\ c \in 1 .. Len(V) /\ new.pos = V[c].pos /\ (V[c].down # Nil => new.down # Nil)
  /\ Len(nodes) \in Nat /\ Len(V2) = Len(V) + Len(nodes)
  /\ V2[c] = new /\ \A v \in 1 .. Len(V) : v # c => V2[v] = V[v]
  /\ \A i \in 1 .. Len(nodes) : V2[Len(V) + i] = nodes[i]
  /\ Len(D2) = Len(D) + 1 /\ \A d \in 1 .. Len(D) : D2[d] = D[d]
  /\ D2[Len(D) + 1].key = k /\ D2[Len(D) + 1].ref = 1

\* A compare-and-swap that leaves a trie keeps the invariant of the tree.
LEMMA JoinedStore ==
  ASSUME NEW V, NEW D, NEW R, NEW V2, NEW D2, NEW R2 \in [1 .. Len(V2) -> Nat],
         NEW c, NEW new, NEW nodes, NEW k, Nodes(V, D), Store(V, D, R),
         Joined(V, D, V2, D2, c, new, nodes, k),
         \A v \in 1 .. Len(V) : R2[v] = R[v],
         TreeTrie(V2, D2, R2), \A d \in 1 .. Len(D) : D2[d].key # k,
         \A v \in {c} \union Len(V) + 1 .. Len(V2) :
           V2[v].ty = "RIGHT" => V2[V2[v].rd].down # Nil
  PROVE  Store(V2, D2, R2) /\ Grown(V, D, R, V2, D2, R2)
<1>1. /\ Len(V) \in Nat /\ Len(D) \in Nat /\ Len(V2) \in Nat /\ Len(V) <= Len(V2)
      /\ Len(D2) = Len(D) + 1
  BY DEF Nodes, Joined
<1>2. \A v \in 1 .. Len(V) : V2[v].pos = V[v].pos /\ (V[v].down # Nil => V2[v].down # Nil)
  BY DEF Joined
<1>3. \A d \in 1 .. Len(D) : D2[d] = D[d]
  BY DEF Joined
<1>4. Grown(V, D, R, V2, D2, R2)
  BY <1>1, <1>2, <1>3 DEF Grown, Grow
<1>5. Ended(V2)
  <2> SUFFICES ASSUME NEW v \in 1 .. Len(V2), V2[v].ty = "RIGHT" PROVE V2[V2[v].rd].down # Nil
    BY DEF Ended
  <2>1. CASE v \in {c} \union Len(V) + 1 .. Len(V2)
    BY <2>1
  <2>2. CASE v \notin {c} \union Len(V) + 1 .. Len(V2)
    <3>1. v \in 1 .. Len(V) /\ V2[v] = V[v]
      BY <1>1, <2>2 DEF Joined
    <3>2. V[V[v].rd].down # Nil /\ V[v].rd \in 1 .. Len(V)
      BY <3>1, StoreTrie DEF Ended, TreeTrie, Trie, Sound, Inside
    <3> QED
      BY <1>2, <3>1, <3>2
  <2> QED
    BY <2>1, <2>2
<1>6. ASSUME NEW d \in 1 .. Len(D2), NEW e \in 1 .. Len(D2), D2[d].key = D2[e].key PROVE d = e
  <2>1. \A i \in 1 .. Len(D2) : i \in 1 .. Len(D) \/ (i = Len(D) + 1 /\ D2[i].key = k)
    BY <1>1 DEF Joined
  <2>2. \A i, j \in 1 .. Len(D) : D2[i].key = D2[j].key => i = j
    BY <1>3 DEF Store
  <2> QED
    BY <1>6, <2>1, <2>2
<1>7. ASSUME NEW d \in 1 .. Len(D2) PROVE D2[d].ref > 0
  <2>1. d \in 1 .. Len(D) \/ d = Len(D) + 1
    BY <1>1
  <2>2. d \in 1 .. Len(D) => D2[d].ref > 0
    BY <1>3 DEF Store
  <2>3. D2[Len(D) + 1].ref > 0
    BY DEF Joined
  <2> QED
    BY <2>1, <2>2, <2>3
<1>8. Store(V2, D2, R2)
  BY <1>5, <1>6, <1>7, TrieStore
<1> QED
  BY <1>4, <1>8

-----------------------------------------------------------------------------
(* The four ways to graft a node.                                            *)

\* A node's fields: its type, its first bit, what is below it and on its right.
NodeIs(w, ty, next, down, rd) ==
  w.st = "VALID" /\ w.ty = ty /\ w.pos = next - 1 /\ w.down = down /\ w.rd = rd

\* Of the nodes in N only c changes; z, that stands for k, is new.
Extends(N, V, M, D, R, V2, D2, R2, c, z, k) ==
  /\ c \in N /\ z \notin N /\ z # Nil /\ k \in Nat /\ R2[z] = k /\ On(V, R, c, k)
  /\ \A v \in N : R2[v] = R[v] /\ (v # c => V2[v] = V[v])
  /\ \A d \in M : D2[d].key = D[d].key

\* What is known of a trie that is to be extended.
LEMMA ExtendsSays ==
  ASSUME NEW N, NEW V, NEW M, NEW D, NEW R, NEW V2, NEW D2, NEW R2, NEW c, NEW z, NEW k,
         Trie(N, V, M, D, R), Extends(N, V, M, D, R, V2, D2, R2, c, z, k)
  PROVE  /\ Sound(N, V, M, D, R) /\ Nil \notin N /\ Nil \notin M
         /\ c \in N /\ z \notin N /\ z # Nil /\ k \in Int /\ Width \in Nat
         /\ V[c].pos \in -1 .. Width - 1 /\ V[c].pos = Start(V, c) - 1
         /\ Start(V, c) \in Nat /\ Start(V, c) <= Width
         /\ Inside(N, V, M, c) /\ Near(V, D, R, c, V[c])
         /\ \A v \in N : V[v].pos \in -1 .. Width - 1 /\ Start(V, v) = V[v].pos + 1
<1>1. Sound(N, V, M, D, R) /\ c \in N /\ z \notin N /\ z # Nil /\ k \in Int /\ Width \in Nat
  BY WidthIs DEF Trie, Extends
<1>2. \A v \in N : V[v].pos \in -1 .. Width - 1 /\ Start(V, v) = V[v].pos + 1
  BY <1>1 DEF Sound, Inside, Start
<1>3. Inside(N, V, M, c) /\ Near(V, D, R, c, V[c]) /\ Nil \notin N /\ Nil \notin M
  BY <1>1 DEF Sound
<1> DEFINE p == V[c].pos
           n == Start(V, c)
<1>4. p \in -1 .. Width - 1 /\ n = p + 1
  BY <1>1, <1>2
<1> HIDE DEF p, n
<1>5. p = n - 1 /\ n \in Nat /\ n <= Width
  BY <1>1, <1>4
<1> QED
  BY <1>1, <1>2, <1>3, <1>4, <1>5 DEF p, n

\* z holds the record e of k, whose first bit below c is at fs, and z goes
\* between c and what was below it.
GoesBelow(V, M, V2, D2, c, z, k, e, fs) ==
  /\ e \notin M /\ e # Nil /\ D2[e].key = k
  /\ NodeIs(V2[c], V[c].ty, Start(V, c), z, V[c].rd)
  /\ NodeIs(V2[z], "DATA", fs, V[c].down, e)
  /\ fs \in Int /\ Start(V, c) < fs /\ fs <= Width
  /\ \A i \in Start(V, c) .. fs - 1 : Bit(k, i) = 0
  /\ fs < Width => Bit(k, fs) = 1
  /\ V[c].down # Nil => fs <= V[V[c].down].pos

\* Below c, with what was below c below it.
LEMMA BelowGraft ==
  ASSUME NEW N, NEW V, NEW M, NEW D, NEW R, NEW V2, NEW D2, NEW R2, NEW c, NEW z, NEW k,
         Trie(N, V, M, D, R), Extends(N, V, M, D, R, V2, D2, R2, c, z, k),
         NEW e, NEW fs, GoesBelow(V, M, V2, D2, c, z, k, e, fs)
  PROVE  /\ Trie(N \union {z}, V2, M \union {e}, D2, R2)
         /\ \A d \in M : D2[d].key # k
<1> e \notin M /\ e # Nil /\ D2[e].key = k
  BY DEF GoesBelow
<1> fs \in Int /\ Start(V, c) < fs /\ fs <= Width
  BY DEF GoesBelow
<1> NodeIs(V2[c], V[c].ty, Start(V, c), z, V[c].rd)
  BY DEF GoesBelow
<1> NodeIs(V2[z], "DATA", fs, V[c].down, e)
  BY DEF GoesBelow
<1> \A i \in Start(V, c) .. fs - 1 : Bit(k, i) = 0
  BY DEF GoesBelow
<1> fs < Width => Bit(k, fs) = 1
  BY DEF GoesBelow
<1> V[c].down # Nil => fs <= V[V[c].down].pos
  BY DEF GoesBelow
<1> DEFINE n == Start(V, c)
           x == V[c].down
<1>2. /\ Sound(N, V, M, D, R) /\ Nil \notin N /\ Nil \notin M
      /\ c \in N /\ z \notin N /\ z # Nil /\ k \in Int /\ Width \in Nat
      /\ V[c].pos = n - 1 /\ n \in Nat /\ Inside(N, V, M, c) /\ Near(V, D, R, c, V[c])
      /\ \A v \in N : V[v].pos \in -1 .. Width - 1 /\ Start(V, v) = V[v].pos + 1
  BY ExtendsSays
<1>3. /\ R2[z] = k /\ On(V, R, c, k)
      /\ \A v \in N : R2[v] = R[v] /\ (v # c => V2[v] = V[v])
      /\ \A d \in M : D2[d].key = D[d].key
  BY DEF Extends
<1>5. /\ n < Width /\ Bit(k, n) = 0 /\ n \in n .. fs - 1 /\ n < fs
      /\ fs - 1 \in n .. Width - 1 /\ fs - 1 + 1 = fs
      /\ \A i \in n .. fs - 1 : Bit(k, i) = 0
  <2>1. n < fs /\ fs <= Width /\ \A i \in n .. fs - 1 : Bit(k, i) = 0
    OBVIOUS
  <2> HIDE DEF n
  <2>2. n < Width /\ n \in n .. fs - 1 /\ fs - 1 \in n .. Width - 1 /\ fs - 1 + 1 = fs
    BY <1>2, <2>1
  <2> QED
    BY <2>1, <2>2
<1>7. x # Nil => /\ x \in N /\ V[x].pos > V[c].pos /\ On(V, R, c, R[x]) /\ V[x].pos \in Int
                 /\ \A i \in n .. V[x].pos : Bit(R[x], i) = 0
                 /\ fs <= V[x].pos /\ V[x].pos < Width
                 /\ Start(V, x) = V[x].pos + 1
  <2> SUFFICES ASSUME x # Nil
               PROVE  /\ x \in N /\ V[x].pos > V[c].pos /\ On(V, R, c, R[x]) /\ V[x].pos \in Int
                      /\ \A i \in n .. V[x].pos : Bit(R[x], i) = 0
                      /\ fs <= V[x].pos /\ V[x].pos < Width
                      /\ Start(V, x) = V[x].pos + 1
    OBVIOUS
  <2>2. x \in N
    BY <1>2 DEF Inside
  <2>3. V[x].pos \in -1 .. Width - 1
    BY <1>2, <2>2
  <2>4. V[x].pos > V[c].pos /\ On(V, R, c, R[x]) /\ \A i \in n .. V[x].pos : Bit(R[x], i) = 0
    BY <1>2 DEF Near
  <2>5. V[x].pos \in Int /\ V[x].pos < Width
    BY <1>2, <2>3
  <2> QED
    BY <2>2, <2>4, <2>5 DEF Start
<1>8. Child(V[c], k, n) = x
  BY <1>2, <1>5 DEF Child
<1>10. V2[z].pos = fs - 1 /\ V2[z].down = x /\ V2[z].ty = "DATA" /\ V2[z].rd = e /\ V2[z].st = "VALID"
  BY DEF NodeIs
<1>11. V2[c].ty = V[c].ty /\ V2[c].rd = V[c].rd /\ V2[c].down = z /\ V2[c].st = "VALID"
       /\ V2[c].pos = V[c].pos
  BY <1>2 DEF NodeIs
<1>9. \A j \in Int : Child(V2[c], j, n) = IF Bit(j, n) = Bit(k, n) THEN z ELSE Child(V[c], j, n)
  BY <1>2, <1>5, <1>11 DEF Child
<1>12. x # Nil => /\ Pre(R[x], fs) = Pre(k, fs) /\ Bit(R[x], fs) = 0
                  /\ Child(V2[z], R[x], fs) = x
  <2> SUFFICES ASSUME x # Nil
               PROVE  Pre(R[x], fs) = Pre(k, fs) /\ Bit(R[x], fs) = 0 /\ Child(V2[z], R[x], fs) = x
    OBVIOUS
  <2>1. Pre(R[x], n) = Pre(k, n)
    BY <1>3, <1>7 DEF On
  <2> HIDE DEF n, x
  <2>2. \A i \in n .. fs - 1 : Bit(R[x], i) = Bit(k, i)
    <3>1. \A i \in n .. fs - 1 : i \in n .. V[x].pos
      BY <1>2, <1>5, <1>7
    <3> QED
      BY <1>5, <1>7, <3>1
  <2>3. Pre(R[x], fs) = Pre(k, fs)
    BY <1>2, <1>5, <2>1, <2>2, PreMore
  <2>4. fs \in n .. V[x].pos /\ ~ (fs >= Width)
    BY <1>2, <1>5, <1>7
  <2> QED
    BY <1>7, <1>10, <2>3, <2>4 DEF Child
<1> HIDE DEF n, x
<1>13. Graft(N, V, M, D, R, V2, D2, R2, c, z, k)
  <2>2. x # Nil => V2[z].pos < V[x].pos
    BY <1>5, <1>7, <1>10
  <2>3. V2[z].pos \in n .. Width - 1 /\ V2[z].pos + 1 = fs
    BY <1>5, <1>10
  <2>4. ~ (Bit(k, n) = 1)
    BY <1>5
  <2>5. \A v \in N : V2[v].pos = V[v].pos
    BY <1>3, <1>11
  <2> QED
    BY <1>2, <1>3, <1>8, <1>9, <1>11, <1>12, <2>2, <2>3, <2>4, <2>5 DEF Graft, n
<1>14. /\ Start(V2, c) = n /\ Start(V2, z) = fs
       /\ \A v \in N : V2[v].pos = V[v].pos /\ Start(V2, v) = Start(V, v)
                       /\ \A j : On(V2, R2, v, j) <=> On(V, R, v, j)
       /\ On(V2, R2, z, k)
  <2>1. /\ Start(V2, c) = n /\ Start(V2, z) = V2[z].pos + 1 /\ On(V2, R2, z, k)
        /\ \A v \in N : V2[v].pos = V[v].pos /\ Start(V2, v) = Start(V, v)
                        /\ \A j : On(V2, R2, v, j) <=> On(V, R, v, j)
    BY <1>2, <1>13, GraftSays DEF n
  <2>2. V2[z].pos + 1 = fs
    BY <1>5, <1>10
  <2> QED
    BY <2>1, <2>2
<1>16. Inside(N \union {z}, V2, M \union {e}, c) /\ Near(V2, D2, R2, c, V2[c])
  <2>1. Inside(N \union {z}, V2, M \union {e}, c)
    BY <1>2, <1>11 DEF Inside
  <2>2. V2[z].pos > V2[c].pos
    BY <1>2, <1>5, <1>10, <1>11
  <2>3. On(V2, R2, c, R2[z])
    BY <1>2, <1>3, <1>14
  <2>4. \A i \in n .. V2[z].pos : Bit(R2[z], i) = 0
    BY <1>3, <1>5, <1>10
  <2>5. V[c].ty = "RIGHT" => V[c].rd \in N
    BY <1>2 DEF Inside
  <2>6. V[c].ty = "DATA" /\ V[c].rd # Nil => D2[V[c].rd].key = D[V[c].rd].key
    BY <1>2, <1>3 DEF Inside
  <2>7. V[c].ty = "RIGHT" => V2[V[c].rd].pos > V2[c].pos /\ On(V2, R2, c, R2[V[c].rd])
                              /\ Bit(R2[V[c].rd], n) = 1
    BY <1>2, <1>3, <1>14, <2>5 DEF Near, n
  <2>8. V[c].ty = "DATA" /\ V[c].rd # Nil =>
          On(V2, R2, c, D2[V[c].rd].key) /\ (n < Width => Bit(D2[V[c].rd].key, n) = 1)
    BY <1>2, <1>14, <2>6 DEF Near, n
  <2> QED
    BY <1>11, <1>14, <2>1, <2>2, <2>3, <2>4, <2>7, <2>8 DEF Near
<1>17. Inside(N \union {z}, V2, M \union {e}, z) /\ Near(V2, D2, R2, z, V2[z])
  <2>1. Inside(N \union {z}, V2, M \union {e}, z)
    <3>1. "DATA" \in Types /\ fs - 1 \in -1 .. Width - 1 /\ "DATA" # "RIGHT" /\ x \in N \union {Nil}
      BY <1>2, <1>5, <1>7 DEF Types
    <3> QED
      BY <1>10, <3>1 DEF Inside
  <2>2. x # Nil => V2[x].pos > V2[z].pos /\ R2[x] = R[x] /\ V2[x].pos = V[x].pos
    BY <1>3, <1>5, <1>7, <1>10, <1>14
  <2>3. x # Nil => On(V2, R2, z, R2[x])
    BY <1>3, <1>12, <1>14, <2>2 DEF On
  <2>4. x # Nil => \A i \in fs .. V2[x].pos : Bit(R2[x], i) = 0
    <3>1. x # Nil => \A i \in fs .. V2[x].pos : i \in n .. V[x].pos
      BY <1>2, <1>5, <1>7, <2>2
    <3> QED
      BY <1>7, <2>2, <3>1
  <2> QED
    BY <1>10, <1>14, <2>1, <2>2, <2>3, <2>4 DEF Near
<1>18. Ends(V, R, c, k)
  <2>1. x # Nil => ~ On(V, R, x, k)
    <3> SUFFICES ASSUME x # Nil, On(V, R, x, k) PROVE FALSE
      OBVIOUS
    <3>1. Pre(k, Start(V, x)) = Pre(R[x], Start(V, x)) /\ fs \in 0 .. Start(V, x) - 1
          /\ Start(V, x) \in Int /\ fs < Width
      BY <1>2, <1>5, <1>7 DEF On
    <3>2. Bit(k, fs) = Bit(R[x], fs)
      BY <3>1, PreLess
    <3> QED
      BY <1>7, <1>12, <3>1, <3>2
  <2> QED
    BY <1>5, <1>8, <2>1 DEF Ends, n
<1>19. Holding(N, V, M, R, V2, D2, R2, c, z, k, e)
  <2>1. \A v \in {c, z} : Inside(N \union {z}, V2, M \union {e}, v) /\ Near(V2, D2, R2, v, V2[v])
    BY <1>16, <1>17
  <2>2. Start(V2, z) < Width => Bit(k, Start(V2, z)) = 1
    BY <1>14
  <2> QED
    BY <1>10, <1>18, <2>1, <2>2 DEF Holding
<1> QED
  BY <1>13, <1>19, GraftRecord, Zenon

\* To the right of c, above the node there: its keys are zero from p on, and go
\* below the new node, that is of a key with a one at p.
GoesAbove(V, M, R, V2, D2, c, z, k, e, p) ==
  /\ e \notin M /\ e # Nil /\ D2[e].key = k
  /\ V[c].ty = "RIGHT"
  /\ NodeIs(V2[c], "RIGHT", Start(V, c), V[c].down, z)
  /\ NodeIs(V2[z], "DATA", p, V[c].rd, e)
  /\ p \in Int /\ Start(V, c) < p /\ p <= V[V[c].rd].pos
  /\ Bit(k, p) = 1 /\ Pre(k, p) = Pre(R[V[c].rd], p)
  /\ \A i \in p .. V[V[c].rd].pos : Bit(R[V[c].rd], i) = 0

\* Above the node on the right of c.
LEMMA UpGraft ==
  ASSUME NEW N, NEW V, NEW M, NEW D, NEW R, NEW V2, NEW D2, NEW R2, NEW c, NEW z, NEW k,
         Trie(N, V, M, D, R), Extends(N, V, M, D, R, V2, D2, R2, c, z, k),
         NEW e, NEW p, GoesAbove(V, M, R, V2, D2, c, z, k, e, p)
  PROVE  /\ Trie(N \union {z}, V2, M \union {e}, D2, R2)
         /\ \A d \in M : D2[d].key # k
<1> e \notin M /\ e # Nil /\ D2[e].key = k
  BY DEF GoesAbove
<1> V[c].ty = "RIGHT"
  BY DEF GoesAbove
<1> NodeIs(V2[c], "RIGHT", Start(V, c), V[c].down, z)
  BY DEF GoesAbove
<1> NodeIs(V2[z], "DATA", p, V[c].rd, e)
  BY DEF GoesAbove
<1> p \in Int /\ Start(V, c) < p /\ p <= V[V[c].rd].pos
  BY DEF GoesAbove
<1> Bit(k, p) = 1 /\ Pre(k, p) = Pre(R[V[c].rd], p)
  BY DEF GoesAbove
<1> \A i \in p .. V[V[c].rd].pos : Bit(R[V[c].rd], i) = 0
  BY DEF GoesAbove
<1> DEFINE n == Start(V, c)
           x == V[c].rd
<1>2. /\ Sound(N, V, M, D, R) /\ Nil \notin N /\ Nil \notin M
      /\ c \in N /\ z \notin N /\ z # Nil /\ k \in Int /\ Width \in Nat
      /\ V[c].pos = n - 1 /\ n \in Nat /\ Inside(N, V, M, c) /\ Near(V, D, R, c, V[c])
      /\ \A v \in N : V[v].pos \in -1 .. Width - 1 /\ Start(V, v) = V[v].pos + 1
  BY ExtendsSays
<1>3. /\ R2[z] = k /\ On(V, R, c, k)
      /\ \A v \in N : R2[v] = R[v] /\ (v # c => V2[v] = V[v])
      /\ \A d \in M : D2[d].key = D[d].key
  BY DEF Extends
<1>4. x \in N /\ x # Nil /\ V[x].pos > V[c].pos /\ On(V, R, c, R[x]) /\ Bit(R[x], n) = 1
  BY <1>2 DEF Inside, Near
<1>5. /\ V[x].pos \in Int /\ V[x].pos < Width /\ Start(V, x) = V[x].pos + 1 /\ Start(V, x) \in Nat
      /\ n < p /\ p <= V[x].pos /\ p < Width /\ n < Width /\ p \in Nat
      /\ p - 1 \in n .. Width - 1 /\ p - 1 < V[x].pos /\ p - 1 + 1 = p
      /\ Bit(R[x], p) = 0 /\ Bit(k, n) = 1
  <2>1. V[x].pos \in -1 .. Width - 1 /\ n < p /\ p <= V[x].pos /\ Start(V, x) = V[x].pos + 1
    BY <1>2, <1>4
  <2>2. /\ Pre(k, p) = Pre(R[x], p)
        /\ \A i \in p .. V[x].pos : Bit(R[x], i) = 0
    OBVIOUS
  <2> DEFINE q == V[x].pos
             s == Start(V, x)
  <2> HIDE DEF n, x, q, s
  <2>3. /\ q \in Int /\ q < Width /\ s \in Nat /\ p < Width /\ n < Width /\ p \in Nat
        /\ p - 1 \in n .. Width - 1 /\ p - 1 < q /\ p - 1 + 1 = p /\ p \in p .. q
        /\ n \in 0 .. p - 1
    BY <1>2, <2>1 DEF q, s
  <2>4. Bit(k, n) = Bit(R[x], n)
    BY <2>2, <2>3, PreLess
  <2> QED
    BY <1>4, <2>1, <2>2, <2>3, <2>4 DEF q, s
<1>6. Pre(k, p) = Pre(R[x], p) /\ (\A i \in p .. V[x].pos : Bit(R[x], i) = 0) /\ Bit(k, p) = 1
  OBVIOUS
<1>8. Child(V[c], k, n) = x
  BY <1>2, <1>5 DEF Child
<1>10. V2[z].pos = p - 1 /\ V2[z].down = x /\ V2[z].ty = "DATA" /\ V2[z].rd = e /\ V2[z].st = "VALID"
  BY DEF NodeIs
<1>11. V2[c].ty = "RIGHT" /\ V2[c].rd = z /\ V2[c].down = V[c].down /\ V2[c].st = "VALID"
       /\ V2[c].pos = V[c].pos
  BY <1>2 DEF NodeIs
<1>9. \A j \in Int : Child(V2[c], j, n) = IF Bit(j, n) = Bit(k, n) THEN z ELSE Child(V[c], j, n)
  <2> SUFFICES ASSUME NEW j \in Int
               PROVE  Child(V2[c], j, n) = IF Bit(j, n) = Bit(k, n) THEN z ELSE Child(V[c], j, n)
    OBVIOUS
  <2>1. n \in 0 .. Width - 1 /\ ~ (n >= Width)
    BY <1>2, <1>5
  <2>2. Bit(j, n) \in {0, 1}
    BY <2>1, BitIs
  <2> HIDE DEF n
  <2> QED
    BY <1>5, <1>11, <2>1, <2>2 DEF Child
<1>12. Child(V2[z], R[x], p) = x
  BY <1>5, <1>10, <1>2 DEF Child
<1> HIDE DEF n, x
<1>13. Graft(N, V, M, D, R, V2, D2, R2, c, z, k)
  <2>1. V2[z].pos < V[x].pos /\ V2[z].pos \in n .. Width - 1 /\ V2[z].pos + 1 = p
    BY <1>5, <1>10
  <2>2. ~ (Bit(k, n) = 0)
    BY <1>5
  <2>3. \A v \in N : V2[v].pos = V[v].pos
    BY <1>3, <1>11
  <2> QED
    BY <1>2, <1>3, <1>4, <1>6, <1>8, <1>9, <1>12, <2>1, <2>2, <2>3 DEF Graft, n
<1>14. /\ Start(V2, c) = n /\ Start(V2, z) = p
       /\ \A v \in N : V2[v].pos = V[v].pos /\ Start(V2, v) = Start(V, v)
                       /\ \A j : On(V2, R2, v, j) <=> On(V, R, v, j)
       /\ On(V2, R2, z, k)
  <2>1. /\ Start(V2, c) = n /\ Start(V2, z) = V2[z].pos + 1 /\ On(V2, R2, z, k)
        /\ \A v \in N : V2[v].pos = V[v].pos /\ Start(V2, v) = Start(V, v)
                        /\ \A j : On(V2, R2, v, j) <=> On(V, R, v, j)
    BY <1>2, <1>13, GraftSays DEF n
  <2>2. V2[z].pos + 1 = p
    BY <1>5, <1>10
  <2> QED
    BY <2>1, <2>2
<1>16. Inside(N \union {z}, V2, M \union {e}, c) /\ Near(V2, D2, R2, c, V2[c])
  <2>1. Inside(N \union {z}, V2, M \union {e}, c)
    BY <1>2, <1>11 DEF Inside, Types
  <2>2. V2[z].pos > V2[c].pos
    BY <1>2, <1>5, <1>10, <1>11
  <2>3. On(V2, R2, c, R2[z]) /\ Bit(R2[z], n) = 1
    BY <1>2, <1>3, <1>5, <1>14
  <2>5. V[c].down # Nil => V[c].down \in N
    BY <1>2 DEF Inside
  <2>6. V[c].down # Nil => /\ V2[V[c].down].pos > V2[c].pos /\ On(V2, R2, c, R2[V[c].down])
                           /\ \A i \in n .. V2[V[c].down].pos : Bit(R2[V[c].down], i) = 0
    BY <1>2, <1>3, <1>14, <2>5 DEF Near, n
  <2> QED
    BY <1>11, <1>14, <2>1, <2>2, <2>3, <2>6 DEF Near
<1>17. Inside(N \union {z}, V2, M \union {e}, z) /\ Near(V2, D2, R2, z, V2[z])
  <2>1. Inside(N \union {z}, V2, M \union {e}, z)
    <3>1. "DATA" \in Types /\ p - 1 \in -1 .. Width - 1 /\ "DATA" # "RIGHT"
      BY <1>2, <1>5 DEF Types
    <3> QED
      BY <1>4, <1>10, <3>1 DEF Inside
  <2>2. V2[x].pos > V2[z].pos /\ R2[x] = R[x] /\ V2[x].pos = V[x].pos
    BY <1>3, <1>4, <1>5, <1>10, <1>14
  <2>3. On(V2, R2, z, R2[x])
    BY <1>3, <1>6, <1>14, <2>2 DEF On
  <2> QED
    BY <1>3, <1>6, <1>10, <1>14, <2>1, <2>2, <2>3 DEF Near
<1>18. Ends(V, R, c, k)
  <2>1. ~ On(V, R, x, k)
    <3> SUFFICES ASSUME On(V, R, x, k) PROVE FALSE
      OBVIOUS
    <3>1. Pre(k, Start(V, x)) = Pre(R[x], Start(V, x)) /\ p \in 0 .. Start(V, x) - 1
          /\ Start(V, x) \in Int
      BY <1>2, <1>5 DEF On
    <3>2. Bit(k, p) = Bit(R[x], p)
      BY <3>1, PreLess
    <3> QED
      BY <1>5, <1>6, <3>2
  <2> QED
    BY <1>4, <1>8, <2>1 DEF Ends, n
<1>19. Holding(N, V, M, R, V2, D2, R2, c, z, k, e)
  <2>1. \A v \in {c, z} : Inside(N \union {z}, V2, M \union {e}, v) /\ Near(V2, D2, R2, v, V2[v])
    BY <1>16, <1>17
  <2>2. Start(V2, z) < Width => Bit(k, Start(V2, z)) = 1
    BY <1>6, <1>14
  <2> QED
    BY <1>10, <1>18, <2>1, <2>2 DEF Holding
<1> QED
  BY <1>13, <1>19, GraftRecord, Zenon

\* To the right of c, with what was there: its keys begin alike up to s, and
\* have a one there.
GoesRight(V, D, R, V2, c, z, k, s) ==
  /\ NodeIs(V2[c], "RIGHT", Start(V, c), V[c].down, z)
  /\ NodeIs(V2[z], V[c].ty, s, Nil, V[c].rd)
  /\ s \in Int /\ Start(V, c) < s /\ s <= Width /\ Bit(k, Start(V, c)) = 1
  /\ V[c].ty = "RIGHT" =>
       /\ s <= V[V[c].rd].pos /\ Pre(k, s) = Pre(R[V[c].rd], s)
       /\ Bit(R[V[c].rd], s) = 1
  /\ V[c].ty = "DATA" =>
       /\ V[c].rd # Nil /\ Pre(k, s) = Pre(D[V[c].rd].key, s)
       /\ s < Width => Bit(D[V[c].rd].key, s) = 1

\* To the right of c, before what was there.
LEMMA SplitGraft ==
  ASSUME NEW N, NEW V, NEW M, NEW D, NEW R, NEW V2, NEW R2, NEW c, NEW z, NEW k,
         Trie(N, V, M, D, R), Extends(N, V, M, D, R, V2, D, R2, c, z, k),
         NEW s, GoesRight(V, D, R, V2, c, z, k, s)
  PROVE  Trie(N \union {z}, V2, M, D, R2)
<1> NodeIs(V2[c], "RIGHT", Start(V, c), V[c].down, z)
  BY DEF GoesRight
<1> NodeIs(V2[z], V[c].ty, s, Nil, V[c].rd)
  BY DEF GoesRight
<1> s \in Int /\ Start(V, c) < s /\ s <= Width /\ Bit(k, Start(V, c)) = 1
  BY DEF GoesRight
<1> V[c].ty = "RIGHT" =>
      /\ s <= V[V[c].rd].pos /\ Pre(k, s) = Pre(R[V[c].rd], s)
      /\ Bit(R[V[c].rd], s) = 1
  BY DEF GoesRight
<1> V[c].ty = "DATA" =>
      /\ V[c].rd # Nil /\ Pre(k, s) = Pre(D[V[c].rd].key, s)
      /\ s < Width => Bit(D[V[c].rd].key, s) = 1
  BY DEF GoesRight
<1> DEFINE n == Start(V, c)
           y == V[c].rd
           x == Child(V[c], k, n)
<1>2. /\ Sound(N, V, M, D, R) /\ Nil \notin N /\ Nil \notin M
      /\ c \in N /\ z \notin N /\ z # Nil /\ k \in Int /\ Width \in Nat
      /\ V[c].pos = n - 1 /\ n \in Nat /\ Inside(N, V, M, c) /\ Near(V, D, R, c, V[c])
      /\ \A v \in N : V[v].pos \in -1 .. Width - 1 /\ Start(V, v) = V[v].pos + 1
  BY ExtendsSays
<1>3. /\ R2[z] = k /\ On(V, R, c, k)
      /\ \A v \in N : R2[v] = R[v] /\ (v # c => V2[v] = V[v])
  BY DEF Extends
<1>4. V[c].ty \in {"RIGHT", "DATA"}
  BY <1>2 DEF Inside, Types
<1>5. V[c].ty = "RIGHT" =>
        y \in N /\ y # Nil /\ V[y].pos \in Int /\ V[y].pos < Width /\ Start(V, y) = V[y].pos + 1
        /\ s <= V[y].pos /\ Pre(k, s) = Pre(R[y], s) /\ Bit(R[y], s) = 1
  <2> SUFFICES ASSUME V[c].ty = "RIGHT"
               PROVE  y \in N /\ y # Nil /\ V[y].pos \in Int /\ V[y].pos < Width
                      /\ Start(V, y) = V[y].pos + 1
                      /\ s <= V[y].pos /\ Pre(k, s) = Pre(R[y], s) /\ Bit(R[y], s) = 1
    OBVIOUS
  <2>1. y \in N
    BY <1>2 DEF Inside
  <2>2. V[y].pos \in -1 .. Width - 1
    BY <1>2, <2>1
  <2>3. V[y].pos \in Int /\ V[y].pos < Width
    BY <1>2, <2>2
  <2> QED
    BY <1>2, <2>1, <2>3
<1>6. V[c].ty = "DATA" =>
        y \in M /\ y # Nil /\ Pre(k, s) = Pre(D[y].key, s) /\ (s < Width => Bit(D[y].key, s) = 1)
  BY <1>2 DEF Inside
<1>7. n < s /\ s <= Width /\ n < Width /\ s \in Nat /\ s - 1 \in n .. Width - 1 /\ s - 1 + 1 = s
      /\ ~ (n >= Width) /\ n \in 0 .. Width - 1 /\ Bit(k, n) = 1
  <2>1. n < s /\ s <= Width /\ Bit(k, n) = 1
    OBVIOUS
  <2> HIDE DEF n
  <2> QED
    BY <1>2, <2>1
<1>8. x = IF V[c].ty = "RIGHT" THEN y ELSE Nil
  <2>1. ~ (Bit(k, n) = 0)
    BY <1>7
  <2> QED
    BY <1>7, <2>1 DEF Child
<1>10. V2[z].pos = s - 1 /\ V2[z].down = Nil /\ V2[z].ty = V[c].ty /\ V2[z].rd = y /\ V2[z].st = "VALID"
  BY DEF NodeIs
<1>11. V2[c].ty = "RIGHT" /\ V2[c].rd = z /\ V2[c].down = V[c].down /\ V2[c].st = "VALID"
       /\ V2[c].pos = V[c].pos
  BY <1>2 DEF NodeIs
<1>9. \A j \in Int : Child(V2[c], j, n) = IF Bit(j, n) = Bit(k, n) THEN z ELSE Child(V[c], j, n)
  <2> SUFFICES ASSUME NEW j \in Int
               PROVE  Child(V2[c], j, n) = IF Bit(j, n) = Bit(k, n) THEN z ELSE Child(V[c], j, n)
    OBVIOUS
  <2>2. Bit(j, n) \in {0, 1}
    BY <1>7, BitIs
  <2> HIDE DEF n
  <2> QED
    BY <1>7, <1>11, <2>2 DEF Child
<1>12. V[c].ty = "RIGHT" => Child(V2[z], R[y], s) = y
  <2> SUFFICES ASSUME V[c].ty = "RIGHT" PROVE Child(V2[z], R[y], s) = y
    OBVIOUS
  <2>1. ~ (s >= Width) /\ ~ (Bit(R[y], s) = 0)
    BY <1>2, <1>5, <1>7
  <2> QED
    BY <1>10, <2>1 DEF Child
<1> HIDE DEF n, x, y
<1>13. Graft(N, V, M, D, R, V2, D, R2, c, z, k)
  <2>1. V2[z].pos \in n .. Width - 1 /\ V2[z].pos + 1 = s
    BY <1>7, <1>10
  <2>2. ~ (Bit(k, n) = 0)
    BY <1>7
  <2>3. \A v \in N : V2[v].pos = V[v].pos
    BY <1>3, <1>11
  <2>4. x # Nil => /\ V2[z].pos < V[x].pos
                   /\ Pre(R[x], V2[z].pos + 1) = Pre(k, V2[z].pos + 1)
                   /\ Child(V2[z], R[x], V2[z].pos + 1) = x
    BY <1>4, <1>5, <1>7, <1>8, <1>10, <1>12, <2>1
  <2>5. x = Nil /\ V[c].ty = "DATA" =>
           /\ Pre(D[y].key, V2[z].pos + 1) = Pre(k, V2[z].pos + 1)
           /\ V2[z].ty = "DATA" /\ V2[z].rd = y
           /\ V2[z].pos + 1 < Width => Bit(D[y].key, V2[z].pos + 1) = 1
    BY <1>6, <1>10, <2>1
  <2> QED
    BY <1>2, <1>3, <1>9, <2>1, <2>2, <2>3, <2>4, <2>5 DEF Graft, n, x, y
<1>14. /\ Start(V2, c) = n /\ Start(V2, z) = s
       /\ \A v \in N : V2[v].pos = V[v].pos /\ Start(V2, v) = Start(V, v)
                       /\ \A j : On(V2, R2, v, j) <=> On(V, R, v, j)
       /\ On(V2, R2, z, k)
  <2>1. /\ Start(V2, c) = n /\ Start(V2, z) = V2[z].pos + 1 /\ On(V2, R2, z, k)
        /\ \A v \in N : V2[v].pos = V[v].pos /\ Start(V2, v) = Start(V, v)
                        /\ \A j : On(V2, R2, v, j) <=> On(V, R, v, j)
    BY <1>2, <1>13, GraftSays DEF n
  <2>2. V2[z].pos + 1 = s
    BY <1>7, <1>10
  <2> QED
    BY <2>1, <2>2
<1>16. Inside(N \union {z}, V2, M, c) /\ Near(V2, D, R2, c, V2[c])
  <2>1. Inside(N \union {z}, V2, M, c)
    BY <1>2, <1>11 DEF Inside, Types
  <2>2. V2[z].pos > V2[c].pos
    BY <1>2, <1>7, <1>10, <1>11
  <2>3. On(V2, R2, c, R2[z]) /\ Bit(R2[z], n) = 1
    BY <1>2, <1>3, <1>7, <1>14
  <2>5. V[c].down # Nil => V[c].down \in N
    BY <1>2 DEF Inside
  <2>6. V[c].down # Nil => /\ V2[V[c].down].pos > V2[c].pos /\ On(V2, R2, c, R2[V[c].down])
                           /\ \A i \in n .. V2[V[c].down].pos : Bit(R2[V[c].down], i) = 0
    BY <1>2, <1>3, <1>14, <2>5 DEF Near, n
  <2> QED
    BY <1>11, <1>14, <2>1, <2>2, <2>3, <2>6 DEF Near
<1>17. Inside(N \union {z}, V2, M, z) /\ Near(V2, D, R2, z, V2[z])
  <2>1. Inside(N \union {z}, V2, M, z)
    <3>1. s - 1 \in -1 .. Width - 1
      BY <1>2, <1>7
    <3> QED
      BY <1>4, <1>5, <1>6, <1>10, <3>1 DEF Inside, Types
  <2>2. V[c].ty = "RIGHT" => V2[y].pos > V2[z].pos /\ R2[y] = R[y] /\ V2[y].pos = V[y].pos
    BY <1>3, <1>5, <1>7, <1>10, <1>14
  <2>3. V[c].ty = "RIGHT" => On(V2, R2, z, R2[y]) /\ Bit(R2[y], s) = 1
    BY <1>3, <1>5, <1>14, <2>2 DEF On
  <2>4. V[c].ty = "DATA" => On(V2, R2, z, D[y].key) /\ (s < Width => Bit(D[y].key, s) = 1)
    BY <1>3, <1>6, <1>14 DEF On
  <2> QED
    BY <1>10, <1>14, <2>1, <2>2, <2>3, <2>4 DEF Near
<1>18. \A v \in {c, z} : Inside(N \union {z}, V2, M, v) /\ Near(V2, D, R2, v, V2[v])
  BY <1>16, <1>17
<1> QED
  BY <1>13, <1>18, GraftTrie

-----------------------------------------------------------------------------
(* What each insertion makes of the tree.                                    *)

\* Counting one and two beyond n.
LEMMA OneMore ==
  ASSUME NEW n \in Nat
  PROVE  /\ 1 .. n + 1 = (1 .. n) \union {n + 1} /\ n + 1 \notin 1 .. n /\ n + 1 # Nil
         /\ n + 1 .. n + 1 = {n + 1}
         /\ 1 .. n + 2 = ((1 .. n) \union {n + 2}) \union {n + 1} /\ n + 2 \notin 1 .. n
         /\ 1 .. n + 2 = ((1 .. n) \union {n + 1}) \union {n + 2}
         /\ n + 2 # Nil /\ n + 1 # n + 2 /\ n + 1 .. n + 2 = {n + 1, n + 2}
         /\ n + 1 \notin (1 .. n) \union {n + 2} /\ n + 2 \notin (1 .. n) \union {n + 1}
BY DEF Nil

\* One node, and two, have been added.
OneAdded(V, D, V2, D2, c, new, a, k) ==
  /\ Len(V) \in Nat /\ Len(D) \in Nat /\ c \in 1 .. Len(V)
  /\ Len(V2) = Len(V) + 1 /\ V2[Len(V) + 1] = a /\ V2[c] = new
  /\ \A v \in 1 .. Len(V) : v # c => V2[v] = V[v]
  /\ \A d \in 1 .. Len(D) : D2[d] = D[d]
  /\ D2[Len(D) + 1].key = k
  /\ 1 .. Len(V2) = (1 .. Len(V)) \union {Len(V) + 1} /\ Len(V) + 1 .. Len(V2) = {Len(V) + 1}
  /\ 1 .. Len(D2) = (1 .. Len(D)) \union {Len(D) + 1}
TwoAdded(V, D, V2, D2, c, new, a, b, k) ==
  /\ Len(V) \in Nat /\ Len(D) \in Nat /\ c \in 1 .. Len(V)
  /\ Len(V2) = Len(V) + 2 /\ V2[Len(V) + 1] = a /\ V2[Len(V) + 2] = b /\ V2[c] = new
  /\ \A v \in 1 .. Len(V) : v # c => V2[v] = V[v]
  /\ \A d \in 1 .. Len(D) : D2[d] = D[d]
  /\ D2[Len(D) + 1].key = k
  /\ 1 .. Len(V2) = ((1 .. Len(V)) \union {Len(V) + 1}) \union {Len(V) + 2}
  /\ 1 .. Len(V2) = ((1 .. Len(V)) \union {Len(V) + 2}) \union {Len(V) + 1}
  /\ Len(V) + 1 .. Len(V2) = {Len(V) + 1, Len(V) + 2}
  /\ 1 .. Len(D2) = (1 .. Len(D)) \union {Len(D) + 1}

\* A compare-and-swap that adds one node.
LEMMA JoinedOne ==
  ASSUME NEW V, NEW D, NEW V2, NEW D2, NEW c, NEW new, NEW a, NEW k,
         Nodes(V, D), Joined(V, D, V2, D2, c, new, <<a>>, k)
  PROVE  OneAdded(V, D, V2, D2, c, new, a, k)
<1> DEFINE s == <<a>>
<1>1. Len(s) = 1 /\ s[1] = a /\ 1 \in 1 .. Len(s) /\ Joined(V, D, V2, D2, c, new, s, k)
  OBVIOUS
<1> HIDE DEF s
<1>2. /\ c \in 1 .. Len(V) /\ Len(V2) = Len(V) + 1 /\ V2[Len(V) + 1] = a /\ V2[c] = new
      /\ (\A v \in 1 .. Len(V) : v # c => V2[v] = V[v]) /\ Len(D2) = Len(D) + 1
      /\ (\A d \in 1 .. Len(D) : D2[d] = D[d]) /\ D2[Len(D) + 1].key = k
  BY <1>1 DEF Joined
<1>3. Len(V) \in Nat /\ Len(D) \in Nat
  BY DEF Nodes
<1> QED
  BY <1>2, <1>3, OneMore DEF OneAdded

\* A compare-and-swap that adds two.
LEMMA JoinedTwo ==
  ASSUME NEW V, NEW D, NEW V2, NEW D2, NEW c, NEW new, NEW a, NEW b, NEW k,
         Nodes(V, D), Joined(V, D, V2, D2, c, new, <<a, b>>, k)
  PROVE  TwoAdded(V, D, V2, D2, c, new, a, b, k)
<1> DEFINE s == <<a, b>>
<1>1. Len(s) = 2 /\ s[1] = a /\ s[2] = b /\ 1 \in 1 .. Len(s) /\ 2 \in 1 .. Len(s)
      /\ Joined(V, D, V2, D2, c, new, s, k)
  OBVIOUS
<1> HIDE DEF s
<1>2. /\ c \in 1 .. Len(V) /\ Len(V2) = Len(V) + 2 /\ V2[Len(V) + 1] = a /\ V2[Len(V) + 2] = b
      /\ V2[c] = new
      /\ (\A v \in 1 .. Len(V) : v # c => V2[v] = V[v]) /\ Len(D2) = Len(D) + 1
      /\ (\A d \in 1 .. Len(D) : D2[d] = D[d]) /\ D2[Len(D) + 1].key = k
  BY <1>1 DEF Joined
<1>3. Len(V) \in Nat /\ Len(D) \in Nat
  BY DEF Nodes
<1> QED
  BY <1>2, <1>3, OneMore DEF TwoAdded

\* Of o nodes the two after the first n stand for the keys j and k.
Reps(n, o, R, j, k) ==
  [v \in 1 .. o |-> IF v = n + 1 THEN j ELSE IF v = n + 2 THEN k ELSE R[v]]

\* The keys are numbers, and n nodes have their keys already.
Stand(n, o, R, j, k) ==
  /\ n \in Nat /\ o \in Int /\ n < o /\ o <= n + 2
  /\ R \in [1 .. n -> Nat] /\ j \in Nat /\ k \in Nat

\* The keys that nodes stand for, with those of one or two new nodes.
LEMMA RepsIs ==
  ASSUME NEW n, NEW o, NEW R, NEW j, NEW k, Stand(n, o, R, j, k)
  PROVE  /\ Reps(n, o, R, j, k) \in [1 .. o -> Nat]
         /\ \A v \in 1 .. n : Reps(n, o, R, j, k)[v] = R[v]
         /\ Reps(n, o, R, j, k)[n + 1] = j
         /\ o = n + 2 => Reps(n, o, R, j, k)[n + 2] = k
<1>1. /\ n \in Nat /\ o \in Int /\ n < o /\ o <= n + 2
      /\ R \in [1 .. n -> Nat] /\ j \in Nat /\ k \in Nat
  BY DEF Stand
<1>2. n + 1 \in 1 .. o /\ (o = n + 2 => n + 2 \in 1 .. o /\ n + 2 # n + 1)
      /\ \A v \in 1 .. n : v \in 1 .. o /\ v # n + 1 /\ v # n + 2
  BY <1>1
<1>3. ASSUME NEW v \in 1 .. o, v # n + 1, v # n + 2
      PROVE  R[v] \in Nat
  <2>1. v \in 1 .. n
    BY <1>1, <1>3
  <2> QED
    BY <1>1, <2>1
<1> QED
  BY <1>1, <1>2, <1>3 DEF Reps

\* A node for the key k has been added to the tree.
AddsOne(V, D, R, V2, D2, R2, c, k) ==
  /\ Trie(1 .. Len(V), V, 1 .. Len(D), D, R)
  /\ Extends(1 .. Len(V), V, 1 .. Len(D), D, R, V2, D2, R2, c, Len(V) + 1, k)
  /\ R2 \in [1 .. Len(V2) -> Nat] /\ \A v \in 1 .. Len(V) : R2[v] = R[v]

\* One node added to the tree extends the trie by it.
LEMMA OneExtends ==
  ASSUME NEW V, NEW D, NEW R, NEW V2, NEW D2, NEW c, NEW new, NEW a, NEW k \in Keys,
         Nodes(V, D), Store(V, D, R), Joined(V, D, V2, D2, c, new, <<a>>, k), On(V, R, c, k)
  PROVE  AddsOne(V, D, R, V2, D2, Reps(Len(V), Len(V2), R, k, k), c, k)
<1> DEFINE n == Len(V)
           R2 == Reps(n, Len(V2), R, k, k)
<1>1. OneAdded(V, D, V2, D2, c, new, a, k)
  BY JoinedOne
<1>2. k \in Nat
  BY TreeAssumption
<1>3. n \in Nat /\ Len(V2) = n + 1 /\ R \in [1 .. n -> Nat] /\ c \in 1 .. n
  BY <1>1 DEF OneAdded, Store
<1> HIDE DEF n
<1>4. R2 \in [1 .. Len(V2) -> Nat] /\ (\A v \in 1 .. n : R2[v] = R[v]) /\ R2[n + 1] = k
  <2> DEFINE o == Len(V2)
             S == Reps(n, o, R, k, k)
  <2>1. Stand(n, o, R, k, k)
    BY <1>2, <1>3 DEF Stand
  <2> HIDE DEF o
  <2>2. S \in [1 .. o -> Nat] /\ (\A v \in 1 .. n : S[v] = R[v]) /\ S[n + 1] = k
    BY <2>1, RepsIs
  <2> QED
    BY <2>2 DEF o
<1> HIDE DEF R2
<1>5. n + 1 \notin 1 .. n /\ n + 1 # Nil
  BY <1>3, OneMore
<1>6. \A v \in 1 .. n : R2[v] = R[v] /\ (v # c => V2[v] = V[v])
  BY <1>1, <1>4 DEF OneAdded, n
<1>7. \A d \in 1 .. Len(D) : D2[d].key = D[d].key
  BY <1>1 DEF OneAdded
<1>8. Extends(1 .. n, V, 1 .. Len(D), D, R, V2, D2, R2, c, n + 1, k)
  <2>1. On(V, R, c, k)
    OBVIOUS
  <2> QED
    BY <1>2, <1>3, <1>4, <1>5, <1>6, <1>7, <2>1 DEF Extends
<1>9. Trie(1 .. n, V, 1 .. Len(D), D, R)
  BY StoreTrie DEF TreeTrie, n
<1> QED
  BY <1>4, <1>8, <1>9 DEF AddsOne, R2, n

\* A node with the record of k is put below c, and what was below c below it
\* (do_insert_last_down, do_insert_up_via_d).
LEMMA BelowStore ==
  ASSUME NEW V, NEW D, NEW R, NEW V2, NEW D2, NEW c, NEW new, NEW a, NEW k \in Keys, NEW fs,
         Nodes(V, D), Store(V, D, R), Joined(V, D, V2, D2, c, new, <<a>>, k), On(V, R, c, k),
         GoesBelow(V, 1 .. Len(D), V2, D2, c, Len(V) + 1, k, Len(D) + 1, fs)
  PROVE  \E R2 : Store(V2, D2, R2) /\ Grown(V, D, R, V2, D2, R2)
<1> DEFINE N == 1 .. Len(V)
           M == 1 .. Len(D)
           z == Len(V) + 1
           e == Len(D) + 1
           R2 == Reps(Len(V), Len(V2), R, k, k)
<1>1. OneAdded(V, D, V2, D2, c, new, a, k)
  BY JoinedOne
<1>2. /\ Trie(N, V, M, D, R) /\ Extends(N, V, M, D, R, V2, D2, R2, c, z, k)
      /\ R2 \in [1 .. Len(V2) -> Nat] /\ \A v \in N : R2[v] = R[v]
  <2>1. AddsOne(V, D, R, V2, D2, R2, c, k)
    BY OneExtends
  <2> QED
    BY <2>1 DEF AddsOne
<1>3. GoesBelow(V, M, V2, D2, c, z, k, e, fs)
  OBVIOUS
<1>4. 1 .. Len(V2) = N \union {z} /\ Len(V) + 1 .. Len(V2) = {z} /\ 1 .. Len(D2) = M \union {e}
      /\ c \in N /\ z \notin N /\ Len(V) \in Nat
  BY <1>1, <1>2 DEF OneAdded, Extends
<1>5. /\ \A v \in N : v # c => V2[v] = V[v]
      /\ V2[z].ty = "DATA" /\ V2[c].ty = V[c].ty /\ V2[c].rd = V[c].rd /\ V2[c].down = z /\ z # Nil
  BY <1>1, <1>2, <1>3 DEF OneAdded, GoesBelow, NodeIs, Extends
<1> HIDE DEF N, M, z, e, R2
<1>6. Trie(N \union {z}, V2, M \union {e}, D2, R2) /\ \A d \in M : D2[d].key # k
  <2>1. Trie(N, V, M, D, R) /\ Extends(N, V, M, D, R, V2, D2, R2, c, z, k)
        /\ GoesBelow(V, M, V2, D2, c, z, k, e, fs)
    BY <1>2, <1>3
  <2> QED
    BY <2>1, BelowGraft
<1>7. TreeTrie(V2, D2, R2) /\ \A d \in 1 .. Len(D) : D2[d].key # k
  BY <1>4, <1>6 DEF TreeTrie, M
<1>8. ASSUME NEW v \in {c} \union Len(V) + 1 .. Len(V2), V2[v].ty = "RIGHT"
      PROVE  V2[V2[v].rd].down # Nil
  <2>1. v = c
    BY <1>4, <1>5, <1>8
  <2>2. V[c].rd \in N /\ V[V[c].rd].down # Nil
    <3>1. Inside(N, V, M, c) /\ V[c].ty = "RIGHT"
      BY <1>2, <1>4, <1>5, <1>8, <2>1 DEF Trie, Sound
    <3>2. Ended(V)
      BY StoreTrie
    <3> QED
      BY <1>4, <3>1, <3>2 DEF Ended, Inside, N
  <2> QED
    BY <1>5, <2>1, <2>2
<1>9. Store(V2, D2, R2) /\ Grown(V, D, R, V2, D2, R2)
  BY <1>2, <1>7, <1>8, JoinedStore DEF N
<1> QED
  BY <1>9

\* A node with the record of k is put on the right of c, above the node that was
\* there (do_insert_up_via_r, when the record to the right is zero from p to the
\* end of the segment).
LEMMA AboveStore ==
  ASSUME NEW V, NEW D, NEW R, NEW V2, NEW D2, NEW c, NEW new, NEW a, NEW k \in Keys, NEW p,
         Nodes(V, D), Store(V, D, R), Joined(V, D, V2, D2, c, new, <<a>>, k), On(V, R, c, k),
         GoesAbove(V, 1 .. Len(D), R, V2, D2, c, Len(V) + 1, k, Len(D) + 1, p)
  PROVE  \E R2 : Store(V2, D2, R2) /\ Grown(V, D, R, V2, D2, R2)
<1> DEFINE N == 1 .. Len(V)
           M == 1 .. Len(D)
           z == Len(V) + 1
           e == Len(D) + 1
           R2 == Reps(Len(V), Len(V2), R, k, k)
<1>1. OneAdded(V, D, V2, D2, c, new, a, k)
  BY JoinedOne
<1>2. /\ Trie(N, V, M, D, R) /\ Extends(N, V, M, D, R, V2, D2, R2, c, z, k)
      /\ R2 \in [1 .. Len(V2) -> Nat] /\ \A v \in N : R2[v] = R[v]
  <2>1. AddsOne(V, D, R, V2, D2, R2, c, k)
    BY OneExtends
  <2> QED
    BY <2>1 DEF AddsOne
<1>3. GoesAbove(V, M, R, V2, D2, c, z, k, e, p)
  OBVIOUS
<1>4. 1 .. Len(V2) = N \union {z} /\ Len(V) + 1 .. Len(V2) = {z} /\ 1 .. Len(D2) = M \union {e}
      /\ c \in N /\ Nil \notin N
  BY <1>1, <1>2 DEF OneAdded, Extends, Trie, Sound
<1>5. V2[z].ty = "DATA" /\ V2[c].rd = z /\ V2[z].down = V[c].rd /\ V[c].ty = "RIGHT"
  BY <1>3 DEF GoesAbove, NodeIs
<1> HIDE DEF N, M, z, e, R2
<1>6. Trie(N \union {z}, V2, M \union {e}, D2, R2) /\ \A d \in M : D2[d].key # k
  <2>1. Trie(N, V, M, D, R) /\ Extends(N, V, M, D, R, V2, D2, R2, c, z, k)
        /\ GoesAbove(V, M, R, V2, D2, c, z, k, e, p)
    BY <1>2, <1>3
  <2> QED
    BY <2>1, UpGraft
<1>7. TreeTrie(V2, D2, R2) /\ \A d \in 1 .. Len(D) : D2[d].key # k
  BY <1>4, <1>6 DEF TreeTrie, M
<1>8. ASSUME NEW v \in {c} \union Len(V) + 1 .. Len(V2), V2[v].ty = "RIGHT"
      PROVE  V2[V2[v].rd].down # Nil
  <2>1. v = c
    BY <1>4, <1>5, <1>8
  <2>2. V[c].rd # Nil
    BY <1>2, <1>4, <1>5 DEF Trie, Sound, Inside
  <2> QED
    BY <1>5, <2>1, <2>2
<1>9. Store(V2, D2, R2) /\ Grown(V, D, R, V2, D2, R2)
  BY <1>2, <1>7, <1>8, JoinedStore DEF N
<1> QED
  BY <1>9

\* What is on the right of c begins as the key r up to s.
Parts(V, D, R, c, r, s) ==
  /\ s \in Int /\ Start(V, c) < s /\ s <= Width /\ Bit(r, Start(V, c)) = 1
  /\ V[c].ty = "RIGHT" =>
       /\ s <= V[V[c].rd].pos /\ Pre(r, s) = Pre(R[V[c].rd], s)
       /\ Bit(R[V[c].rd], s) = 1
  /\ V[c].ty = "DATA" =>
       /\ V[c].rd # Nil /\ Pre(r, s) = Pre(D[V[c].rd].key, s)
       /\ s < Width => Bit(D[V[c].rd].key, s) = 1

\* Two nodes are added to the tree: the first stands for the key j, the second
\* for k.
AddsTwo(V, D, R, V2, D2, R2, c, j, k) ==
  /\ Trie(1 .. Len(V), V, 1 .. Len(D), D, R)
  /\ Len(V) \in Nat /\ Len(D) \in Nat /\ c \in 1 .. Len(V) /\ j \in Nat /\ k \in Nat
  /\ R2 \in [1 .. Len(V2) -> Nat] /\ R2[Len(V) + 1] = j /\ R2[Len(V) + 2] = k
  /\ \A v \in 1 .. Len(V) : R2[v] = R[v] /\ (v # c => V2[v] = V[v])
  /\ \A d \in 1 .. Len(D) : D2[d].key = D[d].key

\* Two nodes added extend it by the first and then by the second.
LEMMA TwoExtends ==
  ASSUME NEW V, NEW D, NEW R, NEW V2, NEW D2, NEW c, NEW new, NEW a, NEW b, NEW l,
         NEW j \in Keys, NEW k \in Keys,
         Nodes(V, D), Store(V, D, R), Joined(V, D, V2, D2, c, new, <<a, b>>, l)
  PROVE  AddsTwo(V, D, R, V2, D2, Reps(Len(V), Len(V2), R, j, k), c, j, k)
<1> DEFINE n == Len(V)
           R2 == Reps(n, Len(V2), R, j, k)
<1>1. TwoAdded(V, D, V2, D2, c, new, a, b, l)
  BY JoinedTwo
<1>2. j \in Nat /\ k \in Nat
  BY TreeAssumption
<1>3. n \in Nat /\ Len(V2) = n + 2 /\ R \in [1 .. n -> Nat] /\ c \in 1 .. n /\ Len(D) \in Nat
  BY <1>1 DEF TwoAdded, Store
<1> HIDE DEF n
<1>4. R2 \in [1 .. Len(V2) -> Nat] /\ (\A v \in 1 .. n : R2[v] = R[v])
      /\ R2[n + 1] = j /\ R2[n + 2] = k
  <2> DEFINE o == Len(V2)
             S == Reps(n, o, R, j, k)
  <2>1. Stand(n, o, R, j, k) /\ o = n + 2
    BY <1>2, <1>3 DEF Stand
  <2> HIDE DEF o
  <2>2. S \in [1 .. o -> Nat] /\ (\A v \in 1 .. n : S[v] = R[v]) /\ S[n + 1] = j /\ S[n + 2] = k
    BY <2>1, RepsIs
  <2> QED
    BY <2>2 DEF o
<1> HIDE DEF R2
<1>6. \A v \in 1 .. n : R2[v] = R[v] /\ (v # c => V2[v] = V[v])
  BY <1>1, <1>4 DEF TwoAdded, n
<1>7. \A d \in 1 .. Len(D) : D2[d].key = D[d].key
  BY <1>1 DEF TwoAdded
<1>9. Trie(1 .. n, V, 1 .. Len(D), D, R)
  BY StoreTrie DEF TreeTrie, n
<1> QED
  BY <1>2, <1>3, <1>4, <1>6, <1>7, <1>9 DEF AddsTwo, R2, n

\* The nodes of do_insert_up_via_r: the first holds the record of k, which has
\* a one at p, and the second, below it, what was on the right.
Upper(V, D, R, V2, c, r, k, p, s) ==
  /\ p \in Int /\ Start(V, c) < p /\ p < s /\ Bit(k, p) = 1 /\ Pre(k, p) = Pre(r, p)
  /\ \A i \in p .. s - 1 : Bit(r, i) = 0
  /\ NodeIs(V2[c], "RIGHT", Start(V, c), V[c].down, Len(V) + 1)
  /\ NodeIs(V2[Len(V) + 1], "DATA", p, Len(V) + 2, Len(D) + 1)
  /\ NodeIs(V2[Len(V) + 2], V[c].ty, s, Nil, V[c].rd)

\* Both nodes of do_insert_up_via_r leave a trie.
LEMMA UpperTrie ==
  ASSUME NEW V, NEW D, NEW R, NEW V2, NEW D2, NEW R2, NEW c, NEW r, NEW k, NEW p, NEW s,
         AddsTwo(V, D, R, V2, D2, R2, c, k, r),
         Parts(V, D, R, c, r, s), On(V, R, c, r), On(V, R, c, k), D2[Len(D) + 1].key = k,
         Upper(V, D, R, V2, c, r, k, p, s)
  PROVE  /\ Trie(((1 .. Len(V)) \union {Len(V) + 2}) \union {Len(V) + 1}, V2,
                 (1 .. Len(D)) \union {Len(D) + 1}, D2, R2)
         /\ \A d \in 1 .. Len(D) : D2[d].key # k
<1> DEFINE N == 1 .. Len(V)
           M == 1 .. Len(D)
           x == Len(V) + 1
           z == Len(V) + 2
           e == Len(D) + 1
           V1 == [v \in N \union {z} |->
                    IF v = c THEN [st |-> "VALID", ty |-> "RIGHT", pos |-> V[c].pos,
                                   down |-> V[c].down, rd |-> z]
                    ELSE V2[v]]
<1>1. /\ Trie(N, V, M, D, R) /\ c \in N /\ k \in Nat /\ r \in Nat
      /\ R2[x] = k /\ R2[z] = r
      /\ \A v \in N : R2[v] = R[v] /\ (v # c => V2[v] = V[v])
      /\ \A d \in M : D2[d].key = D[d].key
  BY DEF AddsTwo
<1>2. x \notin N \union {z} /\ x # Nil /\ z \notin N /\ z # Nil /\ e \notin M /\ e # Nil
  <2>1. Len(V) \in Nat /\ Len(D) \in Nat
    BY DEF AddsTwo
  <2>2. x \notin N \union {z} /\ x # Nil /\ z \notin N /\ z # Nil
    BY <2>1, OneMore
  <2>3. e \notin M /\ e # Nil
    BY <2>1, OneMore
  <2> QED
    BY <2>2, <2>3
<1>3. /\ p \in Int /\ Start(V, c) < p /\ p < s /\ Bit(k, p) = 1 /\ Pre(k, p) = Pre(r, p)
      /\ \A i \in p .. s - 1 : Bit(r, i) = 0
  BY DEF Upper
<1>4. NodeIs(V2[c], "RIGHT", Start(V, c), V[c].down, x)
  BY DEF Upper
<1>5. NodeIs(V2[x], "DATA", p, z, e)
  BY DEF Upper
<1>6. NodeIs(V2[z], V[c].ty, s, Nil, V[c].rd)
  BY DEF Upper
<1>7. Parts(V, D, R, c, r, s) /\ On(V, R, c, r) /\ On(V, R, c, k) /\ D2[e].key = k
  OBVIOUS
<1> HIDE DEF N, M, x, z, e
<1>8. /\ V1[c] = [st |-> "VALID", ty |-> "RIGHT", pos |-> V[c].pos, down |-> V[c].down, rd |-> z]
      /\ \A v \in N \union {z} : v # c => V1[v] = V2[v]
  BY <1>1
<1> HIDE DEF V1
<1>9. NodeIs(V1[c], "RIGHT", Start(V, c), V[c].down, z)
  <2>1. V[c].pos = Start(V, c) - 1
    <3>1. V[c].pos \in -1 .. Width - 1
      BY <1>1 DEF Trie, Sound, Inside
    <3> QED
      BY <3>1, TreeAssumption DEF Start
  <2> QED
    BY <1>8, <2>1 DEF NodeIs
<1>10. NodeIs(V1[z], V[c].ty, s, Nil, V[c].rd) /\ z # c
  BY <1>1, <1>2, <1>6, <1>8
<1>11. Trie(N \union {z}, V1, M, D, R2)
  <2>1. \A v \in N : R2[v] = R[v] /\ (v # c => V1[v] = V[v])
    BY <1>1, <1>8
  <2>2. \A d \in M : D[d].key = D[d].key
    OBVIOUS
  <2>3. Extends(N, V, M, D, R, V1, D, R2, c, z, r)
    BY <1>1, <1>2, <1>7, <2>1 DEF Extends
  <2>4. GoesRight(V, D, R, V1, c, z, r, s)
    BY <1>7, <1>9, <1>10 DEF GoesRight, Parts
  <2>5. Trie(N, V, M, D, R)
    BY <1>1
  <2> QED
    BY <2>3, <2>4, <2>5, SplitGraft
<1>12. Extends(N \union {z}, V1, M, D, R2, V2, D2, R2, c, x, k)
  <2>1. On(V1, R2, c, k)
    BY <1>1, <1>7, <1>8 DEF On, Start
  <2>2. \A v \in N \union {z} : R2[v] = R2[v] /\ (v # c => V2[v] = V1[v])
    BY <1>8
  <2> QED
    BY <1>1, <1>2, <2>1, <2>2 DEF Extends
<1>13. GoesAbove(V1, M, R2, V2, D2, c, x, k, e, p)
  <2>1. V1[c].ty = "RIGHT" /\ V1[c].rd = z /\ V1[c].down = V[c].down /\ Start(V1, c) = Start(V, c)
    BY <1>8 DEF Start
  <2>2. V1[z].pos = s - 1 /\ s \in Int
    BY <1>7, <1>10 DEF NodeIs, Parts
  <2>3. p <= V1[z].pos /\ V1[z].pos \in Int
    BY <1>3, <2>2
  <2>4. \A i \in p .. V1[z].pos : Bit(R2[z], i) = 0
    BY <1>1, <1>3, <2>2
  <2>5. Pre(k, p) = Pre(R2[z], p)
    BY <1>1, <1>3
  <2> QED
    BY <1>2, <1>3, <1>4, <1>5, <1>7, <2>1, <2>3, <2>4, <2>5 DEF GoesAbove
<1>14. Trie((N \union {z}) \union {x}, V2, M \union {e}, D2, R2) /\ \A d \in M : D2[d].key # k
  BY <1>11, <1>12, <1>13, UpGraft
<1> QED
  BY <1>14 DEF N, M, x, z, e

\* The nodes of do_insert_down_via_r: the first holds what was on the right,
\* that has a one at p, and the second, below it, the record of k.
Lower(V, D, R, V2, c, r, k, p, fs) ==
  /\ p \in Int /\ fs \in Int /\ p < fs /\ fs <= Width /\ Pre(k, p) = Pre(r, p)
  /\ \A i \in p .. fs - 1 : Bit(k, i) = 0
  /\ fs < Width => Bit(k, fs) = 1
  /\ NodeIs(V2[c], "RIGHT", Start(V, c), V[c].down, Len(V) + 1)
  /\ NodeIs(V2[Len(V) + 1], V[c].ty, p, Len(V) + 2, V[c].rd)
  /\ NodeIs(V2[Len(V) + 2], "DATA", fs, Nil, Len(D) + 1)

\* Both nodes of do_insert_down_via_r leave a trie.
LEMMA LowerTrie ==
  ASSUME NEW V, NEW D, NEW R, NEW V2, NEW D2, NEW R2, NEW c, NEW r, NEW k, NEW p, NEW fs,
         AddsTwo(V, D, R, V2, D2, R2, c, r, k),
         Parts(V, D, R, c, r, p), On(V, R, c, r), D2[Len(D) + 1].key = k,
         Lower(V, D, R, V2, c, r, k, p, fs)
  PROVE  /\ Trie(((1 .. Len(V)) \union {Len(V) + 1}) \union {Len(V) + 2}, V2,
                 (1 .. Len(D)) \union {Len(D) + 1}, D2, R2)
         /\ \A d \in 1 .. Len(D) : D2[d].key # k
<1> DEFINE N == 1 .. Len(V)
           M == 1 .. Len(D)
           x == Len(V) + 1
           z == Len(V) + 2
           e == Len(D) + 1
           w == [st |-> "VALID", ty |-> V[c].ty, pos |-> p - 1, down |-> Nil, rd |-> V[c].rd]
           V1 == [v \in N \union {x} |-> IF v = x THEN w ELSE V2[v]]
<1>1. /\ Trie(N, V, M, D, R) /\ c \in N /\ k \in Nat /\ r \in Nat
      /\ R2[x] = r /\ R2[z] = k
      /\ \A v \in N : R2[v] = R[v] /\ (v # c => V2[v] = V[v])
      /\ \A d \in M : D2[d].key = D[d].key
  BY DEF AddsTwo
<1>2. z \notin N \union {x} /\ x # Nil /\ x \notin N /\ z # Nil /\ e \notin M /\ e # Nil
  <2>1. Len(V) \in Nat /\ Len(D) \in Nat
    BY DEF AddsTwo
  <2>2. z \notin N \union {x} /\ x # Nil /\ x \notin N /\ z # Nil
    BY <2>1, OneMore
  <2>3. e \notin M /\ e # Nil
    BY <2>1, OneMore
  <2> QED
    BY <2>2, <2>3
<1>3. /\ p \in Int /\ fs \in Int /\ p < fs /\ fs <= Width /\ Pre(k, p) = Pre(r, p)
      /\ \A i \in p .. fs - 1 : Bit(k, i) = 0
      /\ fs < Width => Bit(k, fs) = 1
  BY DEF Lower
<1>4. NodeIs(V2[c], "RIGHT", Start(V, c), V[c].down, x)
  BY DEF Lower
<1>5. NodeIs(V2[x], V[c].ty, p, z, V[c].rd)
  BY DEF Lower
<1>6. NodeIs(V2[z], "DATA", fs, Nil, e)
  BY DEF Lower
<1>7. Parts(V, D, R, c, r, p) /\ On(V, R, c, r) /\ D2[e].key = k
  OBVIOUS
<1> HIDE DEF N, M, x, z, e
<1>8. V1[x] = w /\ \A v \in N : V1[v] = V2[v]
  BY <1>2
<1> HIDE DEF V1
<1>9. NodeIs(V1[c], "RIGHT", Start(V, c), V[c].down, x)
  BY <1>1, <1>4, <1>8
<1>10. NodeIs(V1[x], V[c].ty, p, Nil, V[c].rd)
  BY <1>8 DEF NodeIs
<1>11. Trie(N \union {x}, V1, M, D, R2)
  <2>1. \A v \in N : R2[v] = R[v] /\ (v # c => V1[v] = V[v])
    BY <1>1, <1>8
  <2>2. \A d \in M : D[d].key = D[d].key
    OBVIOUS
  <2>3. Extends(N, V, M, D, R, V1, D, R2, c, x, r)
    BY <1>1, <1>2, <1>7, <2>1 DEF Extends
  <2>4. GoesRight(V, D, R, V1, c, x, r, p)
    BY <1>7, <1>9, <1>10 DEF GoesRight, Parts
  <2>5. Trie(N, V, M, D, R)
    BY <1>1
  <2> QED
    BY <2>3, <2>4, <2>5, SplitGraft
<1>12. Start(V1, x) = p /\ V1[x].ty = V[c].ty /\ V1[x].rd = V[c].rd /\ V1[x].down = Nil
  BY <1>3, <1>8 DEF Start
<1>13. Extends(N \union {x}, V1, M, D, R2, V2, D2, R2, x, z, k)
  <2>1. On(V1, R2, x, k)
    BY <1>1, <1>3, <1>12 DEF On
  <2>2. \A v \in N \union {x} : R2[v] = R2[v] /\ (v # x => V2[v] = V1[v])
    BY <1>8
  <2> QED
    BY <1>1, <1>2, <2>1, <2>2 DEF Extends
<1>14. GoesBelow(V1, M, V2, D2, x, z, k, e, fs)
  BY <1>2, <1>3, <1>5, <1>6, <1>7, <1>12 DEF GoesBelow
<1>15. Trie((N \union {x}) \union {z}, V2, M \union {e}, D2, R2) /\ \A d \in M : D2[d].key # k
  BY <1>11, <1>13, <1>14, BelowGraft
<1> QED
  BY <1>15 DEF N, M, x, z, e

\* The two new nodes on the right of c, one below the other: one of them has
\* what was on the right.
Chained(V, V2, c) ==
  /\ V2[c].rd = Len(V) + 1 /\ V2[Len(V) + 1].down = Len(V) + 2 /\ V2[c].down = V[c].down
  /\ \A v \in {Len(V) + 1, Len(V) + 2} :
       V2[v].ty = "RIGHT" => V[c].ty = "RIGHT" /\ V2[v].rd = V[c].rd

\* Two nodes that keep the trie a trie keep the tree one.
LEMMA TwoStore ==
  ASSUME NEW V, NEW D, NEW R, NEW V2, NEW D2, NEW R2, NEW c, NEW new, NEW a, NEW b, NEW i, NEW j,
         NEW k,
         Nodes(V, D), Store(V, D, R), Joined(V, D, V2, D2, c, new, <<a, b>>, k),
         AddsTwo(V, D, R, V2, D2, R2, c, i, j), Chained(V, V2, c),
         TreeTrie(V2, D2, R2), \A d \in 1 .. Len(D) : D2[d].key # k
  PROVE  \E S : Store(V2, D2, S) /\ Grown(V, D, R, V2, D2, S)
<1>1. TwoAdded(V, D, V2, D2, c, new, a, b, k)
  BY JoinedTwo
<1>2. /\ Len(V) \in Nat /\ c \in 1 .. Len(V) /\ Len(V) + 1 .. Len(V2) = {Len(V) + 1, Len(V) + 2}
      /\ \A v \in 1 .. Len(V) : v # c => V2[v] = V[v]
  BY <1>1 DEF TwoAdded
<1>3. R2 \in [1 .. Len(V2) -> Nat] /\ \A v \in 1 .. Len(V) : R2[v] = R[v]
  BY DEF AddsTwo
<1>4. ASSUME NEW v \in {c} \union Len(V) + 1 .. Len(V2), V2[v].ty = "RIGHT"
      PROVE  V2[V2[v].rd].down # Nil
  <2>1. CASE v = c
    <3>1. Len(V) + 2 # Nil
      BY <1>2 DEF Nil
    <3> QED
      BY <2>1, <3>1 DEF Chained
  <2>2. CASE v # c
    <3>1. V[c].ty = "RIGHT" /\ V2[v].rd = V[c].rd /\ V2[c].down = V[c].down
      BY <1>2, <1>4, <2>2 DEF Chained
    <3>2. TreeTrie(V, D, R) /\ Ended(V)
      BY StoreTrie
    <3>3. V[c].rd \in 1 .. Len(V) /\ V[V[c].rd].down # Nil
      <4>1. Inside(1 .. Len(V), V, 1 .. Len(D), c)
        BY <1>2, <3>2 DEF TreeTrie, Trie, Sound
      <4> QED
        BY <1>2, <3>1, <3>2, <4>1 DEF Ended, Inside
    <3>4. V2[V[c].rd].down = V[V[c].rd].down
      BY <1>2, <3>1, <3>3
    <3> QED
      BY <3>1, <3>3, <3>4
  <2> QED
    BY <2>1, <2>2
<1>5. Store(V2, D2, R2) /\ Grown(V, D, R, V2, D2, R2)
  BY <1>3, <1>4, JoinedStore
<1> QED
  BY <1>5

\* do_insert_up_via_r keeps the invariant of the tree.
LEMMA UpperStore ==
  ASSUME NEW V, NEW D, NEW R, NEW V2, NEW D2, NEW c, NEW new, NEW a, NEW b,
         NEW r \in Keys, NEW k \in Keys, NEW p, NEW s,
         Nodes(V, D), Store(V, D, R), Joined(V, D, V2, D2, c, new, <<a, b>>, k),
         Parts(V, D, R, c, r, s), On(V, R, c, r), On(V, R, c, k),
         Upper(V, D, R, V2, c, r, k, p, s)
  PROVE  \E S : Store(V2, D2, S) /\ Grown(V, D, R, V2, D2, S)
<1> DEFINE R2 == Reps(Len(V), Len(V2), R, k, r)
<1>1. AddsTwo(V, D, R, V2, D2, R2, c, k, r)
  BY TwoExtends
<1> HIDE DEF R2
<1>2. TwoAdded(V, D, V2, D2, c, new, a, b, k)
  BY JoinedTwo
<1>3. D2[Len(D) + 1].key = k
  BY <1>2 DEF TwoAdded
<1>4. /\ Trie(((1 .. Len(V)) \union {Len(V) + 2}) \union {Len(V) + 1}, V2,
              (1 .. Len(D)) \union {Len(D) + 1}, D2, R2)
      /\ \A d \in 1 .. Len(D) : D2[d].key # k
  BY <1>1, <1>3, UpperTrie
<1>5. TreeTrie(V2, D2, R2)
  <2>1. /\ 1 .. Len(V2) = ((1 .. Len(V)) \union {Len(V) + 2}) \union {Len(V) + 1}
        /\ 1 .. Len(D2) = (1 .. Len(D)) \union {Len(D) + 1}
    BY <1>2 DEF TwoAdded
  <2> QED
    BY <1>4, <2>1 DEF TreeTrie
<1>6. Chained(V, V2, c)
  BY DEF Chained, Upper, NodeIs
<1> QED
  BY <1>1, <1>4, <1>5, <1>6, TwoStore

\* do_insert_down_via_r keeps the invariant of the tree.
LEMMA LowerStore ==
  ASSUME NEW V, NEW D, NEW R, NEW V2, NEW D2, NEW c, NEW new, NEW a, NEW b,
         NEW r \in Keys, NEW k \in Keys, NEW p, NEW fs,
         Nodes(V, D), Store(V, D, R), Joined(V, D, V2, D2, c, new, <<a, b>>, k),
         Parts(V, D, R, c, r, p), On(V, R, c, r), Lower(V, D, R, V2, c, r, k, p, fs)
  PROVE  \E S : Store(V2, D2, S) /\ Grown(V, D, R, V2, D2, S)
<1> DEFINE R2 == Reps(Len(V), Len(V2), R, r, k)
<1>1. AddsTwo(V, D, R, V2, D2, R2, c, r, k)
  BY TwoExtends
<1> HIDE DEF R2
<1>2. TwoAdded(V, D, V2, D2, c, new, a, b, k)
  BY JoinedTwo
<1>3. D2[Len(D) + 1].key = k
  BY <1>2 DEF TwoAdded
<1>4. /\ Trie(((1 .. Len(V)) \union {Len(V) + 1}) \union {Len(V) + 2}, V2,
              (1 .. Len(D)) \union {Len(D) + 1}, D2, R2)
      /\ \A d \in 1 .. Len(D) : D2[d].key # k
  BY <1>1, <1>3, LowerTrie
<1>5. TreeTrie(V2, D2, R2)
  <2>1. /\ 1 .. Len(V2) = ((1 .. Len(V)) \union {Len(V) + 1}) \union {Len(V) + 2}
        /\ 1 .. Len(D2) = (1 .. Len(D)) \union {Len(D) + 1}
    BY <1>2 DEF TwoAdded
  <2> QED
    BY <1>4, <2>1 DEF TreeTrie
<1>6. Chained(V, V2, c)
  BY DEF Chained, Lower, NodeIs
<1> QED
  BY <1>1, <1>4, <1>5, <1>6, TwoStore

\* The empty head gets its first record, e, for the key k.
GoesFirst(N, V, M, D, V2, D2, e, k) ==
  /\ Head1 \in N /\ V[Head1].pos = -1 /\ V[Head1].ty = "DATA" /\ V[Head1].rd = Nil
  /\ k \in Int /\ Bit(k, 0) = 1
  /\ NodeIs(V2[Head1], "DATA", 0, V[Head1].down, e)
  /\ \A v \in N : v # Head1 => V2[v] = V[v]
  /\ e \notin M /\ e # Nil /\ D2[e].key = k
  /\ \A d \in M : D2[d].key = D[d].key

\* The first record of the head leaves a trie.
LEMMA FirstTrie ==
  ASSUME NEW N, NEW V, NEW M, NEW D, NEW R, NEW V2, NEW D2, NEW e, NEW k,
         Trie(N, V, M, D, R), GoesFirst(N, V, M, D, V2, D2, e, k)
  PROVE  /\ Trie(N, V2, M \union {e}, D2, R)
         /\ \A d \in M : D2[d].key # k
<1> Head1 \in N /\ V[Head1].pos = -1 /\ V[Head1].ty = "DATA" /\ V[Head1].rd = Nil
  BY DEF GoesFirst
<1> k \in Int /\ Bit(k, 0) = 1 /\ e \notin M /\ e # Nil /\ D2[e].key = k
  BY DEF GoesFirst
<1> NodeIs(V2[Head1], "DATA", 0, V[Head1].down, e)
  BY DEF GoesFirst
<1> \A v \in N : v # Head1 => V2[v] = V[v]
  BY DEF GoesFirst
<1> \A d \in M : D2[d].key = D[d].key
  BY DEF GoesFirst
<1> DEFINE h == Head1
<1>1. /\ \A v \in N : /\ V[v].pos \in -1 .. Width - 1 /\ V2[v].pos = V[v].pos
                      /\ Start(V, v) = V[v].pos + 1 /\ Start(V2, v) = Start(V, v)
                      /\ Start(V, v) \in Nat
                      /\ \A j : On(V2, R, v, j) <=> On(V, R, v, j)
      /\ Width \in Nat \ {0} /\ Start(V, h) = 0 /\ Start(V2, h) = 0 /\ Nil \notin N
  <2>1. Nil \notin N /\ \A v \in N : V[v].pos \in -1 .. Width - 1
    BY DEF Trie, Sound, Inside
  <2>2. \A v \in N : V2[v].pos = V[v].pos
    BY DEF NodeIs
  <2> QED
    BY <2>1, <2>2, TreeAssumption DEF Start, On
<1>2. \A j : On(V, R, h, j)
  BY <1>1, PreNone DEF On
<1>3. \A v \in N : \A j : Child(V2[v], j, Start(V, v)) = Child(V[v], j, Start(V, v))
  <2> TAKE v \in N
  <2> TAKE j
  <2>1. V2[v].ty = V[v].ty /\ V2[v].down = V[v].down /\ (V[v].ty = "RIGHT" => V2[v].rd = V[v].rd)
    BY DEF NodeIs
  <2> QED
    BY <2>1 DEF Child
<1>4. Ways(N, V2, R)
  <2>1. Ways(N, V, R)
    BY DEF Trie
  <2>2. ASSUME NEW u \in N, NEW v \in N, On(V2, R, v, R[u]), V2[v].pos < V2[u].pos
        PROVE  Leads(V2, R, v, R[u], V2[u].pos)
    <3> DEFINE y == Child(V[v], R[u], Start(V, v))
    <3>1. Leads(V, R, v, R[u], V[u].pos)
      BY <1>1, <2>1, <2>2 DEF Ways
    <3>2. y # Nil /\ V[y].pos <= V[u].pos /\ On(V, R, y, R[u])
      BY <3>1 DEF Leads
    <3>3. y \in N
      BY <1>1, <3>2, ChildInside DEF Trie, Sound
    <3>4. Child(V2[v], R[u], Start(V2, v)) = y
      BY <1>1, <1>3
    <3> HIDE DEF y
    <3> QED
      BY <1>1, <3>2, <3>3, <3>4 DEF Leads
  <2>3. ASSUME NEW u \in N, NEW v \in N, On(V2, R, v, R[u]), V2[v].pos = V2[u].pos
        PROVE  u = v
    BY <1>1, <2>1, <2>3 DEF Ways
  <2> QED
    BY <2>2, <2>3 DEF Ways
<1>5. \A d \in M : D2[d].key # k
  <2> SUFFICES ASSUME NEW d \in M, D[d].key = k PROVE FALSE
    OBVIOUS
  <2>1. Route(V, D, R, h, V[h], k)
    BY <1>2 DEF Trie, Finds
  <2>2. Child(V[h], k, 0) = Nil
    BY <1>1 DEF Child
  <2> QED
    BY <1>1, <2>1, <2>2 DEF Route
<1>6. ASSUME NEW v \in N, v # h
      PROVE  ~ On(V, R, v, k)
  <2> SUFFICES ASSUME On(V, R, v, k) PROVE FALSE
    OBVIOUS
  <2>1. V[h].pos < V[v].pos
    <3>1. V[h].pos = V[v].pos => v = h
      BY <1>2 DEF Trie, Ways
    <3> QED
      BY <1>1, <1>6, <3>1
  <2>2. Leads(V, R, h, R[v], V[v].pos)
    BY <1>2, <2>1 DEF Trie, Ways
  <2>3. Child(V[h], R[v], 0) # Nil
    BY <1>1, <2>2 DEF Leads
  <2>4. Bit(R[v], 0) = 0
    BY <2>3 DEF Child
  <2>5. Bit(k, 0) = Bit(R[v], 0)
    <3>1. Pre(k, Start(V, v)) = Pre(R[v], Start(V, v)) /\ Start(V, v) \in Int
      BY <1>1 DEF On
    <3>2. 0 \in 0 .. Start(V, v) - 1
      BY <1>1, <2>1
    <3> QED
      BY <3>1, <3>2, PreLess
  <2> QED
    BY <2>4, <2>5
<1>7. Finds(N, V2, M \union {e}, D2, R)
  <2> SUFFICES ASSUME NEW d \in M \union {e}, NEW v \in N, On(V2, R, v, D2[d].key)
               PROVE  Route(V2, D2, R, v, V2[v], D2[d].key)
    BY DEF Finds
  <2> DEFINE j == D2[d].key
             y == Child(V[v], j, Start(V, v))
  <2>0. Child(V2[v], j, Start(V2, v)) = y /\ On(V, R, v, j)
    BY <1>1, <1>3
  <2>1. CASE d = e
    <3>1. j = k
      BY <2>1
    <3>2. v = h
      BY <1>6, <2>0, <3>1
    <3>3. y = Nil
      BY <1>1, <3>1, <3>2 DEF Child
    <3>4. V2[h].ty = "DATA" /\ V2[h].rd = e
      BY DEF NodeIs
    <3> HIDE DEF y
    <3> QED
      BY <1>1, <2>0, <2>1, <3>1, <3>2, <3>3, <3>4 DEF Route
  <2>2. CASE d \in M
    <3>1. Route(V, D, R, v, V[v], j)
      BY <2>0, <2>2 DEF Trie, Finds
    <3>2. CASE y # Nil
      <4>1. On(V, R, y, j)
        BY <3>1, <3>2 DEF Route
      <4>2. y \in N
        BY <1>1, <3>2, ChildInside DEF Trie, Sound
      <4> HIDE DEF y, j
      <4>3. On(V2, R, y, j)
        BY <1>1, <4>1, <4>2
      <4> QED
        BY <2>0, <3>2, <4>3 DEF Route, j
    <3>3. CASE y = Nil
      <4>1. /\ Start(V, v) < Width => Bit(j, Start(V, v)) = 1
            /\ V[v].ty = "DATA" /\ V[v].rd # Nil /\ D[V[v].rd].key = j
        BY <3>1, <3>3 DEF Route
      <4>2. v # h
        BY <4>1
      <4>3. V2[v] = V[v] /\ V[v].rd \in M
        BY <4>1, <4>2 DEF Trie, Sound, Inside
      <4>4. D2[V[v].rd].key = D[V[v].rd].key
        BY <4>3
      <4> HIDE DEF y, j
      <4> QED
        BY <1>1, <2>0, <3>3, <4>1, <4>3, <4>4 DEF Route, j
    <3> QED
      BY <3>2, <3>3
  <2> QED
    BY <2>1, <2>2
<1>8. Sound(N, V2, M \union {e}, D2, R)
  <2>1. Nil \notin N /\ Nil \notin M \union {e} /\ \A v \in N : R[v] \in Int
    BY DEF Trie, Sound
  <2>2. \A d \in M \union {e} : D2[d].key \in Int
    BY DEF Trie, Sound
  <2>3. ASSUME NEW v \in N
        PROVE  Inside(N, V2, M \union {e}, v) /\ Near(V2, D2, R, v, V2[v])
    <3>1. Inside(N, V, M, v) /\ Near(V, D, R, v, V[v])
      BY DEF Trie, Sound
    <3>2. CASE v # h
      <4>1. V2[v] = V[v]
        BY <3>2
      <4>2. Inside(N, V2, M \union {e}, v)
        BY <3>1, <4>1 DEF Inside
      <4>3. /\ V[v].down # Nil => V[v].down \in N
            /\ V[v].ty = "RIGHT" => V[v].rd \in N
            /\ V[v].ty = "DATA" /\ V[v].rd # Nil => D2[V[v].rd].key = D[V[v].rd].key
        BY <3>1 DEF Inside
      <4> QED
        BY <1>1, <3>1, <4>1, <4>2, <4>3 DEF Near
    <3>3. CASE v = h
      <4>1. V2[h].ty = "DATA" /\ V2[h].st = "VALID" /\ V2[h].rd = e /\ V2[h].down = V[h].down
        BY DEF NodeIs
      <4>2. Inside(N, V2, M \union {e}, v)
        BY <1>1, <3>1, <3>3, <4>1 DEF Inside, Types
      <4>3. V[h].down # Nil => V[h].down \in N
        BY <3>1, <3>3 DEF Inside
      <4> QED
        BY <1>1, <1>2, <3>1, <3>3, <4>1, <4>2, <4>3 DEF Near
    <3> QED
      BY <3>2, <3>3
  <2> QED
    BY <2>1, <2>2, <2>3 DEF Sound
<1> QED
  BY <1>4, <1>5, <1>7, <1>8 DEF Trie

-----------------------------------------------------------------------------
(* The insertions.                                                          *)

\* The compare-and-swap of t has put the nodes and the record into the tree.
Attached(t, new, nodes) ==
  /\ vec[loc[t].cur] = loc[t].cw
  /\ loc' = [loc EXCEPT ![t] = Answer(loc[t], OK)]
  /\ dat' = Append(dat, [key |-> loc[t].key, ref |-> 1, retired |-> FALSE])
  /\ Joined(vec, dat, vec', dat', loc[t].cur, new, nodes, loc[t].key)

\* The tree is a trie again, with a record for the key of t.
Inserted(t, R) ==
  /\ loc' = [loc EXCEPT ![t] = Answer(loc[t], OK)]
  /\ dat' = Append(dat, [key |-> loc[t].key, ref |-> 1, retired |-> FALSE])
  /\ \E S : Store(vec', dat', S) /\ Grown(vec, dat, R, vec', dat', S)

\* A compare-and-swap either loses, and the call starts again or has no memory, or
\* it has put in what it was to put in.
LEMMA Published ==
  ASSUME TreeInv, NEW R, NEW miss \in BOOLEAN, NEW see, NEW t \in Thread,
         loc[t].pc \in Inserting \union {"insert_first"}, Knows(vec, dat, R, loc[t], miss, see),
         NEW new \in Words, NEW nodes \in Seq(Words), Publish(t, new, nodes),
         WordOf(vec, dat, loc[t].cur, loc[t].cw), new.pos = loc[t].cw.pos,
         loc[t].cw.down # Nil => new.down # Nil
  PROVE  Learned(t, R, miss, see) \/ Attached(t, new, nodes)
<1> DEFINE m == loc[t]
           r == [key |-> m.key, ref |-> 1, retired |-> FALSE]
<1>1. /\ m \in Locals /\ Adds(m) /\ m.key \in Keys /\ Nodes(vec, dat)
      /\ Len(vec) \in Nat /\ Len(dat) \in Nat
  BY AddCall DEF Inserting
<1>2. CASE vec[m.cur] = m.cw
  <2>1. /\ vec' = [vec EXCEPT ![m.cur] = new] \o nodes /\ dat' = Append(dat, r)
        /\ loc' = [loc EXCEPT ![t] = Answer(m, OK)]
    BY <1>2 DEF Publish, Become
  <2>2. m.cur \in 1 .. Len(vec) /\ vec \in Seq(Words) /\ dat \in Seq(Records)
    BY <1>1 DEF WordOf, Nodes
  <2>3. /\ Len(vec') = Len(vec) + Len(nodes)
        /\ \A u \in 1 .. Len(vec) : vec'[u] = [vec EXCEPT ![m.cur] = new][u]
        /\ \A u \in 1 .. Len(nodes) : vec'[Len(vec) + u] = nodes[u]
    BY <2>1, <2>2, ReplacedJoined
  <2>4. vec'[m.cur] = new /\ \A v \in 1 .. Len(vec) : v # m.cur => vec'[v] = vec[v]
    BY <2>2, <2>3
  <2>5. r \in Records /\ r.key = m.key /\ r.ref = 1
    BY <1>1 DEF Records
  <2> HIDE DEF r
  <2>6. /\ Len(dat') = Len(dat) + 1 /\ \A d \in 1 .. Len(dat) : dat'[d] = dat[d]
        /\ dat'[Len(dat) + 1] = r
    BY <1>1, <2>1, <2>2, <2>5
  <2>7. Joined(vec, dat, vec', dat', m.cur, new, nodes, m.key)
    <3>1. new.pos = vec[m.cur].pos /\ (vec[m.cur].down # Nil => new.down # Nil)
      BY <1>2
    <3>2. Len(nodes) \in Nat
      OBVIOUS
    <3> QED
      BY <2>2, <2>3, <2>4, <2>5, <2>6, <3>1, <3>2 DEF Joined
  <2> QED
    BY <1>2, <2>1, <2>7 DEF Attached, r
<1>3. CASE vec[m.cur] # m.cw
  <2>1. UNCHANGED <<vec, dat>> /\ Become(t, Restart(m))
    BY <1>3 DEF Publish
  <2> DEFINE n == Restart(m)
  <2>2. Knows(vec, dat, R, n, miss, see)
    BY <1>1, RestartKnows
  <2> HIDE DEF n
  <2>3. Learned(t, R, miss, see)
    BY <2>1, <2>2, BecomeLearned DEF n
  <2> QED
    BY <2>3
<1> QED
  BY <1>2, <1>3

\* The head gets its first record (do_insert_first_set).
LEMMA FirstStore ==
  ASSUME NEW V, NEW D, NEW R, NEW V2, NEW D2, NEW new, NEW k \in Keys,
         Nodes(V, D), Store(V, D, R), Joined(V, D, V2, D2, Head1, new, <<>>, k),
         V[Head1].ty = "DATA", V[Head1].rd = Nil, Bit(k, 0) = 1,
         NodeIs(new, "DATA", 0, V[Head1].down, Len(D) + 1)
  PROVE  \E S : Store(V2, D2, S) /\ Grown(V, D, R, V2, D2, S)
<1> DEFINE N == 1 .. Len(V)
           M == 1 .. Len(D)
           e == Len(D) + 1
           s == <<>>
<1>1. Len(s) = 0 /\ Joined(V, D, V2, D2, Head1, new, s, k)
  OBVIOUS
<1> HIDE DEF s
<1>2. Len(V) \in Nat /\ Len(D) \in Nat /\ Head1 \in N /\ V[Head1].pos = -1
  BY DEF Nodes, WordOf, Head1
<1>3. /\ Len(V2) = Len(V) /\ V2[Head1] = new /\ (\A v \in N : v # Head1 => V2[v] = V[v])
      /\ Len(D2) = Len(D) + 1 /\ (\A d \in M : D2[d] = D[d]) /\ D2[e].key = k
  BY <1>1, <1>2 DEF Joined
<1>4. e \notin M /\ e # Nil
  <2>1. Len(D) \in Nat
    BY <1>2
  <2> QED
    BY <2>1, OneMore
<1>5. 1 .. Len(V2) = N /\ 1 .. Len(D2) = M \union {e}
  BY <1>2, <1>3
<1>6. k \in Int
  BY KeyInt
<1>7. Trie(N, V, M, D, R)
  BY StoreTrie DEF TreeTrie
<1>8. NodeIs(V2[Head1], "DATA", 0, V[Head1].down, e)
  BY <1>3
<1> HIDE DEF N, M, e
<1>9. Trie(N, V2, M \union {e}, D2, R) /\ \A d \in M : D2[d].key # k
  <2>1. \A d \in M : D2[d].key = D[d].key
    BY <1>3
  <2>2. GoesFirst(N, V, M, D, V2, D2, e, k)
    BY <1>2, <1>3, <1>4, <1>6, <1>8, <2>1 DEF GoesFirst
  <2> QED
    BY <1>7, <2>2, FirstTrie
<1>10. TreeTrie(V2, D2, R) /\ \A d \in 1 .. Len(D) : D2[d].key # k
  BY <1>5, <1>9 DEF TreeTrie, M
<1>11. R \in [1 .. Len(V2) -> Nat] /\ \A v \in 1 .. Len(V) : R[v] = R[v]
  BY <1>3 DEF Store
<1>12. \A v \in {Head1} \union Len(V) + 1 .. Len(V2) : V2[v].ty # "RIGHT"
  <2>1. Len(V) + 1 .. Len(V2) = {}
    BY <1>2, <1>3
  <2>2. V2[Head1].ty = "DATA"
    BY <1>8 DEF NodeIs
  <2> QED
    BY <2>1, <2>2
<1>13. Store(V2, D2, R) /\ Grown(V, D, R, V2, D2, R)
  BY <1>1, <1>10, <1>11, <1>12, JoinedStore
<1> QED
  BY <1>13

\* The first record (do_insert_first_set).
LEMMA InsertFirstKnows ==
  ASSUME TreeInv, NEW R, NEW miss \in BOOLEAN, NEW see, Store(vec, dat, R), NEW t \in Thread,
         InsertFirst(t), Knows(vec, dat, R, loc[t], miss, see)
  PROVE  Learned(t, R, miss, see) \/ Inserted(t, R)
<1> DEFINE m == loc[t]
           new == [m.cw EXCEPT !.rd = NewData]
           nodes == <<>>
<1>1. /\ Active(vec, dat, m) /\ Where(vec, dat, m) /\ m.pc = "insert_first"
      /\ Nodes(vec, dat) /\ Len(dat) \in Nat /\ m.key \in Keys
  <2>1. loc[t].pc \notin {"idle", "return"} /\ m.pc = "insert_first"
    BY DEF InsertFirst
  <2> QED
    BY <2>1, AddCall
<1>2. At(vec, dat, m) /\ m.cw.ty = "DATA" /\ m.cur = Head1 /\ WordOf(vec, dat, m.cur, m.cw)
  BY <1>1 DEF Where, At
<1>3. m.cw.rd = Nil /\ Bit(m.key, 0) = 1
  BY <1>1 DEF Knows
<1>4. /\ new \in Words /\ new.rd = Len(dat) + 1 /\ new.st = m.cw.st /\ new.ty = m.cw.ty
      /\ new.pos = m.cw.pos /\ new.down = m.cw.down
  BY <1>1, <1>2 DEF WordOf, Words, NewData
<1>5. m.cw.st = "VALID" /\ m.cw.pos = -1
  BY <1>2 DEF WordOf
<1>6. Publish(t, new, nodes)
  BY <1>2 DEF InsertFirst
<1>7. nodes \in Seq(Words)
  OBVIOUS
<1> HIDE DEF new, nodes
<1>8. Learned(t, R, miss, see) \/ Attached(t, new, nodes)
  BY <1>1, <1>2, <1>4, <1>6, <1>7, Published
<1>9. ASSUME Attached(t, new, nodes) PROVE Inserted(t, R)
  <2>1. vec[Head1] = m.cw /\ Joined(vec, dat, vec', dat', Head1, new, nodes, m.key)
    BY <1>2, <1>9 DEF Attached
  <2>2. NodeIs(new, "DATA", 0, vec[Head1].down, Len(dat) + 1)
    BY <1>2, <1>4, <1>5, <2>1 DEF NodeIs
  <2>3. \E S : Store(vec', dat', S) /\ Grown(vec, dat, R, vec', dat', S)
    BY <1>1, <1>2, <1>3, <2>1, <2>2, FirstStore DEF nodes
  <2> QED
    BY <1>9, <2>3 DEF Attached, Inserted
<1> QED
  BY <1>8, <1>9

\* The new node below a word, with what was below it or nothing.
LEMMA BelowKnows ==
  ASSUME TreeInv, NEW R, NEW miss \in BOOLEAN, NEW see, Store(vec, dat, R), NEW t \in Thread,
         Knows(vec, dat, R, loc[t], miss, see), loc[t].pc \in {"insert_last", "insert_mid"},
         Downward(vec, dat, loc[t]),
         loc[t].cw.down # Nil => loc[t].fs <= vec[loc[t].cw.down].pos,
         Publish(t, [loc[t].cw EXCEPT !.down = NewVec],
                 <<Node("DATA", loc[t].fs - 1, loc[t].cw.down, NewData)>>)
  PROVE  Learned(t, R, miss, see) \/ Inserted(t, R)
<1> DEFINE m == loc[t]
           new == [m.cw EXCEPT !.down = NewVec]
           a == Node("DATA", m.fs - 1, m.cw.down, NewData)
           nodes == <<a>>
           c == m.cur
<1>1. /\ Active(vec, dat, m) /\ Nodes(vec, dat) /\ Len(dat) \in Nat /\ Len(vec) \in Nat
      /\ m.key \in Keys /\ loc[t].pc \notin {"idle", "return"}
  <2>1. loc[t].pc \notin {"idle", "return"}
    OBVIOUS
  <2> QED
    BY <2>1, AddCall
<1>2. At(vec, dat, m) /\ m.fs > m.start /\ m.cd = Unset /\ WordOf(vec, dat, c, m.cw)
  BY DEF Downward, At
<1>3. Standing(vec, dat, R, m, miss)
  BY DEF Knows, Inserting
<1>4. m.start = Start(vec, c) /\ m.fs \in Int /\ m.fs <= Width
  <2>1. m.fs <= Width
    BY <1>2, WidthIs DEF At
  <2> QED
    BY <1>2, <1>3, <2>1, StandBit
<1>5. On(vec, R, c, m.key)
  BY <1>2, <1>3 DEF Standing
<1>6. /\ new \in Words /\ new.rd = m.cw.rd /\ new.st = m.cw.st /\ new.ty = m.cw.ty
      /\ new.pos = m.cw.pos /\ new.down = Len(vec) + 1 /\ new.down # Nil
  <2>1. m.cw \in Words /\ Len(vec) + 1 \in Nat /\ Len(vec) + 1 # Nil
    BY <1>1, <1>2 DEF WordOf, Nil
  <2> HIDE DEF m
  <2> QED
    BY <2>1 DEF Words, NewVec
<1>7. a \in Words /\ NodeIs(a, "DATA", m.fs, m.cw.down, Len(dat) + 1)
  <2>1. m.cw.down \in Nat /\ Len(dat) + 1 \in Nat /\ m.fs - 1 \in Int
    BY <1>1, <1>2, <1>4 DEF WordOf, Words
  <2> HIDE DEF m
  <2> QED
    BY <2>1 DEF Node, NodeIs, NewData, Words, Statuses, Types
<1>8. nodes \in Seq(Words) /\ Publish(t, new, nodes)
  <2>1. Publish(t, new, nodes)
    OBVIOUS
  <2> HIDE DEF a
  <2> QED
    BY <1>7, <2>1
<1> HIDE DEF new, nodes
<1>9. Learned(t, R, miss, see) \/ Attached(t, new, nodes)
  <2>1. loc[t].pc \in Inserting \union {"insert_first"}
    BY DEF Inserting
  <2> QED
    BY <1>2, <1>6, <1>8, <2>1, Published
<1>10. ASSUME Attached(t, new, nodes) PROVE Inserted(t, R)
  <2>1. vec[c] = m.cw /\ Joined(vec, dat, vec', dat', c, new, <<a>>, m.key)
    BY <1>10 DEF Attached, nodes
  <2> HIDE DEF a
  <2>2. OneAdded(vec, dat, vec', dat', c, new, a, m.key)
    BY <1>1, <2>1, JoinedOne
  <2>3. /\ vec'[c] = new /\ vec'[Len(vec) + 1] = a /\ dat'[Len(dat) + 1].key = m.key
        /\ Len(dat) + 1 \notin 1 .. Len(dat) /\ Len(dat) + 1 # Nil
    <3>1. vec'[c] = new /\ vec'[Len(vec) + 1] = a /\ dat'[Len(dat) + 1].key = m.key
      BY <2>2 DEF OneAdded
    <3> QED
      BY <1>1, <3>1, OneMore
  <2>4. NodeIs(vec'[c], vec[c].ty, Start(vec, c), Len(vec) + 1, vec[c].rd)
    <3>1. m.cw.pos = Start(vec, c) - 1 /\ m.cw.st = "VALID"
      <4>1. m.cw.pos \in Int /\ m.start = m.cw.pos + 1
        BY <1>2, WidthIs DEF WordOf, At
      <4>2. m.cw.st = "VALID"
        BY <1>3 DEF Standing, Fine
      <4> HIDE DEF m
      <4> QED
        BY <1>4, <4>1, <4>2
    <3> QED
      BY <1>6, <2>1, <2>3, <3>1 DEF NodeIs
  <2>5. NodeIs(vec'[Len(vec) + 1], "DATA", m.fs, vec[c].down, Len(dat) + 1)
    BY <1>7, <2>1, <2>3
  <2>6. /\ \A i \in Start(vec, c) .. m.fs - 1 : Bit(m.key, i) = 0
        /\ m.fs < Width => Bit(m.key, m.fs) = 1
        /\ vec[c].down # Nil => m.fs <= vec[vec[c].down].pos
        /\ Start(vec, c) < m.fs
    BY <1>2, <1>3, <1>4, <2>1 DEF Standing
  <2>7. GoesBelow(vec, 1 .. Len(dat), vec', dat', c, Len(vec) + 1, m.key, Len(dat) + 1, m.fs)
    BY <1>4, <2>3, <2>4, <2>5, <2>6 DEF GoesBelow
  <2>8. \E S : Store(vec', dat', S) /\ Grown(vec, dat, R, vec', dat', S)
    BY <1>1, <1>5, <2>1, <2>7, BelowStore
  <2> QED
    BY <1>10, <2>8 DEF Attached, Inserted
<1> QED
  BY <1>9, <1>10

\* A record below the last node of its walk (do_insert_last_down).
LEMMA InsertLastKnows ==
  ASSUME TreeInv, NEW R, NEW miss \in BOOLEAN, NEW see, Store(vec, dat, R), NEW t \in Thread,
         InsertLast(t), Knows(vec, dat, R, loc[t], miss, see)
  PROVE  Learned(t, R, miss, see) \/ Inserted(t, R)
<1> DEFINE m == loc[t]
<1>1. m.pc = "insert_last" /\ Where(vec, dat, m)
  <2>1. loc[t].pc \notin {"idle", "return"} /\ m.pc = "insert_last"
    BY DEF InsertLast
  <2> QED
    BY <2>1, AddCall
<1>2. Downward(vec, dat, m) /\ m.cw.down = Nil
  BY <1>1 DEF Where
<1>3. Publish(t, [m.cw EXCEPT !.down = NewVec], <<Node("DATA", m.fs - 1, m.cw.down, NewData)>>)
  BY <1>2 DEF InsertLast
<1> QED
  BY <1>1, <1>2, <1>3, BelowKnows

\* A record between a node and the one below it (do_insert_up_via_d).
LEMMA InsertMidKnows ==
  ASSUME TreeInv, NEW R, NEW miss \in BOOLEAN, NEW see, Store(vec, dat, R), NEW t \in Thread,
         InsertMid(t), Knows(vec, dat, R, loc[t], miss, see)
  PROVE  Learned(t, R, miss, see) \/ Inserted(t, R)
<1> DEFINE m == loc[t]
<1>1. m.pc = "insert_mid" /\ Where(vec, dat, m)
  <2>1. loc[t].pc \notin {"idle", "return"} /\ m.pc = "insert_mid"
    BY DEF InsertMid
  <2> QED
    BY <2>1, AddCall
<1>2. ReadBelow(vec, dat, m) /\ m.fs <= m.nw.pos
  BY <1>1 DEF Where
<1>3. Downward(vec, dat, m) /\ m.nxt = m.cw.down /\ m.nw.pos = vec[m.nxt].pos
  BY <1>2 DEF ReadBelow, WordOf
<1>4. Publish(t, [m.cw EXCEPT !.down = NewVec], <<Node("DATA", m.fs - 1, m.cw.down, NewData)>>)
  BY DEF InsertMid
<1>5. m.fs <= vec[m.cw.down].pos
  BY <1>2, <1>3
<1> QED
  BY <1>1, <1>3, <1>4, <1>5, BelowKnows

\* What an insertion beside the record cd knows of it: it is on the right of c,
\* and differs from the key first at p.
Split(m, R, c, r, p, end) ==
  /\ m.cw.st = "VALID" /\ m.cw.pos = Start(vec, c) - 1
  /\ On(vec, R, c, m.key) /\ On(vec, R, c, r)
  /\ Start(vec, c) \in Nat /\ p \in Nat /\ end \in Nat /\ Start(vec, c) < p /\ p < end /\ end <= Width
  /\ Pre(m.key, p) = Pre(r, p) /\ Bit(m.key, p) # Bit(r, p)
  /\ Bit(m.key, p) \in {0, 1} /\ Bit(r, p) \in {0, 1}
  /\ Bit(r, Start(vec, c)) = 1
  /\ m.cw.ty = "RIGHT" => end = vec[m.cw.rd].pos + 1 /\ Pre(r, end) = Pre(R[m.cw.rd], end)
                          /\ vec[m.cw.rd].pos \in Int
  /\ m.cw.ty = "DATA" => m.cw.rd # Nil /\ dat[m.cw.rd].key = r /\ end = Width
  /\ m.cw.ty \in {"DATA", "RIGHT"}

\* What a walk knows when it is about to insert beside the record cd.
LEMMA SplitKnows ==
  ASSUME NEW R, NEW miss, NEW m, Nodes(vec, dat), Active(vec, dat, m), Inserts(vec, dat, m),
         Standing(vec, dat, R, m, miss), Settled(vec, dat, R, m)
  PROVE  Split(m, R, m.cur, dat[m.cd].key, SplitAt(dat, m), SegmentEnd(m))
<1> DEFINE s == m.start
           p == SplitAt(dat, m)
           end == SegmentEnd(m)
           c == m.cur
           r == dat[m.cd].key
<1>1. At(vec, dat, m) /\ m.fs = m.start /\ WordOf(vec, dat, c, m.cw) /\ m.cd \in 1 .. Len(dat)
  BY DEF Inserts, At, Differs
<1>2. s = Start(vec, c) /\ s \in Nat /\ s < Width /\ Bit(m.key, s) = 1
  BY <1>1, StandBit
<1>3. /\ end \in Int /\ end <= Width /\ p \in s .. Width - 1 /\ p < end
      /\ m.cw.ty = "DATA" => m.cw.rd = m.cd
      /\ m.cw.ty = "DATA" => end = Width
  BY SplitRange DEF SplitAt, DiffPos
<1>4. /\ \A i \in s .. p - 1 : Bit(m.key, i) = Bit(r, i)
      /\ Bit(m.key, p) # Bit(r, p)
  <2>1. s \in Int /\ s <= end /\ Width \in Int
    BY <1>2, <1>3, WidthIs
  <2> QED
    BY <1>3, <2>1, FirstDiffIs DEF SplitAt
<1>5. m.key \in Keys /\ r \in Keys
  <2>1. dat[m.cd] \in Records
    BY <1>1 DEF Nodes
  <2> QED
    BY <2>1 DEF Active, Wants, Records
<1>6. On(vec, R, c, m.key) /\ On(vec, R, c, r)
  BY DEF Settled
<1>7. Pre(m.key, p) = Pre(r, p)
  <2>1. Pre(m.key, s) = Pre(r, s)
    BY <1>2, <1>6 DEF On
  <2>2. p \in Int
    BY <1>3
  <2> HIDE DEF p, r, s
  <2> QED
    BY <1>2, <1>4, <2>1, <2>2, PreMore
<1>8. Bit(m.key, p) \in {0, 1} /\ Bit(r, p) \in {0, 1}
  <2>1. p \in 0 .. Width - 1
    BY <1>2, <1>3
  <2>2. m.key \in Int /\ r \in Int
    BY <1>5, KeyInt
  <2> HIDE DEF p, r
  <2> QED
    BY <2>1, <2>2, BitIs
<1>9. Fine(vec, dat, R, c, m.cw) /\ m.cw.st = "VALID"
  BY DEF Standing, Fine
<1>10. m.cw.ty = "RIGHT" => /\ end = vec[m.cw.rd].pos + 1 /\ Pre(r, end) = Pre(R[m.cw.rd], end)
                            /\ vec[m.cw.rd].pos \in Int /\ Bit(r, s) = 1
  <2> SUFFICES ASSUME m.cw.ty = "RIGHT"
               PROVE  /\ end = vec[m.cw.rd].pos + 1 /\ Pre(r, end) = Pre(R[m.cw.rd], end)
                      /\ vec[m.cw.rd].pos \in Int /\ Bit(r, s) = 1
    OBVIOUS
  <2>1. ReadOnRight(vec, dat, m) /\ On(vec, R, m.nxt, r)
    BY DEF Inserts, Settled
  <2>2. m.nxt = m.cw.rd /\ m.nw.pos = vec[m.nxt].pos /\ m.nw.pos \in Int
    BY <2>1, WidthIs DEF ReadOnRight, WordOf
  <2>3. end = vec[m.cw.rd].pos + 1 /\ Start(vec, m.nxt) = end
    BY <2>2 DEF SegmentEnd, Start
  <2>4. Pre(r, end) = Pre(R[m.cw.rd], end)
    BY <2>1, <2>2, <2>3 DEF On
  <2>5. Bit(R[m.cw.rd], s) = 1
    BY <1>2, <1>9 DEF Fine
  <2>6. s \in 0 .. end - 1
    BY <1>2, <1>3
  <2>7. Bit(r, s) = Bit(R[m.cw.rd], s)
    <3> HIDE DEF end, s, r
    <3> QED
      BY <1>3, <2>4, <2>6, PreLess
  <2> QED
    BY <2>2, <2>3, <2>4, <2>5, <2>7
<1>11. m.cw.ty = "DATA" => /\ m.cw.rd # Nil /\ dat[m.cw.rd].key = r /\ end = Width /\ Bit(r, s) = 1
  <2> SUFFICES ASSUME m.cw.ty = "DATA"
               PROVE  m.cw.rd # Nil /\ dat[m.cw.rd].key = r /\ end = Width /\ Bit(r, s) = 1
    OBVIOUS
  <2>1. m.cw.rd = m.cd /\ m.cd # Nil
    BY <1>1, <1>3 DEF Nil
  <2> QED
    BY <1>2, <1>3, <1>9, <2>1 DEF Fine
<1>12. m.cw.ty \in {"DATA", "RIGHT"} /\ m.cw.pos = s - 1
  <2>1. m.cw.ty \in {"DATA", "RIGHT"} /\ m.cw.pos \in Int /\ m.start = m.cw.pos + 1
    BY <1>1, WidthIs DEF WordOf, At, Types
  <2> QED
    BY <2>1
<1>13. Bit(r, s) = 1
  BY <1>10, <1>11, <1>12
<1>14. s < p /\ p \in Nat /\ end \in Nat
  <2>1. p # s
    BY <1>2, <1>4, <1>13
  <2> QED
    BY <1>2, <1>3, <2>1
<1> HIDE DEF s, p, end, r
<1> QED
  BY <1>2, <1>3, <1>4, <1>6, <1>7, <1>8, <1>9, <1>10, <1>11, <1>12, <1>13, <1>14 DEF Split, s, p, end, r

\* The parts of what is on the right of c, from a bit s where the record has a
\* one.
LEMMA SplitParts ==
  ASSUME NEW R, NEW m, NEW c, NEW r, NEW p, NEW end, Split(m, R, c, r, p, end), vec[c] = m.cw,
         NEW s, s \in Int, p <= s, s <= end, s < end => Bit(r, s) = 1, m.cw.ty = "RIGHT" => s < end
  PROVE  Parts(vec, dat, R, c, r, s)
<1>1. /\ Start(vec, c) \in Nat /\ p \in Nat /\ end \in Nat /\ Start(vec, c) < p /\ p < end
      /\ end <= Width /\ Bit(r, Start(vec, c)) = 1 /\ Width \in Int
  BY WidthIs DEF Split
<1>2. Start(vec, c) < s /\ s <= Width /\ s \in Nat
  BY <1>1
<1>3. m.cw.ty = "RIGHT" => /\ end = vec[m.cw.rd].pos + 1 /\ Pre(r, end) = Pre(R[m.cw.rd], end)
                           /\ vec[m.cw.rd].pos \in Int
  BY DEF Split
<1>4. m.cw.ty = "RIGHT" => /\ s <= vec[m.cw.rd].pos /\ Pre(r, s) = Pre(R[m.cw.rd], s)
                           /\ Bit(R[m.cw.rd], s) = 1
  <2> SUFFICES ASSUME m.cw.ty = "RIGHT"
               PROVE  /\ s <= vec[m.cw.rd].pos /\ Pre(r, s) = Pre(R[m.cw.rd], s)
                      /\ Bit(R[m.cw.rd], s) = 1
    OBVIOUS
  <2>1. s < end /\ Bit(r, s) = 1 /\ s \in 0 .. end - 1
    BY <1>1, <1>2
  <2>2. Pre(r, s) = Pre(R[m.cw.rd], s) /\ Bit(r, s) = Bit(R[m.cw.rd], s)
    <3>1. Pre(r, end) = Pre(R[m.cw.rd], end) /\ end \in Int /\ s \in Int /\ s <= end
      BY <1>1, <1>3, <2>1
    <3> QED
      BY <2>1, <3>1, PreLess
  <2> QED
    BY <1>1, <1>3, <2>1, <2>2
<1>5. m.cw.ty = "DATA" => /\ m.cw.rd # Nil /\ Pre(r, s) = Pre(dat[m.cw.rd].key, s)
                          /\ s < Width => Bit(dat[m.cw.rd].key, s) = 1
  BY DEF Split
<1> QED
  BY <1>1, <1>2, <1>4, <1>5 DEF Parts

\* A record whose key has a 1 where the keys split (do_insert_up_via_r).
LEMMA InsertUpKnows ==
  ASSUME TreeInv, NEW R, NEW miss \in BOOLEAN, NEW see, Store(vec, dat, R), NEW t \in Thread,
         InsertUp(t), Knows(vec, dat, R, loc[t], miss, see)
  PROVE  Learned(t, R, miss, see) \/ Inserted(t, R)
<1> DEFINE m == loc[t]
           p == DiffPos(m)
           end == SegmentEnd(m)
           r == dat[m.cd].key
           fs == FirstSet(r, p, end)
           split == m.cw.ty = "DATA" \/ fs < end
           a == Node("DATA", p - 1, IF split THEN NewVec + 1 ELSE m.cw.rd, NewData)
           b == Node(m.cw.ty, fs - 1, Nil, m.cw.rd)
           new == [m.cw EXCEPT !.ty = "RIGHT", !.rd = NewVec]
           nodes == IF split THEN <<a, b>> ELSE <<a>>
           c == m.cur
<1>1. /\ Active(vec, dat, m) /\ Where(vec, dat, m) /\ m.pc = "insert_up"
      /\ Nodes(vec, dat) /\ Len(dat) \in Nat /\ Len(vec) \in Nat /\ m.key \in Keys
  <2>1. loc[t].pc \notin {"idle", "return"} /\ m.pc = "insert_up"
    BY DEF InsertUp
  <2> QED
    BY <2>1, AddCall
<1>2. Inserts(vec, dat, m) /\ WordOf(vec, dat, c, m.cw) /\ m.cd \in 1 .. Len(dat)
  BY <1>1 DEF Where, Inserts, At, Differs
<1>3. Standing(vec, dat, R, m, miss) /\ Settled(vec, dat, R, m) /\ Bit(m.key, p) = 1
  BY <1>1 DEF Knows, Inserting, SplitAt, DiffPos
<1>4. Split(m, R, c, r, p, end)
  <2>1. Split(m, R, c, r, SplitAt(dat, m), end)
    BY <1>1, <1>2, <1>3, SplitKnows
  <2> QED
    BY <2>1 DEF SplitAt, DiffPos
<1>5. r \in Keys
  <2>1. dat[m.cd] \in Records
    BY <1>1, <1>2 DEF Nodes
  <2> QED
    BY <2>1 DEF Records
<1>6. /\ Start(vec, c) \in Nat /\ p \in Nat /\ end \in Nat /\ Start(vec, c) < p /\ p < end
      /\ m.cw.pos = Start(vec, c) - 1 /\ m.cw.st = "VALID" /\ Bit(r, p) = 0
      /\ Pre(m.key, p) = Pre(r, p) /\ On(vec, R, c, m.key) /\ On(vec, R, c, r)
      /\ m.cw.ty \in {"DATA", "RIGHT"} /\ end <= Width
  BY <1>3, <1>4 DEF Split
<1>7. /\ fs \in p .. end /\ (\A i \in p .. fs - 1 : Bit(r, i) # 1) /\ (fs < end => Bit(r, fs) = 1)
      /\ p < fs
  <2>1. p \in Int /\ end \in Int /\ p <= end
    BY <1>6
  <2>2. /\ fs \in p .. end /\ (\A i \in p .. fs - 1 : Bit(r, i) # 1) /\ (fs < end => Bit(r, fs) = 1)
    <3> HIDE DEF p, end, r
    <3> QED
      BY <2>1, FirstSetIs
  <2>3. fs # p
    <3>1. fs = p => Bit(r, p) = 1
      BY <1>6, <2>2
    <3> QED
      BY <1>6, <3>1
  <2> HIDE DEF fs, p, end
  <2> QED
    BY <2>1, <2>2, <2>3
<1>8. \A i \in p .. fs - 1 : Bit(r, i) = 0
  <2> TAKE i \in p .. fs - 1
  <2>1. Bit(r, i) # 1
    BY <1>7
  <2>2. i \in 0 .. Width - 1 /\ r \in Int
    <3>1. r \in Int
      BY <1>5, KeyInt
    <3> HIDE DEF fs, p, end
    <3> QED
      BY <1>6, <1>7, <3>1, WidthIs
  <2>3. Bit(r, i) \in {0, 1}
    <3> HIDE DEF r
    <3> QED
      BY <2>2, BitIs
  <2> QED
    BY <2>1, <2>3
<1>9. Publish(t, new, nodes)
  <2>1. p - 1 # m.cw.pos
    <3> HIDE DEF p, m
    <3> QED
      BY <1>6
  <2>2. a.pos = p - 1
    BY DEF Node
  <2> QED
    BY <2>1, <2>2 DEF InsertUp
<1>10. /\ new \in Words /\ new.ty = "RIGHT" /\ new.rd = Len(vec) + 1 /\ new.st = m.cw.st
       /\ new.pos = m.cw.pos /\ new.down = m.cw.down
  <2>1. m.cw \in Words /\ Len(vec) + 1 \in Nat /\ NewVec = Len(vec) + 1
    BY <1>1, <1>2 DEF WordOf, NewVec
  <2> HIDE DEF m
  <2> QED
    BY <2>1 DEF Words, Types
<1>11. m.cw.rd \in Nat /\ m.cw.ty \in Types /\ Len(vec) + 2 \in Nat /\ Len(dat) + 1 \in Nat
  BY <1>1, <1>2 DEF WordOf, Words
<1>12. /\ a \in Words /\ b \in Words
       /\ NodeIs(a, "DATA", p, IF split THEN Len(vec) + 2 ELSE m.cw.rd, Len(dat) + 1)
       /\ NodeIs(b, m.cw.ty, fs, Nil, m.cw.rd)
  <2> DEFINE down == IF split THEN NewVec + 1 ELSE m.cw.rd
  <2>1. down = IF split THEN Len(vec) + 2 ELSE m.cw.rd
    BY <1>1 DEF NewVec
  <2>2. down \in Nat
    BY <1>11, <2>1
  <2>3. p - 1 \in Int /\ fs - 1 \in Int /\ Nil \in Nat
    <3> HIDE DEF p, fs, end
    <3> QED
      BY <1>6, <1>7 DEF Nil
  <2>4. a = Node("DATA", p - 1, down, NewData)
    OBVIOUS
  <2> HIDE DEF a, p, fs, split, m, down
  <2> QED
    BY <1>11, <2>1, <2>2, <2>3, <2>4 DEF Node, NodeIs, NewData, Words, Statuses, Types
<1> HIDE DEF a, b, new, fs, p, end, split, r
<1>13. nodes \in Seq(Words)
  BY <1>12
<1>14. Learned(t, R, miss, see) \/ Attached(t, new, nodes)
  <2>1. loc[t].pc \in Inserting \union {"insert_first"}
    BY <1>1 DEF Inserting
  <2> HIDE DEF nodes
  <2> QED
    BY <1>2, <1>9, <1>10, <1>13, <2>1, Published
<1>15. ASSUME Attached(t, new, nodes) PROVE \E S : Store(vec', dat', S) /\ Grown(vec, dat, R, vec', dat', S)
  <2>1. vec[c] = m.cw /\ Joined(vec, dat, vec', dat', c, new, nodes, m.key)
    BY <1>15 DEF Attached
  <2>2. NodeIs(new, "RIGHT", Start(vec, c), vec[c].down, Len(vec) + 1)
    BY <1>6, <1>10, <2>1 DEF NodeIs
  <2>3. CASE split
    <3>1. Joined(vec, dat, vec', dat', c, new, <<a, b>>, m.key)
      BY <2>1, <2>3
    <3>2. TwoAdded(vec, dat, vec', dat', c, new, a, b, m.key)
      BY <1>1, <3>1, JoinedTwo
    <3>3. vec'[c] = new /\ vec'[Len(vec) + 1] = a /\ vec'[Len(vec) + 2] = b
      BY <3>2 DEF TwoAdded
    <3>4. Parts(vec, dat, R, c, r, fs)
      <4>1. fs \in Int /\ p <= fs /\ fs <= end /\ (fs < end => Bit(r, fs) = 1)
        BY <1>6, <1>7
      <4>2. m.cw.ty = "RIGHT" => fs < end
        BY <2>3 DEF split
      <4> QED
        BY <1>4, <2>1, <4>1, <4>2, SplitParts
    <3>5. Upper(vec, dat, R, vec', c, r, m.key, p, fs)
      <4>1. NodeIs(a, "DATA", p, Len(vec) + 2, Len(dat) + 1)
        BY <1>12, <2>3
      <4>2. p \in Int
        BY <1>6
      <4> HIDE DEF m
      <4> QED
        BY <1>3, <1>6, <1>7, <1>8, <1>12, <2>1, <2>2, <3>3, <4>1, <4>2 DEF Upper, m
    <3> QED
      BY <1>1, <1>5, <1>6, <3>1, <3>4, <3>5, UpperStore
  <2>4. CASE ~ split
    <3>1. Joined(vec, dat, vec', dat', c, new, <<a>>, m.key)
      BY <2>1, <2>4
    <3>2. OneAdded(vec, dat, vec', dat', c, new, a, m.key)
      BY <1>1, <3>1, JoinedOne
    <3>3. /\ vec'[c] = new /\ vec'[Len(vec) + 1] = a /\ dat'[Len(dat) + 1].key = m.key
          /\ Len(dat) + 1 \notin 1 .. Len(dat) /\ Len(dat) + 1 # Nil
      <4>1. vec'[c] = new /\ vec'[Len(vec) + 1] = a /\ dat'[Len(dat) + 1].key = m.key
        BY <3>2 DEF OneAdded
      <4> QED
        BY <1>1, <4>1, OneMore
    <3>4. m.cw.ty = "RIGHT" /\ fs = end
      <4>1. m.cw.ty = "RIGHT" /\ ~ (fs < end)
        BY <1>6, <2>4 DEF split
      <4> QED
        BY <1>6, <1>7, <4>1
    <3>5. /\ end = vec[m.cw.rd].pos + 1 /\ Pre(r, end) = Pre(R[m.cw.rd], end)
          /\ vec[m.cw.rd].pos \in Int
      BY <1>4, <3>4 DEF Split
    <3>6. /\ Pre(r, p) = Pre(R[m.cw.rd], p)
          /\ \A i \in 0 .. end - 1 : Bit(r, i) = Bit(R[m.cw.rd], i)
      <4>1. end \in Int /\ p \in Int /\ p <= end
        BY <1>6
      <4> QED
        BY <3>5, <4>1, PreLess
    <3>7. \A i \in p .. vec[m.cw.rd].pos : Bit(R[m.cw.rd], i) = 0
      <4> TAKE i \in p .. vec[m.cw.rd].pos
      <4>1. i \in p .. fs - 1 /\ i \in 0 .. end - 1
        BY <1>6, <3>4, <3>5
      <4> QED
        BY <1>8, <3>6, <4>1
    <3>8. p \in Int /\ p <= vec[m.cw.rd].pos
      BY <1>6, <3>5
    <3>9. NodeIs(a, "DATA", p, m.cw.rd, Len(dat) + 1)
      BY <1>12, <2>4
    <3>10. Pre(m.key, p) = Pre(R[m.cw.rd], p)
      BY <1>6, <3>6
    <3>11. GoesAbove(vec, 1 .. Len(dat), R, vec', dat', c, Len(vec) + 1, m.key, Len(dat) + 1, p)
      <4> HIDE DEF m
      <4> QED
        BY <1>3, <1>6, <2>1, <2>2, <3>3, <3>4, <3>7, <3>8, <3>9, <3>10 DEF GoesAbove, m
    <3> QED
      BY <1>1, <1>6, <3>1, <3>11, AboveStore
  <2> QED
    BY <2>3, <2>4
<1>16. Attached(t, new, nodes) => Inserted(t, R)
  BY <1>15 DEF Attached, Inserted
<1> QED
  BY <1>14, <1>16

\* A record whose key has a 0 where the keys split (do_insert_down_via_r).
LEMMA InsertDownKnows ==
  ASSUME TreeInv, NEW R, NEW miss \in BOOLEAN, NEW see, Store(vec, dat, R), NEW t \in Thread,
         InsertDown(t), Knows(vec, dat, R, loc[t], miss, see)
  PROVE  Learned(t, R, miss, see) \/ Inserted(t, R)
<1> DEFINE m == loc[t]
           p == DiffPos(m)
           end == SegmentEnd(m)
           r == dat[m.cd].key
           fs == FirstSet(m.key, p, Width)
           a == Node(m.cw.ty, p - 1, NewVec + 1, m.cw.rd)
           b == Node("DATA", fs - 1, Nil, NewData)
           new == [m.cw EXCEPT !.ty = "RIGHT", !.rd = NewVec]
           nodes == <<a, b>>
           c == m.cur
<1>1. /\ Active(vec, dat, m) /\ Where(vec, dat, m) /\ m.pc = "insert_down"
      /\ Nodes(vec, dat) /\ Len(dat) \in Nat /\ Len(vec) \in Nat /\ m.key \in Keys
  <2>1. loc[t].pc \notin {"idle", "return"} /\ m.pc = "insert_down"
    BY DEF InsertDown
  <2> QED
    BY <2>1, AddCall
<1>2. Inserts(vec, dat, m) /\ WordOf(vec, dat, c, m.cw) /\ m.cd \in 1 .. Len(dat)
  BY <1>1 DEF Where, Inserts, At, Differs
<1>3. Standing(vec, dat, R, m, miss) /\ Settled(vec, dat, R, m) /\ Bit(m.key, p) # 1
  BY <1>1 DEF Knows, Inserting, SplitAt, DiffPos
<1>4. Split(m, R, c, r, p, end)
  <2>1. Split(m, R, c, r, SplitAt(dat, m), end)
    BY <1>1, <1>2, <1>3, SplitKnows
  <2> QED
    BY <2>1 DEF SplitAt, DiffPos
<1>5. r \in Keys
  <2>1. dat[m.cd] \in Records
    BY <1>1, <1>2 DEF Nodes
  <2> QED
    BY <2>1 DEF Records
<1>6. /\ Start(vec, c) \in Nat /\ p \in Nat /\ end \in Nat /\ Start(vec, c) < p /\ p < end
      /\ m.cw.pos = Start(vec, c) - 1 /\ m.cw.st = "VALID" /\ Bit(r, p) = 1 /\ Bit(m.key, p) = 0
      /\ Pre(m.key, p) = Pre(r, p) /\ On(vec, R, c, r) /\ m.cw.ty \in {"DATA", "RIGHT"}
      /\ end <= Width
  BY <1>3, <1>4 DEF Split
<1>7. /\ fs \in p .. Width /\ (\A i \in p .. fs - 1 : Bit(m.key, i) # 1)
      /\ (fs < Width => Bit(m.key, fs) = 1) /\ p < fs /\ fs <= Width
  <2>1. p \in Int /\ Width \in Int /\ p < Width /\ p <= Width
    BY <1>6, WidthIs
  <2>2. /\ fs \in p .. Width /\ (\A i \in p .. fs - 1 : Bit(m.key, i) # 1)
        /\ (fs < Width => Bit(m.key, fs) = 1)
    <3> HIDE DEF p, m
    <3> QED
      BY <2>1, FirstSetIs
  <2>3. fs # p
    <3>1. fs = p => Bit(m.key, p) = 1
      BY <2>1, <2>2
    <3> QED
      BY <1>6, <3>1
  <2> HIDE DEF fs, p
  <2> QED
    BY <2>1, <2>2, <2>3
<1>8. \A i \in p .. fs - 1 : Bit(m.key, i) = 0
  <2> TAKE i \in p .. fs - 1
  <2>1. Bit(m.key, i) # 1
    BY <1>7
  <2>2. i \in 0 .. Width - 1 /\ m.key \in Int
    <3>1. m.key \in Int
      BY <1>1, KeyInt
    <3> HIDE DEF fs, p, m
    <3> QED
      BY <1>6, <1>7, <3>1, WidthIs
  <2>3. Bit(m.key, i) \in {0, 1}
    BY <2>2, BitIs
  <2> QED
    BY <2>1, <2>3
<1>9. Publish(t, new, nodes)
  <2>1. p - 1 # m.cw.pos
    <3> HIDE DEF p, m
    <3> QED
      BY <1>6
  <2>2. a.pos = p - 1
    BY DEF Node
  <2> QED
    BY <2>1, <2>2 DEF InsertDown
<1>10. /\ new \in Words /\ new.ty = "RIGHT" /\ new.rd = Len(vec) + 1 /\ new.st = m.cw.st
       /\ new.pos = m.cw.pos /\ new.down = m.cw.down
  <2>1. m.cw \in Words /\ Len(vec) + 1 \in Nat /\ NewVec = Len(vec) + 1
    BY <1>1, <1>2 DEF WordOf, NewVec
  <2> HIDE DEF m
  <2> QED
    BY <2>1 DEF Words, Types
<1>11. m.cw.rd \in Nat /\ m.cw.ty \in Types /\ Len(vec) + 2 \in Nat /\ Len(dat) + 1 \in Nat
  BY <1>1, <1>2 DEF WordOf, Words
<1>12. /\ a \in Words /\ b \in Words
       /\ NodeIs(a, m.cw.ty, p, Len(vec) + 2, m.cw.rd)
       /\ NodeIs(b, "DATA", fs, Nil, Len(dat) + 1)
  <2>1. NewVec + 1 = Len(vec) + 2
    BY <1>1 DEF NewVec
  <2>2. p - 1 \in Int /\ fs - 1 \in Int /\ Nil \in Nat
    <3> HIDE DEF p, fs
    <3> QED
      BY <1>6, <1>7 DEF Nil
  <2>3. a = Node(m.cw.ty, p - 1, Len(vec) + 2, m.cw.rd)
    BY <2>1
  <2> HIDE DEF a, p, fs, m
  <2> QED
    BY <1>11, <2>2, <2>3 DEF Node, NodeIs, NewData, Words, Statuses, Types
<1> HIDE DEF a, b, new, fs, p, end, r
<1>13. nodes \in Seq(Words)
  BY <1>12
<1>14. Learned(t, R, miss, see) \/ Attached(t, new, nodes)
  <2>1. loc[t].pc \in Inserting \union {"insert_first"}
    BY <1>1 DEF Inserting
  <2> HIDE DEF nodes
  <2> QED
    BY <1>2, <1>9, <1>10, <1>13, <2>1, Published
<1>15. ASSUME Attached(t, new, nodes) PROVE \E S : Store(vec', dat', S) /\ Grown(vec, dat, R, vec', dat', S)
  <2>1. vec[c] = m.cw /\ Joined(vec, dat, vec', dat', c, new, <<a, b>>, m.key)
    BY <1>15 DEF Attached
  <2>2. NodeIs(new, "RIGHT", Start(vec, c), vec[c].down, Len(vec) + 1)
    BY <1>6, <1>10, <2>1 DEF NodeIs
  <2>3. TwoAdded(vec, dat, vec', dat', c, new, a, b, m.key)
    BY <1>1, <2>1, JoinedTwo
  <2>4. vec'[c] = new /\ vec'[Len(vec) + 1] = a /\ vec'[Len(vec) + 2] = b
    BY <2>3 DEF TwoAdded
  <2>5. Parts(vec, dat, R, c, r, p)
    <3>1. p \in Int /\ p <= p /\ p <= end /\ (p < end => Bit(r, p) = 1)
      BY <1>6
    <3>2. m.cw.ty = "RIGHT" => p < end
      BY <1>6
    <3> QED
      BY <1>4, <2>1, <3>1, <3>2, SplitParts
  <2>6. Lower(vec, dat, R, vec', c, r, m.key, p, fs)
    <3>1. p \in Int /\ fs \in Int
      BY <1>6, <1>7
    <3>2. NodeIs(a, vec[c].ty, p, Len(vec) + 2, vec[c].rd)
      BY <1>12, <2>1
    <3> HIDE DEF m
    <3> QED
      BY <1>6, <1>7, <1>8, <1>12, <2>2, <2>4, <3>1, <3>2 DEF Lower, m
  <2> QED
    BY <1>1, <1>5, <1>6, <2>1, <2>5, <2>6, LowerStore
<1>16. Attached(t, new, nodes) => Inserted(t, R)
  BY <1>15 DEF Attached, Inserted
<1> QED
  BY <1>14, <1>16

-----------------------------------------------------------------------------
(* What the histories record.                                               *)

\* The references to key k in the records D, one pair each, and those the
\* threads at L hold.
RefsOf(D, k) == UNION {{d} \X (1 .. D[d].ref) : d \in {d \in DOMAIN D : D[d].key = k}}
CountOf(D, L, k) ==
  Cardinality(RefsOf(D, k))
  + Cardinality({t \in Thread : L[t].pc \in {"delete", "undo"} /\ L[t].key = k})

\* Each key has one record, and no delete is between its two steps.
Singles(D, L) ==
  /\ D \in Seq(Records)
  /\ \A d, e \in 1 .. Len(D) : D[d].key = D[e].key => d = e
  /\ \A t \in Thread : L[t].pc \in AddPoints

\* The count of a key is then that of its record.
LEMMA CountIs ==
  ASSUME NEW D, NEW L, Singles(D, L), NEW k
  PROVE  /\ Gone(D, k) => CountOf(D, L, k) = 0
         /\ \A d \in 1 .. Len(D) : D[d].key = k => CountOf(D, L, k) = D[d].ref
<1> DEFINE N == 1 .. Len(D)
           T == {t \in Thread : L[t].pc \in {"delete", "undo"} /\ L[t].key = k}
<1>1. DOMAIN D = N /\ \A d \in N : D[d].ref \in Nat
  <2>1. Len(D) \in Nat /\ DOMAIN D = N /\ \A d \in N : D[d] \in Records
    BY DEF Singles
  <2>2. \A d \in N : D[d].ref \in Nat
    BY <2>1 DEF Records
  <2> QED
    BY <2>1, <2>2
<1>2. T = {} /\ Cardinality(T) = 0
  <2>1. T = {}
    BY DEF Singles, AddPoints, Walking, Inserting
  <2> QED
    BY <2>1, FS_EmptySet
<1>3. CountOf(D, L, k) = Cardinality(RefsOf(D, k)) + Cardinality(T)
  BY DEF CountOf
<1>4. CASE Gone(D, k)
  <2>1. RefsOf(D, k) = {}
    BY <1>1, <1>4 DEF Gone, RefsOf
  <2>2. CountOf(D, L, k) = 0
    BY <1>2, <1>3, <2>1, FS_EmptySet
  <2>3. \A d \in 1 .. Len(D) : D[d].key # k
    BY <1>4 DEF Gone
  <2> QED
    BY <2>2, <2>3
<1>5. ASSUME NEW d \in N, D[d].key = k PROVE CountOf(D, L, k) = D[d].ref
  <2>1. {e \in DOMAIN D : D[e].key = k} = {d}
    BY <1>1, <1>5 DEF Singles
  <2>2. RefsOf(D, k) = {d} \X (1 .. D[d].ref)
    BY <2>1 DEF RefsOf
  <2>3. D[d].ref \in Nat
    BY <1>1, <1>5
  <2>4. IsFiniteSet(1 .. D[d].ref) /\ Cardinality(1 .. D[d].ref) = D[d].ref
    <3>1. ASSUME NEW n \in Nat PROVE IsFiniteSet(1 .. n) /\ Cardinality(1 .. n) = n
      <4>1. 1 \in Int /\ n \in Int /\ (IF 1 > n THEN 0 ELSE n - 1 + 1) = n
        OBVIOUS
      <4> QED
        BY <4>1, FS_Interval
    <3> QED
      BY <2>3, <3>1
  <2>5. IsFiniteSet({d}) /\ Cardinality({d}) = 1
    BY FS_Singleton
  <2>6. Cardinality(RefsOf(D, k)) = 1 * D[d].ref
    <3> DEFINE S == {d}
               I == 1 .. D[d].ref
    <3>1. IsFiniteSet(S) /\ IsFiniteSet(I) /\ RefsOf(D, k) = S \X I
      BY <2>2, <2>4, <2>5
    <3>2. Cardinality(S) = 1 /\ Cardinality(I) = D[d].ref
      BY <2>4, <2>5
    <3> HIDE DEF S, I
    <3>3. Cardinality(S \X I) = Cardinality(S) * Cardinality(I)
      BY <3>1, FS_Product
    <3> QED
      BY <3>1, <3>2, <3>3
  <2> QED
    BY <1>2, <1>3, <2>3, <2>6
<1> QED
  BY <1>4, <1>5

\* The counts, as the instance RefSet sees them.
LEMMA CountsAre ==
  ASSUME NEW k \in Keys
  PROVE  Count[k] = CountOf(dat, loc, k) /\ Count'[k] = CountOf(dat', loc', k)
BY DEF Count, CountOf, RefsOf

\* A thread that adds or looks up: its call, as RefSet sees it.
LEMMA AddGoal ==
  ASSUME NEW V, NEW D, NEW R, NEW m, Local(V, D, m), NEW miss, NEW see, Knows(V, D, R, m, miss, see)
  PROVE  /\ m.pc = "idle" => m = Idle /\ m.goal = "NONE"
         /\ m.pc # "idle" => m.goal \in {"FIND", "INSERT"} /\ m.key \in Keys /\ m.op = m.goal
         /\ m.goal # "DELETE"
<1>1. m.pc = "idle" => m = Idle /\ m.goal = "NONE"
  BY DEF Local, Idle
<1>2. m.pc # "idle" => m.goal \in {"FIND", "INSERT"} /\ m.key \in Keys /\ m.op = m.goal
  BY DEF Local, Idle, Knows, Active, Wants
<1> QED
  BY <1>1, <1>2

-----------------------------------------------------------------------------
(* One step.                                                                *)

\* After a step the histories of a call hold what they held, and what is the case.
LEMMA Recorded ==
  ASSUME Set!Histories, Singles(dat', loc'), \A d \in 1 .. Len(dat') : dat'[d].ref > 0,
         NEW t \in Thread, loc'[t].goal \in {"FIND", "INSERT"}, loc'[t].key \in Keys
  PROVE  /\ t \in missed => t \in missed'
         /\ t \in seen => t \in seen'
         /\ IF Gone(dat', loc'[t].key) THEN t \in missed' ELSE t \in seen'
<1> DEFINE k == loc'[t].key
<1>1. Calls'[t].op = loc'[t].goal /\ Calls'[t].key = k
  BY DEF Calls
<1>2. /\ t \in missed' <=> t \in missed \/ Count'[k] = 0
      /\ t \in seen' <=> t \in seen \/ Count'[k] > 0
  BY <1>1 DEF Set!Histories, Set!Called, Set!Absent, Set!Open
<1>3. Count'[k] = CountOf(dat', loc', k)
  BY CountsAre
<1>4. Gone(dat', k) => Count'[k] = 0
  BY <1>3, CountIs
<1>5. ASSUME ~ Gone(dat', k) PROVE Count'[k] > 0
  <2>1. PICK d \in 1 .. Len(dat') : dat'[d].key = k
    BY <1>5 DEF Gone
  <2>2. Count'[k] = dat'[d].ref
    BY <1>3, <2>1, CountIs
  <2> QED
    BY <2>2
<1> QED
  BY <1>2, <1>4, <1>5

\* The histories only add to what a thread knows.
LEMMA KnowsMore ==
  ASSUME NEW V, NEW D, NEW R, NEW m, NEW miss \in BOOLEAN, NEW see, NEW miss2 \in BOOLEAN, NEW see2,
         Knows(V, D, R, m, miss, see), m.pc = "idle" \/ ((miss => miss2) /\ (see => see2))
  PROVE  Knows(V, D, R, m, miss2, see2)
<1>1. CASE m.pc = "idle"
  BY <1>1 DEF Knows, Walking, Inserting
<1>2. CASE (miss => miss2) /\ (see => see2)
  <2>1. Standing(V, D, R, m, miss) => Standing(V, D, R, m, miss2)
    BY <1>2 DEF Standing, Sure
  <2>2. Beside(V, D, R, m, miss) => Beside(V, D, R, m, miss2)
    BY <1>2 DEF Beside, Sure
  <2> QED
    BY <1>2, <2>1, <2>2 DEF Knows
<1> QED
  BY <1>1, <1>2

\* A tree is grown from itself.
LEMMA GrownSelf ==
  ASSUME NEW V, NEW D, NEW R, Nodes(V, D)
  PROVE  Grown(V, D, R, V, D, R)
BY DEF Grown, Grow, Nodes

\* A step of t that leaves a trie, in which t knows enough.
Moved(t, R, miss, see) ==
  /\ loc' = [loc EXCEPT ![t] = loc'[t]]
  /\ \E S : /\ Store(vec', dat', S) /\ Grown(vec, dat, R, vec', dat', S)
            /\ Knows(vec', dat', S, loc'[t], miss, see)

\* A step that changes no node and no record, or inserts.
LEMMA LearnedMoves ==
  ASSUME TreeInv, NEW R, NEW miss \in BOOLEAN, NEW see, Store(vec, dat, R), NEW t \in Thread,
         Learned(t, R, miss, see)
  PROVE  Moved(t, R, miss, see)
<1>1. Grown(vec, dat, R, vec, dat, R)
  BY GrownSelf DEF TreeInv
<1> QED
  BY <1>1 DEF Learned, Moved

\* An insertion that has put its record in has answered its call.
LEMMA AnswerMoves ==
  ASSUME TreeInv, NEW R, NEW miss \in BOOLEAN, NEW see, NEW t \in Thread,
         loc[t].op = "INSERT", loc[t].goal = "INSERT",
         loc' = [loc EXCEPT ![t] = Answer(loc[t], OK)],
         NEW S, Store(vec', dat', S), Grown(vec, dat, R, vec', dat', S)
  PROVE  Moved(t, R, miss, see)
<1> DEFINE n == Answer(loc[t], OK)
<1>1. loc'[t] = n /\ loc[t] \in Locals
  BY DEF TreeInv
<1>2. n.pc = "return" /\ n.op = "INSERT" /\ n.goal = "INSERT" /\ n.ret = OK
  BY <1>1 DEF Answer, Locals
<1> HIDE DEF n
<1>3. Knows(vec', dat', S, n, miss, see)
  BY <1>2 DEF Knows, AddPoints, Walking, Inserting
<1> QED
  BY <1>1, <1>3 DEF Moved, n

\* A count that goes up is nothing to the walks.
LEMMA CountedStore ==
  ASSUME NEW V, NEW D, NEW R, Nodes(V, D), Store(V, D, R), NEW d \in 1 .. Len(D),
         NEW D2, D2 = [D EXCEPT ![d].ref = D[d].ref + 1]
  PROVE  Store(V, D2, R) /\ Grown(V, D, R, V, D2, R)
<1>1. D \in Seq(Records) /\ D[d] \in Records /\ D[d].ref \in Nat
  <2>1. D \in Seq(Records)
    BY DEF Nodes
  <2>2. D[d] \in Records
    BY <2>1
  <2> QED
    BY <2>1, <2>2 DEF Records
<1>2. D[d].ref + 1 \in Nat /\ D[d].ref + 1 > 0
  BY <1>1
<1> DEFINE r == [D[d] EXCEPT !.ref = D[d].ref + 1]
<1>3. r.key = D[d].key /\ r.ref > 0
  BY <1>1, <1>2 DEF Records
<1>4. D2 = [D EXCEPT ![d] = r]
  OBVIOUS
<1> HIDE DEF r
<1>5. Len(D2) = Len(D) /\ \A e \in 1 .. Len(D) : D2[e].key = D[e].key
  BY <1>1, <1>3, <1>4
<1>6. \A e \in 1 .. Len(D) : D2[e].ref > 0
  BY <1>1, <1>3, <1>4 DEF Store
<1>7. Grow(V, D, V, D2)
  BY <1>5 DEF Grow, Nodes
<1>8. Grown(V, D, R, V, D2, R)
  BY <1>7 DEF Grown
<1>9. \A v \in 1 .. Len(V) : Fine(V, D2, R, v, V[v])
  BY <1>8, GrownFine DEF Store, Nodes
<1>10. ASSUME NEW x \in 1 .. Len(D2), NEW v \in 1 .. Len(V), On(V, R, v, D2[x].key)
       PROVE  Route(V, D2, R, v, V[v], D2[x].key)
  <2>1. Route(V, D, R, v, V[v], D[x].key) /\ D2[x].key = D[x].key
    BY <1>5, <1>10 DEF Store
  <2>2. WordOf(V, D, v, V[v])
    BY DEF Nodes
  <2>3. V[v].ty = "DATA" /\ V[v].rd # Nil => D2[V[v].rd].key = D[V[v].rd].key
    BY <1>5, <2>2 DEF WordOf, Nil
  <2> QED
    BY <2>1, <2>3 DEF Route
<1>11. Store(V, D2, R)
  BY <1>5, <1>6, <1>9, <1>10 DEF Store
<1> QED
  BY <1>8, <1>11

\* Every step of a thread that adds or looks up.
LEMMA StepMoves ==
  ASSUME TreeInv, Adding, NEW R, NEW miss \in BOOLEAN, NEW see, Store(vec, dat, R),
         NEW t \in Thread, Step(t), Knows(vec, dat, R, loc[t], miss, see),
         loc[t].pc # "idle" => IF Gone(dat, loc[t].key) THEN miss ELSE see
  PROVE  Moved(t, R, miss, see)
<1>1. loc[t].pc \in AddPoints
  BY DEF Knows
<1>2. ASSUME NEW op \in Operation, NEW key \in Keys, Call(t, op, key) PROVE Moved(t, R, miss, see)
  BY <1>2, CallKnows, LearnedMoves
<1>3. CASE Return(t) \/ InsertTrouble(t)
  BY <1>3, ReturnKnows, InsertTroubleKnows, LearnedMoves
<1>4. CASE Forward(t) \/ ReadRight(t) \/ ReadDown(t)
  <2>1. loc[t].pc # "idle"
    BY <1>4 DEF Forward, ReadRight, ReadDown
  <2>2. Gone(dat, loc[t].key) => miss
    BY <2>1
  <2> QED
    BY <1>4, <2>2, ForwardKnows, ReadRightKnows, ReadDownKnows, LearnedMoves
<1>5. CASE Gid(t) \/ GidNext(t)
  BY <1>5, GidKnows, GidNextKnows, LearnedMoves
<1>6. CASE InsertFirst(t) \/ InsertUp(t) \/ InsertDown(t) \/ InsertLast(t) \/ InsertMid(t)
  <2>1. Learned(t, R, miss, see) \/ Inserted(t, R)
    BY <1>6, InsertFirstKnows, InsertUpKnows, InsertDownKnows, InsertLastKnows, InsertMidKnows
  <2>2. loc[t].op = "INSERT" /\ loc[t].goal = "INSERT"
    BY <1>6 DEF Knows, Inserting, InsertFirst, InsertUp, InsertDown, InsertLast, InsertMid
  <2> QED
    BY <2>1, <2>2, LearnedMoves, AnswerMoves DEF Inserted
<1>7. CASE Found(t)
  <2>1. loc[t].pc = "found"
    BY <1>7 DEF Found
  <2>2. ~ Gone(dat, loc[t].key) => see
    BY <2>1
  <2>3. Knows(vec, dat, R, loc'[t], miss, see) /\ Answers(t)
    BY <1>7, <2>2, FoundRecord
  <2>4. loc[t].op = loc[t].goal /\ loc[t].op \in {"FIND", "INSERT"}
    BY <2>1 DEF Knows
  <2>5. CASE loc[t].op = "FIND"
    <3>1. loc' = [loc EXCEPT ![t] = loc'[t]]
      BY <2>3 DEF TreeInv, Answers
    <3>2. Learned(t, R, miss, see)
      BY <2>3, <2>5, <3>1 DEF Learned, Answers
    <3> QED
      BY <3>2, LearnedMoves
  <2>6. CASE loc[t].op = "INSERT"
    <3>1. Store(vec', dat', R) /\ Grown(vec, dat, R, vec', dat', R)
      BY <2>3, <2>6, CountedStore DEF TreeInv, Answers
    <3>2. loc' = [loc EXCEPT ![t] = Answer(loc[t], OK)] /\ loc[t].op = "INSERT" /\ loc[t].goal = "INSERT"
      BY <2>3, <2>4, <2>6 DEF Answers
    <3> QED
      BY <3>1, <3>2, AnswerMoves
  <2> QED
    BY <2>4, <2>5, <2>6
<1>8. /\ ~ RightUnlink(t) /\ ~ RightInvalidate(t) /\ ~ Reread(t) /\ ~ DownUnlink(t)
      /\ ~ DownValidate(t) /\ ~ RereadAny(t) /\ ~ Orphan(t) /\ ~ FreeLoad(t) /\ ~ FreeStore(t)
      /\ ~ GidUnlink(t) /\ ~ GidInvalidate(t) /\ ~ GidReread(t) /\ ~ Delete(t) /\ ~ Undo(t)
  BY <1>1 DEF AddPoints, Walking, Inserting, RightUnlink, RightInvalidate, Reread, DownUnlink,
     DownValidate, RereadAny, Orphan, FreeLoad, FreeStore, GidUnlink, GidInvalidate, GidReread,
     Delete, Undo
<1> QED
  BY <1>2, <1>3, <1>4, <1>5, <1>6, <1>7, <1>8 DEF Step

-----------------------------------------------------------------------------
(* The invariant of threads that only add and look up.                      *)

\* All threads but one stay where they are, and know what they knew.
LEMMA OthersKnow ==
  ASSUME TreeInv, NEW R, NEW S, Grown(vec, dat, R, vec', dat', S), NEW u \in Thread,
         NEW miss \in BOOLEAN, NEW see, Knows(vec, dat, R, loc[u], miss, see)
  PROVE  Knows(vec', dat', S, loc[u], miss, see)
<1>1. Local(vec, dat, loc[u]) /\ Len(vec) >= 1
  BY DEF TreeInv, Nodes
<1> QED
  BY <1>1, GrownKnows

\* The threads of a set, each with a truth value.
LEMMA Flags ==
  ASSUME NEW s
  PROVE  \E f \in [Thread -> BOOLEAN] : \A u \in Thread : f[u] = (u \in s)
<1>1. [u \in Thread |-> u \in s] \in [Thread -> BOOLEAN]
  OBVIOUS
<1> QED
  BY <1>1

\* Whatever one thread does, the others know where they are.
LEMMA AllKnow ==
  ASSUME TreeInv, Adding, NEW R, Store(vec, dat, R), NEW t \in Thread, Step(t), Kept,
         \A u \in Thread : Knows(vec, dat, R, loc[u], u \in missed, u \in seen)
  PROVE  \E S : /\ Store(vec', dat', S)
                /\ \A u \in Thread : Knows(vec', dat', S, loc'[u], u \in missed, u \in seen)
<1>1. PICK miss \in [Thread -> BOOLEAN] : \A u \in Thread : miss[u] = (u \in missed)
  BY Flags
<1>2. PICK see \in [Thread -> BOOLEAN] : \A u \in Thread : see[u] = (u \in seen)
  BY Flags
<1>3. \A u \in Thread : Knows(vec, dat, R, loc[u], miss[u], see[u])
  <2> SUFFICES ASSUME NEW u \in Thread PROVE Knows(vec, dat, R, loc[u], miss[u], see[u])
    OBVIOUS
  <2>1. miss[u] = (u \in missed) /\ see[u] = (u \in seen)
    BY <1>1, <1>2
  <2> QED
    BY <2>1
<1>4. Moved(t, R, miss[t], see[t])
  <2>1. loc[t].pc # "idle" => IF Gone(dat, loc[t].key) THEN miss[t] ELSE see[t]
    BY <1>1, <1>2 DEF Kept
  <2>2. miss[t] \in BOOLEAN /\ Knows(vec, dat, R, loc[t], miss[t], see[t])
    BY <1>1, <1>3
  <2> QED
    BY <2>1, <2>2, StepMoves
<1>5. PICK S : /\ Store(vec', dat', S) /\ Grown(vec, dat, R, vec', dat', S)
               /\ Knows(vec', dat', S, loc'[t], miss[t], see[t])
  BY <1>4 DEF Moved
<1>6. ASSUME NEW u \in Thread, u # t PROVE Knows(vec', dat', S, loc'[u], miss[u], see[u])
  <2>1. loc'[u] = loc[u]
    BY <1>4, <1>6 DEF Moved, TreeInv
  <2>2. miss[u] \in BOOLEAN /\ Knows(vec, dat, R, loc[u], miss[u], see[u])
    BY <1>1, <1>3
  <2>3. Knows(vec', dat', S, loc[u], miss[u], see[u])
    BY <1>5, <2>2, OthersKnow
  <2> QED
    BY <2>1, <2>3
<1>7. \A u \in Thread : Knows(vec', dat', S, loc'[u], u \in missed, u \in seen)
  <2> SUFFICES ASSUME NEW u \in Thread
               PROVE  Knows(vec', dat', S, loc'[u], u \in missed, u \in seen)
    OBVIOUS
  <2>1. miss[u] = (u \in missed) /\ see[u] = (u \in seen)
    BY <1>1, <1>2
  <2>2. Knows(vec', dat', S, loc'[u], miss[u], see[u])
    BY <1>5, <1>6
  <2> QED
    BY <2>1, <2>2
<1> QED
  BY <1>5, <1>7

\* At first nobody is in a call, and the head alone is a trie.
LEMMA InitAdd ==
  ASSUME Init
  PROVE  AddInv /\ Kept
<1>1. vec = <<EmptyHead>> /\ dat = <<>> /\ loc = [t \in Thread |-> Idle]
  BY DEF Init
<1>2. EmptyHead.pos = -1 /\ EmptyHead.down = Nil /\ EmptyHead.rd = Nil /\ EmptyHead.st = "VALID"
      /\ EmptyHead.ty = "DATA"
  BY DEF EmptyHead
<1> HIDE DEF EmptyHead
<1>3. Len(vec) = 1 /\ vec[1] = EmptyHead /\ Len(dat) = 0
  BY <1>1
<1> DEFINE R == [v \in 1 .. 1 |-> 0]
<1>4. R \in [1 .. Len(vec) -> Nat]
  BY <1>3
<1> HIDE DEF R
<1>5. Fine(vec, dat, R, 1, vec[1])
  BY <1>2, <1>3 DEF Fine
<1>6. Store(vec, dat, R)
  <2>1. \A v \in 1 .. Len(vec) : v = 1
    BY <1>3
  <2>2. \A d \in 1 .. Len(dat) : FALSE
    BY <1>3
  <2> QED
    BY <1>2, <1>3, <1>4, <1>5, <2>1, <2>2 DEF Store
<1>7. ASSUME NEW t \in Thread PROVE loc[t].pc = "idle" /\ Knows(vec, dat, R, loc[t], t \in missed, t \in seen)
  <2>1. loc[t].pc = "idle"
    BY <1>1 DEF Idle
  <2> QED
    BY <2>1 DEF Knows, AddPoints, Walking, Inserting
<1> QED
  BY <1>4, <1>6, <1>7 DEF AddInv, Kept

\* Each step keeps the trie, what the threads know and what the histories hold.
LEMMA NextAdd ==
  ASSUME TreeInv, Adding, AddInv, Kept, [Next]_vars
  PROVE  TreeInv' /\ AddInv' /\ Kept'
<1>1. PICK R \in [1 .. Len(vec) -> Nat] :
        /\ Store(vec, dat, R)
        /\ \A t \in Thread : Knows(vec, dat, R, loc[t], t \in missed, t \in seen)
  BY DEF AddInv
<1>2. TreeInv'
  <2>1. \A t \in Thread : loc[t].pc = "forward" => loc[t].cur = Head1
    BY <1>1 DEF Knows
  <2> QED
    BY <2>1, NextInv
<1>3. CASE UNCHANGED vars
  <2>1. vec' = vec /\ dat' = dat /\ loc' = loc /\ missed' = missed /\ seen' = seen
    BY <1>3 DEF vars
  <2>2. AddInv' /\ Kept'
    BY <2>1 DEF AddInv, Kept
  <2> QED
    BY <1>2, <2>2
<1>4. CASE Next
  <2>1. PICK S : /\ Store(vec', dat', S)
                 /\ \A u \in Thread : Knows(vec', dat', S, loc'[u], u \in missed, u \in seen)
    <3>1. CASE \E t \in Thread : Step(t)
      BY <1>1, <3>1, AllKnow
    <3>2. CASE UNCHANGED <<vec, dat, loc>>
      BY <1>1, <3>2
    <3> QED
      BY <1>4, <3>1, <3>2 DEF Next
  <2>2. Set!Histories
    BY <1>4 DEF Next
  <2>3. Singles(dat', loc') /\ \A d \in 1 .. Len(dat') : dat'[d].ref > 0
    <3>1. dat' \in Seq(Records)
      BY <1>2 DEF TreeInv, Nodes
    <3>2. \A u \in Thread : loc'[u].pc \in AddPoints
      BY <2>1 DEF Knows
    <3>3. /\ \A d, e \in 1 .. Len(dat') : dat'[d].key = dat'[e].key => d = e
          /\ \A d \in 1 .. Len(dat') : dat'[d].ref > 0
      BY <2>1 DEF Store
    <3> QED
      BY <3>1, <3>2, <3>3 DEF Singles
  <2>4. ASSUME NEW u \in Thread, loc'[u].pc # "idle"
        PROVE  /\ u \in missed => u \in missed'
               /\ u \in seen => u \in seen'
               /\ IF Gone(dat', loc'[u].key) THEN u \in missed' ELSE u \in seen'
    <3>1. Local(vec', dat', loc'[u])
      BY <1>2 DEF TreeInv
    <3>2. loc'[u].goal \in {"FIND", "INSERT"} /\ loc'[u].key \in Keys
      BY <2>1, <2>4, <3>1, AddGoal
    <3> QED
      BY <2>2, <2>3, <3>2, Recorded
  <2>5. Kept'
    BY <2>4 DEF Kept
  <2>6. ASSUME NEW u \in Thread PROVE Knows(vec', dat', S, loc'[u], (u \in missed)', (u \in seen)')
    <3>1. PICK miss \in [Thread -> BOOLEAN] : \A x \in Thread : miss[x] = (x \in missed)
      BY Flags
    <3>2. PICK miss2 \in [Thread -> BOOLEAN] : \A x \in Thread : miss2[x] = (x \in missed')
      BY Flags
    <3>3. PICK see \in [Thread -> BOOLEAN] : \A x \in Thread : see[x] = (x \in seen)
      BY Flags
    <3>4. PICK see2 \in [Thread -> BOOLEAN] : \A x \in Thread : see2[x] = (x \in seen')
      BY Flags
    <3>5. Knows(vec', dat', S, loc'[u], miss[u], see[u])
      BY <2>1, <3>1, <3>3
    <3>6. loc'[u].pc = "idle" \/ ((miss[u] => miss2[u]) /\ (see[u] => see2[u]))
      BY <2>4, <3>1, <3>2, <3>3, <3>4
    <3>7. Knows(vec', dat', S, loc'[u], miss2[u], see2[u])
      BY <3>5, <3>6, KnowsMore
    <3> QED
      BY <3>2, <3>4, <3>7
  <2>7. S \in [1 .. Len(vec') -> Nat]
    BY <2>1 DEF Store
  <2>8. AddInv'
    BY <2>1, <2>6, <2>7 DEF AddInv
  <2> QED
    BY <1>2, <2>5, <2>8
<1> QED
  BY <1>3, <1>4

\* What it says of the points a walk comes to.
LEMMA AddSays ==
  ASSUME TreeInv, Sides, AddInv
  PROVE  NeverStuck /\ SameRecord /\ TypeOK
<1>1. PICK R \in [1 .. Len(vec) -> Nat] :
        \A t \in Thread : Knows(vec, dat, R, loc[t], t \in missed, t \in seen)
  BY DEF AddInv
<1>2. NeverStuck
  BY <1>1 DEF NeverStuck, Knows, AddPoints, Walking, Inserting
<1>3. SameRecord
  BY <1>1 DEF SameRecord, Knows
<1> QED
  BY <1>2, <1>3, InvTypes

\* Threads that only add and look up never come to a point the code does not
\* leave, the record a walk ends at is that of its key, and all stays in its range:
\* for keys of any width, zero in their last bit or not.
THEOREM AdditionsSafe == Adding => (Spec => [](NeverStuck /\ SameRecord /\ TypeOK))
<1> SUFFICES ASSUME Adding PROVE Spec => [](NeverStuck /\ SameRecord /\ TypeOK)
  OBVIOUS
<1>1. Init => TreeInv /\ Sides /\ AddInv /\ Kept
  BY InitInv, InitAdd
<1>2. TreeInv /\ Sides /\ AddInv /\ Kept /\ [Next]_vars => TreeInv' /\ Sides' /\ AddInv' /\ Kept'
  BY NextAdd, NextSides
<1>3. TreeInv /\ Sides /\ AddInv => NeverStuck /\ SameRecord /\ TypeOK
  BY AddSays
<1> QED
  BY <1>1, <1>2, <1>3, PTL DEF Spec

-----------------------------------------------------------------------------
(* The refinement of RefSet: what the steps of a walk leave of its call.     *)

\* A call in progress, and one that is still the same and no nearer its answer.
Callish(m) ==
  /\ m = [x \in DOMAIN m |-> m[x]]
  /\ {"op", "goal", "key", "ret", "back"} \subseteq DOMAIN m
  /\ m.op \in Operation
Keeps(n, m) ==
  /\ Callish(n) /\ n.op = m.op /\ n.goal = m.goal /\ n.key = m.key
  /\ m.ret # OK => n.ret # OK

\* A call that is kept twice is kept.
LEMMA KeepsOn ==
  ASSUME NEW m, NEW n, NEW r, Keeps(n, m), Keeps(r, n)
  PROVE  Keeps(r, m)
BY DEF Keeps

\* A change of any other local variable.
LEMMA KeepsElse ==
  ASSUME NEW m, Callish(m), NEW f, f \notin {"op", "goal", "key", "ret"}, NEW x
  PROVE  Keeps([m EXCEPT ![f] = x], m)
BY DEF Keeps, Callish

\* What a step leaves of its call: going on, beginning again, failing.
LEMMA KeepsPlain ==
  ASSUME NEW m, Callish(m)
  PROVE  /\ Keeps(m, m) /\ Keeps(Restart(m), m) /\ Keeps(Stuck(m), m)
         /\ \A p : Keeps([m EXCEPT !.pc = p], m)
         /\ \A p, s : Keeps([m EXCEPT !.pc = p, !.start = s], m)
         /\ \A v, b : Keeps(GetDataId(m, v, b), m)
         /\ Keeps(Answer(m, m.ret), m)
         /\ \A code : code # OK => Keeps(Answer(m, code), m)
         /\ \A code : code # OK => Keeps(Fail(m, code), m)
<1>1. Keeps(m, m) /\ Keeps(Restart(m), m) /\ Keeps(Stuck(m), m) /\ \A p : Keeps([m EXCEPT !.pc = p], m)
  BY DEF Keeps, Callish, Restart, Stuck
<1>2. ASSUME NEW p, NEW s PROVE Keeps([m EXCEPT !.pc = p, !.start = s], m)
  BY DEF Keeps, Callish
<1>3. ASSUME NEW v, NEW b PROVE Keeps(GetDataId(m, v, b), m)
  BY DEF Keeps, Callish, GetDataId
<1>4. Keeps(Answer(m, m.ret), m)
  BY DEF Keeps, Callish, Answer
<1>5. ASSUME NEW code, code # OK PROVE Keeps(Answer(m, code), m)
  BY <1>5 DEF Keeps, Callish, Answer
<1>6. ASSUME NEW code, code # OK PROVE Keeps(Fail(m, code), m)
  <2>1. m.ret = OK => Keeps(Answer(m, OK), m)
    BY <1>4
  <2> QED
    BY <1>5, <1>6, <2>1 DEF Fail
<1> QED
  BY <1>1, <1>2, <1>3, <1>4, <1>5, <1>6

\* Going down, and meeting another record.
LEMMA KeepsDown ==
  ASSUME NEW m, Callish(m)
  PROVE  Keeps(Down(m), m) /\ Keeps(Mismatch(m), m)
<1>1. m.op \in {"FIND", "INSERT", "DELETE"}
  BY DEF Callish, Operation
<1> QED
  BY <1>1, KeepsPlain DEF Down, Mismatch

\* Standing at a record.
LEMMA KeepsAtData ==
  ASSUME NEW m, Callish(m)
  PROVE  Keeps(AtData(m), m)
<1> DEFINE n == [m EXCEPT !.cd = m.cw.rd]
           l == [m EXCEPT !.cd = Unset]
<1>1. Keeps(n, m) /\ Keeps(l, m)
  BY KeepsElse
<1>2. Callish(n) /\ Callish(l)
  BY <1>1 DEF Keeps
<1>3. AtData(m) \in {Restart(l), [n EXCEPT !.pc = "insert_first"], Answer(n, m.ret), Answer(n, n.ret),
                     [n EXCEPT !.pc = "found", !.start = Width], Mismatch(n)}
  <2> DEFINE e == n.cd = Nil
  <2> HIDE DEF n, l
  <2> QED
    BY DEF AtData, n, l
<1>4. n.ret = m.ret
  BY DEF Callish
<1> HIDE DEF n, l
<1>5. /\ Keeps(Restart(l), l) /\ Keeps([n EXCEPT !.pc = "insert_first"], n)
      /\ Keeps(Answer(n, n.ret), n) /\ Keeps([n EXCEPT !.pc = "found", !.start = Width], n)
      /\ Keeps(Mismatch(n), n)
  BY <1>2, KeepsPlain, KeepsDown
<1> QED
  BY <1>1, <1>3, <1>4, <1>5, KeepsOn

\* Going on from a word.
LEMMA KeepsWalk ==
  ASSUME NEW m, Callish(m)
  PROVE  Keeps(Walk(m), m) /\ Keeps(Continue(m), m)
<1>1. Keeps(Walk(m), m)
  BY KeepsPlain, KeepsAtData, KeepsDown DEF Walk
<1> QED
  BY <1>1, KeepsPlain, KeepsDown DEF Continue

\* Comparing a segment.
LEMMA KeepsCompare ==
  ASSUME NEW m, Callish(m)
  PROVE  Keeps(Compare(m), m)
<1> DEFINE n == [m EXCEPT !.pre = m.cur, !.cur = m.nxt, !.cw = m.nw, !.dir = "RIGHT",
                          !.start = SegmentEnd(m), !.fs = FirstSet(m.key, SegmentEnd(m), Width)]
<1>1. Keeps(n, m)
  BY DEF Keeps, Callish
<1> DEFINE c == GetDataId(m, m.nxt, "confirm")
           e == [m EXCEPT !.pc = "found", !.start = SegmentEnd(m)]
<1>2. Compare(m) = c \/ Compare(m) = e \/ Compare(m) = Walk(n)
  BY DEF Compare
<1>4. Keeps(c, m) /\ Keeps(e, m)
  BY KeepsPlain
<1> HIDE DEF n, c, e
<1>3. Keeps(Walk(n), m)
  BY <1>1, KeepsWalk, KeepsOn DEF Keeps
<1> QED
  BY <1>2, <1>3, <1>4

\* Returning from get_data_id.
LEMMA KeepsReturn ==
  ASSUME NEW m, Callish(m), m.back \in {"compare", "confirm", "recheck", "near"}, NEW r
  PROVE  Keeps(GidReturn(m, r), m)
<1> DEFINE n == [m EXCEPT !.gv = Nil, !.gc = Nil, !.gw = NoWord, !.gn = Nil, !.gx = NoWord,
                          !.back = "NONE"]
           c == [n EXCEPT !.cd = r]
           u == [n EXCEPT !.cd = Unset]
           i == [n EXCEPT !.pc = "insert_first"]
<1>1. Keeps(n, m) /\ n.ret = m.ret
  BY DEF Keeps, Callish
<1>2. \/ GidReturn(m, r) = Compare(c) \/ GidReturn(m, r) = Restart(n) \/ GidReturn(m, r) = i
      \/ GidReturn(m, r) = Answer(n, m.ret) \/ GidReturn(m, r) = Mismatch(n)
      \/ GidReturn(m, r) = Continue(u)
      \/ \E code : code # OK /\ GidReturn(m, r) = Fail(n, code)
  <2> HIDE DEF n
  <2>1. CASE m.back = "compare"
    BY <2>1 DEF GidReturn, n, Nil, OK
  <2>2. CASE m.back = "confirm"
    BY <2>2 DEF GidReturn, n
  <2>3. CASE m.back = "recheck"
    BY <2>3 DEF GidReturn, n
  <2>4. CASE m.back = "near"
    BY <2>4 DEF GidReturn, n, Nil, OK, NullCode
  <2> QED
    BY <2>1, <2>2, <2>3, <2>4
<1> HIDE DEF n
<1>3. Keeps(c, n) /\ Keeps(u, n)
  <2>1. ASSUME NEW x PROVE Keeps([n EXCEPT !.cd = x], n)
    BY <1>1 DEF Keeps, Callish
  <2> QED
    BY <2>1
<1> HIDE DEF c, u
<1>4. Keeps(Compare(c), c) /\ Keeps(Continue(u), u)
  BY <1>3, KeepsCompare, KeepsWalk DEF Keeps
<1>5. Callish(n)
  BY <1>1 DEF Keeps
<1>6. /\ Keeps(Restart(n), n) /\ Keeps(i, n) /\ Keeps(Answer(n, n.ret), n) /\ Keeps(Mismatch(n), n)
      /\ \A code : code # OK => Keeps(Fail(n, code), n)
  BY <1>5, KeepsPlain, KeepsDown
<1> HIDE DEF i
<1>7. /\ Keeps(Compare(c), m) /\ Keeps(Restart(n), m) /\ Keeps(i, m) /\ Keeps(Answer(n, m.ret), m)
      /\ Keeps(Mismatch(n), m) /\ Keeps(Continue(u), m)
  BY <1>1, <1>3, <1>4, <1>6, KeepsOn
<1>8. \A code : code # OK => Keeps(Fail(n, code), m)
  BY <1>1, <1>6, KeepsOn
<1> QED
  BY <1>2, <1>7, <1>8

\* Going on in get_data_id.
LEMMA KeepsGid ==
  ASSUME NEW m, Callish(m), m.back \in {"compare", "confirm", "recheck", "near"}
  PROVE  Keeps(GidWalk(m), m)
<1>1. Keeps([m EXCEPT !.pc = "gid_next", !.gn = m.gw.rd], m)
  BY DEF Keeps, Callish
<1> QED
  BY <1>1, KeepsReturn DEF GidWalk

\* A call in progress is one, and get_data_id knows who called it.
LEMMA CallishIs ==
  ASSUME TreeInv, NEW t \in Thread, loc[t].pc \notin {"idle", "return"}
  PROVE  /\ Callish(loc[t])
         /\ loc[t].pc \in {"gid", "gid_next"} => loc[t].back \in {"compare", "confirm", "recheck", "near"}
<1>1. Active(vec, dat, loc[t]) /\ Where(vec, dat, loc[t]) /\ loc[t] \in Locals
  BY InCall
<1>2. loc[t].op \in Operation
  BY <1>1 DEF Active, Wants, Operation
<1>3. loc[t] = [x \in DOMAIN loc[t] |-> loc[t][x]] /\ {"op", "goal", "key", "ret", "back"} \subseteq DOMAIN loc[t]
  BY <1>1 DEF Locals
<1>4. loc[t].pc \in {"gid", "gid_next"} => Calling(vec, dat, loc[t])
  BY <1>1 DEF Where, Stepping, Descending
<1> QED
  BY <1>2, <1>3, <1>4 DEF Callish, Calling

\* A step of t that leaves its call as it is.
Unanswered(t) ==
  /\ UNCHANGED <<vec, dat, out>> /\ loc' = [loc EXCEPT ![t] = loc'[t]]
  /\ Keeps(loc'[t], loc[t])

\* A step that keeps its call leaves it unanswered.
LEMMA KeepsStep ==
  ASSUME TreeInv, NEW t \in Thread, NEW m, Become(t, m), Keeps(m, loc[t]), UNCHANGED <<vec, dat, out>>
  PROVE  Unanswered(t)
<1>1. loc' = [loc EXCEPT ![t] = m] /\ loc'[t] = m
  BY DEF Become, TreeInv
<1> QED
  BY <1>1 DEF Unanswered

\* The steps that read leave the call as it is.
LEMMA ReadUnanswered ==
  ASSUME TreeInv, NEW t \in Thread,
         Forward(t) \/ ReadRight(t) \/ ReadDown(t) \/ Gid(t) \/ GidNext(t) \/ InsertTrouble(t)
  PROVE  Unanswered(t)
<1> DEFINE l == loc[t]
<1>1. l.pc \notin {"idle", "return"} /\ UNCHANGED <<vec, dat, out>>
  BY DEF Forward, ReadRight, ReadDown, Gid, GidNext, InsertTrouble, Quiet
<1>2. /\ Callish(l)
      /\ l.pc \in {"gid", "gid_next"} => l.back \in {"compare", "confirm", "recheck", "near"}
  BY <1>1, CallishIs
<1>3. CASE Forward(t)
  <2> DEFINE w == vec[l.cur]
             from == IF l.cur = Head1 THEN 0 ELSE w.pos + 1
             n(f) == [l EXCEPT !.cw = w, !.pre = Nil, !.nxt = Nil, !.nw = NoWord, !.start = from,
                               !.fs = f, !.dir = "START", !.cd = Unset]
  <2>1. \/ \E f : Become(t, Walk(n(f)))
        \/ Become(t, Answer(l, DO_AGAIN)) \/ Become(t, Restart(l))
    BY <1>3 DEF Forward
  <2> HIDE DEF w, from
  <2>2. ASSUME NEW f PROVE Keeps(Walk(n(f)), l)
    <3> HIDE DEF l
    <3>1. Keeps(n(f), l)
      BY <1>2 DEF Keeps, Callish
    <3> HIDE DEF n
    <3>2. Keeps(Walk(n(f)), n(f))
      BY <3>1, KeepsWalk DEF Keeps
    <3> QED
      BY <3>1, <3>2, KeepsOn
  <2>3. DO_AGAIN # OK
    BY DEF DO_AGAIN, OK
  <2> HIDE DEF l, n
  <2>4. Keeps(Answer(l, DO_AGAIN), l) /\ Keeps(Restart(l), l)
    BY <1>2, <2>3, KeepsPlain
  <2> QED
    BY <1>1, <2>1, <2>2, <2>4, KeepsStep DEF l
<1>4. CASE ReadRight(t)
  <2> DEFINE m == [l EXCEPT !.nxt = l.cw.rd, !.nw = vec[l.cw.rd]]
  <2>1. \/ Become(t, Restart(m)) \/ Become(t, GetDataId(m, m.nxt, "compare")) \/ Become(t, Compare(m))
        \/ \E p : Become(t, [m EXCEPT !.pc = p])
    <3> DEFINE a == vec[l.cw.rd]
    <3> QED
      BY <1>4 DEF ReadRight
  <2>2. Keeps(m, l)
    <3> HIDE DEF l
    <3> QED
      BY <1>2 DEF Keeps, Callish
  <2> HIDE DEF m, l
  <2>3. Callish(m)
    BY <2>2 DEF Keeps
  <2>4. /\ Keeps(Restart(m), m) /\ Keeps(GetDataId(m, m.nxt, "compare"), m) /\ Keeps(Compare(m), m)
        /\ \A p : Keeps([m EXCEPT !.pc = p], m)
    BY <2>3, KeepsPlain, KeepsCompare
  <2>5. /\ Keeps(Restart(m), l) /\ Keeps(GetDataId(m, m.nxt, "compare"), l) /\ Keeps(Compare(m), l)
        /\ \A p : Keeps([m EXCEPT !.pc = p], l)
    BY <2>2, <2>4, KeepsOn
  <2> QED
    BY <1>1, <2>1, <2>5, KeepsStep DEF l
<1>5. CASE ReadDown(t)
  <2> DEFINE m == [l EXCEPT !.nxt = l.cw.down, !.nw = vec[l.cw.down]]
             n == [m EXCEPT !.pre = m.cur, !.cur = m.nxt, !.cw = m.nw, !.dir = "DOWN",
                            !.start = m.nw.pos + 1]
  <2>1. m.op \in {"FIND", "INSERT", "DELETE"}
    <3> HIDE DEF l
    <3> QED
      BY <1>2 DEF Callish, Operation
  <2>2. \/ Become(t, Restart(m)) \/ Become(t, GetDataId(m, m.cur, "near")) \/ Become(t, Continue(n))
        \/ Become(t, Answer(m, m.ret)) \/ \E p : Become(t, [m EXCEPT !.pc = p])
    BY <1>5, <2>1 DEF ReadDown
  <2>3. Keeps(m, l) /\ Keeps(n, l)
    <3> HIDE DEF l
    <3>1. Keeps(m, l)
      BY <1>2 DEF Keeps, Callish
    <3> HIDE DEF m
    <3>2. Keeps(n, m)
      BY <3>1 DEF Keeps, Callish
    <3> QED
      BY <3>1, <3>2, KeepsOn
  <2> HIDE DEF m, n, l
  <2>4. Callish(m) /\ Callish(n)
    BY <2>3 DEF Keeps
  <2>5. /\ Keeps(Restart(m), m) /\ Keeps(GetDataId(m, m.cur, "near"), m) /\ Keeps(Continue(n), n)
        /\ Keeps(Answer(m, m.ret), m) /\ \A p : Keeps([m EXCEPT !.pc = p], m)
    BY <2>4, KeepsPlain, KeepsWalk
  <2>6. /\ Keeps(Restart(m), l) /\ Keeps(GetDataId(m, m.cur, "near"), l) /\ Keeps(Continue(n), l)
        /\ Keeps(Answer(m, m.ret), l) /\ \A p : Keeps([m EXCEPT !.pc = p], l)
    BY <2>3, <2>5, KeepsOn
  <2> QED
    BY <1>1, <2>2, <2>6, KeepsStep DEF l
<1>6. CASE Gid(t)
  <2> DEFINE m == [l EXCEPT !.gc = l.gv, !.gw = vec[l.gv]]
  <2>1. Become(t, GidReturn(m, DO_AGAIN)) \/ Become(t, GidWalk(m))
    BY <1>6 DEF Gid
  <2>2. l.back \in {"compare", "confirm", "recheck", "near"}
    BY <1>2, <1>6 DEF Gid
  <2>3. Keeps(m, l) /\ m.back = l.back
    <3> HIDE DEF l
    <3> QED
      BY <1>2 DEF Keeps, Callish
  <2> HIDE DEF m, l
  <2>4. Keeps(GidReturn(m, DO_AGAIN), m) /\ Keeps(GidWalk(m), m)
    BY <2>2, <2>3, KeepsReturn, KeepsGid DEF Keeps
  <2>5. Keeps(GidReturn(m, DO_AGAIN), l) /\ Keeps(GidWalk(m), l)
    BY <2>3, <2>4, KeepsOn
  <2> QED
    BY <1>1, <2>1, <2>5, KeepsStep DEF l
<1>7. CASE GidNext(t)
  <2> DEFINE m == [l EXCEPT !.gx = vec[l.gn]]
             n == [m EXCEPT !.gc = m.gn, !.gw = m.gx]
  <2>1. Become(t, GidWalk(n)) \/ \E p : Become(t, [m EXCEPT !.pc = p])
    BY <1>7 DEF GidNext
  <2>2. l.back \in {"compare", "confirm", "recheck", "near"}
    BY <1>2, <1>7 DEF GidNext
  <2>3. Keeps(m, l) /\ Keeps(n, l) /\ n.back = l.back
    <3> HIDE DEF l
    <3>1. Keeps(m, l) /\ m.back = l.back
      BY <1>2 DEF Keeps, Callish
    <3> HIDE DEF m
    <3>2. Keeps(n, m) /\ n.back = m.back
      BY <3>1 DEF Keeps, Callish
    <3> QED
      BY <3>1, <3>2, KeepsOn
  <2> HIDE DEF m, n, l
  <2>4. Keeps(GidWalk(n), n) /\ \A p : Keeps([m EXCEPT !.pc = p], m)
    BY <2>2, <2>3, KeepsGid, KeepsPlain DEF Keeps
  <2>5. Keeps(GidWalk(n), l) /\ \A p : Keeps([m EXCEPT !.pc = p], l)
    BY <2>3, <2>4, KeepsOn
  <2> QED
    BY <1>1, <2>1, <2>5, KeepsStep DEF l
<1>8. CASE InsertTrouble(t)
  <2>1. PICK code \in Trouble : Become(t, Answer(l, code))
    BY <1>8 DEF InsertTrouble
  <2>2. code # OK
    BY <2>1, TreeAssumption DEF OK, NOMEM, WAIT_AMT
  <2> HIDE DEF l
  <2>3. Keeps(Answer(l, code), l)
    BY <1>2, <2>2, KeepsPlain
  <2> QED
    BY <1>1, <2>1, <2>3, KeepsStep DEF l
<1> QED
  BY <1>3, <1>4, <1>5, <1>6, <1>7, <1>8

\* So do the insertions that add no record.
LEMMA PublishUnanswered ==
  ASSUME TreeInv, NEW t \in Thread, loc[t].pc \notin {"idle", "return"}, NEW new, NEW nodes,
         Publish(t, new, nodes), UNCHANGED <<vec, dat>>
  PROVE  Unanswered(t)
<1>1. Become(t, Restart(loc[t])) /\ out' = out
  <2>1. dat \in Seq(Records)
    BY DEF TreeInv, Nodes
  <2>2. \A r : Append(dat, r) # dat
    BY <2>1
  <2> QED
    BY <2>2 DEF Publish
<1>2. Keeps(Restart(loc[t]), loc[t])
  BY CallishIs, KeepsPlain
<1> QED
  BY <1>1, <1>2, KeepsStep

\* An insertion that changes nothing leaves its call unanswered.
LEMMA InsertUnanswered ==
  ASSUME TreeInv, NEW t \in Thread, UNCHANGED <<vec, dat>>,
         InsertFirst(t) \/ InsertUp(t) \/ InsertDown(t) \/ InsertLast(t) \/ InsertMid(t)
  PROVE  Unanswered(t)
<1>1. loc[t].pc \notin {"idle", "return"}
  BY DEF InsertFirst, InsertUp, InsertDown, InsertLast, InsertMid
<1>2. \/ \E new, nodes : Publish(t, new, nodes)
      \/ Become(t, Stuck(loc[t])) /\ out' = out
  BY DEF InsertFirst, InsertUp, InsertDown, InsertLast, InsertMid, Quiet
<1>3. Keeps(Stuck(loc[t]), loc[t])
  BY <1>1, CallishIs, KeepsPlain
<1> QED
  BY <1>1, <1>2, <1>3, PublishUnanswered, KeepsStep

\* What the invariant says of the records and the calls.
Plain(D, L) ==
  /\ Singles(D, L) /\ \A d \in 1 .. Len(D) : D[d].ref > 0
  /\ \A t \in Thread :
       /\ L[t].pc = "idle" => L[t].goal = "NONE"
       /\ L[t].pc # "idle" => L[t].goal \in {"FIND", "INSERT"} /\ L[t].key \in Keys

\* The invariant says so.
LEMMA PlainIs ==
  ASSUME NEW V, NEW D, NEW L, NEW R, Nodes(V, D), Store(V, D, R),
         \A t \in Thread : Local(V, D, L[t]) /\ \E miss, see : Knows(V, D, R, L[t], miss, see)
  PROVE  Plain(D, L)
<1>1. D \in Seq(Records)
  BY DEF Nodes
<1>2. \A t \in Thread : L[t].pc \in AddPoints
  BY DEF Knows
<1>3. /\ \A d, e \in 1 .. Len(D) : D[d].key = D[e].key => d = e
      /\ \A d \in 1 .. Len(D) : D[d].ref > 0
  BY DEF Store
<1>4. ASSUME NEW t \in Thread
      PROVE  /\ L[t].pc = "idle" => L[t].goal = "NONE"
             /\ L[t].pc # "idle" => L[t].goal \in {"FIND", "INSERT"} /\ L[t].key \in Keys
  BY AddGoal
<1> QED
  BY <1>1, <1>2, <1>3, <1>4 DEF Plain, Singles

\* The counts are as they were, or that of one key is one more.
LEMMA CountSame ==
  ASSUME Plain(dat, loc), Plain(dat', loc'), dat' = dat
  PROVE  Count' = Count
<1>1. Singles(dat, loc) /\ Singles(dat', loc')
  BY DEF Plain
<1>2. ASSUME NEW k \in Keys PROVE CountOf(dat', loc', k) = CountOf(dat, loc, k)
  <2>1. CASE Gone(dat, k)
    BY <1>1, <2>1, CountIs
  <2>2. CASE ~ Gone(dat, k)
    <3>1. PICK d \in 1 .. Len(dat) : dat[d].key = k
      BY <2>2 DEF Gone
    <3> QED
      BY <1>1, <3>1, CountIs
  <2> QED
    BY <2>1, <2>2
<1>3. Count = [k \in Keys |-> CountOf(dat, loc, k)] /\ Count' = [k \in Keys |-> CountOf(dat', loc', k)]
  BY DEF Count, CountOf, RefsOf
<1> QED
  BY <1>2, <1>3

\* A record is new, or has one reference more.
CountsOne(D, D2, key) ==
  \/ D2 = Append(D, [key |-> key, ref |-> 1, retired |-> FALSE])
  \/ \E d \in 1 .. Len(D) : D[d].key = key /\ D2 = [D EXCEPT ![d].ref = D[d].ref + 1]

\* Of key there is one more, of the others as many.
OneMoreOf(D, L, D2, L2, key) ==
  /\ CountOf(D2, L2, key) = CountOf(D, L, key) + 1
  /\ \A k : k # key => CountOf(D2, L2, k) = CountOf(D, L, k)

\* An insertion counts one more of its key, and the same of every other.
LEMMA CountMore ==
  ASSUME NEW D, NEW L, NEW D2, NEW L2, Singles(D, L), Singles(D2, L2), NEW key,
         CountsOne(D, D2, key)
  PROVE  OneMoreOf(D, L, D2, L2, key)
<1>1. D \in Seq(Records) /\ Len(D) \in Nat /\ \A d \in 1 .. Len(D) : D[d] \in Records
  BY DEF Singles
<1>2. CASE D2 = Append(D, [key |-> key, ref |-> 1, retired |-> FALSE])
  <2> DEFINE r == [key |-> key, ref |-> 1, retired |-> FALSE]
             e == Len(D) + 1
  <2>1. r.key = key /\ r.ref = 1
    OBVIOUS
  <2> HIDE DEF r
  <2>2. /\ Len(D2) = e /\ e \in 1 .. Len(D2) /\ D2[e] = r
        /\ \A d \in 1 .. Len(D) : D2[d] = D[d] /\ d \in 1 .. Len(D2) /\ d # e
    BY <1>1, <1>2 DEF r
  <2>3. \A d \in 1 .. Len(D2) : d \in 1 .. Len(D) \/ d = e
    BY <1>1, <2>2
  <2> HIDE DEF e
  <2>4. Gone(D, key)
    <3> SUFFICES ASSUME NEW d \in 1 .. Len(D), D[d].key = key PROVE FALSE
      BY DEF Gone
    <3>1. D2[d].key = D2[e].key /\ d \in 1 .. Len(D2) /\ e \in 1 .. Len(D2) /\ d # e
      BY <2>1, <2>2
    <3> QED
      BY <3>1 DEF Singles
  <2>5. CountOf(D2, L2, key) = 1 /\ CountOf(D, L, key) = 0
    BY <2>1, <2>2, <2>4, CountIs
  <2>6. ASSUME NEW k, k # key PROVE CountOf(D2, L2, k) = CountOf(D, L, k)
    <3>1. CASE Gone(D, k)
      <4>1. Gone(D2, k)
        BY <2>1, <2>2, <2>3, <2>6, <3>1 DEF Gone
      <4> QED
        BY <3>1, <4>1, CountIs
    <3>2. CASE ~ Gone(D, k)
      <4>1. PICK d \in 1 .. Len(D) : D[d].key = k
        BY <3>2 DEF Gone
      <4>2. d \in 1 .. Len(D2) /\ D2[d] = D[d]
        BY <2>2
      <4> QED
        BY <4>1, <4>2, CountIs
    <3> QED
      BY <3>1, <3>2
  <2> QED
    BY <2>5, <2>6 DEF OneMoreOf
<1>3. ASSUME NEW c \in 1 .. Len(D), D[c].key = key, D2 = [D EXCEPT ![c].ref = D[c].ref + 1]
      PROVE  OneMoreOf(D, L, D2, L2, key)
  <2> DEFINE r == [D[c] EXCEPT !.ref = D[c].ref + 1]
  <2>1. r.key = D[c].key /\ r.ref = D[c].ref + 1
    BY <1>1 DEF Records
  <2>2. D2 = [D EXCEPT ![c] = r]
    BY <1>3
  <2> HIDE DEF r
  <2>3. Len(D2) = Len(D) /\ D2[c] = r /\ \A d \in 1 .. Len(D) : d # c => D2[d] = D[d]
    BY <1>1, <2>2
  <2>4. \A d \in 1 .. Len(D) : D2[d].key = D[d].key
    BY <2>1, <2>3
  <2>5. CountOf(D2, L2, key) = CountOf(D, L, key) + 1
    <3>1. c \in 1 .. Len(D2) /\ D2[c].key = key
      BY <1>3, <2>3, <2>4
    <3>2. CountOf(D2, L2, key) = D2[c].ref
      BY <3>1, CountIs
    <3>3. CountOf(D, L, key) = D[c].ref
      BY <1>3, CountIs
    <3> QED
      BY <2>1, <2>3, <3>2, <3>3
  <2>6. ASSUME NEW k, k # key PROVE CountOf(D2, L2, k) = CountOf(D, L, k)
    <3>1. CASE Gone(D, k)
      <4>1. Gone(D2, k)
        BY <2>3, <2>4, <3>1 DEF Gone
      <4> QED
        BY <3>1, <4>1, CountIs
    <3>2. CASE ~ Gone(D, k)
      <4>1. PICK d \in 1 .. Len(D) : D[d].key = k
        BY <3>2 DEF Gone
      <4>2. d \in 1 .. Len(D2) /\ D2[d] = D[d]
        BY <1>3, <2>3, <2>6, <4>1
      <4> QED
        BY <4>1, <4>2, CountIs
    <3> QED
      BY <3>1, <3>2
  <2> QED
    BY <2>5, <2>6 DEF OneMoreOf
<1> QED
  BY <1>2, <1>3 DEF CountsOne

\* The calls, as RefSet sees them.
CallOf(m) ==
  [op |-> m.goal, key |-> m.key, done |-> m.ret = OK /\ m.goal \in {"INSERT", "DELETE"}]

\* One thread's step changes its own call.
LEMMA CallsAre ==
  ASSUME NEW t \in Thread, TreeInv, loc' = [loc EXCEPT ![t] = loc'[t]]
  PROVE  /\ \A u \in Thread : Calls[u] = CallOf(loc[u])
         /\ Calls' = [Calls EXCEPT ![t] = CallOf(loc'[t])]
<1>1. /\ Calls = [u \in Thread |-> CallOf(loc[u])]
      /\ Calls' = [u \in Thread |-> CallOf(loc'[u])]
  BY DEF Calls, CallOf
<1>2. \A u \in Thread : u # t => loc'[u] = loc[u]
  BY DEF TreeInv
<1> QED
  BY <1>1, <1>2

-----------------------------------------------------------------------------
(* Every step is one of RefSet, or none.                                     *)

\* Nothing that RefSet sees changes, but perhaps the histories.
Unseen == Count' = Count /\ Calls' = Calls /\ out' = out

\* A call is an Invoke of RefSet.
LEMMA InvokeSet ==
  ASSUME TreeInv, Plain(dat, loc), Plain(dat', loc'), NEW t \in Thread, NEW op \in Operation,
         NEW key \in Keys, Call(t, op, key)
  PROVE  Set!Invoke(t)
<1> DEFINE m == [Restart(Idle) EXCEPT !.op = op, !.goal = op, !.key = key]
<1>1. m.goal = op /\ m.key = key /\ m.ret # OK
  BY DEF Restart, Idle, NOT_FOUND, OK
<1>2. \A code : /\ Answer(m, code).goal = op /\ Answer(m, code).key = key
                /\ Answer(m, code).ret = code
  BY DEF Restart, Idle, Answer
<1>3. Become(t, m) \/ \E code \in Trouble : Become(t, Answer(m, code))
  BY DEF Call
<1>4. Count' = Count /\ out' = out
  BY CountSame DEF Call
<1>5. loc[t].goal = "NONE"
  BY DEF Plain, Call
<1> HIDE DEF m
<1>6. PICK n : Become(t, n) /\ n.goal = op /\ n.key = key /\ n.ret # OK
  <2>1. \A code \in Trouble : code # OK
    BY TreeAssumption DEF OK, NOMEM, WAIT_AMT
  <2> QED
    BY <1>1, <1>2, <1>3, <2>1
<1>7. loc' = [loc EXCEPT ![t] = loc'[t]] /\ loc'[t] = n
  BY <1>6 DEF Become, TreeInv
<1>8. CallOf(n) = [op |-> op, key |-> key, done |-> FALSE]
  BY <1>6 DEF CallOf
<1>9. Calls' = [Calls EXCEPT ![t] = [op |-> op, key |-> key, done |-> FALSE]]
  BY <1>7, <1>8, CallsAre
<1>10. ~ Set!Called(t)
  BY <1>5 DEF Set!Called, Calls
<1>11. op \in Set!Operation
  BY DEF Set!Operation, Operation
<1> QED
  BY <1>4, <1>9, <1>10, <1>11 DEF Set!Invoke

\* A return is an Answer of RefSet: what it answers was so during the call.
LEMMA AnswerSet ==
  ASSUME TreeInv, Plain(dat, loc), Plain(dat', loc'), NEW t \in Thread, Return(t),
         NEW R, Knows(vec, dat, R, loc[t], t \in missed, t \in seen)
  PROVE  Set!Answer(t)
<1>1. loc[t].pc = "return" /\ Become(t, Idle) /\ out' = [out EXCEPT ![t] = loc[t].ret] /\ dat' = dat
  BY DEF Return
<1>2. loc' = [loc EXCEPT ![t] = loc'[t]] /\ loc'[t] = Idle
  BY <1>1 DEF Become, TreeInv
<1>3. Count' = Count
  BY <1>1, CountSame
<1>4. CallOf(Idle) = Set!NoCall
  BY DEF CallOf, Idle, Set!NoCall, NOT_FOUND, OK
<1>5. Calls' = [Calls EXCEPT ![t] = Set!NoCall] /\ Calls[t] = CallOf(loc[t])
  BY <1>2, <1>4, CallsAre
<1>6. loc[t].goal \in {"FIND", "INSERT"} /\ loc[t].op = loc[t].goal
  BY <1>1 DEF Plain, Knows
<1>7. /\ Calls[t].op = loc[t].goal
      /\ Calls[t].done <=> loc[t].ret = OK /\ loc[t].goal = "INSERT"
  <2>1. /\ Calls[t].op = loc[t].goal
        /\ Calls[t].done = (loc[t].ret = OK /\ loc[t].goal \in {"INSERT", "DELETE"})
    BY <1>5 DEF CallOf
  <2> QED
    BY <1>6, <2>1
<1>8. Set!Called(t)
  BY <1>6, <1>7 DEF Set!Called
<1>9. \/ loc[t].ret \in Trouble
      \/ loc[t].op = "FIND" /\ loc[t].ret = OK /\ t \in seen
      \/ loc[t].op = "FIND" /\ loc[t].ret \in {NOT_FOUND, NullCode} /\ t \in missed
      \/ loc[t].op = "INSERT" /\ loc[t].ret = OK
  BY <1>1 DEF Knows
<1>10. CASE loc[t].ret \in Trouble
  <2>1. loc[t].ret # OK
    BY <1>10, TreeAssumption DEF OK, NOMEM, WAIT_AMT
  <2>2. ~ Calls[t].done
    BY <1>7, <2>1
  <2> QED
    BY <1>1, <1>3, <1>5, <1>8, <1>10, <2>2 DEF Set!Answer
<1>11. CASE loc[t].op = "FIND" /\ loc[t].ret = OK /\ t \in seen
  <2>1. Set!Open(t, "FIND")
    BY <1>6, <1>7, <1>11 DEF Set!Open
  <2> QED
    BY <1>1, <1>3, <1>5, <1>8, <1>11, <2>1 DEF Set!Answer
<1>12. CASE loc[t].op = "FIND" /\ loc[t].ret \in {NOT_FOUND, NullCode} /\ t \in missed
  <2>1. Set!Open(t, "FIND")
    BY <1>6, <1>7, <1>12 DEF Set!Open
  <2> QED
    BY <1>1, <1>3, <1>5, <1>8, <1>12, <2>1 DEF Set!Answer
<1>13. CASE loc[t].op = "INSERT" /\ loc[t].ret = OK
  <2>1. Calls[t].done
    BY <1>6, <1>7, <1>13
  <2> QED
    BY <1>1, <1>3, <1>5, <1>8, <1>13, <2>1 DEF Set!Answer
<1> QED
  BY <1>9, <1>10, <1>11, <1>12, <1>13

\* A call in progress has not done its work.
LEMMA NotDone ==
  ASSUME TreeInv, NEW R, NEW t \in Thread, loc[t].pc \notin {"idle", "return"},
         NEW miss, NEW see, Knows(vec, dat, R, loc[t], miss, see)
  PROVE  /\ loc[t] \in Locals /\ loc[t].key \in Keys /\ loc[t].op = loc[t].goal
         /\ loc[t].ret # OK /\ loc[t].op \in {"FIND", "INSERT"}
<1>1. loc[t].op = loc[t].goal
  BY DEF Knows
<1>2. loc[t].ret = NOT_FOUND /\ loc[t] \in Locals /\ loc[t].key \in Keys /\ loc[t].op \in {"FIND", "INSERT"}
  BY AddCall
<1> QED
  BY <1>1, <1>2 DEF NOT_FOUND, OK

\* A record put in or counted once more is an InsertKey of RefSet.
LEMMA InsertSet ==
  ASSUME TreeInv, Plain(dat, loc), Plain(dat', loc'), NEW t \in Thread,
         loc[t] \in Locals, loc[t].key \in Keys, loc[t].goal = "INSERT", loc[t].ret # OK,
         loc' = [loc EXCEPT ![t] = Answer(loc[t], OK)], out' = out,
         CountsOne(dat, dat', loc[t].key)
  PROVE  Set!InsertKey(t)
<1> DEFINE key == loc[t].key
           n == Answer(loc[t], OK)
<1>1. loc' = [loc EXCEPT ![t] = loc'[t]] /\ loc'[t] = n
  BY DEF TreeInv
<1>2. n.goal = "INSERT" /\ n.key = key /\ n.ret = OK
  BY DEF Answer, Locals
<1>3. CallOf(loc[t]) = [op |-> "INSERT", key |-> key, done |-> FALSE]
  BY DEF CallOf
<1> HIDE DEF n
<1>4. CallOf(n) = [op |-> "INSERT", key |-> key, done |-> TRUE]
  BY <1>2 DEF CallOf
<1>5. Calls[t] = CallOf(loc[t]) /\ Calls' = [Calls EXCEPT ![t] = CallOf(n)]
  BY <1>1, CallsAre
<1>6. Calls' = [Calls EXCEPT ![t].done = TRUE]
  <2> DEFINE c == Calls[t]
             e == CallOf(n)
             d == [c EXCEPT !.done = TRUE]
  <2>1. /\ c = [op |-> "INSERT", key |-> key, done |-> FALSE]
        /\ e = [op |-> "INSERT", key |-> key, done |-> TRUE]
    BY <1>3, <1>4, <1>5
  <2> HIDE DEF c, e, key
  <2>2. /\ d = [x \in {"op", "key", "done"} |-> d[x]]
        /\ e = [x \in {"op", "key", "done"} |-> e[x]]
    BY <2>1
  <2>3. d.op = e.op /\ d.key = e.key
    BY <2>1
  <2>4. d.done = e.done
    BY <2>1
  <2> HIDE DEF d
  <2>5. d = e
    BY <2>2, <2>3, <2>4
  <2> QED
    BY <1>5, <2>5 DEF c, d, e
<1>7. Set!Open(t, "INSERT") /\ Calls[t].key = key
  BY <1>3, <1>5 DEF Set!Open
<1>8. /\ CountOf(dat', loc', key) = CountOf(dat, loc, key) + 1
      /\ \A k : k # key => CountOf(dat', loc', k) = CountOf(dat, loc, k)
  <2>1. Singles(dat, loc) /\ Singles(dat', loc') /\ CountsOne(dat, dat', key)
    BY DEF Plain
  <2> HIDE DEF key
  <2>2. OneMoreOf(dat, loc, dat', loc', key)
    BY <2>1, CountMore
  <2> QED
    BY <2>2 DEF OneMoreOf
<1>9. Count = [k \in Keys |-> CountOf(dat, loc, k)] /\ Count' = [k \in Keys |-> CountOf(dat', loc', k)]
  BY DEF Count, CountOf, RefsOf
<1>10. Count' = [Count EXCEPT ![key] = Count[key] + 1]
  <2> HIDE DEF key
  <2>1. key \in Keys
    BY DEF key
  <2> QED
    BY <1>8, <1>9, <2>1
<1> QED
  BY <1>6, <1>7, <1>10 DEF Set!InsertKey, Set!Finish

\* A step that leaves the call as it is.
LEMMA UnansweredSet ==
  ASSUME TreeInv, Plain(dat, loc), Plain(dat', loc'), NEW t \in Thread, Unanswered(t),
         loc[t].ret # OK
  PROVE  Unseen
<1>1. dat' = dat /\ out' = out /\ loc' = [loc EXCEPT ![t] = loc'[t]] /\ Keeps(loc'[t], loc[t])
  BY DEF Unanswered
<1>2. CallOf(loc'[t]) = CallOf(loc[t])
  BY <1>1 DEF Keeps, CallOf
<1>3. Calls[t] = CallOf(loc[t]) /\ Calls' = [Calls EXCEPT ![t] = CallOf(loc'[t])]
  BY <1>1, CallsAre
<1>4. Calls' = Calls
  <2>1. Calls = [u \in Thread |-> Calls[u]]
    BY DEF Calls
  <2> QED
    BY <1>2, <1>3, <2>1
<1> QED
  BY <1>1, <1>4, CountSame DEF Unseen

\* Every step of a thread is one of RefSet, or RefSet sees nothing of it.
LEMMA StepSet ==
  ASSUME TreeInv, Adding, Kept, Plain(dat, loc), Plain(dat', loc'), NEW R, Store(vec, dat, R),
         NEW t \in Thread, Step(t), Knows(vec, dat, R, loc[t], t \in missed, t \in seen)
  PROVE  Set!Invoke(t) \/ Set!InsertKey(t) \/ Set!Answer(t) \/ Unseen
<1>1. loc[t].pc \in AddPoints
  BY DEF Knows
<1>2. ASSUME NEW op \in Operation, NEW key \in Keys, Call(t, op, key) PROVE Set!Invoke(t)
  BY <1>2, InvokeSet
<1>3. CASE Return(t)
  BY <1>3, AnswerSet
<1>4. CASE Forward(t) \/ ReadRight(t) \/ ReadDown(t) \/ Gid(t) \/ GidNext(t) \/ InsertTrouble(t)
  <2>1. loc[t].pc \notin {"idle", "return"}
    BY <1>4 DEF Forward, ReadRight, ReadDown, Gid, GidNext, InsertTrouble
  <2> QED
    BY <1>4, <2>1, ReadUnanswered, NotDone, UnansweredSet
<1>5. CASE InsertFirst(t) \/ InsertUp(t) \/ InsertDown(t) \/ InsertLast(t) \/ InsertMid(t)
  <2>1. loc[t].pc \notin {"idle", "return"}
    BY <1>5 DEF InsertFirst, InsertUp, InsertDown, InsertLast, InsertMid
  <2>2. loc[t].op = "INSERT"
    BY <1>5 DEF Knows, Inserting, InsertFirst, InsertUp, InsertDown, InsertLast, InsertMid
  <2>3. out' = out
    BY <1>5 DEF InsertFirst, InsertUp, InsertDown, InsertLast, InsertMid, Publish, Quiet
  <2>4. PICK miss \in [Thread -> BOOLEAN] : \A u \in Thread : miss[u] = (u \in missed)
    BY Flags
  <2>5. PICK see \in [Thread -> BOOLEAN] : \A u \in Thread : see[u] = (u \in seen)
    BY Flags
  <2>6. miss[t] \in BOOLEAN /\ Knows(vec, dat, R, loc[t], miss[t], see[t])
    BY <2>4, <2>5
  <2>7. Learned(t, R, miss[t], see[t]) \/ Inserted(t, R)
    BY <1>5, <2>6, InsertFirstKnows, InsertUpKnows, InsertDownKnows, InsertLastKnows, InsertMidKnows
  <2>8. CASE Learned(t, R, miss[t], see[t])
    <3>1. UNCHANGED <<vec, dat>>
      BY <2>8 DEF Learned
    <3> QED
      BY <1>5, <2>1, <2>6, <3>1, InsertUnanswered, NotDone, UnansweredSet
  <2>9. CASE Inserted(t, R)
    <3>1. /\ loc' = [loc EXCEPT ![t] = Answer(loc[t], OK)]
          /\ CountsOne(dat, dat', loc[t].key)
      BY <2>9 DEF Inserted, CountsOne
    <3> QED
      BY <2>1, <2>2, <2>3, <2>6, <3>1, NotDone, InsertSet
  <2> QED
    BY <2>7, <2>8, <2>9
<1>6. CASE Found(t)
  <2>1. loc[t].pc = "found" /\ loc[t].pc \notin {"idle", "return"}
    BY <1>6 DEF Found
  <2>2. out' = out
    BY <1>6 DEF Found
  <2>3. PICK miss \in [Thread -> BOOLEAN] : \A u \in Thread : miss[u] = (u \in missed)
    BY Flags
  <2>4. PICK see \in [Thread -> BOOLEAN] : \A u \in Thread : see[u] = (u \in seen)
    BY Flags
  <2>5. miss[t] \in BOOLEAN /\ Knows(vec, dat, R, loc[t], miss[t], see[t])
    BY <2>3, <2>4
  <2>6. ~ Gone(dat, loc[t].key) => see[t]
    BY <2>1, <2>4 DEF Kept
  <2>7. Answers(t)
    BY <1>6, <2>5, <2>6, FoundRecord
  <2>8. /\ loc[t] \in Locals /\ loc[t].key \in Keys /\ loc[t].op = loc[t].goal
        /\ loc[t].ret # OK /\ loc[t].op \in {"FIND", "INSERT"}
    BY <2>1, <2>5, NotDone
  <2>9. CASE loc[t].op = "FIND"
    <3>1. loc' = [loc EXCEPT ![t] = Answer(loc[t], OK)] /\ dat' = dat
      BY <2>7, <2>9 DEF Answers
    <3>2. loc' = [loc EXCEPT ![t] = loc'[t]] /\ loc'[t] = Answer(loc[t], OK)
      BY <3>1 DEF TreeInv
    <3>3. CallOf(Answer(loc[t], OK)) = CallOf(loc[t])
      BY <2>8, <2>9 DEF CallOf, Answer, Locals
    <3>4. Calls[t] = CallOf(loc[t]) /\ Calls' = [Calls EXCEPT ![t] = CallOf(loc'[t])]
      BY <3>2, CallsAre
    <3>5. Calls' = Calls
      <4>1. Calls = [u \in Thread |-> Calls[u]]
        BY DEF Calls
      <4> QED
        BY <3>2, <3>3, <3>4, <4>1
    <3> QED
      BY <2>2, <3>1, <3>5, CountSame DEF Unseen
  <2>10. CASE loc[t].op = "INSERT"
    <3>1. loc' = [loc EXCEPT ![t] = Answer(loc[t], OK)] /\ CountsOne(dat, dat', loc[t].key)
      BY <2>7, <2>10 DEF Answers, CountsOne
    <3> QED
      BY <2>2, <2>8, <2>10, <3>1, InsertSet
  <2> QED
    BY <2>8, <2>9, <2>10
<1>7. /\ ~ RightUnlink(t) /\ ~ RightInvalidate(t) /\ ~ Reread(t) /\ ~ DownUnlink(t)
      /\ ~ DownValidate(t) /\ ~ RereadAny(t) /\ ~ Orphan(t) /\ ~ FreeLoad(t) /\ ~ FreeStore(t)
      /\ ~ GidUnlink(t) /\ ~ GidInvalidate(t) /\ ~ GidReread(t) /\ ~ Delete(t) /\ ~ Undo(t)
  BY <1>1 DEF AddPoints, Walking, Inserting, RightUnlink, RightInvalidate, Reread, DownUnlink,
     DownValidate, RereadAny, Orphan, FreeLoad, FreeStore, GidUnlink, GidInvalidate, GidReread,
     Delete, Undo
<1> QED
  BY <1>2, <1>3, <1>4, <1>5, <1>6, <1>7 DEF Step

\* The histories are those of calls in progress.
Current == \A t \in Thread : t \in missed \/ t \in seen => loc[t].pc # "idle"

\* A step that keeps the histories of RefSet keeps them to calls in progress.
LEMMA CurrentNext ==
  ASSUME Plain(dat', loc'), Set!Histories
  PROVE  Current'
<1> SUFFICES ASSUME NEW t \in Thread, t \in missed' \/ t \in seen' PROVE loc'[t].pc # "idle"
  BY DEF Current
<1>1. Calls'[t].op # "NONE"
  BY DEF Set!Histories, Set!Called
<1>2. loc'[t].goal # "NONE"
  BY <1>1 DEF Calls
<1> QED
  BY <1>2 DEF Plain

\* If RefSet sees nothing else change, the histories do not change.
LEMMA UnseenSame ==
  ASSUME Sides, Kept, Current, Plain(dat, loc), Unseen, Set!Histories
  PROVE  missed' = missed /\ seen' = seen
<1>1. /\ missed' = {t \in Thread : Set!Called(t)' /\ (t \in missed \/ Set!Absent(t)')}
      /\ seen' = {t \in Thread : Set!Called(t)' /\ (t \in seen \/ (Count'[Calls'[t].key] > 0))}
  BY DEF Set!Histories
<1>2. ASSUME NEW t \in Thread
      PROVE  /\ t \in missed' <=> t \in missed
             /\ t \in seen' <=> t \in seen
  <2> DEFINE k == loc[t].key
  <2>1. Calls'[t].op = loc[t].goal /\ Calls'[t].key = k
    BY DEF Unseen, Calls
  <2>2. CASE loc[t].pc = "idle"
    <3>1. loc[t].goal = "NONE"
      BY <2>2 DEF Plain
    <3>2. t \notin missed' /\ t \notin seen'
      BY <1>1, <2>1, <3>1 DEF Set!Called
    <3> QED
      BY <2>2, <3>2 DEF Current
  <2>3. CASE loc[t].pc # "idle"
    <3>1. loc[t].goal \in {"FIND", "INSERT"} /\ k \in Keys
      BY <2>3 DEF Plain
    <3>2. /\ t \in missed' <=> t \in missed \/ Count'[k] = 0
          /\ t \in seen' <=> t \in seen \/ Count'[k] > 0
      BY <1>1, <2>1, <3>1 DEF Set!Called, Set!Absent, Set!Open
    <3>3. Count'[k] = CountOf(dat, loc, k) /\ Singles(dat, loc)
      BY <3>1, CountsAre DEF Unseen, Plain
    <3>4. CASE Gone(dat, k)
      <4>1. Count'[k] = 0 /\ t \in missed
        BY <2>3, <3>3, <3>4, CountIs DEF Kept
      <4> QED
        BY <3>2, <4>1
    <3>5. CASE ~ Gone(dat, k)
      <4>1. PICK d \in 1 .. Len(dat) : dat[d].key = k
        BY <3>5 DEF Gone
      <4>2. Count'[k] = dat[d].ref /\ dat[d].ref > 0 /\ dat[d].ref \in Nat
        <5>1. dat \in Seq(Records)
          BY <3>3 DEF Singles
        <5>2. dat[d] \in Records
          BY <5>1
        <5>3. Count'[k] = dat[d].ref
          BY <3>3, <4>1, CountIs
        <5>4. dat[d].ref > 0
          BY DEF Plain
        <5> QED
          BY <5>2, <5>3, <5>4 DEF Records
      <4>3. t \in seen
        BY <2>3, <3>5 DEF Kept
      <4> QED
        BY <3>2, <4>2, <4>3
    <3> QED
      BY <3>4, <3>5
  <2> QED
    BY <2>2, <2>3
<1>3. missed' \subseteq Thread /\ seen' \subseteq Thread
  BY <1>1
<1> QED
  BY <1>2, <1>3 DEF Sides

\* Every step is a step of RefSet, or changes nothing that it sees.
LEMMA NextSet ==
  ASSUME TreeInv, Sides, Adding, AddInv, Kept, Current, [Next]_vars
  PROVE  Current' /\ [Set!Next]_(Set!vars)
<1>1. PICK R \in [1 .. Len(vec) -> Nat] :
        /\ Store(vec, dat, R)
        /\ \A t \in Thread : Knows(vec, dat, R, loc[t], t \in missed, t \in seen)
  BY DEF AddInv
<1>2. Plain(dat, loc)
  <2>1. \A t \in Thread : Local(vec, dat, loc[t]) /\ \E miss, see : Knows(vec, dat, R, loc[t], miss, see)
    BY <1>1 DEF TreeInv
  <2> QED
    BY <1>1, <2>1, PlainIs DEF TreeInv
<1>3. TreeInv' /\ AddInv'
  BY NextAdd
<1>4. Plain(dat', loc')
  <2>1. PICK S : /\ Store(vec', dat', S)
                 /\ \A t \in Thread : \E miss, see : Knows(vec', dat', S, loc'[t], miss, see)
    BY <1>3 DEF AddInv
  <2>2. Nodes(vec', dat') /\ \A t \in Thread : Local(vec', dat', loc'[t])
    BY <1>3 DEF TreeInv
  <2> QED
    BY <2>1, <2>2, PlainIs
<1>5. CASE UNCHANGED vars
  <2>1. vec' = vec /\ dat' = dat /\ loc' = loc /\ out' = out /\ missed' = missed /\ seen' = seen
    BY <1>5 DEF vars
  <2> QED
    BY <2>1 DEF Current, Set!vars, Count, Calls
<1>6. CASE Next
  <2>1. Set!Histories
    BY <1>6 DEF Next
  <2>2. Current'
    BY <1>4, <2>1, CurrentNext
  <2>3. Unseen => [Set!Next]_(Set!vars)
    BY <1>2, <2>1, UnseenSame DEF Unseen, Set!vars
  <2>4. ASSUME NEW t \in Thread, Step(t) PROVE [Set!Next]_(Set!vars)
    <3>1. Set!Invoke(t) \/ Set!InsertKey(t) \/ Set!Answer(t) \/ Unseen
      BY <1>1, <1>2, <1>4, <2>4, StepSet
    <3> QED
      BY <2>1, <2>3, <3>1 DEF Set!Next
  <2>5. CASE UNCHANGED <<vec, dat, loc, out, todo, budget>>
    <3>1. dat' = dat /\ loc' = loc /\ out' = out
      BY <2>5
    <3>2. Calls' = Calls
      BY <3>1 DEF Calls
    <3>3. Count' = Count
      BY <1>2, <1>4, <3>1, CountSame
    <3>4. Unseen
      BY <3>1, <3>2, <3>3 DEF Unseen
    <3> QED
      BY <2>2, <2>3, <3>4
  <2>6. [Set!Next]_(Set!vars)
    BY <1>6, <2>4, <2>5 DEF Next
  <2> QED
    BY <2>2, <2>6
<1> QED
  BY <1>5, <1>6

\* At first no key is counted, and nobody calls.
LEMMA InitSet ==
  ASSUME Init
  PROVE  Set!Init /\ Current
<1>1. dat = <<>> /\ loc = [t \in Thread |-> Idle] /\ out = [t \in Thread |-> OK] /\ missed = {} /\ seen = {}
  BY DEF Init
<1>2. Singles(dat, loc)
  <2>1. dat \in Seq(Records) /\ Len(dat) = 0
    BY <1>1
  <2>2. \A t \in Thread : loc[t].pc = "idle"
    BY <1>1 DEF Idle
  <2> QED
    BY <2>1, <2>2 DEF Singles, AddPoints
<1>3. Count = [k \in Keys |-> 0]
  <2>1. Count = [k \in Keys |-> CountOf(dat, loc, k)]
    BY DEF Count, CountOf, RefsOf
  <2>2. \A k : Gone(dat, k)
    BY <1>1 DEF Gone
  <2> QED
    BY <1>2, <2>1, <2>2, CountIs
<1>4. Calls = [t \in Thread |-> Set!NoCall]
  BY <1>1 DEF Calls, Set!NoCall, Idle, OK, NOT_FOUND
<1>5. Current
  BY <1>1 DEF Current
<1> QED
  BY <1>1, <1>3, <1>4, <1>5 DEF Set!Init

\* Threads that only add and look up see a multiset of keys: the walk, its five
\* insertions and their lost races refine RefSet.
THEOREM AdditionsCounted == Adding => (Spec => KeysCounted)
<1> SUFFICES ASSUME Adding PROVE Spec => KeysCounted
  OBVIOUS
<1>1. Init => TreeInv /\ Sides /\ AddInv /\ Kept /\ Current /\ Set!Init
  BY InitInv, InitAdd, InitSet
<1>2. TreeInv /\ Sides /\ AddInv /\ Kept /\ Current /\ [Next]_vars
      => TreeInv' /\ Sides' /\ AddInv' /\ Kept' /\ Current'
  BY NextAdd, NextSides, NextSet
<1>3. TreeInv /\ Sides /\ AddInv /\ Kept /\ Current /\ [Next]_vars => [Set!Next]_(Set!vars)
  BY NextSet
<1> QED
  BY <1>1, <1>2, <1>3, PTL DEF Spec, KeysCounted, Set!Spec

-----------------------------------------------------------------------------
(* What the head leads to.                                                  *)

\* The nodes a set of nodes leads to in one step, and those in the set.
Wider(s) == s \union UNION {Below(v) : v \in s}

\* The nodes within n steps of the head, as Reachable takes them.
ReachOf(g) == [n \in Nat |-> IF n = 0 THEN {Head1} ELSE Wider(g[n - 1])]
Reach == CHOOSE g : g = ReachOf(g)

\* What Reachable is.
LEMMA ReachableIs == Reachable = Reach[Len(vec)]
BY DEF Reachable, Reach, ReachOf, Wider

\* A node leads to nodes.
LEMMA BelowNodes ==
  ASSUME Nodes(vec, dat), NEW v \in 1 .. Len(vec)
  PROVE  Below(v) \subseteq 1 .. Len(vec)
<1>1. WordOf(vec, dat, v, vec[v]) /\ Len(vec) \in Nat
  BY DEF Nodes
<1> QED
  BY <1>1 DEF Below, WordOf, Inner

\* The paths of n steps from the head, a step being one down or right, or none.
Path(n) ==
  {p \in [0 .. n -> 1 .. Len(vec)] :
     p[0] = Head1 /\ \A i \in 0 .. n - 1 : p[i + 1] \in {p[i]} \union Below(p[i])}

\* The recursion has a solution: where the paths end.
LEMMA ReachIs ==
  ASSUME Nodes(vec, dat)
  PROVE  Reach = ReachOf(Reach)
<1> DEFINE N == 1 .. Len(vec)
           h == [n \in Nat |-> {p[n] : p \in Path(n)}]
<1>1. Head1 \in N
  BY DEF Nodes, Head1
<1>2. h[0] = {Head1}
  <2>1. [i \in 0 .. 0 |-> Head1] \in Path(0)
    BY <1>1 DEF Path
  <2>2. \A p \in Path(0) : p[0] = Head1
    BY DEF Path
  <2> QED
    BY <2>1, <2>2
<1>3. ASSUME NEW n \in Nat PROVE h[n + 1] \subseteq Wider(h[n])
  <2> SUFFICES ASSUME NEW p \in Path(n + 1) PROVE p[n + 1] \in Wider(h[n])
    OBVIOUS
  <2> DEFINE q == [i \in 0 .. n |-> p[i]]
  <2>1. /\ p[0] = Head1
        /\ \A i \in 0 .. n : p[i] \in N /\ p[i + 1] \in {p[i]} \union Below(p[i])
    <3>1. /\ p \in [0 .. n + 1 -> N] /\ p[0] = Head1
          /\ \A i \in 0 .. (n + 1) - 1 : p[i + 1] \in {p[i]} \union Below(p[i])
      BY DEF Path
    <3>2. \A i \in 0 .. n : i \in 0 .. n + 1 /\ i \in 0 .. (n + 1) - 1
      OBVIOUS
    <3> QED
      BY <3>1, <3>2
  <2>2. q \in Path(n) /\ q[n] = p[n]
    <3>1. q \in [0 .. n -> N] /\ q[0] = Head1 /\ q[n] = p[n]
      BY <2>1
    <3>2. ASSUME NEW i \in 0 .. n - 1 PROVE q[i + 1] \in {q[i]} \union Below(q[i])
      <4>1. q[i] = p[i] /\ q[i + 1] = p[i + 1] /\ i \in 0 .. n
        OBVIOUS
      <4> HIDE DEF q
      <4> QED
        BY <2>1, <4>1
    <3> HIDE DEF q
    <3> QED
      BY <3>1, <3>2 DEF Path
  <2>3. p[n] \in h[n]
    BY <2>2
  <2>4. p[n + 1] \in {p[n]} \union Below(p[n])
    BY <2>1
  <2> QED
    BY <2>3, <2>4 DEF Wider
<1>4. ASSUME NEW n \in Nat PROVE Wider(h[n]) \subseteq h[n + 1]
  <2> SUFFICES ASSUME NEW y \in Wider(h[n]) PROVE y \in h[n + 1]
    OBVIOUS
  <2>1. PICK p \in Path(n) : y \in {p[n]} \union Below(p[n])
    BY DEF Wider
  <2>2. /\ p \in [0 .. n -> N] /\ p[0] = Head1
        /\ \A i \in 0 .. n - 1 : p[i + 1] \in {p[i]} \union Below(p[i])
    BY DEF Path
  <2>3. y \in N
    <3>1. p[n] \in 1 .. Len(vec)
      BY <2>2
    <3>2. Below(p[n]) \subseteq 1 .. Len(vec)
      BY <3>1, BelowNodes
    <3> QED
      BY <2>1, <3>1, <3>2
  <2> DEFINE q == [i \in 0 .. n + 1 |-> IF i = n + 1 THEN y ELSE p[i]]
  <2>4. q[0] = Head1 /\ q[n + 1] = y /\ \A i \in 0 .. n : q[i] = p[i]
    BY <2>2
  <2>5. q \in [0 .. n + 1 -> N]
    BY <2>2, <2>3
  <2>6. ASSUME NEW i \in 0 .. n PROVE q[i + 1] \in {q[i]} \union Below(q[i])
    <3>1. CASE i = n
      BY <2>1, <2>4, <3>1
    <3>2. CASE i # n
      <4>1. i \in 0 .. n - 1 /\ i + 1 \in 0 .. n
        BY <3>2
      <4> HIDE DEF q
      <4> QED
        BY <2>2, <2>4, <4>1
    <3> QED
      BY <3>1, <3>2
  <2> HIDE DEF q
  <2>7. q \in Path(n + 1)
    BY <2>4, <2>5, <2>6 DEF Path
  <2> QED
    BY <2>4, <2>7
<1>5. ASSUME NEW n \in Nat PROVE h[n] = IF n = 0 THEN {Head1} ELSE Wider(h[n - 1])
  <2>1. CASE n = 0
    BY <1>2, <2>1
  <2>2. CASE n # 0
    <3>1. n - 1 \in Nat /\ (n - 1) + 1 = n
      BY <2>2
    <3> HIDE DEF h
    <3>2. h[(n - 1) + 1] = Wider(h[n - 1])
      BY <1>3, <1>4, <3>1
    <3> QED
      BY <2>2, <3>1, <3>2
  <2> QED
    BY <2>1, <2>2
<1>6. h = ReachOf(h)
  BY <1>5 DEF ReachOf
<1> QED
  BY <1>6 DEF Reach


\* The nodes within n steps are nodes, the head among them, and are those within
\* one more.
LEMMA ReachSteps ==
  ASSUME Nodes(vec, dat)
  PROVE  /\ Reach[0] = {Head1}
         /\ \A n \in Nat : /\ Reach[n + 1] = Wider(Reach[n])
                           /\ Reach[n] \subseteq Reach[n + 1]
                           /\ Reach[n] \subseteq 1 .. Len(vec)
                           /\ Head1 \in Reach[n]
<1>1. Reach[0] = {Head1}
  BY ReachIs DEF ReachOf
<1>2. ASSUME NEW n \in Nat PROVE Reach[n + 1] = Wider(Reach[n])
  <2>1. n + 1 \in Nat /\ n + 1 # 0 /\ (n + 1) - 1 = n
    OBVIOUS
  <2>2. Reach[n + 1] = IF n + 1 = 0 THEN {Head1} ELSE Wider(Reach[(n + 1) - 1])
    BY <2>1, ReachIs DEF ReachOf
  <2> QED
    BY <2>1, <2>2
<1>3. \A n \in Nat : Reach[n] \subseteq Reach[n + 1]
  BY <1>2 DEF Wider
<1> DEFINE InSet(n) == Head1 \in Reach[n] /\ Reach[n] \subseteq 1 .. Len(vec)
           Bad == {n \in Nat : ~ InSet(n)}
<1>4. InSet(0)
  BY <1>1 DEF Nodes, Head1
<1>5. ASSUME NEW n \in Nat, InSet(n) PROVE InSet(n + 1)
  BY <1>2, <1>5, BelowNodes DEF Wider
<1>6. Bad = {}
  <2> SUFFICES ASSUME Bad # {} PROVE FALSE
    OBVIOUS
  <2>1. Bad \in SUBSET Nat
    OBVIOUS
  <2>2. PICK m \in Bad : \A k \in Bad : m <= k
    <3> HIDE DEF Bad
    <3> QED
      BY <2>1, LeastNat
  <2>3. m \in Nat /\ ~ InSet(m)
    OBVIOUS
  <2> HIDE DEF InSet
  <2>4. m - 1 \in Nat /\ (m - 1) + 1 = m /\ ~ (m <= m - 1)
    BY <1>4, <2>3
  <2>5. m - 1 \notin Bad
    <3> HIDE DEF Bad
    <3> QED
      BY <2>2, <2>4
  <2>6. InSet(m - 1)
    BY <2>4, <2>5
  <2>7. InSet((m - 1) + 1)
    BY <1>5, <2>4, <2>6
  <2> QED
    BY <2>3, <2>4, <2>7
<1> QED
  BY <1>1, <1>2, <1>3, <1>6

\* As many steps as there are nodes go everywhere: nothing else is below.
LEMMA ReachWhole ==
  ASSUME Nodes(vec, dat)
  PROVE  /\ Head1 \in Reachable /\ Reachable \subseteq 1 .. Len(vec)
         /\ \A v \in Reachable : Below(v) \subseteq Reachable
<1> DEFINE N == 1 .. Len(vec)
           Closed(n) == Reach[n + 1] = Reach[n]
           Large(n) == Closed(n) \/ Cardinality(Reach[n]) >= n + 1
           Bad == {n \in Nat : ~ Large(n)}
<1>1. Len(vec) \in Nat
  BY DEF Nodes
<1>2. IsFiniteSet(N) /\ Cardinality(N) = Len(vec)
  <2>1. ASSUME NEW n \in Nat PROVE IsFiniteSet(1 .. n) /\ Cardinality(1 .. n) = n
    <3>1. 1 \in Int /\ n \in Int /\ (IF 1 > n THEN 0 ELSE n - 1 + 1) = n
      OBVIOUS
    <3> QED
      BY <3>1, FS_Interval
  <2> QED
    BY <1>1, <2>1
<1>3. ASSUME NEW n \in Nat
      PROVE  /\ Reach[n] \subseteq N /\ IsFiniteSet(Reach[n])
             /\ Cardinality(Reach[n]) \in Nat /\ Cardinality(Reach[n]) <= Len(vec)
  <2> DEFINE r == Reach[n]
  <2>1. r \in SUBSET N
    BY ReachSteps
  <2> HIDE DEF r, N
  <2>2. IsFiniteSet(r) /\ Cardinality(r) <= Cardinality(N)
    BY <1>2, <2>1, FS_Subset
  <2>3. Cardinality(r) \in Nat
    BY <2>2, FS_CardinalityType
  <2> QED
    BY <1>2, <2>1, <2>2, <2>3 DEF r
<1>4. Large(0)
  <2>1. Cardinality(Reach[0]) = 1
    BY ReachSteps, FS_Singleton
  <2> QED
    BY <2>1
<1>5. ASSUME NEW n \in Nat, Large(n) PROVE Large(n + 1)
  <2>1. CASE Closed(n)
    <3>1. n + 1 \in Nat /\ Reach[n + 1] = Wider(Reach[n]) /\ Reach[(n + 1) + 1] = Wider(Reach[n + 1])
      BY ReachSteps
    <3>2. Closed(n + 1)
      BY <2>1, <3>1
    <3> QED
      BY <3>2
  <2>2. CASE ~ Closed(n)
    <3>1. Reach[n] \subseteq Reach[n + 1] /\ Reach[n] # Reach[n + 1]
      <4>1. Reach[n] \subseteq Reach[n + 1]
        BY ReachSteps
      <4> QED
        BY <2>2, <4>1
    <3>2. IsFiniteSet(Reach[n + 1]) /\ Cardinality(Reach[n + 1]) \in Nat /\ Cardinality(Reach[n]) \in Nat
      <4>1. n + 1 \in Nat
        OBVIOUS
      <4>2. \A i \in Nat : IsFiniteSet(Reach[i]) /\ Cardinality(Reach[i]) \in Nat
        BY <1>3
      <4> HIDE DEF N, Closed, Large, Bad
      <4> QED
        BY <4>1, <4>2
    <3>3. Cardinality(Reach[n]) < Cardinality(Reach[n + 1])
      <4> DEFINE r == Reach[n]
                 s == Reach[n + 1]
      <4>1. r \in SUBSET s /\ s # r /\ IsFiniteSet(s)
        BY <3>1, <3>2
      <4>2. Cardinality(r) \in Nat /\ Cardinality(s) \in Nat
        BY <3>2
      <4> HIDE DEF r, s
      <4>3. Cardinality(r) <= Cardinality(s) /\ Cardinality(s) # Cardinality(r)
        BY <4>1, FS_Subset
      <4>4. Cardinality(r) < Cardinality(s)
        BY <4>2, <4>3
      <4> QED
        BY <4>4 DEF r, s
    <3>4. Cardinality(Reach[n]) >= n + 1
      BY <1>5, <2>2
    <3>5. Cardinality(Reach[n + 1]) >= (n + 1) + 1
      BY <3>2, <3>3, <3>4
    <3> QED
      BY <3>5
  <2> QED
    BY <2>1, <2>2
<1>6. Bad = {}
  <2> SUFFICES ASSUME Bad # {} PROVE FALSE
    OBVIOUS
  <2>1. Bad \in SUBSET Nat
    OBVIOUS
  <2>2. PICK m \in Bad : \A k \in Bad : m <= k
    <3> HIDE DEF Bad
    <3> QED
      BY <2>1, LeastNat
  <2>3. m \in Nat /\ ~ Large(m)
    OBVIOUS
  <2> HIDE DEF Large
  <2>4. m - 1 \in Nat /\ (m - 1) + 1 = m /\ ~ (m <= m - 1)
    BY <1>4, <2>3
  <2>5. m - 1 \notin Bad
    <3> HIDE DEF Bad
    <3> QED
      BY <2>2, <2>4
  <2>6. Large(m - 1)
    BY <2>4, <2>5
  <2>7. Large((m - 1) + 1)
    BY <1>5, <2>4, <2>6
  <2> QED
    BY <2>3, <2>4, <2>7
<1>7. Closed(Len(vec))
  <2>1. Large(Len(vec))
    <3> HIDE DEF Large
    <3> QED
      BY <1>1, <1>6
  <2>2. ~ (Cardinality(Reach[Len(vec)]) >= Len(vec) + 1)
    BY <1>1, <1>3
  <2> QED
    BY <2>1, <2>2
<1>8. Reachable = Wider(Reachable)
  BY <1>1, <1>7, ReachSteps, ReachableIs
<1> QED
  BY <1>1, <1>8, ReachSteps, ReachableIs DEF Wider


\* No record has been taken out.
Unretired == \A d \in 1 .. Len(dat) : ~ dat[d].retired

\* The records the head leads to are all there are.
LEMMA AllLinked ==
  ASSUME TreeInv, NEW R, Store(vec, dat, R)
  PROVE  Linked = 1 .. Len(dat)
<1>1. Nodes(vec, dat) /\ Len(vec) \in Nat /\ Len(dat) \in Nat /\ Width \in Nat
  BY WidthIs DEF TreeInv, Nodes
<1>2. /\ Head1 \in Reachable /\ Reachable \subseteq 1 .. Len(vec)
      /\ \A v \in Reachable : Below(v) \subseteq Reachable
  BY <1>1, ReachWhole
<1>3. \A v \in 1 .. Len(vec) : WordOf(vec, dat, v, vec[v])
  BY <1>1 DEF Nodes
<1>4. Linked \subseteq 1 .. Len(dat)
  <2> SUFFICES ASSUME NEW v \in Reachable, vec[v].ty = "DATA", vec[v].rd # Nil
               PROVE  vec[v].rd \in 1 .. Len(dat)
    BY DEF Linked
  <2>1. vec[v].rd \in 0 .. Len(dat)
    BY <1>2, <1>3 DEF WordOf
  <2> QED
    BY <1>1, <2>1 DEF Nil
<1>5. ASSUME NEW d \in 1 .. Len(dat) PROVE d \in Linked
  <2> DEFINE k == dat[d].key
             S == {v \in Reachable : On(vec, R, v, k)}
             Rest == {Width - vec[v].pos : v \in S}
  <2>1. Head1 \in S
    <3>1. Head1 \in 1 .. Len(vec)
      BY <1>2
    <3>2. vec[Head1].pos = -1
      BY <1>3, <3>1 DEF WordOf
    <3>3. Start(vec, Head1) = 0
      BY <3>2 DEF Start
    <3> QED
      BY <1>2, <3>3, PreNone DEF On
  <2>2. ASSUME NEW v \in S PROVE vec[v].pos \in Int /\ Width - vec[v].pos \in Nat
    <3>1. WordOf(vec, dat, v, vec[v])
      BY <1>2, <1>3
    <3>2. vec[v].pos \in -1 .. Width - 1
      BY <3>1, WidthIs DEF WordOf
    <3> QED
      BY <1>1, <3>2
  <2>3. Rest \in SUBSET Nat /\ Rest # {}
    BY <2>1, <2>2
  <2>4. PICK m \in Rest : \A n \in Rest : m <= n
    <3> HIDE DEF Rest
    <3> QED
      BY <2>3, LeastNat
  <2>5. PICK v \in S : m = Width - vec[v].pos
    OBVIOUS
  <2>6. ASSUME NEW y \in S PROVE vec[y].pos <= vec[v].pos
    <3>1. Width - vec[v].pos <= Width - vec[y].pos
      BY <2>4, <2>5
    <3>2. vec[v].pos \in Int /\ vec[y].pos \in Int
      BY <2>2
    <3> HIDE DEF S
    <3> QED
      BY <1>1, <3>1, <3>2
  <2>7. v \in 1 .. Len(vec) /\ v \in Reachable /\ On(vec, R, v, k)
    BY <1>2
  <2>8. Route(vec, dat, R, v, vec[v], k) /\ Fine(vec, dat, R, v, vec[v])
    BY <2>7 DEF Store
  <2> DEFINE y == Child(vec[v], k, Start(vec, v))
  <2>9. y = Nil
    <3> SUFFICES ASSUME y # Nil PROVE FALSE
      OBVIOUS
    <3>1. On(vec, R, y, k)
      BY <2>8 DEF Route
    <3>2. y \in Below(v) /\ vec[y].pos > vec[v].pos
      BY <2>8 DEF Child, Below, Fine
    <3>3. y \in S
      BY <1>2, <2>7, <3>1, <3>2
    <3> HIDE DEF y, S
    <3>4. vec[y].pos <= vec[v].pos /\ vec[y].pos \in Int /\ vec[v].pos \in Int
      BY <2>2, <2>6, <3>3
    <3> QED
      BY <3>2, <3>4
  <2>10. vec[v].ty = "DATA" /\ vec[v].rd # Nil /\ dat[vec[v].rd].key = k
    BY <2>8, <2>9 DEF Route
  <2>11. vec[v].rd \in Linked
    BY <2>7, <2>10 DEF Linked
  <2>12. vec[v].rd = d
    BY <1>4, <2>10, <2>11 DEF Store
  <2> QED
    BY <2>11, <2>12
<1> QED
  BY <1>4, <1>5

\* Nothing is taken out by a step of a thread that adds or looks up.
LEMMA UnretiredStep ==
  ASSUME TreeInv, Unretired, NEW t \in Thread, Step(t), loc[t].pc \in AddPoints
  PROVE  Unretired'
<1>1. /\ ~ RightUnlink(t) /\ ~ RightInvalidate(t) /\ ~ Reread(t) /\ ~ DownUnlink(t)
      /\ ~ DownValidate(t) /\ ~ RereadAny(t) /\ ~ Orphan(t) /\ ~ FreeLoad(t) /\ ~ FreeStore(t)
      /\ ~ GidUnlink(t) /\ ~ GidInvalidate(t) /\ ~ GidReread(t) /\ ~ Delete(t) /\ ~ Undo(t)
  BY DEF AddPoints, Walking, Inserting, RightUnlink, RightInvalidate, Reread, DownUnlink,
     DownValidate, RereadAny, Orphan, FreeLoad, FreeStore, GidUnlink, GidInvalidate, GidReread,
     Delete, Undo
<1>2. dat \in Seq(Records) /\ Len(dat) \in Nat
  BY DEF TreeInv, Nodes
<1>3. CASE UNCHANGED dat
  BY <1>3 DEF Unretired
<1>4. ASSUME NEW new, ~ new.retired, dat' = Append(dat, new) PROVE Unretired'
  <2>1. Len(dat') = Len(dat) + 1 /\ dat'[Len(dat) + 1] = new
        /\ \A d \in 1 .. Len(dat) : dat'[d] = dat[d]
    BY <1>2, <1>4
  <2>2. ASSUME NEW d \in 1 .. Len(dat') PROVE ~ dat'[d].retired
    <3>1. d = Len(dat) + 1 \/ d \in 1 .. Len(dat)
      BY <1>2, <2>1
    <3> QED
      BY <1>4, <2>1, <3>1 DEF Unretired
  <2> QED
    BY <2>2 DEF Unretired
<1>5. ASSUME NEW d, NEW r, dat' = [dat EXCEPT ![d].ref = r] PROVE Unretired'
  <2>1. Len(dat') = Len(dat) /\ DOMAIN dat = 1 .. Len(dat)
    BY <1>2, <1>5
  <2>2. ASSUME NEW e \in 1 .. Len(dat) PROVE ~ dat'[e].retired
    <3>1. dat[e] \in Records
      BY <1>2
    <3>2. dat'[e] = dat[e] \/ dat'[e] = [dat[e] EXCEPT !.ref = r]
      BY <1>5, <2>1
    <3> QED
      BY <3>1, <3>2 DEF Records, Unretired
  <2> QED
    BY <2>1, <2>2 DEF Unretired
<1>6. CASE \E new, nodes : Publish(t, new, nodes)
  <2>1. \/ UNCHANGED dat
        \/ dat' = Append(dat, [key |-> loc[t].key, ref |-> 1, retired |-> FALSE])
    BY <1>6 DEF Publish
  <2> QED
    BY <1>3, <1>4, <2>1
<1>7. CASE InsertFirst(t) \/ InsertUp(t) \/ InsertDown(t) \/ InsertLast(t) \/ InsertMid(t)
  <2>1. UNCHANGED dat \/ \E new, nodes : Publish(t, new, nodes)
    BY <1>7 DEF InsertFirst, InsertUp, InsertDown, InsertLast, InsertMid, Quiet
  <2> QED
    BY <1>3, <1>6, <2>1
<1>8. CASE Found(t)
  <2> DEFINE m == loc[t]
             f == FoundData(m)
  <2>1. m.op \in {"FIND", "INSERT", "DELETE"}
    <3>1. loc[t].pc \notin {"idle", "return"}
      BY <1>8 DEF Found
    <3> QED
      BY <3>1, CallishIs DEF Callish, Operation
  <2>2. \/ UNCHANGED dat
        \/ dat' = [dat EXCEPT ![f].ref = dat[f].ref + 1]
        \/ dat' = [dat EXCEPT ![f].ref = dat[f].ref - 1]
    BY <1>8, <2>1 DEF Found
  <2> HIDE DEF f
  <2> QED
    BY <1>3, <1>5, <2>2
<1>9. CASE \/ \E op \in Operation, key \in Keys : Call(t, op, key)
           \/ Return(t) \/ Forward(t) \/ ReadRight(t) \/ ReadDown(t) \/ Gid(t) \/ GidNext(t)
           \/ InsertTrouble(t)
  <2>1. UNCHANGED dat
    BY <1>9 DEF Call, Return, Forward, ReadRight, ReadDown, Gid, GidNext, InsertTrouble, Quiet
  <2> QED
    BY <1>3, <2>1
<1> QED
  BY <1>1, <1>7, <1>8, <1>9 DEF Step

\* Nor by any step, when nobody deletes.
LEMMA UnretiredNext ==
  ASSUME TreeInv, AddInv, Unretired, [Next]_vars
  PROVE  Unretired'
<1>1. \A t \in Thread : loc[t].pc \in AddPoints
  BY DEF AddInv, Knows
<1>2. CASE UNCHANGED dat
  BY <1>2 DEF Unretired
<1>3. CASE \E t \in Thread : Step(t)
  BY <1>1, <1>3, UnretiredStep
<1> QED
  BY <1>2, <1>3 DEF Next, vars

\* The invariant says of the records what the runs check.
LEMMA LinkedSays ==
  ASSUME TreeInv, AddInv, Unretired
  PROVE  RecordsLinked /\ OneRecord
<1>1. PICK R : Store(vec, dat, R)
  BY DEF AddInv
<1>2. Linked = 1 .. Len(dat)
  BY <1>1, AllLinked
<1>3. DOMAIN dat = 1 .. Len(dat)
  BY DEF TreeInv, Nodes
<1>4. OneRecord
  BY <1>1, <1>2 DEF OneRecord, Store
<1>5. RecordsLinked
  BY <1>2, <1>3 DEF RecordsLinked, Unretired
<1> QED
  BY <1>4, <1>5

\* Whatever the interleaving of additions, every record that was put into the tree
\* is on a path from the head: no compare-and-swap drops what another has linked.
THEOREM AdditionsLinked == Adding => (Spec => []RecordsLinked)
<1> SUFFICES ASSUME Adding PROVE Spec => []RecordsLinked
  OBVIOUS
<1>1. Init => TreeInv /\ AddInv /\ Kept /\ Unretired
  <2>1. Init => Unretired
    BY DEF Init, Unretired
  <2> QED
    BY <2>1, InitInv, InitAdd
<1>2. TreeInv /\ AddInv /\ Kept /\ Unretired /\ [Next]_vars
      => TreeInv' /\ AddInv' /\ Kept' /\ Unretired'
  BY NextAdd, UnretiredNext
<1>3. TreeInv /\ AddInv /\ Unretired => RecordsLinked
  BY LinkedSays
<1> QED
  BY <1>1, <1>2, <1>3, PTL DEF Spec

\* And no key has two of them, even if two threads insert it at once.
THEOREM AdditionsOnce == Adding => (Spec => []OneRecord)
<1> SUFFICES ASSUME Adding PROVE Spec => []OneRecord
  OBVIOUS
<1>1. Init => TreeInv /\ AddInv /\ Kept /\ Unretired
  <2>1. Init => Unretired
    BY DEF Init, Unretired
  <2> QED
    BY <2>1, InitInv, InitAdd
<1>2. TreeInv /\ AddInv /\ Kept /\ Unretired /\ [Next]_vars
      => TreeInv' /\ AddInv' /\ Kept' /\ Unretired'
  BY NextAdd, UnretiredNext
<1>3. TreeInv /\ AddInv /\ Unretired => OneRecord
  BY LinkedSays
<1> QED
  BY <1>1, <1>2, <1>3, PTL DEF Spec
=============================================================================
