--------------------------- MODULE SdTree_proofs ---------------------------
(****************************************************************************)
(* The types of SdTree, for any number of threads and keys of any width.     *)
(* TypeOK is not inductive: a walk acts on words it has read earlier, so the *)
(* range of what it writes depends on what every local variable may hold at  *)
(* every point.  TreeInv says that: the words of all nodes fit (Nodes), and  *)
(* a thread at a point holds words its node may have had (Where).  What a    *)
(* thread knows depends on how many nodes and records there are, on the      *)
(* position of each node and on the key of each record, and those never      *)
(* change: so it survives every step of the others (Grow).                   *)
(****************************************************************************)
EXTENDS SdTree, FiniteSetTheorems, NaturalsInduction, SequenceTheorems, TLAPS

\* Every nonempty set of natural numbers has a least element.
LEMMA LeastNat ==
  ASSUME NEW S \in SUBSET Nat, S # {}
  PROVE  \E m \in S : \A k \in S : m <= k
<1> DEFINE Less == {ss \in Nat \X Nat : ss[1] < ss[2]}
<1>1. IsWellFoundedOn(Less, Nat)
  BY NatLessThanWellFounded, Zenon DEF OpToRel
<1>2. \A x, y \in Nat : <<y, x>> \in Less <=> y < x
  OBVIOUS
<1> HIDE DEF Less
<1>3. PICK m \in S : \A k \in S : ~ (<<k, m>> \in Less)
  BY <1>1, WFMin
<1>4. ASSUME NEW k \in S PROVE m <= k
  <2>1. m \in Nat /\ k \in Nat
    OBVIOUS
  <2>2. ~ (k < m)
    BY <2>1, <1>2, <1>3
  <2> QED
    BY <2>1, <2>2
<1> QED
  BY <1>4

Statuses == {"VALID", "INVALID", "RAW"}
Types == {"DATA", "RIGHT"}

\* The fields of a node word, and of the local variables of find_data.
Words == [st : Statuses \union {"NONE"}, ty : Types \union {"NONE"}, pos : Int,
          down : Nat, rd : Nat]
Points ==
  {"idle", "forward", "right", "right_unlink", "right_invalidate", "reread", "reread_any", "down",
   "down_unlink", "down_validate", "orphan", "free", "free_store", "gid", "gid_next", "gid_unlink",
   "gid_invalidate", "gid_reread", "insert_first", "insert_up", "insert_down", "insert_last",
   "insert_mid", "found", "delete", "undo", "return", "stuck"}
Locals == [pc : Points, op : Operation \union {"NONE"}, goal : Operation \union {"NONE"},
           key : Keys \union {0}, ret : Int,
           cur : Nat, cw : Words, pre : Nat, nxt : Nat, nw : Words,
           start : Int, fs : Int, dir : {"START", "RIGHT", "DOWN"}, cd : Int,
           back : {"NONE", "compare", "confirm", "recheck", "near"},
           gv : Nat, gc : Nat, gw : Words, gn : Nat, gx : Words,
           fv : Nat, fw : Words, fback : {"NONE", "reread", "gid_reread"}]
Records == [key : Keys, ref : Nat, retired : BOOLEAN]

\* The nodes other than the head.
Inner(V) == 2 .. Len(V)

\* w has been the word of node v at some instant.
WordOf(V, D, v, w) ==
  /\ v \in 1 .. Len(V)
  /\ w \in Words
  /\ w.st \in Statuses /\ w.ty \in Types
  /\ w.pos = V[v].pos
  /\ w.pos \in -1 .. Width - 1
  /\ w.down = Nil \/ w.down \in Inner(V)
  /\ w.ty = "RIGHT" => w.rd \in Inner(V)
  /\ w.ty = "DATA" => w.rd \in 0 .. Len(D)
  /\ w.pos >= Width - 1 => w.down = Nil /\ w.ty = "DATA"
  /\ v = Head1 => w.st = "VALID" /\ w.pos = -1
  /\ v # Head1 /\ w.st = "VALID" /\ w.ty = "DATA" => w.rd # Nil

\* Every node holds a word of its own.
Nodes(V, D) ==
  /\ V \in Seq(Words) /\ Len(V) >= 1
  /\ D \in Seq(Records)
  /\ \A v \in 1 .. Len(V) : WordOf(V, D, v, V[v])

\* A walk stands at cur, start is the first bit below it, and fs is the first
\* bit of the key from there that is set.
At(V, D, m) ==
  /\ WordOf(V, D, m.cur, m.cw)
  /\ m.start = m.cw.pos + 1 /\ m.start < Width
  /\ m.fs \in m.start .. Width
  /\ m.dir = "RIGHT" => m.cur # Head1

\* A walk goes right, or is about to go down.
Rightward(V, D, m) == At(V, D, m) /\ m.fs = m.start /\ m.cw.ty = "RIGHT" /\ m.cd # Nil
Downward(V, D, m) == At(V, D, m) /\ m.fs > m.start /\ m.cd = Unset

\* The neighbour a walk has read.
ReadOnRight(V, D, m) ==
  Rightward(V, D, m) /\ m.nxt = m.cw.rd /\ WordOf(V, D, m.nxt, m.nw)
ReadBelow(V, D, m) ==
  Downward(V, D, m) /\ m.cw.down # Nil /\ m.nxt = m.cw.down /\ WordOf(V, D, m.nxt, m.nw)

\* The walk can go on at the neighbour it has read.
Usable(w) == w.st = "VALID" /\ w.down # Nil

\* Where the key and the record cd differ, before the end of the segment.
SplitAt(D, m) == FirstDiff(m.key, D[m.cd].key, m.start, SegmentEnd(m))
Differs(V, D, m) == m.cd \in 1 .. Len(D) /\ SplitAt(D, m) < SegmentEnd(m)

\* The walk goes on from the word of cur.
Resumes(V, D, m) == At(V, D, m) /\ m.cd # Nil /\ (m.fs > m.start => m.cd = Unset)

\* What the caller of get_data_id was doing.
Calling(V, D, m) ==
  /\ m.back \in {"compare", "confirm", "recheck", "near"}
  /\ m.back \in {"compare", "confirm"} =>
       ReadOnRight(V, D, m) /\ Usable(m.nw) /\ m.gv = m.nxt
  /\ m.back = "compare" => m.cd = Unset
  /\ m.back = "confirm" => Differs(V, D, m)
  /\ m.back = "recheck" => At(V, D, m) /\ m.fs > m.start /\ m.cd \in 1 .. Len(D)
  /\ m.back = "near" => Downward(V, D, m)
  /\ m.back \in {"recheck", "near"} => m.gv = m.cur

\* get_data_id has come to the node gc, and past the head if it began there.
Descending(V, D, m) ==
  Calling(V, D, m) /\ WordOf(V, D, m.gc, m.gw) /\ (m.gv # Head1 => m.gc # Head1)
Stepping(V, D, m) == Descending(V, D, m) /\ m.gw.ty = "RIGHT" /\ m.gn = m.gw.rd

\* The caller of vec_free_to_buf.
Freer(V, D, m) ==
  /\ m.fv \in Inner(V)
  /\ \/ m.fback = "reread" /\ Resumes(V, D, m)
     \/ m.fback = "gid_reread" /\ Descending(V, D, m)

\* A record is about to be put beside the record cd, which is on the right.
Inserts(V, D, m) ==
  /\ At(V, D, m) /\ m.fs = m.start
  /\ Differs(V, D, m)
  /\ IF m.cw.ty = "DATA" THEN m.cw.rd = m.cd ELSE ReadOnRight(V, D, m)

\* cur holds a record.
Holds(V, D, m) == WordOf(V, D, m.cur, m.cw) /\ m.cw.ty = "DATA" /\ m.cw.rd # Nil

\* The local variables of find_data, by the point it has come to.
Where(V, D, m) ==
  /\ m.pc = "forward" => m.cur \in 1 .. Len(V)
  /\ m.pc = "right" => Rightward(V, D, m)
  /\ m.pc \in {"right_unlink", "right_invalidate"} => ReadOnRight(V, D, m)
  /\ m.pc \in {"reread", "reread_any"} => Resumes(V, D, m)
  /\ m.pc = "reread_any" => m.fs > m.start
  /\ m.pc = "down" => Downward(V, D, m) /\ m.cw.down # Nil
  /\ m.pc \in {"down_unlink", "down_validate", "insert_mid"} => ReadBelow(V, D, m)
  /\ m.pc = "down_validate" => ~ (m.nw.ty = "DATA" /\ m.nw.rd = Nil)
  /\ m.pc = "insert_mid" => m.fs <= m.nw.pos
  /\ m.pc = "orphan" => Downward(V, D, m) /\ m.dir = "RIGHT"
  /\ m.pc = "insert_last" => Downward(V, D, m) /\ m.cw.down = Nil
  /\ m.pc = "insert_first" =>
       At(V, D, m) /\ m.fs = m.start /\ m.cw.ty = "DATA" /\ m.cur = Head1
  /\ m.pc \in {"insert_up", "insert_down"} => Inserts(V, D, m)
  /\ m.pc \in {"free", "free_store"} => Freer(V, D, m)
  /\ m.pc = "free_store" => WordOf(V, D, m.fv, m.fw)
  /\ m.pc = "gid" => Calling(V, D, m)
  /\ m.pc \in {"gid_next", "gid_unlink", "gid_invalidate"} => Stepping(V, D, m)
  /\ m.pc \in {"gid_unlink", "gid_invalidate"} => WordOf(V, D, m.gn, m.gx)
  /\ m.pc = "gid_reread" => Descending(V, D, m)
  /\ m.pc = "found" => Holds(V, D, m) /\ m.cd \in {Unset, m.cw.rd}
  /\ m.pc = "delete" => Holds(V, D, m) /\ m.cd = m.cw.rd
  /\ m.pc = "undo" => m.cd \in 1 .. Len(D)
  /\ m.pc \in {"delete", "undo"} => m.op = "DELETE"

\* The codes find_data answers with.
Codes == {OK, NOT_FOUND, NullCode, DO_AGAIN} \union Trouble

\* What a thread wants, and whether it has it: the second walk of a delete is
\* a FIND, after the work is done.
Wants(m) ==
  /\ m.key \in Keys
  /\ m.goal \in Operation
  /\ m.op = m.goal \/ (m.op = "FIND" /\ m.goal = "DELETE")

Owed(m) == IF m.op = m.goal THEN NOT_FOUND ELSE OK

\* The ranges of the local variables.
Ranges(V, D, m) ==
  /\ m \in Locals
  /\ m.cur \in 0 .. Len(V) /\ m.pre \in 0 .. Len(V) /\ m.nxt \in 0 .. Len(V)
  /\ m.cd \in {Unset} \union 0 .. Len(D)
  /\ m.ret \in Codes

\* A call in progress.
Active(V, D, m) == Ranges(V, D, m) /\ Wants(m) /\ m.ret = Owed(m)

\* The local variables of one thread.
Local(V, D, m) ==
  \/ m = Idle
  \/ m.pc = "return" /\ Ranges(V, D, m) /\ Wants(m)
  \/ m.pc \notin {"idle", "return"} /\ Active(V, D, m) /\ Where(V, D, m)

\* The same call, the same place of the walk, the same neighbour, the same
\* place of get_data_id.
SameCall(n, m) == n.op = m.op /\ n.goal = m.goal /\ n.key = m.key /\ n.ret = m.ret
SameWalk(n, m) == 
  /\ n.cur = m.cur /\ n.cw = m.cw /\ n.pre = m.pre /\ n.start = m.start /\ n.fs = m.fs
  /\ n.dir = m.dir /\ n.cd = m.cd
SameNext(n, m) == n.nxt = m.nxt /\ n.nw = m.nw
SameGid(n, m) ==
  /\ n.back = m.back /\ n.gv = m.gv /\ n.gc = m.gc /\ n.gw = m.gw /\ n.gn = m.gn /\ n.gx = m.gx

TreeInv ==
  /\ Nodes(vec, dat)
  /\ loc \in [Thread -> Locals]
  /\ \A t \in Thread : Local(vec, dat, loc[t])

-----------------------------------------------------------------------------
(* The local steps of a walk.                                               *)

\* A code is a number.
LEMMA CodesInt == Codes \subseteq Int
BY TreeAssumption DEF Codes, OK, NOT_FOUND, NullCode, DO_AGAIN, NOMEM, WAIT_AMT

\* The points find_data may be at.
LEMMA AllPoints ==
  /\ "idle" \in Points /\ "forward" \in Points /\ "right" \in Points /\ "right_unlink" \in Points
  /\ "right_invalidate" \in Points /\ "reread" \in Points /\ "reread_any" \in Points /\ "down" \in Points
  /\ "down_unlink" \in Points /\ "down_validate" \in Points /\ "orphan" \in Points /\ "free" \in Points
  /\ "free_store" \in Points /\ "gid" \in Points /\ "gid_next" \in Points /\ "gid_unlink" \in Points
  /\ "gid_invalidate" \in Points /\ "gid_reread" \in Points /\ "insert_first" \in Points /\ "insert_up" \in Points
  /\ "insert_down" \in Points /\ "insert_last" \in Points /\ "insert_mid" \in Points /\ "found" \in Points
  /\ "delete" \in Points /\ "undo" \in Points /\ "return" \in Points /\ "stuck" \in Points
BY DEF Points

\* What changes neither the call nor the ranges leaves a call in progress.
LEMMA StaysActive ==
  ASSUME NEW V, NEW D, NEW m, NEW n, Active(V, D, m), n \in Locals, SameCall(n, m),
         n.cur \in 0 .. Len(V), n.pre \in 0 .. Len(V), n.nxt \in 0 .. Len(V),
         n.cd \in {Unset} \union 0 .. Len(D)
  PROVE  Active(V, D, n)
BY DEF Active, Ranges, Wants, Owed, SameCall

\* A call may be answered at any point.
LEMMA AnswerLocal ==
  ASSUME NEW V, NEW D, NEW m, Active(V, D, m), NEW code \in Codes
  PROVE  Local(V, D, Answer(m, code))
<1> DEFINE n == Answer(m, code)
<1>1. code \in Int
  BY CodesInt
<1>2. m \in Locals
  BY DEF Active, Ranges
<1>3. n \in Locals
  BY <1>1, <1>2, AllPoints DEF Answer, Locals
<1>4. n.pc = "return" /\ n.ret = code /\ n.op = m.op /\ n.goal = m.goal /\ n.key = m.key
  BY <1>2 DEF Answer, Locals
<1>5. SameWalk(n, m) /\ SameNext(n, m)
  BY <1>2 DEF Answer, Locals, SameWalk, SameNext
<1> HIDE DEF n
<1>6. Ranges(V, D, n)
  BY <1>3, <1>4, <1>5 DEF Active, Ranges, SameWalk, SameNext
<1>7. Wants(n)
  BY <1>4 DEF Active, Wants
<1> QED
  BY <1>4, <1>6, <1>7 DEF n, Local

\* So may it be with the answer it has.
LEMMA AnswerRet ==
  ASSUME NEW V, NEW D, NEW m, Active(V, D, m)
  PROVE  Local(V, D, Answer(m, m.ret))
BY AnswerLocal DEF Active, Ranges

\* A walk that gives up answers one of the codes.
LEMMA FailLocal ==
  ASSUME NEW V, NEW D, NEW m, Active(V, D, m), NEW code \in Codes
  PROVE  Local(V, D, Fail(m, code))
BY AnswerLocal DEF Fail, Codes

\* A walk may begin again at any point.
LEMMA RestartLocal ==
  ASSUME NEW V, NEW D, NEW m, Active(V, D, m), Len(V) \in Nat \ {0}
  PROVE  Local(V, D, Restart(m))
<1> DEFINE n == Restart(m)
<1>2. m \in Locals
  BY DEF Active, Ranges
<1>3. n \in Locals
  BY <1>2, AllPoints DEF Restart, Locals, Head1
<1>4. n.pc = "forward" /\ n.cur = Head1 /\ n.pre = m.pre /\ n.cd = m.cd
  BY <1>2 DEF Restart, Locals
<1>5. SameNext(n, m) /\ SameCall(n, m)
  BY <1>2 DEF Restart, Locals, SameNext, SameCall
<1> HIDE DEF n
<1>6. Active(V, D, n)
  <2>1. n.cur \in 0 .. Len(V) /\ n.pre \in 0 .. Len(V) /\ n.nxt \in 0 .. Len(V)
        /\ n.cd \in {Unset} \union 0 .. Len(D)
    BY <1>4, <1>5 DEF Active, Ranges, SameNext, Head1
  <2> QED
    BY <1>3, <1>5, <2>1, StaysActive
<1>7. Where(V, D, n)
  BY <1>4 DEF Where, Head1
<1> QED
  BY <1>4, <1>6, <1>7 DEF n, Local

\* So may it from the node before.
LEMMA BackLocal ==
  ASSUME NEW V, NEW D, NEW m, Active(V, D, m), Len(V) \in Nat \ {0}
  PROVE  Local(V, D, Back(m))
<1> DEFINE c == IF m.pre = Nil THEN Head1 ELSE m.pre
           n == [m EXCEPT !.pc = "forward", !.cur = c]
<1>1. c \in 1 .. Len(V) /\ c \in Nat /\ Back(m) = n
  BY DEF Active, Ranges, Head1, Nil, Back
<1> HIDE DEF c
<1>2. m \in Locals
  BY DEF Active, Ranges
<1>3. n \in Locals
  BY <1>1, <1>2, AllPoints DEF Locals
<1>4. n.pc = "forward" /\ n.cur \in 1 .. Len(V) /\ n.pre = m.pre /\ n.cd = m.cd
  BY <1>1, <1>2 DEF Locals
<1>5. SameNext(n, m) /\ SameCall(n, m)
  BY <1>2 DEF Locals, SameNext, SameCall
<1> HIDE DEF n
<1>6. Active(V, D, n)
  <2>1. n.cur \in 0 .. Len(V) /\ n.pre \in 0 .. Len(V) /\ n.nxt \in 0 .. Len(V)
        /\ n.cd \in {Unset} \union 0 .. Len(D)
    BY <1>4, <1>5 DEF Active, Ranges, SameNext
  <2> QED
    BY <1>3, <1>5, <2>1, StaysActive
<1>7. Where(V, D, n)
  BY <1>4 DEF Where
<1> QED
  BY <1>1, <1>4, <1>6, <1>7 DEF Local

\* A walk goes on to another point without other work.
LEMMA GoLocal ==
  ASSUME NEW V, NEW D, NEW m, Active(V, D, m), NEW p \in Points \ {"idle", "return"},
         \A n \in Locals :
           /\ n.pc = p /\ SameCall(n, m) /\ SameWalk(n, m) /\ SameNext(n, m) /\ SameGid(n, m)
           => Where(V, D, n)
  PROVE  Local(V, D, [m EXCEPT !.pc = p])
<1> DEFINE n == [m EXCEPT !.pc = p]
<1>2. m \in Locals
  BY DEF Active, Ranges
<1>3. n \in Locals
  BY <1>2 DEF Locals
<1>4. n.pc = p
  BY <1>2 DEF Locals
<1>5. SameNext(n, m) /\ SameCall(n, m) /\ SameWalk(n, m) /\ SameGid(n, m)
  BY <1>2 DEF Locals, SameNext, SameCall, SameWalk, SameGid
<1> HIDE DEF n
<1>6. Active(V, D, n)
  <2>1. n.cur \in 0 .. Len(V) /\ n.pre \in 0 .. Len(V) /\ n.nxt \in 0 .. Len(V)
        /\ n.cd \in {Unset} \union 0 .. Len(D)
    BY <1>5 DEF Active, Ranges, SameNext, SameWalk
  <2> QED
    BY <1>3, <1>5, <2>1, StaysActive
<1>7. Where(V, D, n)
  BY <1>3, <1>4, <1>5
<1> QED
  BY <1>4, <1>6, <1>7 DEF n, Local

\* What does not change the variables a condition is about leaves it.
LEMMA WalkSame ==
  ASSUME NEW V, NEW D, NEW m, NEW n, SameWalk(n, m)
  PROVE  /\ At(V, D, m) => At(V, D, n)
         /\ Rightward(V, D, m) => Rightward(V, D, n)
         /\ Downward(V, D, m) => Downward(V, D, n)
         /\ Resumes(V, D, m) => Resumes(V, D, n)
         /\ Holds(V, D, m) => Holds(V, D, n)
BY DEF SameWalk, At, Rightward, Downward, Resumes, Holds

\* The neighbour read stays what it was if the walk and its fields do not change.
LEMMA NextSame ==
  ASSUME NEW V, NEW D, NEW m, NEW n, SameWalk(n, m), SameNext(n, m)
  PROVE  /\ ReadOnRight(V, D, m) => ReadOnRight(V, D, n)
         /\ ReadBelow(V, D, m) => ReadBelow(V, D, n)
         /\ SegmentEnd(n) = SegmentEnd(m)
BY WalkSame DEF SameWalk, SameNext, ReadOnRight, ReadBelow, SegmentEnd

\* So does where the keys split.
LEMMA SplitSame ==
  ASSUME NEW V, NEW D, NEW m, NEW n, SameWalk(n, m), SameNext(n, m), n.key = m.key
  PROVE  /\ SplitAt(D, n) = SplitAt(D, m)
         /\ Differs(V, D, m) => Differs(V, D, n)
         /\ Inserts(V, D, m) => Inserts(V, D, n)
<1>1. SegmentEnd(n) = SegmentEnd(m)
  BY NextSame
<1>2. SplitAt(D, n) = SplitAt(D, m)
  BY <1>1 DEF SameWalk, SplitAt
<1>3. Differs(V, D, m) => Differs(V, D, n)
  BY <1>1, <1>2 DEF SameWalk, Differs
<1>4. Inserts(V, D, m) => Inserts(V, D, n)
  BY <1>3, WalkSame, NextSame DEF SameWalk, Inserts
<1> QED
  BY <1>2, <1>3, <1>4

\* So does the place in get_data_id.
LEMMA GidSame ==
  ASSUME NEW V, NEW D, NEW m, NEW n, SameWalk(n, m), SameNext(n, m), n.key = m.key,
         SameGid(n, m)
  PROVE  /\ Calling(V, D, m) => Calling(V, D, n)
         /\ Descending(V, D, m) => Descending(V, D, n)
         /\ Stepping(V, D, m) => Stepping(V, D, n)
<1>1. Calling(V, D, m) => Calling(V, D, n)
  <2>1. n.back = m.back /\ n.gv = m.gv /\ n.cd = m.cd /\ n.cur = m.cur /\ n.nxt = m.nxt /\ n.nw = m.nw
        /\ n.fs = m.fs /\ n.start = m.start
    BY DEF SameGid, SameWalk, SameNext
  <2> QED
    BY <2>1, WalkSame, NextSame, SplitSame DEF Calling
<1>2. Descending(V, D, m) => Descending(V, D, n)
  BY <1>1 DEF SameGid, Descending
<1> QED
  BY <1>1, <1>2 DEF SameGid, Stepping

\* get_data_id is called.
LEMMA GetDataIdLocal ==
  ASSUME NEW V, NEW D, NEW m, Active(V, D, m), NEW v \in Nat,
         NEW back \in {"compare", "confirm", "recheck", "near"},
         back \in {"compare", "confirm"} => ReadOnRight(V, D, m) /\ Usable(m.nw) /\ v = m.nxt,
         back = "compare" => m.cd = Unset,
         back = "confirm" => Differs(V, D, m),
         back = "recheck" => At(V, D, m) /\ m.fs > m.start /\ m.cd \in 1 .. Len(D),
         back = "near" => Downward(V, D, m),
         back \in {"recheck", "near"} => v = m.cur
  PROVE  Local(V, D, GetDataId(m, v, back))
<1> DEFINE n == GetDataId(m, v, back)
<1>2. m \in Locals
  BY DEF Active, Ranges
<1>3. n \in Locals
  BY <1>2, AllPoints DEF Locals, GetDataId
<1>4. n.pc = "gid" /\ n.gv = v /\ n.back = back
  BY <1>2 DEF Locals, GetDataId
<1>5. SameNext(n, m) /\ SameCall(n, m) /\ SameWalk(n, m)
  BY <1>2 DEF Locals, GetDataId, SameNext, SameCall, SameWalk
<1> HIDE DEF n
<1>6. Active(V, D, n)
  <2>1. n.cur \in 0 .. Len(V) /\ n.pre \in 0 .. Len(V) /\ n.nxt \in 0 .. Len(V)
        /\ n.cd \in {Unset} \union 0 .. Len(D)
    BY <1>5 DEF Active, Ranges, SameNext, SameWalk
  <2> QED
    BY <1>3, <1>5, <2>1, StaysActive
<1>7. Calling(V, D, n)
  <2>1. n.key = m.key /\ n.cd = m.cd /\ n.cur = m.cur /\ n.nxt = m.nxt /\ n.nw = m.nw
        /\ n.fs = m.fs /\ n.start = m.start
    BY <1>5 DEF SameCall, SameWalk, SameNext
  <2> QED
    BY <1>4, <1>5, <2>1, WalkSame, NextSame, SplitSame DEF Calling
<1>8. Where(V, D, n)
  BY <1>4, <1>7 DEF Where
<1> QED
  BY <1>4, <1>6, <1>8 DEF n, Local


\* The first element of a set of positions that is not empty.
LEMMA FirstOf ==
  ASSUME NEW from \in Int, NEW to \in Int, NEW S \in SUBSET (from .. to - 1), S # {}
  PROVE  \E i \in S : \A j \in S : i <= j
<1> DEFINE Dist == {i - from : i \in S}
<1>1. Dist \in SUBSET Nat /\ Dist # {}
  <2>1. \A i \in S : i \in Int /\ i - from \in Nat
    OBVIOUS
  <2> QED
    BY <2>1
<1>2. PICK d \in Dist : \A k \in Dist : d <= k
  <2> HIDE DEF Dist
  <2> QED
    BY <1>1, LeastNat
<1>3. PICK i \in S : d = i - from
  OBVIOUS
<1>4. \A j \in S : i <= j
  <2> TAKE j \in S
  <2>1. j - from \in Dist
    OBVIOUS
  <2>2. i \in Int /\ j \in Int /\ d <= j - from
    BY <1>2, <2>1
  <2> QED
    BY <1>3, <2>2
<1> QED
  BY <1>4

\* find_fs looks for a set bit, up to where it is told.
LEMMA FirstSetIs ==
  ASSUME NEW key, NEW from \in Int, NEW to \in Int, from <= to
  PROVE  /\ FirstSet(key, from, to) \in from .. to
         /\ \A i \in from .. FirstSet(key, from, to) - 1 : Bit(key, i) # 1
         /\ FirstSet(key, from, to) < to => Bit(key, FirstSet(key, from, to)) = 1
<1> DEFINE S == {i \in from .. to - 1 : Bit(key, i) = 1}
           f == CHOOSE i \in S : \A j \in S : i <= j
<1>1. FirstSet(key, from, to) = IF S = {} THEN to ELSE f
  BY DEF FirstSet
<1>2. CASE S = {}
  <2>1. FirstSet(key, from, to) = to /\ \A i \in from .. to - 1 : i \notin S
    BY <1>1, <1>2
  <2> QED
    BY <2>1
<1>3. CASE S # {}
  <2>1. \E i \in S : \A j \in S : i <= j
    BY <1>3, FirstOf
  <2>2. f \in S /\ \A j \in S : f <= j
    BY <2>1
  <2>3. f \in from .. to - 1 /\ Bit(key, f) = 1
    BY <2>2
  <2>4. ASSUME NEW i \in from .. f - 1 PROVE Bit(key, i) # 1
    <3>1. i \in from .. to - 1 /\ ~ (f <= i)
      BY <2>3
    <3>2. i \notin S
      BY <2>2, <3>1
    <3> QED
      BY <3>1, <3>2
  <2>5. FirstSet(key, from, to) = f
    BY <1>1, <1>3
  <2> HIDE DEF f, S
  <2> QED
    BY <2>3, <2>4, <2>5
<1> QED
  BY <1>2, <1>3

\* A key has a bit.
LEMMA WidthIs == Width \in Nat \ {0}
BY TreeAssumption

\* find_fs on a key, from a bit that is inside it.
LEMMA FirstSetWidth ==
  ASSUME NEW key \in Keys, NEW from \in Int, from < Width
  PROVE  FirstSet(key, from, Width) \in from .. Width
BY FirstSetIs, WidthIs

\* diff_identify looks for a bit that differs, up to where it is told.
LEMMA FirstDiffIs ==
  ASSUME NEW k1, NEW k2, NEW from \in Int, NEW to \in Int, from <= to
  PROVE  /\ FirstDiff(k1, k2, from, to) \in from .. to
         /\ \A i \in from .. FirstDiff(k1, k2, from, to) - 1 : Bit(k1, i) = Bit(k2, i)
         /\ FirstDiff(k1, k2, from, to) < to =>
              Bit(k1, FirstDiff(k1, k2, from, to)) # Bit(k2, FirstDiff(k1, k2, from, to))
<1> DEFINE S == {i \in from .. to - 1 : Bit(k1, i) # Bit(k2, i)}
           f == CHOOSE i \in S : \A j \in S : i <= j
<1>1. FirstDiff(k1, k2, from, to) = IF S = {} THEN to ELSE f
  BY DEF FirstDiff
<1>2. CASE S = {}
  <2>1. FirstDiff(k1, k2, from, to) = to /\ \A i \in from .. to - 1 : i \notin S
    BY <1>1, <1>2
  <2> QED
    BY <2>1
<1>3. CASE S # {}
  <2>1. \E i \in S : \A j \in S : i <= j
    BY <1>3, FirstOf
  <2>2. f \in S /\ \A j \in S : f <= j
    BY <2>1
  <2>3. f \in from .. to - 1 /\ Bit(k1, f) # Bit(k2, f)
    BY <2>2
  <2>4. ASSUME NEW i \in from .. f - 1 PROVE Bit(k1, i) = Bit(k2, i)
    <3>1. i \in from .. to - 1 /\ ~ (f <= i)
      BY <2>3
    <3>2. i \notin S
      BY <2>2, <3>1
    <3> QED
      BY <3>1, <3>2
  <2>5. FirstDiff(k1, k2, from, to) = f
    BY <1>1, <1>3
  <2> HIDE DEF f, S
  <2> QED
    BY <2>3, <2>4, <2>5
<1> QED
  BY <1>2, <1>3

\* The key is zero as far as fs: down, or to an end.
LEMMA DownLocal ==
  ASSUME NEW V, NEW D, NEW m, Active(V, D, m), Downward(V, D, m)
  PROVE  Local(V, D, Down(m))
<1>1. CASE m.cw.down # Nil
  <2>1. Local(V, D, [m EXCEPT !.pc = "down"])
    <3>1. ASSUME NEW n \in Locals, n.pc = "down", SameWalk(n, m)
          PROVE  Where(V, D, n)
      <4>1. Downward(V, D, n) /\ n.cw.down # Nil
        BY <1>1, <3>1, WalkSame DEF SameWalk
      <4> QED
        BY <3>1, <4>1 DEF Where
    <3> QED
      BY <3>1, AllPoints, GoLocal
  <2> QED
    BY <1>1, <2>1 DEF Down
<1>2. CASE m.cw.down = Nil /\ m.dir = "RIGHT"
  <2>1. Local(V, D, [m EXCEPT !.pc = "orphan"])
    <3>1. ASSUME NEW n \in Locals, n.pc = "orphan", SameWalk(n, m)
          PROVE  Where(V, D, n)
      <4>1. Downward(V, D, n) /\ n.dir = "RIGHT"
        BY <1>2, <3>1, WalkSame DEF SameWalk
      <4> QED
        BY <3>1, <4>1 DEF Where
    <3> QED
      BY <3>1, AllPoints, GoLocal
  <2> QED
    BY <1>2, <2>1 DEF Down
<1>3. CASE m.cw.down = Nil /\ m.dir # "RIGHT"
  <2>1. CASE m.op = "FIND"
    <3>1. m.cur \in Nat
      BY DEF Active, Ranges, Locals
    <3>2. Local(V, D, GetDataId(m, m.cur, "near"))
      BY <3>1, GetDataIdLocal
    <3> QED
      BY <1>3, <2>1, <3>2 DEF Down
  <2>2. CASE m.op = "INSERT"
    <3>1. Local(V, D, [m EXCEPT !.pc = "insert_last"])
      <4>1. ASSUME NEW n \in Locals, n.pc = "insert_last", SameWalk(n, m)
            PROVE  Where(V, D, n)
        <5>1. Downward(V, D, n) /\ n.cw.down = Nil
          BY <1>3, <4>1, WalkSame DEF SameWalk
        <5> QED
          BY <4>1, <5>1 DEF Where
      <4> QED
        BY <4>1, AllPoints, GoLocal
    <3> QED
      BY <1>3, <2>2, <3>1 DEF Down
  <2>3. CASE m.op = "DELETE"
    BY <1>3, <2>3, AnswerRet DEF Down
  <2>4. m.op \in {"FIND", "INSERT", "DELETE"}
    BY DEF Active, Wants, Operation
  <2> QED
    BY <2>1, <2>2, <2>3, <2>4
<1> QED
  BY <1>1, <1>2, <1>3


\* A record that is not the key's: an insert goes on beside it.
LEMMA MismatchLocal ==
  ASSUME NEW V, NEW m, Active(V, dat, m), Inserts(V, dat, m)
  PROVE  Local(V, dat, Mismatch(m))
<1>1. CASE m.op = "INSERT"
  <2>1. ASSUME NEW p \in {"insert_up", "insert_down"}
        PROVE  Local(V, dat, [m EXCEPT !.pc = p])
    <3>1. ASSUME NEW n \in Locals, n.pc = p, SameWalk(n, m), SameNext(n, m), SameCall(n, m)
          PROVE  Where(V, dat, n)
      <4>1. Inserts(V, dat, n)
        BY <3>1, SplitSame DEF SameCall
      <4> QED
        BY <2>1, <3>1, <4>1 DEF Where
    <3> QED
      BY <2>1, <3>1, AllPoints, GoLocal
  <2> DEFINE p == IF Bit(m.key, DiffPos(m)) = 1 THEN "insert_up" ELSE "insert_down"
  <2>2. p \in {"insert_up", "insert_down"}
    OBVIOUS
  <2>3. Mismatch(m) = [m EXCEPT !.pc = p]
    BY <1>1 DEF Mismatch
  <2> HIDE DEF p
  <2> QED
    BY <2>1, <2>2, <2>3
<1>2. CASE m.op # "INSERT"
  BY <1>2, AnswerRet DEF Mismatch
<1> QED
  BY <1>1, <1>2

\* The record variable is set.
LEMMA SetCd ==
  ASSUME NEW V, NEW D, NEW m, Active(V, D, m), NEW d \in {Unset} \union 0 .. Len(D),
         Len(D) \in Nat
  PROVE  LET n == [m EXCEPT !.cd = d]
         IN  /\ Active(V, D, n)
             /\ n.cd = d /\ n.pc = m.pc /\ SameCall(n, m) /\ SameNext(n, m) /\ SameGid(n, m)
             /\ n.cur = m.cur /\ n.cw = m.cw /\ n.pre = m.pre /\ n.start = m.start /\ n.fs = m.fs
             /\ n.dir = m.dir
<1> DEFINE n == [m EXCEPT !.cd = d]
<1>1. m \in Locals /\ d \in Int
  BY DEF Active, Ranges, Unset
<1>2. n \in Locals
  BY <1>1 DEF Locals
<1>3. n.cd = d /\ n.pc = m.pc /\ n.cur = m.cur /\ n.cw = m.cw /\ n.pre = m.pre
      /\ n.start = m.start /\ n.fs = m.fs /\ n.dir = m.dir
  BY <1>1 DEF Locals
<1>4. SameCall(n, m) /\ SameNext(n, m) /\ SameGid(n, m)
  BY <1>1 DEF Locals, SameCall, SameNext, SameGid
<1> HIDE DEF n
<1>5. Active(V, D, n)
  <2>1. n.cur \in 0 .. Len(V) /\ n.pre \in 0 .. Len(V) /\ n.nxt \in 0 .. Len(V)
    BY <1>3, <1>4 DEF Active, Ranges, SameNext
  <2> QED
    BY <1>2, <1>3, <1>4, <2>1, StaysActive
<1> QED
  BY <1>3, <1>4, <1>5 DEF n

\* The key was found in the node cur.
LEMMA FoundLocal ==
  ASSUME NEW V, NEW D, NEW m, Active(V, D, m), NEW s \in Int, Holds(V, D, m),
         m.cd \in {Unset, m.cw.rd}
  PROVE  Local(V, D, [m EXCEPT !.pc = "found", !.start = s])
<1> DEFINE n == [m EXCEPT !.pc = "found", !.start = s]
<1>1. m \in Locals
  BY DEF Active, Ranges
<1>2. n \in Locals
  BY <1>1, AllPoints DEF Locals
<1>3. n.pc = "found" /\ n.cd = m.cd /\ n.cur = m.cur /\ n.cw = m.cw /\ n.pre = m.pre
  BY <1>1 DEF Locals
<1>4. SameCall(n, m) /\ SameNext(n, m)
  BY <1>1 DEF Locals, SameCall, SameNext
<1> HIDE DEF n
<1>5. Active(V, D, n)
  <2>1. n.cur \in 0 .. Len(V) /\ n.pre \in 0 .. Len(V) /\ n.nxt \in 0 .. Len(V)
        /\ n.cd \in {Unset} \union 0 .. Len(D)
    BY <1>3, <1>4 DEF Active, Ranges, SameNext
  <2> QED
    BY <1>2, <1>3, <1>4, <2>1, StaysActive
<1>6. Where(V, D, n)
  BY <1>3 DEF Where, Holds
<1> QED
  BY <1>3, <1>5, <1>6 DEF n, Local

\* The node holds a record or is the empty head.
LEMMA AtDataLocal ==
  ASSUME NEW V, NEW m, Nodes(V, dat), Active(V, dat, m), At(V, dat, m), m.fs = m.start,
         m.cw.ty = "DATA", m.cw.st = "VALID"
  PROVE  Local(V, dat, AtData(m))
<1> DEFINE n == [m EXCEPT !.cd = m.cw.rd]
           u == [m EXCEPT !.cd = Unset]
<1>1. Len(V) \in Nat \ {0} /\ Len(dat) \in Nat
  BY DEF Nodes
<1>2. m.cw.rd \in 0 .. Len(dat) /\ (m.cur # Head1 => m.cw.rd # Nil)
  BY DEF At, WordOf
<1>3. Active(V, dat, u)
  BY <1>1, SetCd
<1>4. /\ Active(V, dat, n)
      /\ n.cd = m.cw.rd /\ SameCall(n, m) /\ SameNext(n, m)
      /\ n.cur = m.cur /\ n.cw = m.cw /\ n.pre = m.pre /\ n.start = m.start /\ n.fs = m.fs
      /\ n.dir = m.dir
  BY <1>1, <1>2, SetCd
<1>5. AtData(m) = IF m.cd # Unset /\ m.cd # m.cw.rd THEN Restart(u)
                  ELSE IF n.cd = Nil
                  THEN IF m.op = "INSERT" THEN [n EXCEPT !.pc = "insert_first"] ELSE Answer(n, m.ret)
                  ELSE IF DiffPos(n) = Width THEN [n EXCEPT !.pc = "found", !.start = Width]
                  ELSE Mismatch(n)
  BY DEF AtData
<1> HIDE DEF n, u
<1>6. At(V, dat, n)
  BY <1>4 DEF At
<1>7. CASE m.cd # Unset /\ m.cd # m.cw.rd
  BY <1>1, <1>3, <1>5, <1>7, RestartLocal
<1>8. CASE ~ (m.cd # Unset /\ m.cd # m.cw.rd) /\ n.cd = Nil
  <2>1. Local(V, dat, Answer(n, m.ret))
    BY <1>4, AnswerLocal DEF Active, Ranges
  <2>2. Local(V, dat, [n EXCEPT !.pc = "insert_first"])
    <3>1. ASSUME NEW w \in Locals, w.pc = "insert_first", SameWalk(w, n)
          PROVE  Where(V, dat, w)
      <4>1. At(V, dat, w) /\ w.cur = Head1 /\ w.cw.ty = "DATA" /\ w.fs = w.start
        BY <1>2, <1>4, <1>6, <1>8, <3>1, WalkSame DEF SameWalk
      <4> QED
        BY <3>1, <4>1 DEF Where
    <3> QED
      BY <1>4, <3>1, AllPoints, GoLocal
  <2> QED
    BY <1>5, <1>8, <2>1, <2>2
<1>9. CASE ~ (m.cd # Unset /\ m.cd # m.cw.rd) /\ n.cd # Nil
  <2>1. Holds(V, dat, n)
    BY <1>4, <1>6, <1>9 DEF Holds, At
  <2>2. Width \in Int
    BY TreeAssumption
  <2>3. Local(V, dat, [n EXCEPT !.pc = "found", !.start = Width])
    BY <1>4, <2>1, <2>2, FoundLocal
  <2>4. ASSUME DiffPos(n) # Width PROVE Local(V, dat, Mismatch(n))
    <3>1. SegmentEnd(n) = Width /\ n.cd \in 1 .. Len(dat)
      BY <1>1, <1>2, <1>4, <1>9 DEF SegmentEnd, Nil
    <3>2. n.start \in Int /\ n.start <= Width
      <4>1. At(V, dat, n) /\ WordOf(V, dat, n.cur, n.cw)
        BY <1>6 DEF At
      <4>2. n.cw.pos \in -1 .. Width - 1 /\ n.start = n.cw.pos + 1 /\ n.start < Width
        BY <4>1 DEF At, WordOf
      <4> QED
        BY <2>2, <4>2, WidthIs
    <3>3. SplitAt(dat, n) \in n.start .. Width /\ SplitAt(dat, n) = DiffPos(n)
      BY <2>2, <3>1, <3>2, FirstDiffIs DEF SplitAt, DiffPos
    <3>4. Differs(V, dat, n)
      BY <2>2, <2>4, <3>1, <3>2, <3>3 DEF Differs
    <3>5. Inserts(V, dat, n)
      BY <1>4, <1>6, <3>4 DEF Inserts
    <3> QED
      BY <1>4, <3>5, MismatchLocal
  <2> QED
    BY <1>5, <1>9, <2>3, <2>4
<1> QED
  BY <1>7, <1>8, <1>9

\* A walk can go on from m: it stands at a node, or has come to the end of the
\* key at a node that holds a record.
Proceeds(V, D, m) ==
  /\ m.cw.st = "VALID" /\ m.cd # Nil
  /\ \/ At(V, D, m)
     \/ m.start >= Width /\ Holds(V, D, m) /\ m.cd = Unset

\* Where find_data goes from the word of cur.
LEMMA WalkLocal ==
  ASSUME NEW V, NEW m, Nodes(V, dat), Active(V, dat, m), Proceeds(V, dat, m)
  PROVE  Local(V, dat, Walk(m))
<1>1. m \in Locals /\ Width \in Int /\ m.start \in Int /\ m.fs \in Int /\ m.cur \in Nat
  BY TreeAssumption DEF Active, Ranges, Locals
<1>2. CASE m.start >= Width
  <2>1. Holds(V, dat, m) /\ m.cd = Unset
    BY <1>1, <1>2 DEF Proceeds, At
  <2>2. Local(V, dat, [m EXCEPT !.pc = "found"])
    <3>1. ASSUME NEW n \in Locals, n.pc = "found", SameWalk(n, m)
          PROVE  Where(V, dat, n)
      <4>1. Holds(V, dat, n) /\ n.cd = Unset
        BY <2>1, <3>1, WalkSame DEF SameWalk
      <4> QED
        BY <3>1, <4>1 DEF Where
    <3> QED
      BY <3>1, AllPoints, GoLocal
  <2> QED
    BY <1>2, <2>2 DEF Walk
<1>3. CASE ~ (m.start >= Width) /\ m.fs = m.start /\ m.cw.ty = "DATA"
  <2>1. At(V, dat, m)
    BY <1>3 DEF Proceeds
  <2>2. Local(V, dat, AtData(m))
    BY <1>3, <2>1, AtDataLocal DEF Proceeds
  <2> QED
    BY <1>3, <2>2 DEF Walk
<1>4. CASE ~ (m.start >= Width) /\ m.fs = m.start /\ m.cw.ty # "DATA"
  <2>1. Rightward(V, dat, m)
    BY <1>4 DEF Proceeds, Rightward, At, WordOf, Types
  <2>2. Local(V, dat, [m EXCEPT !.pc = "right"])
    <3>1. ASSUME NEW n \in Locals, n.pc = "right", SameWalk(n, m)
          PROVE  Where(V, dat, n)
      <4>1. Rightward(V, dat, n)
        BY <2>1, <3>1, WalkSame
      <4> QED
        BY <3>1, <4>1 DEF Where
    <3> QED
      BY <3>1, AllPoints, GoLocal
  <2> QED
    BY <1>4, <2>2 DEF Walk
<1>5. CASE ~ (m.start >= Width) /\ m.fs # m.start
  <2>1. At(V, dat, m) /\ m.fs > m.start
    BY <1>1, <1>5 DEF Proceeds, At
  <2>2. CASE m.cd # Unset
    <3>1. m.cd \in 1 .. Len(dat)
      BY <2>2 DEF Proceeds, Active, Ranges, Nodes, Unset, Nil
    <3>2. Local(V, dat, GetDataId(m, m.cur, "recheck"))
      BY <1>1, <2>1, <3>1, GetDataIdLocal
    <3> QED
      BY <1>5, <2>2, <3>2 DEF Walk
  <2>3. CASE m.cd = Unset
    <3>1. Local(V, dat, Down(m))
      BY <2>1, <2>3, DownLocal DEF Downward
    <3> QED
      BY <1>5, <2>3, <3>1 DEF Walk
  <2> QED
    BY <2>2, <2>3
<1> QED
  BY <1>2, <1>3, <1>4, <1>5

\* The walk goes on from a node it has read again or gone down to.
LEMMA ContinueLocal ==
  ASSUME NEW V, NEW m, Nodes(V, dat), Active(V, dat, m), m.fs >= m.start,
         m.fs > m.start => Downward(V, dat, m),
         m.fs = m.start => Proceeds(V, dat, m)
  PROVE  Local(V, dat, Continue(m)) /\ (m.fs > m.start => Continue(m) = Down(m))
         /\ (m.fs = m.start => Continue(m) = Walk(m))
<1>1. m.start \in Int /\ m.fs \in Int
  BY DEF Active, Ranges, Locals
<1>2. CASE m.fs > m.start
  BY <1>1, <1>2, DownLocal DEF Continue
<1>3. CASE m.fs = m.start
  BY <1>1, <1>3, WalkLocal DEF Continue
<1> QED
  BY <1>1, <1>2, <1>3


\* The segment to the right is compared with the record cd.
LEMMA CompareLocal ==
  ASSUME NEW V, NEW m, Nodes(V, dat), Active(V, dat, m), ReadOnRight(V, dat, m), Usable(m.nw),
         m.cd \in 1 .. Len(dat)
  PROVE  Local(V, dat, Compare(m))
<1> DEFINE s == SegmentEnd(m)
           f == FirstSet(m.key, SegmentEnd(m), Width)
           n == [m EXCEPT !.pre = m.cur, !.cur = m.nxt, !.cw = m.nw, !.dir = "RIGHT",
                          !.start = s, !.fs = f]
<1>1. SegmentEnd(m) = m.nw.pos + 1 /\ m.nw.pos \in -1 .. Width - 2 /\ Width \in Int
  BY WidthIs DEF ReadOnRight, Rightward, SegmentEnd, WordOf, Usable
<1>2. m.nxt \in Nat /\ m.nxt \in 2 .. Len(V) /\ m.nxt \in 1 .. Len(V) /\ m.nw \in Words /\ Len(V) \in Nat
      /\ m.nxt # Head1 /\ WordOf(V, dat, m.nxt, m.nw)
  BY DEF ReadOnRight, Rightward, At, WordOf, Inner, Nodes, Head1
<1>3. CASE DiffPos(m) < SegmentEnd(m)
  <2>1. Differs(V, dat, m)
    BY <1>3 DEF Differs, DiffPos, SplitAt
  <2>2. Local(V, dat, GetDataId(m, m.nxt, "confirm"))
    BY <1>2, <2>1, GetDataIdLocal
  <2> QED
    BY <1>3, <2>2 DEF Compare
<1>4. CASE ~ (DiffPos(m) < SegmentEnd(m))
  <2>1. ~ (SegmentEnd(m) >= Width) /\ SegmentEnd(m) \in Int /\ SegmentEnd(m) <= Width
    BY <1>1
  <2>2. FirstSet(m.key, SegmentEnd(m), Width) \in SegmentEnd(m) .. Width /\ Width \in Int
    <3>1. m.key \in Keys
      BY DEF Active, Wants
    <3> QED
      BY SMTT(30), <1>1, <2>1, <3>1, FirstSetWidth, WidthIs
  <2>3. Compare(m) = Walk(n)
    BY <1>4, <2>1 DEF Compare
  <2>4. /\ Active(V, dat, n)
        /\ n.cur = m.nxt /\ n.cw = m.nw /\ n.dir = "RIGHT" /\ n.start = s
        /\ n.fs = f /\ n.cd = m.cd
    <3>1. f \in Int /\ s \in Int
      BY <2>1, <2>2
    <3> HIDE DEF s, f
    <3>2. m \in Locals /\ m.cur \in Nat
      BY DEF Active, Ranges, Locals
    <3>3. n \in Locals
      BY <1>2, <3>1, <3>2 DEF Locals
    <3>4. /\ n.cur = m.nxt /\ n.cw = m.nw /\ n.dir = "RIGHT" /\ n.start = s /\ n.fs = f
          /\ n.cd = m.cd /\ n.pre = m.cur
      BY <3>2 DEF Locals
    <3>5. SameCall(n, m) /\ SameNext(n, m)
      BY <3>2 DEF Locals, SameCall, SameNext
    <3> HIDE DEF n
    <3>6. n.cur \in 0 .. Len(V) /\ n.pre \in 0 .. Len(V) /\ n.nxt \in 0 .. Len(V)
          /\ n.cd \in {Unset} \union 0 .. Len(dat)
      BY <1>2, <3>4, <3>5 DEF Active, Ranges, SameNext
    <3> QED
      BY <3>3, <3>4, <3>5, <3>6, StaysActive
  <2>5. At(V, dat, n)
    BY <1>1, <1>2, <2>1, <2>2, <2>4 DEF At
  <2>6. Proceeds(V, dat, n)
    BY <2>4, <2>5 DEF Proceeds, Usable, Nil
  <2> QED
    BY <2>3, <2>4, <2>6, WalkLocal
<1> QED
  BY <1>3, <1>4

\* The variables of get_data_id are given up.
LEMMA GidCleared ==
  ASSUME NEW V, NEW D, NEW m, Active(V, D, m)
  PROVE  LET n == [m EXCEPT !.gv = Nil, !.gc = Nil, !.gw = NoWord, !.gn = Nil, !.gx = NoWord,
                            !.back = "NONE"]
         IN  Active(V, D, n) /\ SameCall(n, m) /\ SameWalk(n, m) /\ SameNext(n, m)
<1> DEFINE n == [m EXCEPT !.gv = Nil, !.gc = Nil, !.gw = NoWord, !.gn = Nil, !.gx = NoWord,
                          !.back = "NONE"]
<1>1. m \in Locals /\ NoWord \in Words /\ Nil \in Nat
  BY DEF Active, Ranges, NoWord, Words, Nil
<1>2. n \in Locals
  BY <1>1 DEF Locals
<1>3. SameCall(n, m) /\ SameWalk(n, m) /\ SameNext(n, m)
  BY <1>1 DEF Locals, SameCall, SameWalk, SameNext
<1> HIDE DEF n
<1>4. Active(V, D, n)
  <2>1. n.cur \in 0 .. Len(V) /\ n.pre \in 0 .. Len(V) /\ n.nxt \in 0 .. Len(V)
        /\ n.cd \in {Unset} \union 0 .. Len(D)
    BY <1>3 DEF Active, Ranges, SameNext, SameWalk
  <2> QED
    BY <1>2, <1>3, <2>1, StaysActive
<1> QED
  BY <1>3, <1>4 DEF n

\* What get_data_id may return: a record, nothing if it began at the head, or
\* a code.
Returned(D, m) ==
  1 .. Len(D) \union {DO_AGAIN} \union Trouble \union (IF m.gv = Head1 THEN {Nil} ELSE {})

\* get_data_id returns to the walk.
LEMMA GidReturnLocal ==
  ASSUME NEW V, NEW m, Nodes(V, dat), Active(V, dat, m), Calling(V, dat, m),
         NEW r \in Returned(dat, m)
  PROVE  Local(V, dat, GidReturn(m, r))
<1> DEFINE n == [m EXCEPT !.gv = Nil, !.gc = Nil, !.gw = NoWord, !.gn = Nil, !.gx = NoWord,
                          !.back = "NONE"]
           nr == [n EXCEPT !.cd = r]
           nu == [n EXCEPT !.cd = Unset]
<1>0. Len(dat) \in Nat /\ Len(V) \in Nat \ {0}
  BY DEF Nodes
<1>1. Active(V, dat, n) /\ SameCall(n, m) /\ SameWalk(n, m) /\ SameNext(n, m)
  BY GidCleared
<1>2. /\ r \in 1 .. Len(dat) =>
           /\ Active(V, dat, nr) /\ nr.cd = r /\ SameNext(nr, n)
           /\ nr.cur = n.cur /\ nr.cw = n.cw /\ nr.pre = n.pre /\ nr.start = n.start
           /\ nr.fs = n.fs /\ nr.dir = n.dir
      /\ /\ Active(V, dat, nu) /\ nu.cd = Unset /\ SameNext(nu, n)
         /\ nu.cur = n.cur /\ nu.cw = n.cw /\ nu.pre = n.pre /\ nu.start = n.start
         /\ nu.fs = n.fs /\ nu.dir = n.dir
  <2> HIDE DEF n
  <2>1. ASSUME r \in 1 .. Len(dat)
        PROVE  /\ Active(V, dat, nr) /\ nr.cd = r /\ SameNext(nr, n)
               /\ nr.cur = n.cur /\ nr.cw = n.cw /\ nr.pre = n.pre /\ nr.start = n.start
               /\ nr.fs = n.fs /\ nr.dir = n.dir
    <3>1. r \in {Unset} \union 0 .. Len(dat)
      BY <1>0, <2>1
    <3> QED
      BY <1>0, <1>1, <3>1, SetCd
  <2>2. /\ Active(V, dat, nu) /\ nu.cd = Unset /\ SameNext(nu, n)
        /\ nu.cur = n.cur /\ nu.cw = n.cw /\ nu.pre = n.pre /\ nu.start = n.start
        /\ nu.fs = n.fs /\ nu.dir = n.dir
    BY <1>0, <1>1, SetCd
  <2> QED
    BY <2>1, <2>2
<1>3. /\ m.back = "compare" => GidReturn(m, r) =
             IF r > 0 THEN Compare(nr)
             ELSE IF r = DO_AGAIN THEN Restart(n)
             ELSE IF r = Nil
             THEN IF m.op = "INSERT" THEN [n EXCEPT !.pc = "insert_first"] ELSE Answer(n, m.ret)
             ELSE Fail(n, r)
      /\ m.back = "confirm" => GidReturn(m, r) = IF r = m.cd THEN Mismatch(n) ELSE Restart(n)
      /\ m.back = "recheck" => GidReturn(m, r) = IF r = m.cd THEN Continue(nu) ELSE Restart(n)
      /\ m.back = "near" => GidReturn(m, r) =
             IF r > 0 THEN Answer(n, m.ret)
             ELSE IF r = DO_AGAIN THEN Restart(n)
             ELSE Fail(n, IF r = Nil THEN NullCode ELSE r)
  BY DEF GidReturn
<1>4. /\ r > 0 => r \in 1 .. Len(dat)
      /\ r \in 1 .. Len(dat) \/ r = Nil \/ r \in Codes
      /\ r = Nil => m.gv = Head1
  <2>1. \A c \in Trouble : c = -2 \/ c = -3
    BY TreeAssumption DEF NOMEM, WAIT_AMT
  <2>2. \/ r \in 1 .. Len(dat)
        \/ r = -4
        \/ r \in Trouble
        \/ r = Nil /\ m.gv = Head1
    BY DEF Returned, DO_AGAIN
  <2>3. r \in 1 .. Len(dat) \/ r = Nil \/ r \in Codes
    BY <2>2 DEF Codes, DO_AGAIN
  <2> HIDE DEF n, nr, nu
  <2>4. CASE r \in 1 .. Len(dat)
    BY <1>0, <2>3, <2>4 DEF Nil
  <2>5. CASE r = -4
    BY <2>3, <2>5 DEF Nil
  <2>6. CASE r \in Trouble
    <3>1. r = -2 \/ r = -3
      BY <2>1, <2>6
    <3> QED
      BY <2>3, <3>1 DEF Nil
  <2>7. CASE r = Nil /\ m.gv = Head1
    BY <2>3, <2>7 DEF Nil
  <2> QED
    BY <2>2, <2>4, <2>5, <2>6, <2>7
<1>5. NullCode \in Codes /\ Local(V, dat, Restart(n)) /\ Local(V, dat, Answer(n, m.ret))
  <2>1. m.ret \in Codes
    BY DEF Active, Ranges
  <2> HIDE DEF n
  <2> QED
    BY <1>0, <1>1, <2>1, RestartLocal, AnswerLocal DEF Codes
<1> HIDE DEF n, nr, nu
<1>6. CASE m.back = "compare"
  <2>1. ReadOnRight(V, dat, m) /\ Usable(m.nw) /\ m.gv = m.nxt /\ m.cd = Unset
    BY <1>6 DEF Calling
  <2>2. r # Nil
    BY <1>4, <2>1 DEF ReadOnRight, Rightward, At, WordOf, Inner, Head1
  <2>3. CASE r > 0
    <3>1. ReadOnRight(V, dat, nr) /\ Usable(nr.nw)
      BY <1>1, <1>2, <1>4, <2>1, <2>2, <2>3
      DEF ReadOnRight, Rightward, At, SameWalk, SameNext, Nil
    <3>2. Local(V, dat, Compare(nr))
      BY <1>2, <1>4, <2>3, <3>1, CompareLocal
    <3> QED
      BY <1>3, <1>6, <2>3, <3>2
  <2>4. CASE ~ (r > 0)
    <3>1. r \in Codes
      BY <1>0, <1>4, <2>2, <2>4
    <3>2. Local(V, dat, Fail(n, r))
      BY <1>1, <3>1, FailLocal
    <3> QED
      BY <1>3, <1>5, <1>6, <2>2, <2>4, <3>2
  <2> QED
    BY <2>3, <2>4
<1>7. CASE m.back = "confirm"
  <2>1. ReadOnRight(V, dat, m) /\ Differs(V, dat, m)
    BY <1>7 DEF Calling
  <2>2. n.key = m.key
    BY <1>1 DEF SameCall
  <2>3. Inserts(V, dat, m)
    BY <2>1 DEF Inserts, ReadOnRight, Rightward
  <2>4. Local(V, dat, Mismatch(n))
    BY <1>1, <2>2, <2>3, SplitSame, MismatchLocal
  <2> QED
    BY <1>3, <1>5, <1>7, <2>4
<1>8. CASE m.back = "recheck"
  <2>1. At(V, dat, m) /\ m.fs > m.start
    BY <1>8 DEF Calling
  <2>2. Downward(V, dat, nu)
    BY <1>1, <1>2, <2>1 DEF Downward, At, SameWalk
  <2>3. nu.fs > nu.start /\ nu.fs >= nu.start /\ nu.fs # nu.start
    BY <2>2 DEF Downward, At, WordOf
  <2>4. Local(V, dat, Continue(nu))
    BY <1>2, <2>2, <2>3, ContinueLocal
  <2> QED
    BY <1>3, <1>5, <1>8, <2>4
<1>9. CASE m.back = "near"
  <2>1. ~ (r > 0) => Local(V, dat, Fail(n, IF r = Nil THEN NullCode ELSE r))
    <3>1. ~ (r > 0) => (IF r = Nil THEN NullCode ELSE r) \in Codes
      BY <1>0, <1>4, <1>5
    <3> QED
      BY <1>1, <3>1, FailLocal
  <2> QED
    BY <1>3, <1>5, <1>9, <2>1
<1> QED
  BY <1>6, <1>7, <1>8, <1>9 DEF Calling

\* get_data_id goes on from a valid word.
LEMMA GidWalkLocal ==
  ASSUME NEW V, NEW m, Nodes(V, dat), Active(V, dat, m), Descending(V, dat, m),
         m.gw.st = "VALID"
  PROVE  Local(V, dat, GidWalk(m))
<1>1. CASE m.gw.ty = "DATA"
  <2>1. m.gw.rd \in Returned(dat, m)
    <3>1. m.gw.rd \in 0 .. Len(dat) /\ (m.gc # Head1 => m.gw.rd # Nil) /\ Len(dat) \in Nat
      BY <1>1 DEF Descending, WordOf, Nodes
    <3>2. m.gw.rd = Nil => m.gv = Head1
      BY <3>1 DEF Descending
    <3>3. m.gw.rd \in 1 .. Len(dat) \/ m.gw.rd = Nil
      BY <3>1 DEF Nil
    <3> QED
      BY <3>2, <3>3 DEF Returned
  <2>2. Local(V, dat, GidReturn(m, m.gw.rd))
    BY <2>1, GidReturnLocal DEF Descending
  <2> QED
    BY <1>1, <2>2 DEF GidWalk
<1>2. CASE m.gw.ty # "DATA"
  <2> DEFINE n == [m EXCEPT !.pc = "gid_next", !.gn = m.gw.rd]
  <2>1. m \in Locals /\ m.gw.ty = "RIGHT" /\ m.gw.rd \in Nat
    BY <1>2 DEF Active, Ranges, Descending, WordOf, Types, Words
  <2>2. n \in Locals
    BY <2>1, AllPoints DEF Locals
  <2>3. n.pc = "gid_next" /\ n.gn = m.gw.rd /\ n.gv = m.gv /\ n.gc = m.gc /\ n.gw = m.gw /\ n.back = m.back
    BY <2>1 DEF Locals
  <2>4. SameCall(n, m) /\ SameWalk(n, m) /\ SameNext(n, m)
    BY <2>1 DEF Locals, SameCall, SameWalk, SameNext
  <2>5. GidWalk(m) = n
    BY <1>2 DEF GidWalk
  <2> HIDE DEF n
  <2>6. Active(V, dat, n)
    <3>1. n.cur \in 0 .. Len(V) /\ n.pre \in 0 .. Len(V) /\ n.nxt \in 0 .. Len(V)
          /\ n.cd \in {Unset} \union 0 .. Len(dat)
      BY <2>4 DEF Active, Ranges, SameNext, SameWalk
    <3> QED
      BY <2>2, <2>4, <3>1, StaysActive
  <2>7. Calling(V, dat, n)
    <3>1. n.key = m.key /\ n.cd = m.cd /\ n.cur = m.cur /\ n.nxt = m.nxt /\ n.nw = m.nw
          /\ n.fs = m.fs /\ n.start = m.start
      BY <2>4 DEF SameCall, SameWalk, SameNext
    <3> QED
      BY <2>3, <2>4, <3>1, WalkSame, NextSame, SplitSame DEF Calling, Descending
  <2>8. Where(V, dat, n)
    BY <2>1, <2>3, <2>7 DEF Where, Stepping, Descending
  <2> QED
    BY <2>3, <2>5, <2>6, <2>8 DEF Local
<1> QED
  BY <1>1, <1>2

\* An invalid right neighbour is passed over.
LEMMA PassRightWord ==
  ASSUME NEW V, NEW D, NEW v, NEW w, NEW x, WordOf(V, D, v, w), w.ty = "RIGHT",
         WordOf(V, D, w.rd, x)
  PROVE  WordOf(V, D, v, PassRight(v, w, x))
<1>1. w \in Words /\ x \in Words /\ w.rd \in Inner(V) /\ x.ty \in Types
  BY DEF WordOf
<1>2. CASE x.ty = "DATA" /\ x.down # Nil
  <2> DEFINE n == [w EXCEPT !.rd = x.down]
  <2>1. PassRight(v, w, x) = n /\ x.down \in Inner(V) /\ x.down \in Nat
    BY <1>1, <1>2 DEF PassRight, WordOf, Words
  <2>2. n \in Words /\ n.rd = x.down /\ n.st = w.st /\ n.ty = "RIGHT" /\ n.pos = w.pos /\ n.down = w.down
    BY <1>1, <2>1 DEF Words
  <2> HIDE DEF n
  <2> QED
    BY <2>1, <2>2 DEF WordOf
<1>3. CASE x.ty = "DATA" /\ x.down = Nil
  <2> DEFINE s == IF x.rd = Nil /\ v # Head1 THEN "INVALID" ELSE w.st
             n == [w EXCEPT !.rd = x.rd, !.ty = "DATA", !.st = s]
  <2>1. PassRight(v, w, x) = n /\ x.rd \in 0 .. Len(D) /\ x.rd \in Nat
    BY <1>1, <1>3 DEF PassRight, WordOf, Words
  <2>2. s \in Statuses /\ (v = Head1 => s = w.st) /\ (v # Head1 /\ s = "VALID" => x.rd # Nil)
    BY DEF WordOf, Statuses
  <2> HIDE DEF s
  <2>3. n \in Words /\ n.rd = x.rd /\ n.st = s /\ n.ty = "DATA" /\ n.pos = w.pos /\ n.down = w.down
    BY <1>1, <2>1, <2>2 DEF Words, Types
  <2> HIDE DEF n
  <2> QED
    BY <2>1, <2>2, <2>3 DEF WordOf, Types
<1>4. CASE x.ty # "DATA"
  <2> DEFINE n == [w EXCEPT !.rd = x.rd]
  <2>1. PassRight(v, w, x) = n /\ x.rd \in Inner(V) /\ x.rd \in Nat
    BY <1>1, <1>4 DEF PassRight, WordOf, Words, Types
  <2>2. n \in Words /\ n.rd = x.rd /\ n.st = w.st /\ n.ty = "RIGHT" /\ n.pos = w.pos /\ n.down = w.down
    BY <1>1, <2>1 DEF Words
  <2> HIDE DEF n
  <2> QED
    BY <2>1, <2>2 DEF WordOf
<1> QED
  BY <1>2, <1>3, <1>4

-----------------------------------------------------------------------------
(* The steps of a thread, seen by the others.                               *)

\* Nodes and records are added, nodes keep their positions and records their
\* keys.
Grow(V, D, V2, D2) ==
  /\ Len(V) \in Nat /\ Len(V2) \in Nat /\ Len(V) <= Len(V2)
  /\ Len(D) \in Nat /\ Len(D2) \in Nat /\ Len(D) <= Len(D2)
  /\ \A v \in 1 .. Len(V) : V2[v].pos = V[v].pos
  /\ \A d \in 1 .. Len(D) : D2[d].key = D[d].key

\* A word of a tree is a word of every tree grown from it.
LEMMA GrowWord ==
  ASSUME NEW V, NEW D, NEW V2, NEW D2, Grow(V, D, V2, D2), NEW v, NEW w, WordOf(V, D, v, w)
  PROVE  WordOf(V2, D2, v, w)
<1>1. Inner(V) \subseteq Inner(V2) /\ 1 .. Len(V) \subseteq 1 .. Len(V2)
      /\ 0 .. Len(D) \subseteq 0 .. Len(D2)
  BY DEF Grow, Inner
<1>2. V2[v].pos = V[v].pos /\ v \in 1 .. Len(V2)
  BY <1>1 DEF Grow, WordOf
<1> QED
  BY <1>1, <1>2 DEF WordOf

\* What a thread knows of the tree stays true when the tree grows.
LEMMA GrowWhere ==
  ASSUME NEW V, NEW D, NEW V2, NEW D2, Grow(V, D, V2, D2), NEW m, Where(V, D, m)
  PROVE  Where(V2, D2, m)
<1>0. Inner(V) \subseteq Inner(V2) /\ 1 .. Len(V) \subseteq 1 .. Len(V2)
      /\ 1 .. Len(D) \subseteq 1 .. Len(D2)
  BY DEF Grow, Inner
<1>1. At(V, D, m) => At(V2, D2, m)
  BY GrowWord DEF At
<1>2. /\ Rightward(V, D, m) => Rightward(V2, D2, m)
      /\ Downward(V, D, m) => Downward(V2, D2, m)
      /\ Resumes(V, D, m) => Resumes(V2, D2, m)
      /\ Holds(V, D, m) => Holds(V2, D2, m)
  BY <1>1, GrowWord DEF Rightward, Downward, Resumes, Holds
<1>3. /\ ReadOnRight(V, D, m) => ReadOnRight(V2, D2, m)
      /\ ReadBelow(V, D, m) => ReadBelow(V2, D2, m)
  BY <1>2, GrowWord DEF ReadOnRight, ReadBelow
<1>4. Differs(V, D, m) => Differs(V2, D2, m)
  <2>1. m.cd \in 1 .. Len(D) => m.cd \in 1 .. Len(D2) /\ SplitAt(D2, m) = SplitAt(D, m)
    BY <1>0 DEF Grow, SplitAt
  <2> QED
    BY <2>1 DEF Differs
<1>5. Inserts(V, D, m) => Inserts(V2, D2, m)
  BY <1>1, <1>3, <1>4 DEF Inserts
<1>6. Calling(V, D, m) => Calling(V2, D2, m)
  BY <1>0, <1>1, <1>2, <1>3, <1>4 DEF Calling
<1>7. Descending(V, D, m) => Descending(V2, D2, m)
  BY <1>6, GrowWord DEF Descending
<1>8. Stepping(V, D, m) => Stepping(V2, D2, m)
  BY <1>7 DEF Stepping
<1>9. Freer(V, D, m) => Freer(V2, D2, m)
  BY <1>0, <1>2, <1>7 DEF Freer
<1> QED
  BY <1>0, <1>1, <1>2, <1>3, <1>5, <1>6, <1>7, <1>8, <1>9, GrowWord DEF Where

\* What one thread knows stays true while others add nodes and records.
LEMMA GrowLocal ==
  ASSUME NEW V, NEW D, NEW V2, NEW D2, Grow(V, D, V2, D2), NEW m, Local(V, D, m)
  PROVE  Local(V2, D2, m)
<1>1. Ranges(V, D, m) => Ranges(V2, D2, m)
  BY DEF Grow, Ranges
<1> QED
  BY <1>1, GrowWhere DEF Local, Active

\* A tree that does not change has grown by nothing.
LEMMA GrowNot ==
  ASSUME NEW V, NEW D, Nodes(V, D)
  PROVE  Grow(V, D, V, D)
BY DEF Grow, Nodes

\* A step of one thread.
LEMMA BecomeInv ==
  ASSUME TreeInv, NEW t \in Thread, NEW m, loc' = [loc EXCEPT ![t] = m],
         Grow(vec, dat, vec', dat'), Nodes(vec', dat'), Local(vec', dat', m)
  PROVE  TreeInv'
<1>1. m \in Locals
  <2>1. Idle \in Locals
    BY AllPoints DEF Idle, Locals, Words, NoWord, Operation, NOT_FOUND, Nil, Unset
  <2> QED
    BY <2>1 DEF Local, Active, Ranges
<1>2. loc' \in [Thread -> Locals] /\ loc'[t] = m /\ \A u \in Thread \ {t} : loc'[u] = loc[u]
  BY <1>1 DEF TreeInv
<1>3. ASSUME NEW u \in Thread PROVE Local(vec', dat', loc'[u])
  BY <1>2, GrowLocal DEF TreeInv
<1> QED
  BY <1>2, <1>3 DEF TreeInv

\* A step that leaves the tree as it is.
LEMMA ReadInv ==
  ASSUME TreeInv, NEW t \in Thread, NEW m, Become(t, m), UNCHANGED <<vec, dat>>,
         Local(vec, dat, m)
  PROVE  TreeInv'
<1>1. Grow(vec, dat, vec', dat') /\ Nodes(vec', dat') /\ Local(vec', dat', m)
  BY GrowNot DEF TreeInv
<1> QED
  BY <1>1, BecomeInv DEF Become

\* A word of a node takes the place of another.
LEMMA NewWord ==
  ASSUME NEW V, NEW D, Nodes(V, D), NEW v, NEW w, WordOf(V, D, v, w)
  PROVE  Nodes([V EXCEPT ![v] = w], D) /\ Grow(V, D, [V EXCEPT ![v] = w], D)
<1> DEFINE V2 == [V EXCEPT ![v] = w]
<1>1. V \in Seq(Words) /\ v \in 1 .. Len(V) /\ w \in Words /\ w.pos = V[v].pos
  BY DEF Nodes, WordOf
<1>2. V2 \in Seq(Words) /\ Len(V2) = Len(V)
      /\ \A u \in 1 .. Len(V) : V2[u] = IF u = v THEN w ELSE V[u]
  BY <1>1
<1> HIDE DEF V2
<1>3. Grow(V, D, V2, D)
  BY <1>1, <1>2 DEF Grow, Nodes
<1>4. ASSUME NEW u \in 1 .. Len(V2) PROVE WordOf(V2, D, u, V2[u])
  <2>1. WordOf(V, D, u, V2[u])
    BY <1>2 DEF Nodes
  <2> QED
    BY <1>3, <2>1, GrowWord
<1> QED
  BY <1>2, <1>3, <1>4 DEF Nodes, V2

\* A compare-and-swap of a node's word.
LEMMA CasInv ==
  ASSUME TreeInv, NEW t \in Thread, NEW v, NEW old, NEW new, NEW yes, NEW no,
         Cas(t, v, old, new, yes, no), dat' = dat, WordOf(vec, dat, v, new),
         Local(vec, dat, yes), Local(vec, dat, no)
  PROVE  TreeInv'
<1>1. CASE vec[v] = old
  <2>1. vec' = [vec EXCEPT ![v] = new] /\ loc' = [loc EXCEPT ![t] = yes]
    BY <1>1 DEF Cas, Become
  <2>2. Nodes(vec', dat') /\ Grow(vec, dat, vec', dat')
    BY <2>1, NewWord DEF TreeInv
  <2>3. Local(vec', dat', yes)
    BY <2>2, GrowLocal
  <2> QED
    BY <2>1, <2>2, <2>3, BecomeInv
<1>2. CASE vec[v] # old
  <2>1. vec' = vec /\ Become(t, no)
    BY <1>2 DEF Cas
  <2> QED
    BY <2>1, ReadInv
<1> QED
  BY <1>1, <1>2

\* A thread in a call.
LEMMA InCall ==
  ASSUME TreeInv, NEW t \in Thread, loc[t].pc \notin {"idle", "return"}
  PROVE  /\ Active(vec, dat, loc[t]) /\ Where(vec, dat, loc[t]) /\ loc[t] \in Locals
         /\ Nodes(vec, dat) /\ Len(vec) \in Nat \ {0} /\ Len(dat) \in Nat
BY DEF TreeInv, Local, Idle, Nodes

-----------------------------------------------------------------------------
(* The steps, one by one.                                                   *)

\* What a node holds now is a word of its own.
LEMMA NodeWord ==
  ASSUME NEW V, NEW D, Nodes(V, D)
  PROVE  /\ \A v \in 1 .. Len(V) : WordOf(V, D, v, V[v]) /\ V[v] \in Words
         /\ \A v \in Inner(V) : /\ v \in 1 .. Len(V) /\ v \in Nat /\ v # Nil /\ v # Head1
                                /\ WordOf(V, D, v, V[v]) /\ V[v] \in Words
<1>1. \A v \in 1 .. Len(V) : WordOf(V, D, v, V[v]) /\ V[v] \in Words
  BY DEF Nodes, WordOf
<1>2. \A v \in Inner(V) : v \in 1 .. Len(V) /\ v \in Nat /\ v # Nil /\ v # Head1
  BY DEF Inner, Nodes, Nil, Head1
<1> QED
  BY <1>1, <1>2

\* The variables a step sets, field by field.
LEMMA SetNext ==
  ASSUME NEW V, NEW D, NEW m, Active(V, D, m), NEW c \in 1 .. Len(V), NEW w \in Words,
         Len(V) \in Nat
  PROVE  LET n == [m EXCEPT !.nxt = c, !.nw = w]
         IN  /\ Active(V, D, n)
             /\ n.nxt = c /\ n.nw = w /\ SameCall(n, m) /\ SameWalk(n, m) /\ SameGid(n, m)
<1> DEFINE n == [m EXCEPT !.nxt = c, !.nw = w]
<1>1. m \in Locals /\ c \in Nat
  BY DEF Active, Ranges
<1>2. n \in Locals
  BY <1>1 DEF Locals
<1>3. n.nxt = c /\ n.nw = w
  BY <1>1 DEF Locals
<1>4. SameCall(n, m) /\ SameWalk(n, m) /\ SameGid(n, m)
  BY <1>1 DEF Locals, SameCall, SameWalk, SameGid
<1> HIDE DEF n
<1>5. Active(V, D, n)
  <2>1. n.cur \in 0 .. Len(V) /\ n.pre \in 0 .. Len(V) /\ n.nxt \in 0 .. Len(V)
        /\ n.cd \in {Unset} \union 0 .. Len(D)
    BY <1>3, <1>4 DEF Active, Ranges, SameWalk
  <2> QED
    BY <1>2, <1>4, <2>1, StaysActive
<1> QED
  BY <1>3, <1>4, <1>5 DEF n

\* A walk that reads the word of cur again.
LEMMA SetCw ==
  ASSUME NEW V, NEW D, NEW m, Active(V, D, m), NEW w \in Words
  PROVE  LET n == [m EXCEPT !.cw = w]
         IN  /\ Active(V, D, n)
             /\ n.cw = w /\ SameCall(n, m) /\ SameNext(n, m) /\ SameGid(n, m)
             /\ n.cur = m.cur /\ n.pre = m.pre /\ n.start = m.start /\ n.fs = m.fs
             /\ n.dir = m.dir /\ n.cd = m.cd
<1> DEFINE n == [m EXCEPT !.cw = w]
<1>1. m \in Locals
  BY DEF Active, Ranges
<1>2. n \in Locals
  BY <1>1 DEF Locals
<1>3. n.cw = w /\ n.cur = m.cur /\ n.pre = m.pre /\ n.start = m.start /\ n.fs = m.fs
      /\ n.dir = m.dir /\ n.cd = m.cd
  BY <1>1 DEF Locals
<1>4. SameCall(n, m) /\ SameNext(n, m) /\ SameGid(n, m)
  BY <1>1 DEF Locals, SameCall, SameNext, SameGid
<1> HIDE DEF n
<1>5. Active(V, D, n)
  <2>1. n.cur \in 0 .. Len(V) /\ n.pre \in 0 .. Len(V) /\ n.nxt \in 0 .. Len(V)
        /\ n.cd \in {Unset} \union 0 .. Len(D)
    BY <1>3, <1>4 DEF Active, Ranges, SameNext
  <2> QED
    BY <1>2, <1>4, <2>1, StaysActive
<1> QED
  BY <1>3, <1>4, <1>5 DEF n

\* What sets neither the call nor the walk leaves a call in progress.
LEMMA SameActive ==
  ASSUME NEW V, NEW D, NEW m, Active(V, D, m), NEW n \in Locals, SameCall(n, m),
         SameWalk(n, m), SameNext(n, m)
  PROVE  Active(V, D, n)
<1>1. n.cur \in 0 .. Len(V) /\ n.pre \in 0 .. Len(V) /\ n.nxt \in 0 .. Len(V)
      /\ n.cd \in {Unset} \union 0 .. Len(D)
  BY DEF Active, Ranges, SameWalk, SameNext
<1> QED
  BY <1>1, StaysActive

\* The word of the node get_data_id looks at next.
LEMMA SetGx ==
  ASSUME NEW V, NEW D, NEW m, Active(V, D, m), NEW w \in Words
  PROVE  LET n == [m EXCEPT !.gx = w]
         IN  /\ Active(V, D, n)
             /\ n.gx = w /\ SameCall(n, m) /\ SameWalk(n, m) /\ SameNext(n, m)
             /\ n.gv = m.gv /\ n.back = m.back /\ n.gc = m.gc /\ n.gw = m.gw /\ n.gn = m.gn
<1> DEFINE n == [m EXCEPT !.gx = w]
<1>1. m \in Locals
  BY DEF Active, Ranges
<1>2. n \in Locals
  BY <1>1 DEF Locals
<1>3. n.gx = w /\ n.gv = m.gv /\ n.back = m.back /\ n.gc = m.gc /\ n.gw = m.gw /\ n.gn = m.gn
  BY <1>1 DEF Locals
<1>4. SameCall(n, m) /\ SameWalk(n, m) /\ SameNext(n, m)
  BY <1>1 DEF Locals, SameCall, SameWalk, SameNext
<1> HIDE DEF n
<1>5. Active(V, D, n)
  <2>1. n.cur \in 0 .. Len(V) /\ n.pre \in 0 .. Len(V) /\ n.nxt \in 0 .. Len(V)
        /\ n.cd \in {Unset} \union 0 .. Len(D)
    BY <1>4 DEF Active, Ranges, SameWalk, SameNext
  <2> QED
    BY <1>2, <1>4, <2>1, StaysActive
<1> QED
  BY <1>3, <1>4, <1>5 DEF n

\* get_data_id is still with its caller if only its own place has changed.
LEMMA CallingSame ==
  ASSUME NEW V, NEW D, NEW m, NEW n, Calling(V, D, m), SameCall(n, m), SameWalk(n, m),
         SameNext(n, m), n.gv = m.gv, n.back = m.back
  PROVE  Calling(V, D, n)
<1>1. n.key = m.key /\ n.cd = m.cd /\ n.cur = m.cur /\ n.nxt = m.nxt /\ n.nw = m.nw
      /\ n.fs = m.fs /\ n.start = m.start
  BY DEF SameCall, SameWalk, SameNext
<1> QED
  BY <1>1, WalkSame, NextSame, SplitSame DEF Calling

\* A node is given to vec_free_to_buf.
LEMMA FreeLocal ==
  ASSUME NEW V, NEW D, NEW m, Active(V, D, m), NEW v \in Inner(V),
         NEW b \in {"reread", "gid_reread"},
         b = "reread" => Resumes(V, D, m), b = "gid_reread" => Descending(V, D, m)
  PROVE  Local(V, D, [m EXCEPT !.pc = "free", !.fv = v, !.fback = b])
<1> DEFINE n == [m EXCEPT !.pc = "free", !.fv = v, !.fback = b]
<1>1. m \in Locals /\ v \in Nat
  BY DEF Active, Ranges, Inner
<1>2. n \in Locals
  BY <1>1, AllPoints DEF Locals
<1>3. n.pc = "free" /\ n.fv = v /\ n.fback = b
  BY <1>1 DEF Locals
<1>4. SameCall(n, m) /\ SameWalk(n, m) /\ SameNext(n, m) /\ SameGid(n, m)
  BY <1>1 DEF Locals, SameCall, SameWalk, SameNext, SameGid
<1> HIDE DEF n
<1>5. Active(V, D, n)
  <2>1. n.cur \in 0 .. Len(V) /\ n.pre \in 0 .. Len(V) /\ n.nxt \in 0 .. Len(V)
        /\ n.cd \in {Unset} \union 0 .. Len(D)
    BY <1>4 DEF Active, Ranges, SameWalk, SameNext
  <2> QED
    BY <1>2, <1>4, <2>1, StaysActive
<1>6. Freer(V, D, n)
  BY <1>3, <1>4, WalkSame, GidSame DEF Freer, SameCall
<1>7. Where(V, D, n)
  BY <1>3, <1>6 DEF Where
<1> QED
  BY <1>3, <1>5, <1>7 DEF n, Local

\* The status of a node's word changes.
LEMMA SetStatus ==
  ASSUME NEW V, NEW D, NEW v, NEW w, WordOf(V, D, v, w), v # Head1, NEW s \in Statuses,
         s = "VALID" => ~ (w.ty = "DATA" /\ w.rd = Nil)
  PROVE  WordOf(V, D, v, [w EXCEPT !.st = s])
<1> DEFINE n == [w EXCEPT !.st = s]
<1>1. w \in Words
  BY DEF WordOf
<1>2. n \in Words /\ n.st = s /\ n.ty = w.ty /\ n.pos = w.pos /\ n.down = w.down /\ n.rd = w.rd
  BY <1>1 DEF Words
<1> HIDE DEF n
<1> QED
  BY <1>2 DEF WordOf, n

\* A call begins.
LEMMA CallInv ==
  ASSUME TreeInv, NEW t \in Thread, NEW op \in Operation, NEW key \in Keys, Call(t, op, key)
  PROVE  TreeInv'
<1> DEFINE m == [Restart(Idle) EXCEPT !.op = op, !.goal = op, !.key = key]
<1>1. Idle \in Locals /\ Idle.ret = NOT_FOUND /\ Idle.cd = Unset /\ Idle.pre = Nil /\ Idle.nxt = Nil
  BY AllPoints DEF Idle, Locals, Words, NoWord, Operation, NOT_FOUND, Nil, Unset
<1>2. Nodes(vec, dat) /\ Len(vec) \in Nat \ {0} /\ Len(dat) \in Nat
  BY DEF TreeInv, Nodes
<1>3. Active(vec, dat, m) /\ m.pc = "forward" /\ m.cur = Head1
  <2>1. m = [Idle EXCEPT !.pc = "forward", !.cur = Head1, !.op = op, !.goal = op, !.key = key]
    BY <1>1 DEF Restart, Locals
  <2> HIDE DEF m
  <2>2. m \in Locals
    BY <1>1, <2>1, AllPoints DEF Locals, Head1
  <2>3. m.pc = "forward" /\ m.cur = Head1 /\ m.op = op /\ m.goal = op /\ m.key = key
    BY <1>1, <2>1 DEF Locals
  <2>4. m.ret = NOT_FOUND /\ m.cd = Unset /\ m.pre = Nil /\ m.nxt = Nil
    BY <1>1, <2>1 DEF Locals
  <2> QED
    BY <1>2, <2>2, <2>3, <2>4 DEF Active, Ranges, Wants, Owed, Codes, Head1, Nil
<1>4. Local(vec, dat, m)
  <2> HIDE DEF m
  <2> QED
    BY <1>2, <1>3 DEF Local, Where, Head1
<1>5. ASSUME NEW code \in Trouble PROVE Local(vec, dat, Answer(m, code))
  <2> HIDE DEF m
  <2> QED
    BY <1>3, AnswerLocal DEF Codes
<1>6. Become(t, m) \/ \E code \in Trouble : Become(t, Answer(m, code))
  BY DEF Call
<1>7. UNCHANGED <<vec, dat>>
  BY DEF Call
<1> HIDE DEF m
<1> QED
  BY <1>4, <1>5, <1>6, <1>7, ReadInv

\* A call returns.
LEMMA ReturnInv ==
  ASSUME TreeInv, NEW t \in Thread, Return(t)
  PROVE  TreeInv'
<1>1. Become(t, Idle) /\ UNCHANGED <<vec, dat>> /\ Local(vec, dat, Idle)
  BY DEF Return, Local
<1> QED
  BY <1>1, ReadInv


\* find_data reads the node it starts at, or resumes at (refind_forward).
LEMMA ForwardInv ==
  ASSUME TreeInv, NEW t \in Thread, Forward(t),
         FirstSetInRange' \/ loc[t].cur = Head1
  PROVE  TreeInv'
<1> DEFINE m == loc[t]
           w == vec[m.cur]
           from == IF m.cur = Head1 THEN 0 ELSE w.pos + 1
           n(f) == [m EXCEPT !.cw = w, !.pre = Nil, !.nxt = Nil, !.nw = NoWord, !.start = from,
                             !.fs = f, !.dir = "START", !.cd = Unset]
<1>1. /\ Active(vec, dat, m) /\ m \in Locals /\ m.cur \in 1 .. Len(vec)
      /\ Nodes(vec, dat) /\ Len(vec) \in Nat \ {0} /\ Len(dat) \in Nat
  BY InCall DEF Forward, Where
<1>2. WordOf(vec, dat, m.cur, w) /\ UNCHANGED <<vec, dat>>
  BY <1>1 DEF Nodes, Forward, Quiet
<1>3. from = w.pos + 1 /\ from \in 0 .. Width /\ from \in Int /\ Width \in Int /\ from <= Width
  BY <1>2, WidthIs DEF WordOf
<1>4. CASE w.st # "VALID"
  <2>1. Local(vec, dat, Answer(m, DO_AGAIN)) /\ Local(vec, dat, Restart(m))
    BY <1>1, AnswerLocal, RestartLocal DEF Codes
  <2>2. Become(t, Answer(m, DO_AGAIN)) \/ Become(t, Restart(m))
    BY <1>4 DEF Forward
  <2> QED
    BY <1>2, <2>1, <2>2, ReadInv
<1>5. CASE w.st = "VALID"
  <2>1. PICK f \in FirstSetFrom(m.key, from) : Become(t, Walk(n(f)))
    BY <1>5 DEF Forward
  <2>2. f \in Int /\ f >= from
    <3>1. FirstSet(m.key, from, Width) \in from .. Width
      BY <1>3, FirstSetIs
    <3> QED
      BY <1>3, <2>1, <3>1 DEF FirstSetFrom
  <2>3. m \in Locals /\ w \in Words /\ NoWord \in Words /\ Nil \in Nat /\ Unset \in Int
    BY <1>1, <1>2 DEF WordOf, NoWord, Words, Nil, Unset
  <2>4. n(f) \in Locals
    <3> HIDE DEF m, w, from
    <3> QED
      BY ZenonT(60), <1>3, <2>2, <2>3 DEF Locals
  <2>5. /\ n(f).cw = w /\ n(f).pre = Nil /\ n(f).nxt = Nil /\ n(f).start = from /\ n(f).fs = f
        /\ n(f).dir = "START" /\ n(f).cd = Unset /\ n(f).cur = m.cur
    <3> HIDE DEF m, w, from
    <3> QED
      BY <2>3 DEF Locals
  <2>6. SameCall(n(f), m)
    <3> HIDE DEF m, w, from
    <3> QED
      BY <2>3 DEF Locals, SameCall
  <2> HIDE DEF n, w, from
  <2>7. Active(vec, dat, n(f))
    <3>1. n(f).cur \in 0 .. Len(vec) /\ n(f).pre \in 0 .. Len(vec) /\ n(f).nxt \in 0 .. Len(vec)
          /\ n(f).cd \in {Unset} \union 0 .. Len(dat)
      BY <1>1, <2>5 DEF Nil
    <3> QED
      BY <1>1, <2>4, <2>6, <3>1, StaysActive
  <2>8. f <= Width
    <3> SUFFICES ASSUME ~ (f <= Width) PROVE FALSE
      OBVIOUS
    <3>0. FirstSetInRange' /\ f > Width
      <4>1. m.cur = Head1 => f <= Width
        <5> SUFFICES ASSUME m.cur = Head1 PROVE f <= Width
          OBVIOUS
        <5>1. from = 0
          BY DEF from
        <5>2. FirstSet(m.key, 0, Width) < Width \/ f \in Width .. Width + 0
          BY <2>1, <5>1 DEF FirstSetFrom
        <5>3. f = FirstSet(m.key, 0, Width) \/ f \in Width .. Width + 0
          BY <2>1, <5>1 DEF FirstSetFrom
        <5> QED
          BY <1>3, <2>2, <5>2, <5>3, FirstSetIs
      <4> QED
        BY <1>3, <2>2, <4>1
    <3>1. f # from /\ ~ (n(f).fs = n(f).start) /\ n(f).cd = Unset
      BY <1>3, <2>2, <2>5, <3>0
    <3>2. Walk(n(f)) = IF n(f).start >= Width THEN [n(f) EXCEPT !.pc = "found"] ELSE Down(n(f))
      BY <3>1 DEF Walk
    <3>3. Walk(n(f)).fs = f
      <4>1. \A p : [n(f) EXCEPT !.pc = p].fs = f
        BY <2>4, <2>5 DEF Locals
      <4>2. \A v, b : GetDataId(n(f), v, b).fs = f
        BY <2>4, <2>5 DEF Locals, GetDataId
      <4>3. Answer(n(f), n(f).ret).fs = f
        BY <2>4, <2>5 DEF Locals, Answer
      <4>4. n(f).op \in {"FIND", "INSERT", "DELETE"}
        BY <2>7 DEF Active, Wants, Operation
      <4> QED
        BY <3>2, <4>1, <4>2, <4>3, <4>4 DEF Down
    <3>4. loc'[t].fs = f
      BY <2>1, <3>3 DEF Become, TreeInv
    <3> QED
      BY <1>3, <2>2, <3>0, <3>4 DEF FirstSetInRange
  <2>9. Proceeds(vec, dat, n(f))
    <3>1. CASE from < Width
      <4>1. At(vec, dat, n(f))
        <5>1. f \in from .. Width
          BY <1>3, <2>2, <2>8, WidthIs
        <5> QED
          BY <1>2, <1>3, <2>5, <3>1, <5>1 DEF At
      <4> QED
        BY <1>5, <2>5, <4>1 DEF Proceeds, Unset, Nil
    <3>2. CASE ~ (from < Width)
      <4>1. w.ty = "DATA" /\ m.cur # Head1 /\ w.rd # Nil
        BY SMTT(30), <1>2, <1>3, <1>5, <3>2, TreeAssumption DEF WordOf
      <4>2. Holds(vec, dat, n(f))
        BY <1>2, <2>5, <4>1 DEF Holds
      <4> QED
        BY <1>3, <1>5, <2>5, <3>2, <4>2 DEF Proceeds, Unset, Nil
    <3> QED
      BY <3>1, <3>2
  <2>10. Local(vec, dat, Walk(n(f)))
    BY <1>1, <2>7, <2>9, WalkLocal
  <2> QED
    BY <1>2, <2>1, <2>10, ReadInv
<1> QED
  BY <1>4, <1>5

\* The neighbour on the right is read.
LEMMA ReadRightInv ==
  ASSUME TreeInv, NEW t \in Thread, ReadRight(t)
  PROVE  TreeInv'
<1> DEFINE l == loc[t]
           m == [l EXCEPT !.nxt = l.cw.rd, !.nw = vec[l.cw.rd]]
<1>1. /\ Active(vec, dat, l) /\ Rightward(vec, dat, l)
      /\ Nodes(vec, dat) /\ Len(vec) \in Nat \ {0} /\ Len(dat) \in Nat
  BY InCall DEF ReadRight, Where
<1>2. Become(t, IF m.nw.st = "RAW" THEN Restart(m)
                   ELSE IF m.nw.st = "INVALID" THEN [m EXCEPT !.pc = "right_unlink"]
                   ELSE IF m.nw.down = Nil THEN [m EXCEPT !.pc = "right_invalidate"]
                   ELSE IF m.cd = Unset THEN GetDataId(m, m.nxt, "compare")
                   ELSE Compare(m))
      /\ UNCHANGED <<vec, dat>>
  BY DEF ReadRight, Quiet
<1>3. l.cw.rd \in 1 .. Len(vec) /\ WordOf(vec, dat, l.cw.rd, vec[l.cw.rd])
  <2>1. l.cw.rd \in Inner(vec)
    BY <1>1 DEF Rightward, At, WordOf
  <2> QED
    BY <1>1, <2>1, NodeWord
<1>4. /\ Active(vec, dat, m)
      /\ m.nxt = l.cw.rd /\ m.nw = vec[l.cw.rd] /\ SameCall(m, l) /\ SameWalk(m, l) /\ SameGid(m, l)
  <2>1. vec[l.cw.rd] \in Words
    BY <1>3 DEF WordOf
  <2> HIDE DEF l
  <2> QED
    BY <1>1, <1>3, <2>1, SetNext
<1> HIDE DEF m
<1>5. ReadOnRight(vec, dat, m)
  BY <1>1, <1>3, <1>4, WalkSame DEF ReadOnRight, SameWalk
<1>6. Local(vec, dat, Restart(m))
  BY <1>1, <1>4, RestartLocal
<1>7. ASSUME NEW p \in {"right_unlink", "right_invalidate"}
      PROVE  Local(vec, dat, [m EXCEPT !.pc = p])
  <2>1. ASSUME NEW n \in Locals, n.pc = p, SameWalk(n, m), SameNext(n, m)
        PROVE  Where(vec, dat, n)
    <3>1. ReadOnRight(vec, dat, n)
      BY <1>5, <2>1, NextSame
    <3> QED
      BY <1>7, <2>1, <3>1 DEF Where
  <2> QED
    BY <1>4, <1>7, <2>1, AllPoints, GoLocal
<1>8. ASSUME m.nw.st \notin {"RAW", "INVALID"}, m.nw.down # Nil
      PROVE  Local(vec, dat, IF m.cd = Unset THEN GetDataId(m, m.nxt, "compare") ELSE Compare(m))
  <2>1. Usable(m.nw)
    BY <1>3, <1>4, <1>8 DEF Usable, WordOf, Statuses
  <2>2. m.nxt \in Nat
    BY <1>3, <1>4
  <2>3. CASE m.cd = Unset
    <3>1. Local(vec, dat, GetDataId(m, m.nxt, "compare"))
      BY <1>4, <1>5, <2>1, <2>2, <2>3, GetDataIdLocal
    <3> QED
      BY <2>3, <3>1
  <2>4. CASE m.cd # Unset
    <3>1. m.cd \in 1 .. Len(dat)
      BY <1>1, <1>4, <1>5, <2>4 DEF ReadOnRight, Rightward, Active, Ranges, Nil
    <3>2. Local(vec, dat, Compare(m))
      BY <1>1, <1>4, <1>5, <2>1, <3>1, CompareLocal
    <3> QED
      BY <2>4, <3>2
  <2> QED
    BY <2>3, <2>4
<1>9. Local(vec, dat, [m EXCEPT !.pc = "right_unlink"])
      /\ Local(vec, dat, [m EXCEPT !.pc = "right_invalidate"])
  BY <1>7
<1> DEFINE r == IF m.nw.st = "RAW" THEN Restart(m)
                ELSE IF m.nw.st = "INVALID" THEN [m EXCEPT !.pc = "right_unlink"]
                ELSE IF m.nw.down = Nil THEN [m EXCEPT !.pc = "right_invalidate"]
                ELSE IF m.cd = Unset THEN GetDataId(m, m.nxt, "compare")
                ELSE Compare(m)
<1>10. Local(vec, dat, r)
  BY <1>6, <1>8, <1>9
<1>11. Become(t, r)
  BY <1>2
<1> HIDE DEF r
<1> QED
  BY <1>2, <1>10, <1>11, ReadInv

\* An invalid neighbour on the right is passed over.
LEMMA RightUnlinkInv ==
  ASSUME TreeInv, NEW t \in Thread, RightUnlink(t)
  PROVE  TreeInv'
<1> DEFINE m == loc[t]
           yes == [m EXCEPT !.pc = "free", !.fv = m.nxt, !.fback = "reread"]
           no == [m EXCEPT !.pc = "reread"]
           new == PassRight(m.cur, m.cw, m.nw)
<1>1. Active(vec, dat, m) /\ ReadOnRight(vec, dat, m)
  BY InCall DEF RightUnlink, Where
<1>2. Cas(t, m.cur, m.cw, new, yes, no) /\ dat' = dat
  BY DEF RightUnlink, Quiet
<1>3. WordOf(vec, dat, m.cur, new)
  BY <1>1, PassRightWord DEF ReadOnRight, Rightward, At
<1>4. Resumes(vec, dat, m) /\ m.nxt \in Inner(vec)
  BY <1>1 DEF Resumes, ReadOnRight, Rightward, At, WordOf
<1> HIDE DEF new
<1>5. Local(vec, dat, yes)
  <2> HIDE DEF m
  <2> QED
    BY <1>1, <1>4, FreeLocal
<1>6. Local(vec, dat, no)
  <2>1. ASSUME NEW n \in Locals, n.pc = "reread", SameWalk(n, m)
        PROVE  Where(vec, dat, n)
    <3>1. Resumes(vec, dat, n)
      BY <1>4, <2>1, WalkSame
    <3> QED
      BY <2>1, <3>1 DEF Where
  <2> HIDE DEF m
  <2> QED
    BY <1>1, <2>1, AllPoints, GoLocal
<1> HIDE DEF yes, no, m
<1> QED
  BY <1>2, <1>3, <1>5, <1>6, CasInv


\* A neighbour on the right with nothing below it is made invalid.
LEMMA RightInvalidateInv ==
  ASSUME TreeInv, NEW t \in Thread, RightInvalidate(t)
  PROVE  TreeInv'
<1> DEFINE m == loc[t]
           no == [m EXCEPT !.pc = "reread"]
           new == [m.nw EXCEPT !.st = "INVALID"]
<1>1. Active(vec, dat, m) /\ ReadOnRight(vec, dat, m) /\ Nodes(vec, dat)
  BY InCall DEF RightInvalidate, Where
<1>2. Cas(t, m.nxt, m.nw, new, no, no) /\ dat' = dat
  BY DEF RightInvalidate, Quiet
<1>3. WordOf(vec, dat, m.nxt, new)
  <2>1. m.nxt \in Inner(vec) /\ WordOf(vec, dat, m.nxt, m.nw)
    BY <1>1 DEF ReadOnRight, Rightward, At, WordOf
  <2>2. m.nxt # Head1 /\ "INVALID" \in Statuses /\ "INVALID" # "VALID"
    BY <1>1, <2>1, NodeWord DEF Statuses
  <2> QED
    BY <2>1, <2>2, SetStatus
<1>4. Resumes(vec, dat, m)
  BY <1>1 DEF Resumes, ReadOnRight, Rightward, At, WordOf
<1>5. Local(vec, dat, no)
  <2>1. ASSUME NEW n \in Locals, n.pc = "reread", SameWalk(n, m)
        PROVE  Where(vec, dat, n)
    <3>1. Resumes(vec, dat, n)
      BY <1>4, <2>1, WalkSame
    <3> QED
      BY <2>1, <3>1 DEF Where
  <2> HIDE DEF m
  <2> QED
    BY <1>1, <2>1, AllPoints, GoLocal
<1> HIDE DEF no, new, m
<1> QED
  BY <1>2, <1>3, <1>5, CasInv

\* The word of cur is read again: a walk that stays goes on from it.
LEMMA ContinueCw ==
  ASSUME NEW m, Nodes(vec, dat), Active(vec, dat, m), Resumes(vec, dat, m),
         NEW n, Active(vec, dat, n), n.cur = m.cur, n.cw = vec[m.cur], n.start = m.start,
         n.fs = m.fs, n.dir = m.dir, n.cd = m.cd,
         n.cw.st = "VALID" \/ m.fs > m.start
  PROVE  Local(vec, dat, Continue(n))
<1>1. At(vec, dat, m) /\ m.cd # Nil /\ (m.fs > m.start => m.cd = Unset)
  BY DEF Resumes
<1>2. WordOf(vec, dat, m.cur, vec[m.cur]) /\ m.cw.pos = vec[m.cur].pos
  BY <1>1, NodeWord DEF At, WordOf
<1>3. At(vec, dat, n)
  BY <1>1, <1>2 DEF At
<1>4. n.start \in Int /\ n.fs \in Int /\ n.fs >= n.start
  BY <1>3 DEF At, WordOf
<1>5. n.fs > n.start => Downward(vec, dat, n)
  BY <1>1, <1>3 DEF Downward
<1>6. n.fs = n.start => Proceeds(vec, dat, n)
  BY <1>1, <1>3, <1>4 DEF Proceeds
<1> QED
  BY <1>4, <1>5, <1>6, ContinueLocal

\* cur is read again after helping.
LEMMA RereadInv ==
  ASSUME TreeInv, NEW t \in Thread, Reread(t)
  PROVE  TreeInv'
<1> DEFINE l == loc[t]
           m == [l EXCEPT !.cw = vec[l.cur]]
<1>1. Active(vec, dat, l) /\ Resumes(vec, dat, l) /\ Nodes(vec, dat) /\ Len(vec) \in Nat \ {0}
  BY InCall DEF Reread, Where
<1>2. Become(t, IF m.cw.st # "VALID" THEN Back(m) ELSE Continue(m)) /\ UNCHANGED <<vec, dat>>
  BY DEF Reread, Quiet
<1>3. vec[l.cur] \in Words
  BY <1>1, NodeWord DEF Resumes, At, WordOf
<1>4. /\ Active(vec, dat, m)
      /\ m.cw = vec[l.cur] /\ m.cur = l.cur /\ m.start = l.start /\ m.fs = l.fs
      /\ m.dir = l.dir /\ m.cd = l.cd
  <2> HIDE DEF l
  <2> QED
    BY <1>1, <1>3, SetCw
<1> HIDE DEF m, l
<1>5. CASE m.cw.st # "VALID"
  BY <1>1, <1>2, <1>4, <1>5, BackLocal, ReadInv
<1>6. CASE m.cw.st = "VALID"
  <2>1. Local(vec, dat, Continue(m))
    BY <1>1, <1>4, <1>6, ContinueCw
  <2> QED
    BY <1>2, <1>6, <2>1, ReadInv
<1> QED
  BY <1>5, <1>6

\* cur is read again after making its down neighbour valid.
LEMMA RereadAnyInv ==
  ASSUME TreeInv, NEW t \in Thread, RereadAny(t)
  PROVE  TreeInv'
<1> DEFINE l == loc[t]
           m == [l EXCEPT !.cw = vec[l.cur]]
<1>1. /\ Active(vec, dat, l) /\ Resumes(vec, dat, l) /\ Nodes(vec, dat) /\ Len(vec) \in Nat \ {0}
      /\ l.fs > l.start
  BY InCall DEF RereadAny, Where
<1>2. Become(t, IF m.cw.st = "INVALID" THEN Back(m) ELSE Continue(m)) /\ UNCHANGED <<vec, dat>>
  BY DEF RereadAny, Quiet
<1>3. vec[l.cur] \in Words
  BY <1>1, NodeWord DEF Resumes, At, WordOf
<1>4. /\ Active(vec, dat, m)
      /\ m.cw = vec[l.cur] /\ m.cur = l.cur /\ m.start = l.start /\ m.fs = l.fs
      /\ m.dir = l.dir /\ m.cd = l.cd
  <2> HIDE DEF l
  <2> QED
    BY <1>1, <1>3, SetCw
<1> HIDE DEF m, l
<1>5. CASE m.cw.st = "INVALID"
  BY <1>1, <1>2, <1>4, <1>5, BackLocal, ReadInv
<1>6. CASE m.cw.st # "INVALID"
  <2>1. Local(vec, dat, Continue(m))
    BY <1>1, <1>4, <1>6, ContinueCw
  <2> QED
    BY <1>2, <1>6, <2>1, ReadInv
<1> QED
  BY <1>5, <1>6

\* The neighbour below is read.
LEMMA ReadDownInv ==
  ASSUME TreeInv, NEW t \in Thread, ReadDown(t)
  PROVE  TreeInv'
<1> DEFINE l == loc[t]
           m == [l EXCEPT !.nxt = l.cw.down, !.nw = vec[l.cw.down]]
           end == m.nw.pos + 1
           stop == IF m.nw.ty = "DATA" /\ m.nw.rd = Nil THEN "down_unlink" ELSE "down_validate"
           past == CASE m.op = "FIND" -> GetDataId(m, m.cur, "near")
                     [] m.op = "INSERT" -> [m EXCEPT !.pc = "insert_mid"]
                     [] m.op = "DELETE" -> Answer(m, m.ret)
           n == [m EXCEPT !.pre = m.cur, !.cur = m.nxt, !.cw = m.nw, !.dir = "DOWN", !.start = end]
           r == IF m.nw.st = "RAW" THEN Restart(m)
                ELSE IF m.nw.st = "INVALID" THEN [m EXCEPT !.pc = stop]
                ELSE IF m.fs < end THEN past
                ELSE Continue(n)
<1>1. /\ Active(vec, dat, l) /\ Downward(vec, dat, l) /\ l.cw.down # Nil
      /\ Nodes(vec, dat) /\ Len(vec) \in Nat \ {0} /\ Len(dat) \in Nat
  BY InCall DEF ReadDown, Where
<1>2. Become(t, r) /\ UNCHANGED <<vec, dat>>
  BY DEF ReadDown, Quiet
<1>3. /\ l.cw.down \in Inner(vec) /\ l.cw.down \in 1 .. Len(vec)
      /\ WordOf(vec, dat, l.cw.down, vec[l.cw.down])
  <2>1. l.cw.down \in Inner(vec)
    BY <1>1 DEF Downward, At, WordOf
  <2> QED
    BY <1>1, <2>1, NodeWord
<1>4. /\ Active(vec, dat, m)
      /\ m.nxt = l.cw.down /\ m.nw = vec[l.cw.down] /\ SameCall(m, l) /\ SameWalk(m, l) /\ SameGid(m, l)
  <2>1. vec[l.cw.down] \in Words
    BY <1>3 DEF WordOf
  <2> HIDE DEF l
  <2> QED
    BY <1>1, <1>3, <2>1, SetNext
<1> HIDE DEF m
<1>5. ReadBelow(vec, dat, m)
  BY <1>1, <1>3, <1>4, WalkSame DEF ReadBelow, SameWalk
<1>6. Local(vec, dat, Restart(m))
  BY <1>1, <1>4, RestartLocal
<1>7. Local(vec, dat, [m EXCEPT !.pc = stop])
  <2>1. ASSUME NEW w \in Locals, w.pc = stop, SameWalk(w, m), SameNext(w, m)
        PROVE  Where(vec, dat, w)
    <3>1. ReadBelow(vec, dat, w) /\ w.nw = m.nw
      BY <1>5, <2>1, NextSame DEF SameNext
    <3> QED
      BY <2>1, <3>1 DEF Where
  <2>2. stop \in Points \ {"idle", "return"}
    BY AllPoints
  <2> HIDE DEF stop
  <2> QED
    BY <1>4, <2>1, <2>2, GoLocal
<1>8. m.nw.pos \in -1 .. Width - 1 /\ end \in Int /\ m.fs \in Int /\ m.fs <= Width /\ Width \in Int
  <2>1. WordOf(vec, dat, m.nxt, m.nw) /\ At(vec, dat, m)
    BY <1>5 DEF ReadBelow, Downward
  <2>2. m.nw.pos \in -1 .. Width - 1 /\ m.start \in Int
    BY <2>1 DEF At, WordOf
  <2>3. m.fs \in m.start .. Width /\ Width \in Int
    BY <2>1, WidthIs DEF At
  <2> QED
    BY <2>2, <2>3, WidthIs
<1>9. m.fs < end => Local(vec, dat, past)
  <2> SUFFICES ASSUME m.fs < end PROVE Local(vec, dat, past)
    OBVIOUS
  <2>1. Local(vec, dat, GetDataId(m, m.cur, "near"))
    <3>1. m.cur \in Nat /\ Downward(vec, dat, m)
      BY <1>4, <1>5 DEF Active, Ranges, Locals, ReadBelow
    <3> QED
      BY <1>4, <3>1, GetDataIdLocal
  <2>2. Local(vec, dat, [m EXCEPT !.pc = "insert_mid"])
    <3>1. ASSUME NEW w \in Locals, w.pc = "insert_mid", SameWalk(w, m), SameNext(w, m)
          PROVE  Where(vec, dat, w)
      <4>1. ReadBelow(vec, dat, w) /\ w.nw = m.nw /\ w.fs = m.fs
        BY <1>5, <3>1, NextSame DEF SameNext, SameWalk
      <4>2. w.fs <= w.nw.pos
        BY <1>8, <4>1
      <4> QED
        BY <3>1, <4>1, <4>2 DEF Where
    <3> QED
      BY <1>4, <3>1, AllPoints, GoLocal
  <2>3. Local(vec, dat, Answer(m, m.ret))
    BY <1>4, AnswerRet
  <2>4. m.op \in {"FIND", "INSERT", "DELETE"}
    BY <1>4 DEF Active, Wants, Operation
  <2> QED
    BY <2>1, <2>2, <2>3, <2>4
<1>10. ASSUME ~ (m.nw.st = "RAW"), ~ (m.nw.st = "INVALID"), ~ (m.fs < end)
       PROVE  Local(vec, dat, Continue(n))
  <2>1. m.nw.st = "VALID" /\ m.nxt \in Inner(vec) /\ WordOf(vec, dat, m.nxt, m.nw)
    BY <1>3, <1>4, <1>5, <1>10 DEF ReadBelow, WordOf, Statuses
  <2>2. m \in Locals /\ m.cur \in Nat /\ m.nw \in Words /\ m.nxt \in Nat /\ m.nxt \in 1 .. Len(vec)
        /\ m.nxt # Head1
    <3>1. m.nw \in Words
      BY <2>1 DEF WordOf
    <3>2. m \in Locals /\ m.cur \in Nat
      BY <1>4 DEF Active, Ranges, Locals
    <3> QED
      BY <1>1, <2>1, <3>1, <3>2, NodeWord
  <2> HIDE DEF end
  <2>3. n \in Locals
    BY <1>8, <2>2 DEF Locals
  <2>4. /\ n.cur = m.nxt /\ n.cw = m.nw /\ n.dir = "DOWN" /\ n.start = end /\ n.fs = m.fs
        /\ n.cd = m.cd /\ n.pre = m.cur
    BY <2>2 DEF Locals
  <2>5. SameCall(n, m) /\ SameNext(n, m)
    BY <2>2 DEF Locals, SameCall, SameNext
  <2> HIDE DEF n
  <2>6. Active(vec, dat, n)
    <3>1. n.cur \in 0 .. Len(vec) /\ n.pre \in 0 .. Len(vec) /\ n.nxt \in 0 .. Len(vec)
          /\ n.cd \in {Unset} \union 0 .. Len(dat)
      BY <1>1, <1>4, <2>2, <2>4, <2>5 DEF Active, Ranges, SameNext
    <3> QED
      BY <1>4, <2>3, <2>5, <3>1, StaysActive
  <2>7. n.cd = Unset /\ n.fs >= n.start /\ n.start = m.nw.pos + 1
    BY <1>5, <1>8, <1>10, <2>4 DEF ReadBelow, Downward, end
  <2>8. n.start < Width => At(vec, dat, n)
    BY <1>8, <2>1, <2>2, <2>4, <2>7 DEF At
  <2>9. n.fs > n.start => Downward(vec, dat, n)
    BY <1>8, <2>4, <2>7, <2>8 DEF Downward
  <2>10. n.fs = n.start => Proceeds(vec, dat, n)
    <3>1. CASE n.start < Width
      BY <2>1, <2>4, <2>7, <2>8, <3>1 DEF Proceeds, Unset, Nil
    <3>2. CASE ~ (n.start < Width)
      <4>1. m.nw.ty = "DATA" /\ m.nw.rd # Nil
        BY <1>8, <2>1, <2>2, <2>7, <3>2 DEF WordOf
      <4>2. Holds(vec, dat, n)
        BY <2>1, <2>4, <4>1 DEF Holds
      <4> QED
        BY <1>8, <2>1, <2>4, <2>7, <3>2, <4>2 DEF Proceeds, Unset, Nil
    <3> QED
      BY <3>1, <3>2
  <2> QED
    BY <1>1, <2>6, <2>7, <2>9, <2>10, ContinueLocal
<1>11. Local(vec, dat, r)
  <2> HIDE DEF n, past, stop
  <2> QED
    BY <1>6, <1>7, <1>9, <1>10
<1> HIDE DEF r
<1> QED
  BY <1>2, <1>11, ReadInv


\* A down neighbour without a record is unlinked.
LEMMA DownUnlinkInv ==
  ASSUME TreeInv, NEW t \in Thread, DownUnlink(t)
  PROVE  TreeInv'
<1> DEFINE m == loc[t]
           yes == [m EXCEPT !.pc = "free", !.fv = m.nxt, !.fback = "reread"]
           no == [m EXCEPT !.pc = "reread"]
           new == [m.cw EXCEPT !.down = m.nw.down]
<1>1. Active(vec, dat, m) /\ ReadBelow(vec, dat, m)
  BY InCall DEF DownUnlink, Where
<1>2. Cas(t, m.cur, m.cw, new, yes, no) /\ dat' = dat
  BY DEF DownUnlink, Quiet
<1>3. /\ WordOf(vec, dat, m.cur, m.cw) /\ WordOf(vec, dat, m.nxt, m.nw)
      /\ m.cw.down # Nil /\ m.nxt = m.cw.down /\ m.fs > m.start /\ m.cd = Unset
  BY <1>1 DEF ReadBelow, Downward, At
<1>4. WordOf(vec, dat, m.cur, new)
  <2>1. m.cw \in Words /\ m.nw.down \in Nat
    BY <1>3 DEF WordOf, Words
  <2>2. new \in Words /\ new.down = m.nw.down /\ new.st = m.cw.st /\ new.ty = m.cw.ty
        /\ new.pos = m.cw.pos /\ new.rd = m.cw.rd
    <3> HIDE DEF m
    <3> QED
      BY <2>1 DEF Words
  <2> HIDE DEF new
  <2> QED
    BY <1>3, <2>2 DEF WordOf
<1>5. Resumes(vec, dat, m) /\ m.nxt \in Inner(vec)
  <2>1. At(vec, dat, m)
    BY <1>1 DEF ReadBelow, Downward
  <2>2. m.nxt \in Inner(vec)
    BY <1>3 DEF WordOf
  <2> QED
    BY <1>3, <2>1, <2>2 DEF Resumes, Unset, Nil
<1> HIDE DEF new
<1>6. Local(vec, dat, yes)
  <2> HIDE DEF m
  <2> QED
    BY <1>1, <1>5, FreeLocal
<1>7. Local(vec, dat, no)
  <2>1. ASSUME NEW n \in Locals, n.pc = "reread", SameWalk(n, m)
        PROVE  Where(vec, dat, n)
    <3>1. Resumes(vec, dat, n)
      BY <1>5, <2>1, WalkSame
    <3> QED
      BY <2>1, <3>1 DEF Where
  <2> HIDE DEF m
  <2> QED
    BY <1>1, <2>1, AllPoints, GoLocal
<1> HIDE DEF yes, no, m
<1> QED
  BY <1>2, <1>4, <1>6, <1>7, CasInv

\* An invalid down neighbour with something on its right is made valid again.
LEMMA DownValidateInv ==
  ASSUME TreeInv, NEW t \in Thread, DownValidate(t)
  PROVE  TreeInv'
<1> DEFINE m == loc[t]
           no == [m EXCEPT !.pc = "reread_any"]
           new == [m.nw EXCEPT !.st = "VALID"]
<1>1. /\ Active(vec, dat, m) /\ ReadBelow(vec, dat, m) /\ Nodes(vec, dat)
      /\ ~ (m.nw.ty = "DATA" /\ m.nw.rd = Nil)
  BY InCall DEF DownValidate, Where
<1>2. Cas(t, m.nxt, m.nw, new, no, no) /\ dat' = dat
  BY DEF DownValidate, Quiet
<1>3. WordOf(vec, dat, m.nxt, new)
  <2>1. m.nxt \in Inner(vec) /\ WordOf(vec, dat, m.nxt, m.nw)
    BY <1>1 DEF ReadBelow, Downward, At, WordOf
  <2>2. m.nxt # Head1 /\ "VALID" \in Statuses
    BY <1>1, <2>1, NodeWord DEF Statuses
  <2> QED
    BY <1>1, <2>1, <2>2, SetStatus
<1>4. Resumes(vec, dat, m) /\ m.fs > m.start
  BY <1>1 DEF Resumes, ReadBelow, Downward, Unset, Nil
<1>5. Local(vec, dat, no)
  <2>1. ASSUME NEW n \in Locals, n.pc = "reread_any", SameWalk(n, m)
        PROVE  Where(vec, dat, n)
    <3>1. Resumes(vec, dat, n) /\ n.fs > n.start
      BY <1>4, <2>1, WalkSame DEF SameWalk
    <3> QED
      BY <2>1, <3>1 DEF Where
  <2> HIDE DEF m
  <2> QED
    BY <1>1, <2>1, AllPoints, GoLocal
<1> HIDE DEF no, new, m
<1> QED
  BY <1>2, <1>3, <1>5, CasInv

\* cur was reached from the left and has nothing below it: it is made invalid.
LEMMA OrphanInv ==
  ASSUME TreeInv, NEW t \in Thread, Orphan(t)
  PROVE  TreeInv'
<1> DEFINE m == loc[t]
           new == [m.cw EXCEPT !.st = "INVALID"]
<1>1. /\ Active(vec, dat, m) /\ Downward(vec, dat, m) /\ m.dir = "RIGHT"
      /\ Len(vec) \in Nat \ {0}
  BY InCall DEF Orphan, Where
<1>2. Cas(t, m.cur, m.cw, new, Back(m), Back(m)) /\ dat' = dat
  BY DEF Orphan, Quiet
<1>3. WordOf(vec, dat, m.cur, new)
  <2>1. m.cur # Head1 /\ WordOf(vec, dat, m.cur, m.cw) /\ "INVALID" \in Statuses
    BY <1>1 DEF Downward, At, Statuses
  <2> QED
    BY <2>1, SetStatus
<1>4. Local(vec, dat, Back(m))
  BY <1>1, BackLocal
<1> HIDE DEF new, m
<1> QED
  BY <1>2, <1>3, <1>4, CasInv

\* vec_free_to_buf reads the word of the node it frees.
LEMMA FreeLoadInv ==
  ASSUME TreeInv, NEW t \in Thread, FreeLoad(t)
  PROVE  TreeInv'
<1> DEFINE m == loc[t]
           n == [m EXCEPT !.pc = "free_store", !.fw = vec[m.fv]]
<1>1. Active(vec, dat, m) /\ Freer(vec, dat, m) /\ Nodes(vec, dat) /\ m \in Locals
  BY InCall DEF FreeLoad, Where
<1>2. Become(t, n) /\ UNCHANGED <<vec, dat>>
  BY DEF FreeLoad, Quiet
<1>3. WordOf(vec, dat, m.fv, vec[m.fv]) /\ vec[m.fv] \in Words
  BY <1>1, NodeWord DEF Freer
<1> HIDE DEF m
<1>4. n \in Locals
  BY <1>1, <1>3, AllPoints DEF Locals
<1>5. n.pc = "free_store" /\ n.fw = vec[m.fv] /\ n.fv = m.fv /\ n.fback = m.fback
  BY <1>1 DEF Locals
<1>6. SameCall(n, m) /\ SameWalk(n, m) /\ SameNext(n, m) /\ SameGid(n, m)
  BY <1>1 DEF Locals, SameCall, SameWalk, SameNext, SameGid
<1> HIDE DEF n
<1>7. Active(vec, dat, n)
  <2>1. n.cur \in 0 .. Len(vec) /\ n.pre \in 0 .. Len(vec) /\ n.nxt \in 0 .. Len(vec)
        /\ n.cd \in {Unset} \union 0 .. Len(dat)
    BY <1>1, <1>6 DEF Active, Ranges, SameWalk, SameNext
  <2> QED
    BY <1>1, <1>4, <1>6, <2>1, StaysActive
<1>8. Freer(vec, dat, n)
  BY <1>1, <1>5, <1>6, WalkSame, GidSame DEF Freer, SameCall
<1>9. Local(vec, dat, n)
  BY <1>3, <1>5, <1>7, <1>8 DEF Where, Local
<1> QED
  BY <1>2, <1>9, ReadInv

\* vec_free_to_buf makes the node raw.
LEMMA FreeStoreInv ==
  ASSUME TreeInv, NEW t \in Thread, FreeStore(t)
  PROVE  TreeInv'
<1> DEFINE m == loc[t]
           n == [m EXCEPT !.fv = Nil, !.fw = NoWord, !.fback = "NONE"]
           new == [m.fw EXCEPT !.st = "RAW"]
           V2 == [vec EXCEPT ![m.fv] = new]
<1>1. /\ Active(vec, dat, m) /\ Freer(vec, dat, m) /\ WordOf(vec, dat, m.fv, m.fw)
      /\ Nodes(vec, dat) /\ m \in Locals /\ Len(vec) \in Nat \ {0} /\ Len(dat) \in Nat
  BY InCall DEF FreeStore, Where
<1>2. /\ vec' = V2 /\ dat' = dat
      /\ \/ Become(t, [n EXCEPT !.pc = m.fback])
         \/ \E code \in Trouble :
              Become(t, IF m.fback = "reread" THEN Fail(n, code) ELSE GidReturn(n, code))
  BY DEF FreeStore, Quiet
<1>3. Nodes(V2, dat) /\ Grow(vec, dat, V2, dat)
  <2>1. m.fv # Head1 /\ "RAW" \in Statuses /\ "RAW" # "VALID"
    BY <1>1, NodeWord DEF Freer, Statuses
  <2>2. WordOf(vec, dat, m.fv, new)
    BY <1>1, <2>1, SetStatus
  <2> HIDE DEF new, m
  <2> QED
    BY <1>1, <2>2, NewWord
<1> HIDE DEF V2, m
<1>4. NoWord \in Words /\ Nil \in Nat
  BY DEF NoWord, Words, Nil
<1>5. n \in Locals
  BY <1>1, <1>4 DEF Locals
<1>6. SameCall(n, m) /\ SameWalk(n, m) /\ SameNext(n, m) /\ SameGid(n, m)
  BY <1>1 DEF Locals, SameCall, SameWalk, SameNext, SameGid
<1> HIDE DEF n
<1>7. Active(vec, dat, n)
  <2>1. n.cur \in 0 .. Len(vec) /\ n.pre \in 0 .. Len(vec) /\ n.nxt \in 0 .. Len(vec)
        /\ n.cd \in {Unset} \union 0 .. Len(dat)
    BY <1>1, <1>6 DEF Active, Ranges, SameWalk, SameNext
  <2> QED
    BY <1>1, <1>5, <1>6, <2>1, StaysActive
<1>8. /\ m.fback = "reread" => Resumes(vec, dat, n)
      /\ m.fback = "gid_reread" => Descending(vec, dat, n)
      /\ m.fback \in {"reread", "gid_reread"}
  BY <1>1, <1>6, WalkSame, GidSame DEF Freer, SameCall
<1>9. Local(vec, dat, [n EXCEPT !.pc = m.fback])
  <2>1. ASSUME NEW w \in Locals, w.pc = m.fback, SameCall(w, n), SameWalk(w, n), SameNext(w, n),
               SameGid(w, n)
        PROVE  Where(vec, dat, w)
    <3>1. /\ m.fback = "reread" => Resumes(vec, dat, w)
          /\ m.fback = "gid_reread" => Descending(vec, dat, w)
      BY <1>8, <2>1, WalkSame, GidSame DEF SameCall
    <3> QED
      BY <1>8, <2>1, <3>1 DEF Where
  <2>2. m.fback \in Points \ {"idle", "return"}
    BY <1>8, AllPoints
  <2> QED
    BY <1>7, <2>1, <2>2, GoLocal
<1>10. ASSUME NEW code \in Trouble
       PROVE  Local(vec, dat, IF m.fback = "reread" THEN Fail(n, code) ELSE GidReturn(n, code))
  <2>1. Local(vec, dat, Fail(n, code))
    BY <1>7, FailLocal DEF Codes
  <2>2. m.fback = "gid_reread" => Local(vec, dat, GidReturn(n, code))
    <3>1. code \in Returned(dat, n)
      BY DEF Returned
    <3> QED
      BY <1>1, <1>7, <1>8, <3>1, GidReturnLocal DEF Descending
  <2> QED
    BY <1>8, <2>1, <2>2
<1>11. PICK r : Become(t, r) /\ Local(vec, dat, r)
  BY <1>2, <1>9, <1>10
<1>12. Local(V2, dat, r)
  BY <1>3, <1>11, GrowLocal
<1> QED
  BY <1>2, <1>3, <1>11, <1>12, BecomeInv DEF Become

\* get_data_id starts.
LEMMA GidInv ==
  ASSUME TreeInv, NEW t \in Thread, Gid(t)
  PROVE  TreeInv'
<1> DEFINE l == loc[t]
           m == [l EXCEPT !.gc = l.gv, !.gw = vec[l.gv]]
           r == IF m.gw.st # "VALID" THEN GidReturn(m, DO_AGAIN) ELSE GidWalk(m)
<1>1. Active(vec, dat, l) /\ Calling(vec, dat, l) /\ Nodes(vec, dat)
  BY InCall DEF Gid, Where
<1>2. Become(t, r) /\ UNCHANGED <<vec, dat>>
  BY DEF Gid, Quiet
<1>3. l.gv \in 1 .. Len(vec) /\ l.gv \in Nat
  <2>1. CASE l.back \in {"compare", "confirm"}
    <3>1. WordOf(vec, dat, l.gv, l.nw)
      BY <1>1, <2>1 DEF Calling, ReadOnRight
    <3> QED
      BY <3>1, <1>1 DEF WordOf, Nodes
  <2>2. CASE l.back \in {"recheck", "near"}
    <3>1. WordOf(vec, dat, l.gv, l.cw)
      BY <1>1, <2>2 DEF Calling, Downward, At
    <3> QED
      BY <3>1, <1>1 DEF WordOf, Nodes
  <2> QED
    BY <1>1, <2>1, <2>2 DEF Calling
<1>4. WordOf(vec, dat, l.gv, vec[l.gv]) /\ vec[l.gv] \in Words
  BY <1>1, <1>3, NodeWord
<1>5. /\ Active(vec, dat, m) /\ m.gc = l.gv /\ m.gw = vec[l.gv]
      /\ SameCall(m, l) /\ SameWalk(m, l) /\ SameNext(m, l) /\ m.gv = l.gv /\ m.back = l.back
  <2>1. l \in Locals
    BY <1>1 DEF Active, Ranges
  <2> HIDE DEF l
  <2>2. m \in Locals
    BY <1>3, <1>4, <2>1 DEF Locals
  <2>3. m.gc = l.gv /\ m.gw = vec[l.gv] /\ m.gv = l.gv /\ m.back = l.back
    BY <2>1 DEF Locals
  <2>4. SameCall(m, l) /\ SameWalk(m, l) /\ SameNext(m, l)
    BY <2>1 DEF Locals, SameCall, SameWalk, SameNext
  <2> HIDE DEF m
  <2> QED
    BY <1>1, <2>2, <2>3, <2>4, SameActive
<1> HIDE DEF m, l
<1>6. Descending(vec, dat, m)
  <2>1. Calling(vec, dat, m)
    BY <1>1, <1>5, CallingSame
  <2> QED
    BY <1>4, <1>5, <2>1 DEF Descending
<1>7. Local(vec, dat, GidReturn(m, DO_AGAIN))
  <2>1. DO_AGAIN \in Returned(dat, m) /\ Calling(vec, dat, m)
    BY <1>6 DEF Returned, Descending
  <2> QED
    BY <1>1, <1>5, <2>1, GidReturnLocal
<1>8. m.gw.st = "VALID" => Local(vec, dat, GidWalk(m))
  BY <1>1, <1>5, <1>6, GidWalkLocal
<1>9. Local(vec, dat, r)
  BY <1>7, <1>8
<1> HIDE DEF r
<1> QED
  BY <1>2, <1>9, ReadInv

\* get_data_id reads the next node on its way down.
LEMMA GidNextInv ==
  ASSUME TreeInv, NEW t \in Thread, GidNext(t)
  PROVE  TreeInv'
<1> DEFINE l == loc[t]
           m == [l EXCEPT !.gx = vec[l.gn]]
           n == [m EXCEPT !.gc = m.gn, !.gw = m.gx]
           r == IF m.gx.st = "RAW" THEN [m EXCEPT !.pc = "gid"]
                ELSE IF m.gx.st = "INVALID" THEN [m EXCEPT !.pc = "gid_unlink"]
                ELSE IF m.gx.down = Nil THEN [m EXCEPT !.pc = "gid_invalidate"]
                ELSE GidWalk(n)
<1>1. Active(vec, dat, l) /\ Stepping(vec, dat, l) /\ Nodes(vec, dat)
  BY InCall DEF GidNext, Where
<1>2. Become(t, r) /\ UNCHANGED <<vec, dat>>
  BY DEF GidNext, Quiet
<1>3. l.gn \in Inner(vec)
  BY <1>1 DEF Stepping, Descending, WordOf
<1>4. /\ WordOf(vec, dat, l.gn, vec[l.gn]) /\ vec[l.gn] \in Words /\ l.gn # Head1 /\ l.gn \in Nat
  BY <1>1, <1>3, NodeWord
<1>5. /\ Active(vec, dat, m) /\ m.gx = vec[l.gn] /\ SameCall(m, l) /\ SameWalk(m, l) /\ SameNext(m, l)
      /\ m.gv = l.gv /\ m.back = l.back /\ m.gc = l.gc /\ m.gw = l.gw /\ m.gn = l.gn
  <2> HIDE DEF l
  <2> QED
    BY <1>1, <1>4, SetGx
<1> HIDE DEF m
<1>6. Stepping(vec, dat, m) /\ Calling(vec, dat, m)
  <2>1. Calling(vec, dat, m)
    BY <1>1, <1>5, CallingSame DEF Stepping, Descending
  <2> QED
    BY <1>1, <1>5, <2>1 DEF Stepping, Descending
<1>7. Local(vec, dat, [m EXCEPT !.pc = "gid"])
  <2>1. ASSUME NEW w \in Locals, w.pc = "gid", SameCall(w, m), SameWalk(w, m), SameNext(w, m),
               SameGid(w, m)
        PROVE  Where(vec, dat, w)
    <3>1. Calling(vec, dat, w)
      BY <1>6, <2>1, GidSame DEF SameCall
    <3> QED
      BY <2>1, <3>1 DEF Where
  <2> QED
    BY <1>5, <2>1, AllPoints, GoLocal
<1>8. ASSUME NEW p \in {"gid_unlink", "gid_invalidate"}
      PROVE  Local(vec, dat, [m EXCEPT !.pc = p])
  <2>1. ASSUME NEW w \in Locals, w.pc = p, SameCall(w, m), SameWalk(w, m), SameNext(w, m),
               SameGid(w, m)
        PROVE  Where(vec, dat, w)
    <3>1. Stepping(vec, dat, w) /\ WordOf(vec, dat, w.gn, w.gx)
      BY <1>4, <1>5, <1>6, <2>1, GidSame DEF SameCall, SameGid
    <3> QED
      BY <1>8, <2>1, <3>1 DEF Where
  <2> QED
    BY <1>5, <1>8, <2>1, AllPoints, GoLocal
<1>9. ASSUME m.gx.st \notin {"RAW", "INVALID"}
      PROVE  Local(vec, dat, GidWalk(n))
  <2>1. m.gn \in Nat /\ m.gx \in Words /\ m.gx.st = "VALID"
    BY <1>4, <1>5, <1>9 DEF WordOf, Statuses
  <2>2. /\ Active(vec, dat, n) /\ n.gc = m.gn /\ n.gw = m.gx
        /\ SameCall(n, m) /\ SameWalk(n, m) /\ SameNext(n, m) /\ n.gv = m.gv /\ n.back = m.back
    <3>1. m \in Locals
      BY <1>5 DEF Active, Ranges
    <3>2. n \in Locals
      BY <2>1, <3>1 DEF Locals
    <3>3. n.gc = m.gn /\ n.gw = m.gx /\ n.gv = m.gv /\ n.back = m.back
      BY <3>1 DEF Locals
    <3>4. SameCall(n, m) /\ SameWalk(n, m) /\ SameNext(n, m)
      BY <3>1 DEF Locals, SameCall, SameWalk, SameNext
    <3> HIDE DEF n
    <3> QED
      BY <1>5, <3>2, <3>3, <3>4, SameActive
  <2> HIDE DEF n
  <2>3. Descending(vec, dat, n)
    <3>1. Calling(vec, dat, n)
      BY <1>6, <2>2, CallingSame
    <3> QED
      BY <1>4, <1>5, <2>2, <3>1 DEF Descending
  <2> QED
    BY <1>1, <2>1, <2>2, <2>3, GidWalkLocal
<1>10. Local(vec, dat, [m EXCEPT !.pc = "gid_unlink"])
       /\ Local(vec, dat, [m EXCEPT !.pc = "gid_invalidate"])
  BY <1>8
<1>11. Local(vec, dat, r)
  <2> HIDE DEF n
  <2> QED
    BY <1>7, <1>9, <1>10
<1> HIDE DEF r
<1> QED
  BY <1>2, <1>11, ReadInv

\* get_data_id passes over an invalid node.
LEMMA GidUnlinkInv ==
  ASSUME TreeInv, NEW t \in Thread, GidUnlink(t)
  PROVE  TreeInv'
<1> DEFINE m == loc[t]
           yes == [m EXCEPT !.pc = "free", !.fv = m.gn, !.fback = "gid_reread"]
           no == [m EXCEPT !.pc = "gid_reread"]
           new == PassRight(m.gc, m.gw, m.gx)
<1>1. Active(vec, dat, m) /\ Stepping(vec, dat, m) /\ WordOf(vec, dat, m.gn, m.gx)
  BY InCall DEF GidUnlink, Where
<1>2. Cas(t, m.gc, m.gw, new, yes, no) /\ dat' = dat
  BY DEF GidUnlink, Quiet
<1>3. WordOf(vec, dat, m.gc, new)
  BY <1>1, PassRightWord DEF Stepping, Descending
<1>4. Descending(vec, dat, m) /\ m.gn \in Inner(vec)
  BY <1>1 DEF Stepping, Descending, WordOf
<1> HIDE DEF new
<1>5. Local(vec, dat, yes)
  <2> HIDE DEF m
  <2> QED
    BY <1>1, <1>4, FreeLocal
<1>6. Local(vec, dat, no)
  <2>1. ASSUME NEW w \in Locals, w.pc = "gid_reread", SameCall(w, m), SameWalk(w, m),
               SameNext(w, m), SameGid(w, m)
        PROVE  Where(vec, dat, w)
    <3>1. Descending(vec, dat, w)
      BY <1>4, <2>1, GidSame DEF SameCall
    <3> QED
      BY <2>1, <3>1 DEF Where
  <2> HIDE DEF m
  <2> QED
    BY <1>1, <2>1, AllPoints, GoLocal
<1> HIDE DEF yes, no, m
<1> QED
  BY <1>2, <1>3, <1>5, <1>6, CasInv

\* get_data_id makes a node with nothing below it invalid.
LEMMA GidInvalidateInv ==
  ASSUME TreeInv, NEW t \in Thread, GidInvalidate(t)
  PROVE  TreeInv'
<1> DEFINE m == loc[t]
           no == [m EXCEPT !.pc = "gid_reread"]
           new == [m.gx EXCEPT !.st = "INVALID"]
<1>1. Active(vec, dat, m) /\ Stepping(vec, dat, m) /\ WordOf(vec, dat, m.gn, m.gx) /\ Nodes(vec, dat)
  BY InCall DEF GidInvalidate, Where
<1>2. Cas(t, m.gn, m.gx, new, no, no) /\ dat' = dat
  BY DEF GidInvalidate, Quiet
<1>3. Descending(vec, dat, m) /\ m.gn \in Inner(vec)
  BY <1>1 DEF Stepping, Descending, WordOf
<1>4. WordOf(vec, dat, m.gn, new)
  <2>1. m.gn # Head1 /\ "INVALID" \in Statuses /\ "INVALID" # "VALID"
    BY <1>1, <1>3, NodeWord DEF Statuses
  <2> QED
    BY <1>1, <2>1, SetStatus
<1>5. Local(vec, dat, no)
  <2>1. ASSUME NEW w \in Locals, w.pc = "gid_reread", SameCall(w, m), SameWalk(w, m),
               SameNext(w, m), SameGid(w, m)
        PROVE  Where(vec, dat, w)
    <3>1. Descending(vec, dat, w)
      BY <1>3, <2>1, GidSame DEF SameCall
    <3> QED
      BY <2>1, <3>1 DEF Where
  <2> HIDE DEF m
  <2> QED
    BY <1>1, <2>1, AllPoints, GoLocal
<1> HIDE DEF no, new, m
<1> QED
  BY <1>2, <1>4, <1>5, CasInv

\* get_data_id reads its node again after helping.
LEMMA GidRereadInv ==
  ASSUME TreeInv, NEW t \in Thread, GidReread(t)
  PROVE  TreeInv'
<1> DEFINE l == loc[t]
           m == [l EXCEPT !.gw = vec[l.gc]]
           n == [l EXCEPT !.gc = l.gc, !.gw = vec[l.gc]]
           r == IF m.gw.st # "VALID" THEN [m EXCEPT !.pc = "gid"] ELSE GidWalk(m)
<1>1. Active(vec, dat, l) /\ Descending(vec, dat, l) /\ Nodes(vec, dat) /\ l \in Locals
  BY InCall DEF GidReread, Where
<1>2. Become(t, r) /\ UNCHANGED <<vec, dat>>
  BY DEF GidReread, Quiet
<1>3. l.gc \in 1 .. Len(vec) /\ l.gc \in Nat
  BY <1>1 DEF Descending, WordOf, Nodes
<1>4. WordOf(vec, dat, l.gc, vec[l.gc]) /\ vec[l.gc] \in Words
  BY <1>1, <1>3, NodeWord
<1> HIDE DEF l
<1>5. m = n
  BY <1>1 DEF Locals
<1>6. /\ Active(vec, dat, n) /\ n.gc = l.gc /\ n.gw = vec[l.gc]
      /\ SameCall(n, l) /\ SameWalk(n, l) /\ SameNext(n, l) /\ n.gv = l.gv /\ n.back = l.back
  <2>2. n \in Locals
    BY <1>1, <1>3, <1>4 DEF Locals
  <2>3. n.gc = l.gc /\ n.gw = vec[l.gc] /\ n.gv = l.gv /\ n.back = l.back
    BY <1>1 DEF Locals
  <2>4. SameCall(n, l) /\ SameWalk(n, l) /\ SameNext(n, l)
    BY <1>1 DEF Locals, SameCall, SameWalk, SameNext
  <2> HIDE DEF n
  <2> QED
    BY <1>1, <2>2, <2>3, <2>4, SameActive
<1> HIDE DEF m, n
<1>7. Descending(vec, dat, m)
  <2>1. Calling(vec, dat, m)
    BY <1>1, <1>5, <1>6, CallingSame DEF Descending
  <2> QED
    BY <1>1, <1>4, <1>5, <1>6, <2>1 DEF Descending
<1>8. Local(vec, dat, [m EXCEPT !.pc = "gid"])
  <2>1. ASSUME NEW w \in Locals, w.pc = "gid", SameCall(w, m), SameWalk(w, m), SameNext(w, m),
               SameGid(w, m)
        PROVE  Where(vec, dat, w)
    <3>1. Calling(vec, dat, w)
      BY <1>7, <2>1, GidSame DEF SameCall, Descending
    <3> QED
      BY <2>1, <3>1 DEF Where
  <2> QED
    BY <1>5, <1>6, <2>1, AllPoints, GoLocal
<1>9. m.gw.st = "VALID" => Local(vec, dat, GidWalk(m))
  BY <1>1, <1>5, <1>6, <1>7, GidWalkLocal
<1>10. Local(vec, dat, r)
  BY <1>8, <1>9
<1> HIDE DEF r
<1> QED
  BY <1>2, <1>10, ReadInv

-----------------------------------------------------------------------------
(* The insertions.                                                          *)

\* WordOf, in a tree of n nodes and d records, but for the position.
Fits(n, d, v, w) ==
  /\ w \in Words
  /\ w.st \in Statuses /\ w.ty \in Types
  /\ w.pos \in -1 .. Width - 1
  /\ w.down = Nil \/ w.down \in 2 .. n
  /\ w.ty = "RIGHT" => w.rd \in 2 .. n
  /\ w.ty = "DATA" => w.rd \in 0 .. d
  /\ w.pos >= Width - 1 => w.down = Nil /\ w.ty = "DATA"
  /\ v = Head1 => w.st = "VALID" /\ w.pos = -1
  /\ v # Head1 /\ w.st = "VALID" /\ w.ty = "DATA" => w.rd # Nil

\* Fits is WordOf without the node's own position.
LEMMA FitsIs ==
  ASSUME NEW V, NEW D, NEW v \in 1 .. Len(V), NEW w
  PROVE  WordOf(V, D, v, w) <=> Fits(Len(V), Len(D), v, w) /\ w.pos = V[v].pos
BY DEF Fits, WordOf, Inner

\* A word fits a larger tree too.
LEMMA FitsMore ==
  ASSUME NEW n \in Nat, NEW d \in Nat, NEW n2 \in Nat, NEW d2 \in Nat, n <= n2, d <= d2,
         NEW v, NEW w, Fits(n, d, v, w)
  PROVE  Fits(n2, d2, v, w)
<1>1. 2 .. n \subseteq 2 .. n2 /\ 0 .. d \subseteq 0 .. d2
  OBVIOUS
<1> QED
  BY <1>1 DEF Fits

\* A word that a node has had fits the tree.
LEMMA WordFits ==
  ASSUME NEW V, NEW D, Len(V) \in Nat, Len(D) \in Nat, NEW v, NEW w, WordOf(V, D, v, w),
         NEW n \in Nat, NEW d \in Nat, Len(V) <= n, Len(D) <= d
  PROVE  Fits(n, d, v, w)
<1>1. Fits(Len(V), Len(D), v, w)
  BY FitsIs DEF WordOf
<1> QED
  BY <1>1, FitsMore

\* A node's word is replaced, and nodes are added.
LEMMA ReplacedJoined ==
  ASSUME NEW S, NEW V \in Seq(S), NEW c \in 1 .. Len(V), NEW new \in S, NEW r \in Seq(S)
  PROVE  /\ [V EXCEPT ![c] = new] \o r \in Seq(S)
         /\ Len([V EXCEPT ![c] = new] \o r) = Len(V) + Len(r)
         /\ \A u \in 1 .. Len(V) :
              ([V EXCEPT ![c] = new] \o r)[u] = [V EXCEPT ![c] = new][u]
         /\ \A u \in 1 .. Len(r) : ([V EXCEPT ![c] = new] \o r)[Len(V) + u] = r[u]
<1> DEFINE U == [V EXCEPT ![c] = new]
<1>1. U \in Seq(S) /\ Len(U) = Len(V)
  OBVIOUS
<1> HIDE DEF U
<1>2. /\ U \o r \in Seq(S) /\ Len(U \o r) = Len(V) + Len(r)
      /\ \A u \in 1 .. Len(V) : (U \o r)[u] = U[u]
      /\ \A u \in 1 .. Len(r) : (U \o r)[Len(V) + u] = r[u]
  <2>1. U \o r \in Seq(S) /\ Len(U \o r) = Len(U) + Len(r)
    BY <1>1
  <2>2. \A u \in 1 .. Len(U) : (U \o r)[u] = U[u]
    BY <1>1
  <2>3. \A u \in 1 .. Len(r) : (U \o r)[Len(U) + u] = r[u]
    BY <1>1
  <2> QED
    BY <1>1, <2>1, <2>2, <2>3
<1> QED
  BY <1>2 DEF U

\* New nodes and a new record hang below a node whose word is replaced.
LEMMA Hung ==
  ASSUME NEW V, NEW D, Nodes(V, D), NEW c \in 1 .. Len(V), NEW new, NEW nodes \in Seq(Words),
         NEW r \in Records,
         Fits(Len(V) + Len(nodes), Len(D) + 1, c, new), new.pos = V[c].pos,
         \A i \in 1 .. Len(nodes) :
           Fits(Len(V) + Len(nodes), Len(D) + 1, Len(V) + i, nodes[i])
  PROVE  /\ Nodes([V EXCEPT ![c] = new] \o nodes, Append(D, r))
         /\ Grow(V, D, [V EXCEPT ![c] = new] \o nodes, Append(D, r))
<1> DEFINE U == [V EXCEPT ![c] = new]
           V2 == U \o nodes
           D2 == Append(D, r)
<1>1. V \in Seq(Words) /\ D \in Seq(Records) /\ new \in Words /\ Len(V) \in Nat \ {0}
      /\ Len(D) \in Nat /\ Len(nodes) \in Nat
  BY DEF Nodes, Fits
<1>2. U \in Seq(Words) /\ Len(U) = Len(V)
      /\ \A u \in 1 .. Len(V) : U[u] = IF u = c THEN new ELSE V[u]
  BY <1>1
<1> HIDE DEF U
<1>3. /\ V2 \in Seq(Words) /\ Len(V2) = Len(V) + Len(nodes)
      /\ \A u \in 1 .. Len(V) : V2[u] = U[u]
      /\ \A u \in 1 .. Len(nodes) : V2[Len(V) + u] = nodes[u]
  BY <1>1, <1>2, ReplacedJoined DEF U
<1>4. /\ D2 \in Seq(Records) /\ Len(D2) = Len(D) + 1
      /\ \A d \in 1 .. Len(D) : D2[d] = D[d]
  BY <1>1
<1> HIDE DEF V2, D2
<1>5. Grow(V, D, V2, D2)
  BY SMTT(30), <1>1, <1>2, <1>3, <1>4 DEF Grow
<1>6. ASSUME NEW u \in 1 .. Len(V2) PROVE Fits(Len(V2), Len(D2), u, V2[u])
  <2>1. CASE u \in 1 .. Len(V) /\ u = c
    BY <1>1, <1>2, <1>3, <1>4, <2>1
  <2>2. CASE u \in 1 .. Len(V) /\ u # c
    <3>1. WordOf(V, D, u, V2[u])
      BY <1>2, <1>3, <2>2, NodeWord
    <3>2. Len(V2) \in Nat /\ Len(D2) \in Nat /\ Len(V) <= Len(V2) /\ Len(D) <= Len(D2)
      BY <1>1, <1>3, <1>4
    <3> QED
      BY <1>1, <3>1, <3>2, WordFits
  <2>3. CASE u \notin 1 .. Len(V)
    <3>1. u - Len(V) \in 1 .. Len(nodes) /\ Len(V) + (u - Len(V)) = u
      BY <1>1, <1>3, <2>3
    <3> QED
      BY <1>3, <1>4, <3>1
  <2> QED
    BY <2>1, <2>2, <2>3
<1>7. ASSUME NEW u \in 1 .. Len(V2) PROVE WordOf(V2, D2, u, V2[u])
  BY <1>6, FitsIs
<1>8. Nodes(V2, D2)
  BY <1>1, <1>3, <1>4, <1>7 DEF Nodes
<1> QED
  BY <1>5, <1>8 DEF V2, D2, U

\* A compare-and-swap publishes new nodes and a new record, or the walk begins again.
LEMMA PublishInv ==
  ASSUME TreeInv, NEW t \in Thread, loc[t].pc \notin {"idle", "return"},
         NEW new, NEW nodes \in Seq(Words), Publish(t, new, nodes),
         WordOf(vec, dat, loc[t].cur, loc[t].cw), new.pos = loc[t].cw.pos,
         Fits(Len(vec) + Len(nodes), Len(dat) + 1, loc[t].cur, new),
         \A i \in 1 .. Len(nodes) :
           Fits(Len(vec) + Len(nodes), Len(dat) + 1, Len(vec) + i, nodes[i])
  PROVE  TreeInv'
<1> DEFINE m == loc[t]
           r == [key |-> m.key, ref |-> 1, retired |-> FALSE]
<1>1. Active(vec, dat, m) /\ Nodes(vec, dat) /\ Len(vec) \in Nat \ {0}
  BY InCall
<1>2. CASE vec[m.cur] = m.cw
  <2>1. /\ vec' = [vec EXCEPT ![m.cur] = new] \o nodes
        /\ dat' = Append(dat, r)
        /\ loc' = [loc EXCEPT ![t] = Answer(m, OK)]
    BY <1>2 DEF Publish, Become
  <2>2. r \in Records
    BY <1>1 DEF Active, Wants, Records
  <2>3. m.cur \in 1 .. Len(vec) /\ new.pos = vec[m.cur].pos
    BY DEF WordOf
  <2> HIDE DEF r
  <2>4. Nodes(vec', dat') /\ Grow(vec, dat, vec', dat')
    BY <1>1, <2>1, <2>2, <2>3, Hung
  <2>5. Local(vec', dat', Answer(m, OK))
    <3>1. Local(vec, dat, Answer(m, OK))
      BY <1>1, AnswerLocal DEF Codes
    <3> QED
      BY <2>4, <3>1, GrowLocal
  <2> QED
    BY <2>1, <2>4, <2>5, BecomeInv
<1>3. CASE vec[m.cur] # m.cw
  <2>1. UNCHANGED <<vec, dat>> /\ Become(t, Restart(m))
    BY <1>3 DEF Publish
  <2>2. Local(vec, dat, Restart(m))
    BY <1>1, RestartLocal
  <2> QED
    BY <2>1, <2>2, ReadInv
<1> QED
  BY <1>2, <1>3

\* The positions of the nodes an insertion makes.
LEMMA SplitRange ==
  ASSUME NEW V, Nodes(V, dat), NEW m, Active(V, dat, m), Inserts(V, dat, m)
  PROVE  /\ m.cw.pos \in -1 .. Width - 2 /\ m.start = m.cw.pos + 1
         /\ SegmentEnd(m) \in Int /\ SegmentEnd(m) <= Width
         /\ m.cw.ty = "RIGHT" => SegmentEnd(m) <= Width
         /\ m.cw.ty = "DATA" => SegmentEnd(m) = Width
         /\ DiffPos(m) \in m.start .. Width - 1 /\ DiffPos(m) < SegmentEnd(m)
         /\ m.cd \in 1 .. Len(dat)
         /\ m.cw.ty = "DATA" => m.cw.rd = m.cd
<1>1. At(V, dat, m) /\ WordOf(V, dat, m.cur, m.cw) /\ Width \in Int
  BY TreeAssumption DEF Inserts, At
<1>2. m.cw.pos \in -1 .. Width - 2 /\ m.start = m.cw.pos + 1 /\ m.start \in Int /\ m.start <= Width
  BY <1>1 DEF At, WordOf
<1>3. SegmentEnd(m) \in Int /\ SegmentEnd(m) <= Width
  <2>1. CASE m.cw.ty = "DATA"
    BY <1>1, <2>1 DEF SegmentEnd
  <2>2. CASE m.cw.ty # "DATA"
    <3>1. WordOf(V, dat, m.nxt, m.nw)
      BY <2>2 DEF Inserts, ReadOnRight
    <3> QED
      BY <1>1, <2>2, <3>1, WidthIs DEF SegmentEnd, WordOf
  <2> QED
    BY <2>1, <2>2
<1>4. Differs(V, dat, m)
  BY DEF Inserts
<1>5. DiffPos(m) < SegmentEnd(m) /\ m.cd \in 1 .. Len(dat)
  BY <1>4 DEF Differs, SplitAt, DiffPos
<1>6. DiffPos(m) \in Int /\ DiffPos(m) >= m.start
  <2>1. CASE m.start <= SegmentEnd(m)
    <3>1. FirstDiff(m.key, dat[m.cd].key, m.start, SegmentEnd(m)) \in m.start .. SegmentEnd(m)
      BY <1>2, <1>3, <2>1, FirstDiffIs
    <3> QED
      BY <1>2, <1>3, <3>1 DEF DiffPos
  <2>2. CASE ~ (m.start <= SegmentEnd(m))
    <3>1. {i \in m.start .. SegmentEnd(m) - 1 : Bit(m.key, i) # Bit(dat[m.cd].key, i)} = {}
      BY <1>2, <1>3, <2>2
    <3>2. DiffPos(m) = SegmentEnd(m)
      BY <3>1 DEF DiffPos, FirstDiff
    <3> QED
      BY <1>3, <1>5, <3>2
  <2> QED
    BY <2>1, <2>2
<1>7. m.cw.ty = "DATA" => m.cw.rd = m.cd
  BY DEF Inserts
<1>8. m.cw.ty = "RIGHT" => SegmentEnd(m) <= Width
  <2> SUFFICES ASSUME m.cw.ty = "RIGHT" PROVE SegmentEnd(m) <= Width
    OBVIOUS
  <2>1. WordOf(V, dat, m.nxt, m.nw)
    BY DEF Inserts, ReadOnRight
  <2> QED
    BY <2>1, WidthIs DEF SegmentEnd, WordOf
<1>9. m.cw.ty = "DATA" => SegmentEnd(m) = Width
  BY DEF SegmentEnd
<1> QED
  BY <1>1, <1>2, <1>3, <1>5, <1>6, <1>7, <1>8, <1>9


\* A new node and its word.
LEMMA NodeFits ==
  ASSUME NEW n, NEW d, NEW v, v # Head1, NEW ty \in Types, NEW pos \in -1 .. Width - 1,
         NEW down \in Nat, NEW rd \in Nat, down = Nil \/ down \in 2 .. n,
         ty = "RIGHT" => rd \in 2 .. n, ty = "DATA" => rd \in 1 .. d,
         pos >= Width - 1 => down = Nil /\ ty = "DATA"
  PROVE  Node(ty, pos, down, rd) \in Words /\ Fits(n, d, v, Node(ty, pos, down, rd))
<1> DEFINE w == Node(ty, pos, down, rd)
<1>1. w.st = "VALID" /\ w.ty = ty /\ w.pos = pos /\ w.down = down /\ w.rd = rd
  BY DEF Node
<1>2. w \in Words
  BY TreeAssumption DEF Words, Node, Types, Statuses
<1>3. "VALID" \in Statuses
  BY DEF Statuses
<1> HIDE DEF w
<1>4. ty = "DATA" => rd \in 0 .. d /\ rd # Nil
  BY DEF Nil
<1> QED
  BY <1>1, <1>2, <1>3, <1>4 DEF Fits, w

\* cur gets a new neighbour on the right, and one below.
LEMMA RightFits ==
  ASSUME NEW V, NEW D, NEW v, NEW w, WordOf(V, D, v, w), Len(V) \in Nat \ {0}, Len(D) \in Nat,
         w.pos \in -1 .. Width - 2, NEW n \in Nat, NEW d \in Nat, Len(V) < n, Len(D) <= d,
         NEW u \in Words, u.ty = "RIGHT", u.rd = Len(V) + 1, u.st = w.st, u.pos = w.pos,
         u.down = w.down
  PROVE  Fits(n, d, v, u) /\ u.pos = w.pos
<1>0. Len(V) <= n
  OBVIOUS
<1>1. w \in Words /\ Fits(n, d, v, w)
  BY <1>0, WordFits DEF WordOf
<1>3. Len(V) + 1 \in 2 .. n /\ "RIGHT" \in Types /\ ~ (w.pos >= Width - 1) /\ "RIGHT" # "DATA"
  BY TreeAssumption DEF Types
<1>4. Fits(n, d, v, u)
  BY <1>1, <1>3 DEF Fits
<1> QED
  BY <1>4

\* The word of a node whose down link is set to a new node fits.
LEMMA DownFits ==
  ASSUME NEW V, NEW D, NEW v, NEW w, WordOf(V, D, v, w), Len(V) \in Nat \ {0}, Len(D) \in Nat,
         w.pos \in -1 .. Width - 2, NEW n \in Nat, NEW d \in Nat, Len(V) < n, Len(D) <= d,
         NEW u \in Words, u.down = Len(V) + 1, u.st = w.st, u.pos = w.pos, u.ty = w.ty,
         u.rd = w.rd
  PROVE  Fits(n, d, v, u) /\ u.pos = w.pos
<1>0. Len(V) <= n
  OBVIOUS
<1>1. w \in Words /\ Fits(n, d, v, w)
  BY <1>0, WordFits DEF WordOf
<1>3. Len(V) + 1 \in 2 .. n /\ ~ (w.pos >= Width - 1)
  BY TreeAssumption
<1>4. Fits(n, d, v, u)
  BY <1>1, <1>3 DEF Fits
<1> QED
  BY <1>4

\* A sequence of one or two nodes.
LEMMA OneTwo ==
  ASSUME NEW a \in Words
  PROVE  /\ <<a>> \in Seq(Words) /\ Len(<<a>>) = 1 /\ <<a>>[1] = a
         /\ \A b \in Words :
              /\ <<a, b>> \in Seq(Words) /\ Len(<<a, b>>) = 2
              /\ <<a, b>>[1] = a /\ <<a, b>>[2] = b
OBVIOUS

\* One new node, and two.
LEMMA PublishOne ==
  ASSUME TreeInv, NEW t \in Thread, loc[t].pc \notin {"idle", "return"},
         NEW new, NEW a \in Words, Publish(t, new, <<a>>),
         WordOf(vec, dat, loc[t].cur, loc[t].cw), new.pos = loc[t].cw.pos,
         Fits(Len(vec) + 1, Len(dat) + 1, loc[t].cur, new),
         Fits(Len(vec) + 1, Len(dat) + 1, Len(vec) + 1, a)
  PROVE  TreeInv'
<1> DEFINE nodes == <<a>>
<1>1. nodes \in Seq(Words) /\ Len(nodes) = 1 /\ nodes[1] = a
  BY OneTwo
<1>2. Publish(t, new, nodes)
  OBVIOUS
<1> HIDE DEF nodes
<1>3. \A i \in 1 .. Len(nodes) :
        Fits(Len(vec) + Len(nodes), Len(dat) + 1, Len(vec) + i, nodes[i])
  BY <1>1
<1> QED
  BY <1>1, <1>2, <1>3, PublishInv

\* Two new nodes are published at once.
LEMMA PublishTwo ==
  ASSUME TreeInv, NEW t \in Thread, loc[t].pc \notin {"idle", "return"},
         NEW new, NEW a \in Words, NEW b \in Words, Publish(t, new, <<a, b>>),
         WordOf(vec, dat, loc[t].cur, loc[t].cw), new.pos = loc[t].cw.pos,
         Fits(Len(vec) + 2, Len(dat) + 1, loc[t].cur, new),
         Fits(Len(vec) + 2, Len(dat) + 1, Len(vec) + 1, a),
         Fits(Len(vec) + 2, Len(dat) + 1, Len(vec) + 2, b)
  PROVE  TreeInv'
<1> DEFINE nodes == <<a, b>>
<1>1. nodes \in Seq(Words) /\ Len(nodes) = 2 /\ nodes[1] = a /\ nodes[2] = b
  BY OneTwo
<1>2. Publish(t, new, nodes)
  OBVIOUS
<1> HIDE DEF nodes
<1>3. \A i \in 1 .. Len(nodes) :
        Fits(Len(vec) + Len(nodes), Len(dat) + 1, Len(vec) + i, nodes[i])
  BY <1>1
<1> QED
  BY <1>1, <1>2, <1>3, PublishInv

\* The first record of the tree (do_insert_first_set).
LEMMA InsertFirstInv ==
  ASSUME TreeInv, NEW t \in Thread, InsertFirst(t)
  PROVE  TreeInv'
<1> DEFINE m == loc[t]
           new == [m.cw EXCEPT !.rd = NewData]
<1>1. /\ Nodes(vec, dat) /\ Len(vec) \in Nat \ {0} /\ Len(dat) \in Nat
      /\ At(vec, dat, m) /\ m.cw.ty = "DATA" /\ m.cur = Head1 /\ m.pc \notin {"idle", "return"}
  BY InCall DEF InsertFirst, Where
<1>2. WordOf(vec, dat, m.cur, m.cw) /\ Publish(t, new, <<>>)
  BY <1>1 DEF At, InsertFirst
<1>3. m.cw \in Words /\ Fits(Len(vec), Len(dat) + 1, m.cur, m.cw)
  <2>1. Len(vec) <= Len(vec) /\ Len(dat) <= Len(dat) + 1 /\ Len(dat) + 1 \in Nat
    BY <1>1
  <2> HIDE DEF m
  <2> QED
    BY <1>1, <1>2, <2>1, WordFits DEF WordOf
<1>4. /\ new \in Words /\ new.rd = Len(dat) + 1 /\ new.st = m.cw.st /\ new.ty = m.cw.ty
      /\ new.pos = m.cw.pos /\ new.down = m.cw.down
  BY <1>1, <1>3 DEF Words, NewData
<1> HIDE DEF new
<1>5. Fits(Len(vec), Len(dat) + 1, m.cur, new)
  <2>1. Len(dat) + 1 \in 0 .. Len(dat) + 1
    BY <1>1
  <2> QED
    BY <1>1, <1>3, <1>4, <2>1 DEF Fits
<1>6. <<>> \in Seq(Words) /\ Len(<<>>) = 0 /\ Len(vec) + 0 = Len(vec)
  BY <1>1
<1>7. \A i \in 1 .. Len(<<>>) : FALSE
  BY <1>6
<1>8. Fits(Len(vec) + Len(<<>>), Len(dat) + 1, m.cur, new)
  BY <1>5, <1>6
<1> DEFINE nodes == <<>>
<1>9. /\ nodes \in Seq(Words) /\ Publish(t, new, nodes)
      /\ Fits(Len(vec) + Len(nodes), Len(dat) + 1, m.cur, new)
      /\ \A i \in 1 .. Len(nodes) :
           Fits(Len(vec) + Len(nodes), Len(dat) + 1, Len(vec) + i, nodes[i])
  BY <1>2, <1>6, <1>7, <1>8
<1> HIDE DEF nodes
<1> QED
  BY <1>1, <1>2, <1>4, <1>9, PublishInv

\* The assertions of the code stop a thread at any point.
LEMMA StuckLocal ==
  ASSUME NEW V, NEW D, NEW m, Active(V, D, m)
  PROVE  Local(V, D, Stuck(m))
<1>1. ASSUME NEW n \in Locals, n.pc = "stuck"
      PROVE  Where(V, D, n)
  BY <1>1 DEF Where
<1> QED
  BY <1>1, AllPoints, GoLocal DEF Stuck

\* A record whose key has a 1 where the keys split (do_insert_up_via_r).
LEMMA InsertUpInv ==
  ASSUME TreeInv, NEW t \in Thread, InsertUp(t)
  PROVE  TreeInv'
<1> DEFINE m == loc[t]
           p == DiffPos(m)
           fs == FirstSet(dat[m.cd].key, p, SegmentEnd(m))
           split == m.cw.ty = "DATA" \/ fs < SegmentEnd(m)
           a == Node("DATA", p - 1, IF split THEN NewVec + 1 ELSE m.cw.rd, NewData)
           b == Node(m.cw.ty, fs - 1, Nil, m.cw.rd)
           new == [m.cw EXCEPT !.ty = "RIGHT", !.rd = NewVec]
<1>1. /\ Active(vec, dat, m) /\ Inserts(vec, dat, m) /\ m.pc \notin {"idle", "return"}
      /\ Nodes(vec, dat) /\ Len(vec) \in Nat \ {0} /\ Len(dat) \in Nat /\ m.pc = "insert_up"
  BY InCall DEF InsertUp, Where
<1>2. /\ m.cw.pos \in -1 .. Width - 2 /\ m.start = m.cw.pos + 1
      /\ SegmentEnd(m) \in Int /\ SegmentEnd(m) <= Width
      /\ m.cw.ty = "RIGHT" => SegmentEnd(m) <= Width
      /\ m.cw.ty = "DATA" => SegmentEnd(m) = Width
      /\ p \in m.start .. Width - 1 /\ p < SegmentEnd(m)
      /\ m.cd \in 1 .. Len(dat)
      /\ m.cw.ty = "DATA" => m.cw.rd = m.cd
  BY <1>1, SplitRange
<1>3. WordOf(vec, dat, m.cur, m.cw) /\ Width \in Nat \ {0}
  BY <1>1, TreeAssumption DEF Inserts, At
<1>4. CASE m.cw.pos = a.pos /\ a.pos # 0
  <2>1. Become(t, Stuck(m)) /\ UNCHANGED <<vec, dat>>
    BY <1>4 DEF InsertUp, Quiet
  <2>2. Local(vec, dat, Stuck(m))
    BY <1>1, StuckLocal
  <2> QED
    BY <2>1, <2>2, ReadInv
<1>5. CASE ~ (m.cw.pos = a.pos /\ a.pos # 0)
  <2>1. Publish(t, new, IF split THEN <<a, b>> ELSE <<a>>)
    BY <1>5 DEF InsertUp
  <2>2. fs \in p .. SegmentEnd(m)
    BY <1>2, FirstSetIs
  <2>8. split => fs <= Width
    <3>1. m.cw.ty \in Types /\ dat[m.cd].key \in Keys
      <4>1. dat[m.cd] \in Records
        BY <1>1, <1>2 DEF Nodes
      <4> QED
        BY <1>3, <4>1 DEF WordOf, Records
    <3>2. m.cw.ty = "DATA" => fs \in p .. Width
      <4>1. dat[m.cd].key \in Keys /\ p \in Int /\ p < Width
        BY <1>2, <1>3, <3>1
      <4>2. m.cw.ty = "DATA" => fs = FirstSet(dat[m.cd].key, p, Width)
        BY <1>2
      <4> HIDE DEF p, fs
      <4> QED
        BY <4>1, <4>2, FirstSetWidth
    <3>3. m.cw.ty = "RIGHT" => fs <= Width
      <4> HIDE DEF p, fs, m
      <4> QED
        BY <1>2, <2>2, WidthIs
    <3> HIDE DEF p, fs
    <3> QED
      BY <1>2, <3>1, <3>2, <3>3, WidthIs DEF Types
  <2> DEFINE n == IF split THEN Len(vec) + 2 ELSE Len(vec) + 1
             d == Len(dat) + 1
  <2>3. /\ Fits(n, d, m.cur, new) /\ new.pos = m.cw.pos
    <3>1. n \in Nat /\ d \in Nat /\ Len(vec) < n /\ Len(dat) <= d
      BY <1>1
    <3>2. /\ new \in Words /\ new.ty = "RIGHT" /\ new.rd = Len(vec) + 1 /\ new.st = m.cw.st
          /\ new.pos = m.cw.pos /\ new.down = m.cw.down
      <4>1. m.cw \in Words /\ Len(vec) + 1 \in Nat /\ NewVec = Len(vec) + 1
        BY <1>1, <1>3 DEF WordOf, NewVec
      <4> HIDE DEF m
      <4> QED
        BY <4>1 DEF Words, Types
    <3>3. m.cw.pos \in -1 .. Width - 2 /\ Len(vec) \in Nat \ {0} /\ Len(dat) \in Nat
      BY <1>1, <1>2
    <3> HIDE DEF n, d, m, split, new
    <3> QED
      BY <1>3, <3>1, <3>2, <3>3, RightFits
  <2>4. a \in Words /\ Fits(n, d, Len(vec) + 1, a)
    <3> DEFINE down == IF split THEN NewVec + 1 ELSE m.cw.rd
    <3>1. "DATA" \in Types /\ p - 1 \in -1 .. Width - 1 /\ ~ (p - 1 >= Width - 1)
      <4> HIDE DEF p, m
      <4> QED
        BY <1>2, <1>3, WidthIs DEF Types
    <3>2. Len(vec) + 1 # Head1 /\ NewData \in 1 .. d /\ NewData \in Nat
      BY <1>1 DEF Head1, NewData
    <3>3. down \in 2 .. n /\ down \in Nat
      <4>1. CASE split
        BY <1>1, <4>1 DEF NewVec
      <4>2. CASE ~ split
        <5>1. m.cw.rd \in Inner(vec)
          BY <1>3, <4>2 DEF WordOf, Types
        <5> QED
          BY <1>1, <4>2, <5>1 DEF Inner
      <4> QED
        BY <4>1, <4>2
    <3>4. "DATA" # "RIGHT"
      OBVIOUS
    <3> HIDE DEF p, down, n, d
    <3>5. a = Node("DATA", p - 1, down, NewData)
      BY DEF down
    <3> HIDE DEF a
    <3> QED
      BY <3>1, <3>2, <3>3, <3>4, <3>5, NodeFits
  <2>5. split => b \in Words /\ Fits(n, d, Len(vec) + 2, b)
    <3> SUFFICES ASSUME split PROVE b \in Words /\ Fits(n, d, Len(vec) + 2, b)
      OBVIOUS
    <3>1. m.cw.ty \in Types /\ fs - 1 \in -1 .. Width - 1
      <4>1. m.cw.ty \in Types /\ m.start \in Int /\ m.start >= 0
        BY SMTT(30), <1>2, <1>3 DEF WordOf
      <4> HIDE DEF m, fs, p
      <4> QED
        BY <1>2, <1>3, <2>2, <2>8, <4>1, WidthIs
    <3>2. Len(vec) + 2 # Head1 /\ Nil \in Nat
      BY <1>1 DEF Head1, Nil
    <3>3. m.cw.ty = "DATA" => m.cw.rd \in 1 .. d
      BY SMTT(30), <1>1, <1>2
    <3>4. m.cw.ty = "RIGHT" => m.cw.rd \in 2 .. n /\ fs - 1 < Width - 1
      <4>1. m.cw.ty = "RIGHT" => m.cw.rd \in Inner(vec)
        BY <1>3 DEF WordOf
      <4>2. m.cw.ty = "RIGHT" => fs < SegmentEnd(m)
        OBVIOUS
      <4>3. m.cw.ty = "RIGHT" => fs - 1 < Width - 1
        <5> HIDE DEF m, fs, p
        <5> QED
          BY <1>2, <1>3, <2>2, <4>2
      <4>4. Inner(vec) \subseteq 2 .. n
        BY <1>1 DEF Inner
      <4> QED
        BY <4>1, <4>3, <4>4
    <3>5. m.cw.rd \in Nat
      BY <1>3 DEF WordOf, Words
    <3>6. fs - 1 >= Width - 1 => m.cw.ty = "DATA"
      BY <1>3, <3>1, <3>4 DEF WordOf, Types
    <3> HIDE DEF fs, n, d, split
    <3> QED
      BY <3>1, <3>2, <3>3, <3>4, <3>5, <3>6, NodeFits
  <2> HIDE DEF a, b, new, m
  <2>6. CASE split
    <3>1. Publish(t, new, <<a, b>>) /\ n = Len(vec) + 2
      BY <2>1, <2>6
    <3> HIDE DEF split, n, p
    <3> QED
      BY <1>1, <1>3, <2>3, <2>4, <2>5, <2>6, <3>1, PublishTwo DEF m
  <2>7. CASE ~ split
    <3>1. Publish(t, new, <<a>>) /\ n = Len(vec) + 1
      BY <2>1, <2>7
    <3> HIDE DEF split, n, p
    <3> QED
      BY <1>1, <1>3, <2>3, <2>4, <3>1, PublishOne DEF m
  <2> QED
    BY <2>6, <2>7
<1> QED
  BY <1>4, <1>5

\* A record whose key has a 0 where the keys split (do_insert_down_via_r).
LEMMA InsertDownInv ==
  ASSUME TreeInv, NEW t \in Thread, InsertDown(t)
  PROVE  TreeInv'
<1> DEFINE m == loc[t]
           p == DiffPos(m)
           fs == FirstSet(m.key, p, Width)
           a == Node(m.cw.ty, p - 1, NewVec + 1, m.cw.rd)
           b == Node("DATA", fs - 1, Nil, NewData)
           new == [m.cw EXCEPT !.ty = "RIGHT", !.rd = NewVec]
           n == Len(vec) + 2
           d == Len(dat) + 1
<1>1. /\ Active(vec, dat, m) /\ Inserts(vec, dat, m) /\ m.pc \notin {"idle", "return"}
      /\ Nodes(vec, dat) /\ Len(vec) \in Nat \ {0} /\ Len(dat) \in Nat /\ m.pc = "insert_down"
  BY InCall DEF InsertDown, Where
<1>2. /\ m.cw.pos \in -1 .. Width - 2 /\ m.start = m.cw.pos + 1
      /\ p \in m.start .. Width - 1 /\ m.cd \in 1 .. Len(dat)
      /\ m.cw.ty = "DATA" => m.cw.rd = m.cd
  BY <1>1, SplitRange
<1>3. WordOf(vec, dat, m.cur, m.cw) /\ Width \in Nat \ {0}
  BY <1>1, TreeAssumption DEF Inserts, At
<1>4. CASE m.cw.pos = a.pos /\ a.pos # 0
  <2>1. Become(t, Stuck(m)) /\ UNCHANGED <<vec, dat>>
    BY <1>4 DEF InsertDown, Quiet
  <2>2. Local(vec, dat, Stuck(m))
    BY <1>1, StuckLocal
  <2> QED
    BY <2>1, <2>2, ReadInv
<1>5. CASE ~ (m.cw.pos = a.pos /\ a.pos # 0)
  <2>1. Publish(t, new, <<a, b>>)
    BY <1>5 DEF InsertDown
  <2>2. fs \in p .. Width /\ p \in Int /\ p >= 0
    <3>1. m.key \in Keys
      BY <1>1 DEF Active, Wants
    <3> HIDE DEF p, m
    <3> QED
      BY <1>2, <1>3, <3>1, FirstSetWidth DEF m
  <2>3. Fits(n, d, m.cur, new) /\ new.pos = m.cw.pos
    <3>1. n \in Nat /\ d \in Nat /\ Len(vec) < n /\ Len(dat) <= d
      BY <1>1
    <3>2. /\ new \in Words /\ new.ty = "RIGHT" /\ new.rd = Len(vec) + 1 /\ new.st = m.cw.st
          /\ new.pos = m.cw.pos /\ new.down = m.cw.down
      <4>1. m.cw \in Words /\ Len(vec) + 1 \in Nat /\ NewVec = Len(vec) + 1
        BY <1>1, <1>3 DEF WordOf, NewVec
      <4> HIDE DEF m
      <4> QED
        BY <4>1 DEF Words, Types
    <3> HIDE DEF n, d, m, new
    <3> QED
      BY SMTT(30), <1>1, <1>2, <1>3, <3>1, <3>2, RightFits
  <2>4. a \in Words /\ Fits(n, d, Len(vec) + 1, a)
    <3>1. m.cw.ty \in Types /\ p - 1 \in -1 .. Width - 1 /\ ~ (p - 1 >= Width - 1)
      <4>1. m.cw.ty \in Types
        BY <1>3 DEF WordOf
      <4> HIDE DEF p, m
      <4> QED
        BY <1>2, <1>3, <2>2, <4>1, WidthIs
    <3>2. Len(vec) + 1 # Head1 /\ NewVec + 1 \in 2 .. n /\ NewVec + 1 \in Nat
      BY <1>1 DEF Head1, NewVec
    <3>3. m.cw.rd \in Nat
      BY <1>3 DEF WordOf, Words
    <3>4. m.cw.ty = "DATA" => m.cw.rd \in 1 .. d
      BY <1>1, <1>2
    <3>5. m.cw.ty = "RIGHT" => m.cw.rd \in 2 .. n
      <4>1. m.cw.ty = "RIGHT" => m.cw.rd \in Inner(vec)
        BY <1>3 DEF WordOf
      <4>2. Inner(vec) \subseteq 2 .. n
        BY <1>1 DEF Inner
      <4> QED
        BY <4>1, <4>2
    <3> HIDE DEF p, n, d, m
    <3> QED
      BY <3>1, <3>2, <3>3, <3>4, <3>5, NodeFits
  <2>5. b \in Words /\ Fits(n, d, Len(vec) + 2, b)
    <3>1. "DATA" \in Types /\ fs - 1 \in -1 .. Width - 1 /\ "DATA" # "RIGHT"
      <4> HIDE DEF p, fs
      <4> QED
        BY <1>3, <2>2, WidthIs DEF Types
    <3>2. Len(vec) + 2 # Head1 /\ Nil \in Nat /\ NewData \in 1 .. d /\ NewData \in Nat
      BY <1>1 DEF Head1, Nil, NewData
    <3> HIDE DEF fs, n, d
    <3> QED
      BY <3>1, <3>2, NodeFits
  <2> HIDE DEF a, b, new, m
  <2> QED
    BY <1>1, <1>3, <2>1, <2>3, <2>4, <2>5, PublishTwo DEF m
<1> QED
  BY <1>4, <1>5

\* The new node below a word, with what was below it or nothing.
LEMMA BelowInv ==
  ASSUME TreeInv, NEW t \in Thread, NEW down \in Nat, Downward(vec, dat, loc[t]),
         loc[t].pc \notin {"idle", "return"},
         down = Nil \/ (down \in Inner(vec) /\ loc[t].fs < Width),
         Publish(t, [loc[t].cw EXCEPT !.down = NewVec],
                 <<Node("DATA", loc[t].fs - 1, down, NewData)>>)
  PROVE  TreeInv'
<1> DEFINE m == loc[t]
           a == Node("DATA", m.fs - 1, down, NewData)
           new == [m.cw EXCEPT !.down = NewVec]
           n == Len(vec) + 1
           d == Len(dat) + 1
<1>1. /\ Nodes(vec, dat) /\ Len(vec) \in Nat \ {0} /\ Len(dat) \in Nat
  BY InCall
<1>2. /\ WordOf(vec, dat, m.cur, m.cw) /\ m.start = m.cw.pos + 1 /\ m.start < Width
      /\ m.fs \in m.start .. Width
  BY DEF Downward, At
<1>3. Width \in Nat \ {0} /\ m.cw.pos \in -1 .. Width - 1
  BY <1>2, WidthIs DEF WordOf
<1>4. Publish(t, new, <<a>>)
  OBVIOUS
<1>5. Fits(n, d, m.cur, new) /\ new.pos = m.cw.pos
  <2>1. n \in Nat /\ d \in Nat /\ Len(vec) < n /\ Len(dat) <= d
    BY <1>1
  <2>2. /\ new \in Words /\ new.down = Len(vec) + 1 /\ new.st = m.cw.st /\ new.pos = m.cw.pos
        /\ new.ty = m.cw.ty /\ new.rd = m.cw.rd
    <3>1. m.cw \in Words /\ Len(vec) + 1 \in Nat /\ NewVec = Len(vec) + 1
      BY <1>1, <1>2 DEF WordOf, NewVec
    <3> HIDE DEF m
    <3> QED
      BY <3>1 DEF Words
  <2>3. m.cw.pos \in -1 .. Width - 2
    BY <1>2, <1>3
  <2> HIDE DEF n, d, m, new
  <2> QED
    BY SMTT(30), <1>1, <1>2, <2>1, <2>2, <2>3, DownFits
<1>6. a \in Words /\ Fits(n, d, Len(vec) + 1, a)
  <2>1. "DATA" \in Types /\ m.fs - 1 \in -1 .. Width - 1 /\ "DATA" # "RIGHT"
        /\ (m.fs - 1 >= Width - 1 => ~ (m.fs < Width))
    <3> HIDE DEF m
    <3> QED
      BY <1>2, <1>3, WidthIs DEF Types
  <2>2. Len(vec) + 1 # Head1 /\ NewData \in 1 .. d /\ NewData \in Nat
    BY <1>1 DEF Head1, NewData
  <2>3. down = Nil \/ (down \in 2 .. n /\ m.fs < Width)
    BY <1>1 DEF Inner
  <2> HIDE DEF n, d, m
  <2> QED
    BY <2>1, <2>2, <2>3, NodeFits
<1> HIDE DEF a, new
<1> QED
  BY <1>1, <1>2, <1>4, <1>5, <1>6, PublishOne

\* A record at the end of the down chain (do_insert_last_down).
LEMMA InsertLastInv ==
  ASSUME TreeInv, NEW t \in Thread, InsertLast(t)
  PROVE  TreeInv'
<1>1. Downward(vec, dat, loc[t]) /\ loc[t].pc \notin {"idle", "return"} /\ Nil \in Nat
  BY InCall DEF InsertLast, Where, Nil
<1> QED
  BY <1>1, BelowInv DEF InsertLast

\* A record between two nodes of the down chain (do_insert_up_via_d).
LEMMA InsertMidInv ==
  ASSUME TreeInv, NEW t \in Thread, InsertMid(t)
  PROVE  TreeInv'
<1> DEFINE m == loc[t]
<1>1. ReadBelow(vec, dat, m) /\ m.fs <= m.nw.pos /\ m.pc \notin {"idle", "return"}
      /\ Nodes(vec, dat)
  BY InCall DEF InsertMid, Where
<1>2. Downward(vec, dat, m) /\ m.cw.down \in Inner(vec) /\ WordOf(vec, dat, m.nxt, m.nw)
  BY <1>1 DEF ReadBelow, Downward, At, WordOf
<1>3. m.fs < Width
  <2>1. m.nw.pos \in -1 .. Width - 1 /\ m.fs \in m.start .. Width /\ Width \in Nat
    BY <1>2, WidthIs DEF WordOf, Downward, At
  <2> QED
    BY <1>1, <2>1, WidthIs
<1>4. m.cw.down \in Nat
  BY <1>1, <1>2, NodeWord
<1> QED
  BY <1>1, <1>2, <1>3, <1>4, BelowInv DEF InsertMid

\* An insertion that gets no memory answers a code and changes no node.
LEMMA InsertTroubleInv ==
  ASSUME TreeInv, NEW t \in Thread, InsertTrouble(t)
  PROVE  TreeInv'
<1>1. PICK code \in Trouble : Become(t, Answer(loc[t], code))
  BY DEF InsertTrouble
<1>2. UNCHANGED <<vec, dat>> /\ Active(vec, dat, loc[t])
  BY InCall DEF InsertTrouble, Quiet
<1>3. Local(vec, dat, Answer(loc[t], code))
  BY <1>2, AnswerLocal DEF Codes
<1> QED
  BY <1>1, <1>2, <1>3, ReadInv

-----------------------------------------------------------------------------
(* The steps on a record.                                                   *)

\* A record's count, or its mark, changes.
LEMMA Counted ==
  ASSUME NEW D \in Seq(Records), NEW d \in 1 .. Len(D), NEW D2,
         \/ \E ref \in Nat : D2 = [D EXCEPT ![d].ref = ref]
         \/ D2 = [D EXCEPT ![d].retired = TRUE]
  PROVE  /\ D2 \in Seq(Records) /\ Len(D2) = Len(D)
         /\ \A e \in 1 .. Len(D) : D2[e].key = D[e].key
<1> DEFINE r1(ref) == [D[d] EXCEPT !.ref = ref]
           r2 == [D[d] EXCEPT !.retired = TRUE]
<1>1. D[d] \in Records
  OBVIOUS
<1>2. /\ \A ref \in Nat : r1(ref) \in Records /\ r1(ref).key = D[d].key
      /\ r2 \in Records /\ r2.key = D[d].key
  BY <1>1 DEF Records
<1>3. (\E ref \in Nat : D2 = [D EXCEPT ![d] = r1(ref)]) \/ D2 = [D EXCEPT ![d] = r2]
  OBVIOUS
<1> HIDE DEF r1, r2
<1>4. PICK r \in Records : D2 = [D EXCEPT ![d] = r] /\ r.key = D[d].key
  BY <1>2, <1>3
<1> QED
  BY <1>4

\* A change of a record that keeps its key is no change to the words.
LEMMA RecordChange ==
  ASSUME NEW V, NEW D, Nodes(V, D), NEW D2 \in Seq(Records), Len(D2) = Len(D),
         \A e \in 1 .. Len(D) : D2[e].key = D[e].key
  PROVE  Nodes(V, D2) /\ Grow(V, D, V, D2)
<1>1. Grow(V, D, V, D2)
  BY DEF Grow, Nodes
<1> QED
  BY <1>1, GrowWord DEF Nodes

\* A step that changes a record only.
LEMMA CountInv ==
  ASSUME TreeInv, NEW t \in Thread, NEW m, Become(t, m), UNCHANGED vec, NEW d \in 1 .. Len(dat),
         NEW ref \in Nat, dat' = [dat EXCEPT ![d].ref = ref], Local(vec, dat, m)
  PROVE  TreeInv'
<1>1. Nodes(vec, dat) /\ dat \in Seq(Records)
  BY DEF TreeInv, Nodes
<1>2. /\ dat' \in Seq(Records) /\ Len(dat') = Len(dat)
      /\ \A e \in 1 .. Len(dat) : dat'[e].key = dat[e].key
  BY SMTT(30), <1>1, Counted
<1>3. Nodes(vec', dat') /\ Grow(vec, dat, vec', dat')
  BY <1>1, <1>2, RecordChange
<1>4. Local(vec', dat', m)
  BY <1>3, GrowLocal
<1> QED
  BY <1>3, <1>4, BecomeInv DEF Become

\* A record was found: counted up, counted down or reported.
LEMMA FoundInv ==
  ASSUME TreeInv, NEW t \in Thread, Found(t)
  PROVE  TreeInv'
<1> DEFINE m == loc[t]
           d == FoundData(m)
           set(ref) == dat' = [dat EXCEPT ![d].ref = ref]
           again == [m EXCEPT !.ret = NOT_FOUND]
           last == [m EXCEPT !.pc = "delete", !.cd = d]
<1>1. /\ Active(vec, dat, m) /\ m \in Locals /\ Holds(vec, dat, m) /\ m.cd \in {Unset, m.cw.rd}
      /\ Nodes(vec, dat) /\ Len(vec) \in Nat \ {0} /\ Len(dat) \in Nat /\ m.pc = "found"
  BY InCall DEF Found, Where
<1>2. d = m.cw.rd /\ d \in 1 .. Len(dat) /\ ~ Broken(m)
  <2>1. m.cw.rd \in 0 .. Len(dat) /\ m.cw.rd # Nil /\ m.cw.ty = "DATA" /\ Len(dat) \in Nat
    BY <1>1 DEF Holds, WordOf
  <2>2. d = m.cw.rd
    BY <1>1 DEF FoundData
  <2> QED
    BY <2>1, <2>2 DEF Broken, Nil
<1>3. dat[d] \in Records /\ dat[d].ref \in Nat
  <2>1. dat \in Seq(Records)
    BY <1>1 DEF Nodes
  <2>2. dat[d] \in Records
    BY <1>2, <2>1
  <2> QED
    BY <2>2 DEF Records
<1>4. CASE m.op = "FIND"
  <2>1. Become(t, Answer(m, OK)) /\ UNCHANGED <<vec, dat>>
    BY <1>2, <1>4 DEF Found
  <2>2. Local(vec, dat, Answer(m, OK))
    BY <1>1, AnswerLocal DEF Codes
  <2> QED
    BY <2>1, <2>2, ReadInv
<1>5. CASE m.op = "INSERT"
  <2>1. UNCHANGED vec
        /\ IF dat[d].ref = 0 THEN Become(t, Restart(again)) /\ UNCHANGED dat
           ELSE Become(t, Answer(m, OK)) /\ set(dat[d].ref + 1)
    BY <1>2, <1>5 DEF Found
  <2>2. m.ret = NOT_FOUND
    BY <1>1, <1>5 DEF Active, Wants, Owed
  <2>3. again = m
    <3> HIDE DEF m
    <3> QED
      BY <1>1, <2>2 DEF Locals
  <2>4. Local(vec, dat, Restart(again)) /\ Local(vec, dat, Answer(m, OK))
    BY <1>1, <2>3, RestartLocal, AnswerLocal DEF Codes
  <2> HIDE DEF again, d, m
  <2>5. CASE dat[d].ref = 0
    BY <2>1, <2>4, <2>5, ReadInv
  <2>6. CASE dat[d].ref # 0
    <3>1. dat[d].ref + 1 \in Nat
      BY <1>3
    <3> QED
      BY <1>2, <2>1, <2>4, <2>6, <3>1, CountInv
  <2> QED
    BY <2>5, <2>6
<1>6. CASE m.op = "DELETE"
  <2>1. UNCHANGED vec
        /\ IF dat[d].ref = 0 THEN Become(t, Answer(m, NOT_FOUND)) /\ UNCHANGED dat
           ELSE set(dat[d].ref - 1) /\ Become(t, IF dat[d].ref = 1 THEN last ELSE Answer(m, OK))
    BY <1>2, <1>6 DEF Found
  <2>2. Local(vec, dat, Answer(m, OK)) /\ Local(vec, dat, Answer(m, NOT_FOUND))
    BY <1>1, AnswerLocal DEF Codes
  <2>3. Local(vec, dat, last)
    <3> DEFINE c == [m EXCEPT !.cd = d]
    <3>1. d \in {Unset} \union 0 .. Len(dat) /\ d \in Int
      BY <1>1, <1>2
    <3>2. /\ Active(vec, dat, c) /\ c.cd = d /\ c.cw = m.cw /\ c.cur = m.cur /\ c.op = "DELETE"
      <4>1. c \in Locals
        <5> HIDE DEF d, m
        <5> QED
          BY <1>1, <3>1 DEF Locals
      <4>2. SameCall(c, m) /\ c.cur = m.cur /\ c.pre = m.pre /\ c.nxt = m.nxt /\ c.cd = d /\ c.cw = m.cw
        <5> HIDE DEF d, m
        <5> QED
          BY <1>1 DEF Locals, SameCall
      <4> HIDE DEF c, d, m
      <4>3. c.cur \in 0 .. Len(vec) /\ c.pre \in 0 .. Len(vec) /\ c.nxt \in 0 .. Len(vec)
            /\ c.cd \in {Unset} \union 0 .. Len(dat)
        BY <1>1, <3>1, <4>2 DEF Active, Ranges
      <4> QED
        BY <1>1, <1>6, <4>1, <4>2, <4>3, StaysActive DEF SameCall
    <3>3. last = [c EXCEPT !.pc = "delete"]
      <4> HIDE DEF d, m
      <4> QED
        BY <1>1 DEF Locals
    <3> HIDE DEF c, last
    <3>4. Holds(vec, dat, c)
      BY <1>1, <3>2 DEF Holds
    <3>5. ASSUME NEW w \in Locals, w.pc = "delete", SameCall(w, c), SameWalk(w, c)
          PROVE  Where(vec, dat, w)
      <4>1. Holds(vec, dat, w) /\ w.cd = w.cw.rd /\ w.op = "DELETE"
        BY <1>2, <3>2, <3>4, <3>5, WalkSame DEF SameCall, SameWalk
      <4> QED
        BY <3>5, <4>1 DEF Where
    <3> QED
      BY <3>2, <3>3, <3>5, AllPoints, GoLocal
  <2> HIDE DEF last, d, m
  <2>4. CASE dat[d].ref = 0
    BY <2>1, <2>2, <2>4, ReadInv
  <2>5. CASE dat[d].ref # 0
    <3>1. dat[d].ref - 1 \in Nat
      BY <1>3, <2>5
    <3>2. PICK r \in {last, Answer(m, OK)} : Become(t, r)
      BY <2>1, <2>5
    <3>3. Local(vec, dat, r)
      BY <2>2, <2>3
    <3> QED
      BY <1>2, <2>1, <2>5, <3>1, <3>2, <3>3, CountInv
  <2> QED
    BY <2>4, <2>5
<1>7. m.op \in {"FIND", "INSERT", "DELETE"}
  BY <1>1 DEF Active, Wants, Operation
<1> QED
  BY <1>4, <1>5, <1>6, <1>7

\* The last reference goes: the node loses its record.
LEMMA DeleteInv ==
  ASSUME TreeInv, NEW t \in Thread, Delete(t)
  PROVE  TreeInv'
<1> DEFINE m == loc[t]
           head == m.cur = Head1
           new == [m.cw EXCEPT !.rd = Nil, !.st = IF head THEN m.cw.st ELSE "INVALID"]
           find == [m EXCEPT !.op = "FIND", !.ret = OK, !.cd = Unset]
           yes == IF head THEN Answer(m, OK) ELSE Restart(find)
           no == [m EXCEPT !.pc = "undo"]
<1>1. /\ Active(vec, dat, m) /\ m \in Locals /\ Holds(vec, dat, m) /\ m.cd = m.cw.rd
      /\ m.op = "DELETE" /\ m.pc = "delete"
      /\ Nodes(vec, dat) /\ Len(vec) \in Nat \ {0} /\ Len(dat) \in Nat
  BY InCall DEF Delete, Where
<1>2. /\ Cas(t, m.cur, m.cw, new, yes, no)
      /\ dat' = IF vec[m.cur] = m.cw THEN [dat EXCEPT ![m.cd].retired = TRUE] ELSE dat
  BY DEF Delete
<1>3. WordOf(vec, dat, m.cur, m.cw) /\ m.cw.ty = "DATA" /\ m.cd \in 1 .. Len(dat)
  <2>1. m.cw.rd \in 0 .. Len(dat) /\ m.cw.rd # Nil
    BY <1>1 DEF Holds, WordOf
  <2> QED
    BY <1>1, <2>1 DEF Holds, Nil
<1>4. WordOf(vec, dat, m.cur, new)
  <2>1. m.cw \in Words /\ m.cw.st \in Statuses /\ "INVALID" \in Statuses /\ Nil \in Nat
    BY <1>3 DEF WordOf, Statuses, Nil
  <2>2. /\ new \in Words /\ new.rd = Nil /\ new.st = (IF head THEN m.cw.st ELSE "INVALID")
        /\ new.ty = m.cw.ty /\ new.pos = m.cw.pos /\ new.down = m.cw.down
    <3> HIDE DEF m, head
    <3> QED
      BY <2>1 DEF Words
  <2>3. Nil \in 0 .. Len(dat)
    BY <1>1 DEF Nil
  <2> HIDE DEF new, m
  <2> QED
    BY <1>3, <2>1, <2>2, <2>3 DEF WordOf
<1>5. Local(vec, dat, yes)
  <2>1. Active(vec, dat, find)
    <3>1. Unset \in Int /\ OK \in Int /\ "FIND" \in Operation
      BY DEF Unset, OK, Operation
    <3>2. find \in Locals
      <4> HIDE DEF m
      <4> QED
        BY <1>1, <3>1 DEF Locals
    <3>3. /\ find.op = "FIND" /\ find.ret = OK /\ find.cd = Unset /\ find.goal = m.goal
          /\ find.key = m.key /\ SameNext(find, m) /\ find.cur = m.cur /\ find.pre = m.pre
      <4> HIDE DEF m
      <4> QED
        BY <1>1 DEF Locals, SameNext
    <3> HIDE DEF find
    <3>4. m.goal = "DELETE" /\ m.key \in Keys /\ m.goal \in Operation
      BY <1>1 DEF Active, Wants
    <3>5. Wants(find) /\ find.ret = Owed(find) /\ find.ret \in Codes
      BY <3>1, <3>3, <3>4 DEF Wants, Owed, Codes
    <3> QED
      BY <1>1, <3>2, <3>3, <3>5 DEF Active, Ranges, SameNext
  <2>2. Local(vec, dat, Restart(find)) /\ Local(vec, dat, Answer(m, OK))
    BY <1>1, <2>1, RestartLocal, AnswerLocal DEF Codes
  <2> QED
    BY <2>2
<1>6. Local(vec, dat, no)
  <2>1. ASSUME NEW w \in Locals, w.pc = "undo", SameCall(w, m), SameWalk(w, m)
        PROVE  Where(vec, dat, w)
    <3>1. w.cd \in 1 .. Len(dat) /\ w.op = "DELETE"
      BY <1>1, <1>3, <2>1 DEF SameCall, SameWalk
    <3> QED
      BY <2>1, <3>1 DEF Where
  <2> HIDE DEF m
  <2> QED
    BY <1>1, <2>1, AllPoints, GoLocal
<1> HIDE DEF yes, no, new, m
<1>7. CASE vec[m.cur] = m.cw
  <2> DEFINE V2 == [vec EXCEPT ![m.cur] = new]
             D2 == [dat EXCEPT ![m.cd].retired = TRUE]
  <2>1. vec' = V2 /\ dat' = D2 /\ loc' = [loc EXCEPT ![t] = yes]
    BY <1>2, <1>7 DEF Cas, Become
  <2>2. Nodes(V2, dat) /\ Grow(vec, dat, V2, dat)
    BY <1>1, <1>4, NewWord
  <2>3. /\ D2 \in Seq(Records) /\ Len(D2) = Len(dat)
        /\ \A e \in 1 .. Len(dat) : D2[e].key = dat[e].key
    BY ZenonT(60), <1>1, <1>3, Counted DEF Nodes
  <2> HIDE DEF V2, D2
  <2>4. Nodes(V2, D2) /\ Grow(V2, dat, V2, D2)
    BY <2>2, <2>3, RecordChange
  <2>5. Grow(vec, dat, vec', dat')
    BY <2>1, <2>2, <2>4 DEF Grow
  <2>6. Local(vec', dat', yes)
    BY <1>5, <2>5, GrowLocal
  <2> QED
    BY <2>1, <2>4, <2>5, <2>6, BecomeInv
<1>8. CASE vec[m.cur] # m.cw
  BY <1>2, <1>6, <1>8, ReadInv DEF Cas
<1> QED
  BY <1>7, <1>8

\* The count is put back when the node could not be emptied.
LEMMA UndoInv ==
  ASSUME TreeInv, NEW t \in Thread, Undo(t)
  PROVE  TreeInv'
<1> DEFINE m == loc[t]
           n == [m EXCEPT !.cd = Unset, !.ret = NOT_FOUND]
<1>1. /\ Active(vec, dat, m) /\ m \in Locals /\ m.cd \in 1 .. Len(dat) /\ m.op = "DELETE"
      /\ Nodes(vec, dat) /\ Len(vec) \in Nat \ {0} /\ Len(dat) \in Nat
  BY InCall DEF Undo, Where
<1>2. /\ dat' = [dat EXCEPT ![m.cd].ref = dat[m.cd].ref + 1] /\ Become(t, Restart(n))
      /\ UNCHANGED vec
  BY DEF Undo
<1>3. dat[m.cd].ref + 1 \in Nat
  <2>1. dat[m.cd] \in Records
    BY <1>1 DEF Nodes
  <2> QED
    BY <2>1 DEF Records
<1>4. m.ret = NOT_FOUND
  BY <1>1 DEF Active, Wants, Owed
<1>5. Active(vec, dat, n)
  <2>1. Unset \in Int
    BY DEF Unset
  <2>2. n \in Locals
    <3> HIDE DEF m
    <3> QED
      BY <1>1, <1>4, <2>1 DEF Locals
  <2>3. SameCall(n, m) /\ n.cd = Unset /\ n.cur = m.cur /\ n.pre = m.pre /\ n.nxt = m.nxt
    <3> HIDE DEF m
    <3> QED
      BY <1>1, <1>4 DEF Locals, SameCall
  <2> HIDE DEF n, m
  <2>4. n.cur \in 0 .. Len(vec) /\ n.pre \in 0 .. Len(vec) /\ n.nxt \in 0 .. Len(vec)
        /\ n.cd \in {Unset} \union 0 .. Len(dat)
    BY <1>1, <2>3 DEF Active, Ranges
  <2> QED
    BY <1>1, <2>2, <2>3, <2>4, StaysActive
<1>6. Local(vec, dat, Restart(n))
  BY <1>1, <1>5, RestartLocal
<1> HIDE DEF n
<1> QED
  BY <1>1, <1>2, <1>3, <1>6, CountInv

-----------------------------------------------------------------------------
(* The types, for every run.                                                *)

\* The variables that the walk does not read.
Sides == missed \subseteq Thread /\ seen \subseteq Thread /\ budget \in [Thread -> Nat]

\* At first there is the head alone, and nobody in a call.
LEMMA InitInv == Init => TreeInv /\ Sides
<1> SUFFICES ASSUME Init PROVE TreeInv /\ Sides
  OBVIOUS
<1>1. vec = <<EmptyHead>> /\ dat = <<>> /\ loc = [t \in Thread |-> Idle]
  BY DEF Init
<1>2. EmptyHead \in Words /\ Idle \in Locals
  BY AllPoints
     DEF EmptyHead, Idle, Locals, Words, NoWord, Operation, NOT_FOUND, Nil, Unset, Statuses, Types
<1>3. EmptyHead.pos = -1 /\ EmptyHead.down = Nil /\ EmptyHead.rd = Nil /\ EmptyHead.st = "VALID"
      /\ EmptyHead.ty = "DATA"
  BY DEF EmptyHead
<1> HIDE DEF EmptyHead
<1>4. vec \in Seq(Words) /\ Len(vec) = 1 /\ vec[1] = EmptyHead /\ dat \in Seq(Records) /\ Len(dat) = 0
  BY <1>1, <1>2
<1>5. -1 \in -1 .. Width - 1 /\ 0 \in 0 .. Len(dat) /\ ~ (-1 >= Width - 1)
  BY <1>4, WidthIs
<1>6. WordOf(vec, dat, 1, vec[1])
  BY <1>2, <1>3, <1>4, <1>5 DEF WordOf, Statuses, Types, Head1, Nil
<1>7. Nodes(vec, dat)
  BY <1>4, <1>6 DEF Nodes
<1>8. loc \in [Thread -> Locals] /\ \A t \in Thread : Local(vec, dat, loc[t])
  BY <1>1, <1>2 DEF Local
<1>9. Sides
  BY TreeAssumption DEF Init, Sides
<1> QED
  BY <1>7, <1>8, <1>9 DEF TreeInv

\* Every step keeps the invariant, if find_fs stays inside the key.
LEMMA StepInv ==
  ASSUME TreeInv, NEW t \in Thread, Step(t),
         FirstSetInRange' \/ (loc[t].pc = "forward" => loc[t].cur = Head1)
  PROVE  TreeInv'
<1>1. ASSUME NEW op \in Operation, NEW key \in Keys, Call(t, op, key) PROVE TreeInv'
  BY <1>1, CallInv
<1>2. CASE Return(t) \/ ReadRight(t) \/ RightUnlink(t) \/ RightInvalidate(t) \/ Reread(t)
  BY <1>2, ReturnInv, ReadRightInv, RightUnlinkInv, RightInvalidateInv, RereadInv
<1>3. CASE ReadDown(t) \/ DownUnlink(t) \/ DownValidate(t) \/ RereadAny(t) \/ Orphan(t)
           \/ FreeLoad(t) \/ FreeStore(t)
  BY <1>3, ReadDownInv, DownUnlinkInv, DownValidateInv, RereadAnyInv, OrphanInv, FreeLoadInv,
     FreeStoreInv
<1>4. CASE Gid(t) \/ GidNext(t) \/ GidUnlink(t) \/ GidInvalidate(t) \/ GidReread(t)
  BY <1>4, GidInv, GidNextInv, GidUnlinkInv, GidInvalidateInv, GidRereadInv
<1>5. CASE InsertFirst(t) \/ InsertUp(t) \/ InsertDown(t) \/ InsertLast(t) \/ InsertMid(t)
           \/ InsertTrouble(t)
  BY <1>5, InsertFirstInv, InsertUpInv, InsertDownInv, InsertLastInv, InsertMidInv, InsertTroubleInv
<1>6. CASE Found(t) \/ Delete(t) \/ Undo(t)
  BY <1>6, FoundInv, DeleteInv, UndoInv
<1>7. CASE Forward(t)
  <2>1. loc[t].pc = "forward"
    BY <1>7 DEF Forward
  <2> QED
    BY <1>7, <2>1, ForwardInv
<1> QED
  BY <1>1, <1>2, <1>3, <1>4, <1>5, <1>6, <1>7 DEF Step

\* No step, or only the other variables change.
LEMMA SameTree ==
  ASSUME TreeInv, UNCHANGED <<vec, dat, loc>>
  PROVE  TreeInv'
BY DEF TreeInv

\* No step breaks the invariant, provided find_fs stays in the key after it.
LEMMA NextInv ==
  ASSUME TreeInv, [Next]_vars,
         \/ FirstSetInRange'
         \/ \A t \in Thread : loc[t].pc = "forward" => loc[t].cur = Head1
  PROVE  TreeInv'
<1>1. CASE \E t \in Thread : Step(t)
  BY <1>1, StepInv
<1>2. CASE UNCHANGED <<vec, dat, loc>>
  BY <1>2, SameTree
<1> QED
  BY <1>1, <1>2 DEF Next, vars

\* Nor the types of the variables the walk does not read.
LEMMA NextSides ==
  ASSUME Sides, [Next]_vars
  PROVE  Sides'
<1>1. CASE UNCHANGED vars
  BY <1>1 DEF Sides, vars
<1>2. CASE Next
  <2>1. missed' \subseteq Thread /\ seen' \subseteq Thread
    BY <1>2 DEF Next, Set!Histories
  <2>2. budget' \in [Thread -> Nat]
    <3>1. CASE UNCHANGED budget
      BY <3>1 DEF Sides
    <3>2. ASSUME NEW t \in Thread, NEW op \in Operation, NEW key \in Keys, Call(t, op, key)
          PROVE  budget' \in [Thread -> Nat]
      <4>1. UNCHANGED budget \/ (budget[t] > 0 /\ budget' = [budget EXCEPT ![t] = budget[t] - 1])
        BY <3>2 DEF Call
      <4> QED
        BY <4>1 DEF Sides
    <3>3. ASSUME NEW t \in Thread, Step(t), \A op \in Operation, key \in Keys : ~ Call(t, op, key)
          PROVE  UNCHANGED budget
      BY <3>3 DEF Step, Return, Forward, ReadRight, RightUnlink, RightInvalidate, Reread, ReadDown,
                  DownUnlink, DownValidate, RereadAny, Orphan, FreeLoad, FreeStore, Gid, GidNext,
                  GidUnlink, GidInvalidate, GidReread, InsertFirst, InsertUp, InsertDown, InsertLast,
                  InsertMid, InsertTrouble, Found, Delete, Undo, Publish, Quiet
    <3> QED
      BY <1>2, <3>1, <3>2, <3>3 DEF Next
  <2> QED
    BY <2>1, <2>2 DEF Sides
<1> QED
  BY <1>1, <1>2

\* The invariant says all that TypeOK does.
LEMMA InvTypes == TreeInv /\ Sides => TypeOK
<1> SUFFICES ASSUME TreeInv, Sides PROVE TypeOK
  OBVIOUS
<1>1. Nodes(vec, dat) /\ vec \in Seq(Words) /\ dat \in Seq(Records) /\ Len(vec) \in Nat
      /\ Len(dat) \in Nat /\ DOMAIN vec = 1 .. Len(vec) /\ DOMAIN dat = 1 .. Len(dat)
  BY DEF TreeInv, Nodes
<1>2. ASSUME NEW v \in DOMAIN vec PROVE vec[v] \in Word
  <2>1. WordOf(vec, dat, v, vec[v]) /\ vec[v] \in Words
    BY <1>1, NodeWord
  <2>2. vec[v].pos \in -1 .. 2 * Width
    BY <2>1, WidthIs DEF WordOf
  <2>3. vec[v].down \in 0 .. Len(vec)
    BY <1>1, <2>1 DEF WordOf, Inner, Nil
  <2>4. vec[v].rd \in 0 .. Len(vec) + Len(dat)
    <3>1. vec[v].rd \in Inner(vec) \/ vec[v].rd \in 0 .. Len(dat)
      BY <2>1 DEF WordOf, Types
    <3> QED
      BY <1>1, <3>1 DEF Inner
  <2>5. vec[v].st \in {"VALID", "INVALID", "RAW"} /\ vec[v].ty \in {"DATA", "RIGHT"}
    BY <2>1 DEF WordOf, Statuses, Types
  <2> QED
    BY <2>1, <2>2, <2>3, <2>4, <2>5 DEF Words, Word
<1>3. ASSUME NEW d \in DOMAIN dat PROVE dat[d] \in [key : Keys, ref : Nat, retired : BOOLEAN]
  <2>1. dat \in Seq(Records) /\ d \in 1 .. Len(dat)
    BY <1>1
  <2>2. dat[d] \in Records
    BY <2>1
  <2> QED
    BY <2>2 DEF Records
<1>4. ASSUME NEW t \in Thread
      PROVE  /\ loc[t].cur \in 0 .. Len(vec) /\ loc[t].nxt \in 0 .. Len(vec)
             /\ loc[t].cd \in {Unset} \union 0 .. Len(dat)
             /\ loc[t].ret \in {OK, NOT_FOUND, NullCode, DO_AGAIN} \union Trouble
  <2>1. CASE loc[t] = Idle
    BY <1>1, <2>1 DEF Idle, Nil
  <2>2. CASE Ranges(vec, dat, loc[t])
    BY <2>2 DEF Ranges, Codes
  <2> QED
    BY <2>1, <2>2 DEF TreeInv, Local, Active
<1> QED
  BY <1>2, <1>3, <1>4 DEF TypeOK, Sides

\* Node words, records, reference counts and the local variables of find_data
\* stay in their ranges, in every run in which find_fs stays inside the key.
THEOREM TypesInRange == Spec /\ []FirstSetInRange => []TypeOK
<1>1. TreeInv /\ Sides /\ FirstSetInRange' /\ [Next]_vars => TreeInv' /\ Sides'
  BY NextInv, NextSides
<1> QED
  BY <1>1, InitInv, InvTypes, PTL DEF Spec
=============================================================================
