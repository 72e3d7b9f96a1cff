------------------------------- MODULE SdTree -------------------------------
(***************************************************************************)
(* The binary tree of splitter.c: find_data, which looks up, inserts and   *)
(* deletes, get_data_id, and the five do_insert_* functions, run by        *)
(* several threads without a lock.                                         *)
(*                                                                         *)
(* A node (spt_vec) is one 64-bit word, read and compare-and-swapped as a  *)
(* whole: one step of this module is one access to a word or to a record's *)
(* reference count, with all the local work that follows it up to the next *)
(* access.  The local variables of find_data and get_data_id are the       *)
(* fields of one record per thread, pc included.                           *)
(*                                                                         *)
(* A key is a string of Width bits.  A walk stands at node cur and at bit  *)
(* start of its key.  If that bit is 1 it goes right: rd is the record     *)
(* (DATA) or the next node (RIGHT), whose position says how many bits to   *)
(* compare.  If it is 0 it goes down: the down neighbour stands for the    *)
(* keys whose bits are zero up to its position.                            *)
(*                                                                         *)
(* Left out: signpost nodes (type is a 1-bit field, so no word is one),    *)
(* the hang_vec bookkeeping of upper clusters, and the re-use of freed     *)
(* nodes and records, which the grace periods are there to delay; an id is *)
(* allocated once.  Trouble is the set of codes other than OK that the     *)
(* memory layer may answer.                                                *)
(*                                                                         *)
(* The operators named Mut... are seeded bugs: each changes the definition *)
(* after it as a plausible coding error would, and breaks a property.      *)
(***************************************************************************)
EXTENDS Integers, Sequences, FiniteSets

CONSTANTS
  Thread,     \* the worker threads
  Width,      \* endbit - startbit of the cluster
  Keys,       \* the keys in use: numbers below 2^Width, bit 0 the highest
  Prefill,    \* a sequence of keys one thread inserts before the others start
  Work,       \* the calls each thread may make: operations on keys
  Budget,     \* how many operations each thread calls, after Prefill
  Trouble     \* a subset of {NOMEM, WAIT_AMT}

\* The codes of chunk.h.
OK == 0
NOT_FOUND == 1
NOMEM == -2
WAIT_AMT == -3
DO_AGAIN == -4

Operation == {"FIND", "INSERT", "DELETE"}   \* SPT_OP_*

\* The value of each bit of a key.
Pow2[n \in 0 .. Width] == IF n = 0 THEN 1 ELSE 2 * Pow2[n - 1]

ASSUME TreeAssumption ==
  /\ Thread # {}
  /\ Width \in Nat \ {0}
  /\ Keys \subseteq 0 .. Pow2[Width] - 1
  /\ Prefill \in Seq(Keys)
  /\ Work \in [Thread -> SUBSET (Operation \X Keys)]
  /\ Budget \in [Thread -> Nat]
  /\ Trouble \subseteq {NOMEM, WAIT_AMT}

VARIABLES
  vec,        \* the node words, indexed by id; 1 is pclst->vec_head
  dat,        \* the data blocks: key of the record, reference count, retired
  loc,        \* the local variables of each thread
  out,        \* the code of each thread's last call
  todo,       \* what is left of Prefill
  budget,     \* what is left of Budget
  missed,     \* history: the threads whose key has been absent, since the call
  seen        \* history: the threads whose key has been present, since the call

vars == <<vec, dat, loc, out, todo, budget, missed, seen>>
-----------------------------------------------------------------------------
Head1 == 1                  \* pclst->vec_head
Nil == 0                    \* SPT_NULL, in rd and down
Unset == -1                 \* SPT_INVALID, in cur_data
NullCode == 8388607         \* SPT_NULL returned as a code

Bit(key, i) == (key \div Pow2[Width - 1 - i]) % 2

\* The first set bit of key in [from, to), to if there is none: find_fs.
FirstSet(key, from, to) ==
  LET set == {i \in from .. to - 1 : Bit(key, i) = 1}
  IN  IF set = {} THEN to ELSE CHOOSE i \in set : \A j \in set : i <= j

\* The first bit in [from, to) where two keys differ, to if there is none:
\* the position diff_identify reports.
FirstDiff(k1, k2, from, to) ==
  LET set == {i \in from .. to - 1 : Bit(k1, i) # Bit(k2, i)}
  IN  IF set = {} THEN to ELSE CHOOSE i \in set : \A j \in set : i <= j

\* find_fs as refind_forward calls it, with endbit for its length: past the
\* key it may stop at any bit the memory there happens to hold.
FirstSetFrom(key, from) ==
  IF FirstSet(key, from, Width) < Width THEN {FirstSet(key, from, Width)}
  ELSE Width .. Width + from

EmptyHead == [st |-> "VALID", ty |-> "DATA", pos |-> -1, down |-> Nil, rd |-> Nil]
NoWord == [st |-> "NONE", ty |-> "NONE", pos |-> -1, down |-> Nil, rd |-> Nil]

\* A thread between two calls.
Idle == [pc |-> "idle", op |-> "NONE", goal |-> "NONE", key |-> 0, ret |-> NOT_FOUND,
         cur |-> Nil, cw |-> NoWord, pre |-> Nil, nxt |-> Nil, nw |-> NoWord,
         start |-> 0, fs |-> 0, dir |-> "START", cd |-> Unset,
         back |-> "NONE", gv |-> Nil, gc |-> Nil, gw |-> NoWord, gn |-> Nil, gx |-> NoWord,
         fv |-> Nil, fw |-> NoWord, fback |-> "NONE"]

Init ==
  /\ vec = <<EmptyHead>>
  /\ dat = <<>>
  /\ loc = [t \in Thread |-> Idle]
  /\ out = [t \in Thread |-> OK]
  /\ todo = Prefill
  /\ budget = Budget
  /\ missed = {}
  /\ seen = {}
-----------------------------------------------------------------------------
(* Local work between two accesses: operators from local states to local   *)
(* states.                                                                  *)

\* goto refind_start, and goto refind_forward from the previous node.
Restart(m) == [m EXCEPT !.pc = "forward", !.cur = Head1]
Back(m) == [m EXCEPT !.pc = "forward", !.cur = IF m.pre = Nil THEN Head1 ELSE m.pre]

Answer(m, code) == [m EXCEPT !.pc = "return", !.ret = code]

\* An error is reported only if the call has not done its work already.
Fail(m, code) == Answer(m, IF m.ret = OK THEN OK ELSE code)

\* A point the code never leaves, or asserts that it never reaches.
Stuck(m) == [m EXCEPT !.pc = "stuck"]

\* A call of get_data_id on node v; back says what its caller goes on with.
GetDataId(m, v, back) == [m EXCEPT !.pc = "gid", !.gv = v, !.back = back]

\* Where the keys to the right of cur agree up to: startbit + len.
SegmentEnd(m) == IF m.cw.ty = "DATA" THEN Width ELSE m.nw.pos + 1

DiffPos(m) == FirstDiff(m.key, dat[m.cd].key, m.start, SegmentEnd(m))

\* The key differs from the record to the right.
Mismatch(m) ==
  IF m.op = "INSERT"
  THEN [m EXCEPT !.pc = IF Bit(m.key, DiffPos(m)) = 1 THEN "insert_up" ELSE "insert_down"]
  ELSE Answer(m, m.ret)

\* cur holds a record: all the rest of the key is compared.
AtData(m) ==
  LET n == [m EXCEPT !.cd = m.cw.rd]
  IN  IF m.cd # Unset /\ m.cd # m.cw.rd THEN Restart([m EXCEPT !.cd = Unset])
      ELSE IF n.cd = Nil
      THEN IF m.op = "INSERT" THEN [n EXCEPT !.pc = "insert_first"] ELSE Answer(n, m.ret)
      ELSE IF DiffPos(n) = Width THEN [n EXCEPT !.pc = "found", !.start = Width]
      ELSE Mismatch(n)

\* The key is zero between start and fs: the inner loop of find_data.
Down(m) ==
  IF m.cw.down # Nil THEN [m EXCEPT !.pc = "down"]
  ELSE IF m.dir = "RIGHT" THEN [m EXCEPT !.pc = "orphan"]
  ELSE CASE m.op = "FIND" -> GetDataId(m, m.cur, "near")
         [] m.op = "INSERT" -> [m EXCEPT !.pc = "insert_last"]
         [] m.op = "DELETE" -> Answer(m, m.ret)

\* The outer loop of find_data.
Walk(m) ==
  IF m.start >= Width THEN [m EXCEPT !.pc = "found"]
  ELSE IF m.fs = m.start
  THEN IF m.cw.ty = "DATA" THEN AtData(m) ELSE [m EXCEPT !.pc = "right"]
  ELSE IF m.cd # Unset THEN GetDataId(m, m.cur, "recheck")
  ELSE Down(m)

\* The test of the inner loop, the assertion after it and the outer loop.
Continue(m) ==
  IF m.fs > m.start THEN Down(m) ELSE IF m.fs < m.start THEN Stuck(m) ELSE Walk(m)

\* The segment up to the next node is compared with the record cd.
Compare(m) ==
  IF DiffPos(m) < SegmentEnd(m) THEN GetDataId(m, m.nxt, "confirm")
  ELSE IF SegmentEnd(m) >= Width THEN [m EXCEPT !.pc = "found", !.start = SegmentEnd(m)]
  ELSE Walk([m EXCEPT !.pre = m.cur, !.cur = m.nxt, !.cw = m.nw, !.dir = "RIGHT",
                      !.start = SegmentEnd(m),
                      !.fs = FirstSet(m.key, SegmentEnd(m), Width)])

\* get_data_id returns r: a data id, Nil or a code.
GidReturn(m, r) ==
  LET n == [m EXCEPT !.gv = Nil, !.gc = Nil, !.gw = NoWord, !.gn = Nil, !.gx = NoWord,
                     !.back = "NONE"]
  IN  CASE m.back = "compare" ->
             IF r > 0 THEN Compare([n EXCEPT !.cd = r])
             ELSE IF r = DO_AGAIN THEN Restart(n)
             ELSE IF r = Nil
             THEN IF m.op = "INSERT" THEN [n EXCEPT !.pc = "insert_first"] ELSE Answer(n, m.ret)
             ELSE Fail(n, r)
        [] m.back = "confirm" -> IF r = m.cd THEN Mismatch(n) ELSE Restart(n)
        [] m.back = "recheck" -> IF r = m.cd THEN Continue([n EXCEPT !.cd = Unset]) ELSE Restart(n)
        [] m.back = "near" ->
             IF r > 0 THEN Answer(n, m.ret)
             ELSE IF r = DO_AGAIN THEN Restart(n)
             ELSE Fail(n, IF r = Nil THEN NullCode ELSE r)

\* The loop of get_data_id: down the right side to a record.
GidWalk(m) ==
  IF m.gw.ty = "DATA" THEN GidReturn(m, m.gw.rd) ELSE [m EXCEPT !.pc = "gid_next", !.gn = m.gw.rd]

\* what is below x is dropped with it
MutPassRight(v, w, x) ==
  IF x.ty = "DATA"
  THEN [w EXCEPT !.rd = x.rd, !.ty = "DATA",
                 !.st = IF x.rd = Nil /\ v # Head1 THEN "INVALID" ELSE w.st]
  ELSE [w EXCEPT !.rd = x.rd]

\* The word that replaces w, whose right neighbour x is invalid: x is passed
\* over, and a node left without anything on its right becomes invalid too.
PassRight(v, w, x) ==
  IF x.ty = "DATA" /\ x.down # Nil THEN [w EXCEPT !.rd = x.down]
  ELSE IF x.ty = "DATA"
  THEN [w EXCEPT !.rd = x.rd, !.ty = "DATA",
                 !.st = IF x.rd = Nil /\ v # Head1 THEN "INVALID" ELSE w.st]
  ELSE [w EXCEPT !.rd = x.rd]
-----------------------------------------------------------------------------
(* Shared accesses.                                                         *)

Become(t, m) == loc' = [loc EXCEPT ![t] = m]

\* Compare-and-swap of a node word, and what follows success or failure.
Cas(t, v, old, new, yes, no) ==
  /\ vec' = IF vec[v] = old THEN [vec EXCEPT ![v] = new] ELSE vec
  /\ Become(t, IF vec[v] = old THEN yes ELSE no)

Quiet == UNCHANGED <<dat, out, todo, budget>>

\* find_data is called: do_insert_data, do_delete_data, insert_data,
\* delete_data.  Prefill runs first, one call at a time.  When an earlier call
\* left the reserve short (SPT_WAIT_AMT), the call may fail at once.
Call(t, op, key) ==
  LET m == [Restart(Idle) EXCEPT !.op = op, !.goal = op, !.key = key]
  IN  /\ loc[t].pc = "idle"
      /\ IF todo # <<>>
         THEN /\ \A u \in Thread : loc[u].pc = "idle"
              /\ t = CHOOSE u \in Thread : TRUE
              /\ op = "INSERT" /\ key = todo[1]
              /\ UNCHANGED budget
         ELSE /\ budget[t] > 0
              /\ <<op, key>> \in Work[t]
              /\ budget' = [budget EXCEPT ![t] = @ - 1]
      /\ \/ Become(t, m)
         \/ \E code \in Trouble : Become(t, Answer(m, code))
      /\ UNCHANGED <<vec, dat, out, todo>>

Return(t) ==
  /\ loc[t].pc = "return"
  /\ out' = [out EXCEPT ![t] = loc[t].ret]
  /\ todo' = IF todo = <<>> THEN todo ELSE Tail(todo)
  /\ Become(t, Idle)
  /\ UNCHANGED <<vec, dat, budget>>

\* refind_forward: the walk starts at cur.
Forward(t) ==
  LET m == loc[t]
      w == vec[m.cur]
      from == IF m.cur = Head1 THEN 0 ELSE w.pos + 1
  IN  /\ m.pc = "forward"
      /\ IF w.st # "VALID"
         THEN IF m.cur = Head1 THEN Become(t, Answer(m, DO_AGAIN)) ELSE Become(t, Restart(m))
         ELSE \E fs \in FirstSetFrom(m.key, from) :
                Become(t, Walk([m EXCEPT !.cw = w, !.pre = Nil, !.nxt = Nil, !.nw = NoWord,
                                         !.start = from, !.fs = fs, !.dir = "START",
                                         !.cd = Unset]))
      /\ UNCHANGED vec /\ Quiet

\* The right neighbour is read.
ReadRight(t) ==
  LET m == [loc[t] EXCEPT !.nxt = loc[t].cw.rd, !.nw = vec[loc[t].cw.rd]]
  IN  /\ loc[t].pc = "right"
      /\ Become(t, IF m.nw.st = "RAW" THEN Restart(m)
                   ELSE IF m.nw.st = "INVALID" THEN [m EXCEPT !.pc = "right_unlink"]
                   ELSE IF m.nw.down = Nil THEN [m EXCEPT !.pc = "right_invalidate"]
                   ELSE IF m.cd = Unset THEN GetDataId(m, m.nxt, "compare")
                   ELSE Compare(m))
      /\ UNCHANGED vec /\ Quiet

\* the node is freed by a thread that did not unlink it
MutRightUnlink(t) ==
  LET m == loc[t]
      n == [m EXCEPT !.pc = "free", !.fv = m.nxt, !.fback = "reread"]
  IN  /\ m.pc = "right_unlink"
      /\ Cas(t, m.cur, m.cw, PassRight(m.cur, m.cw, m.nw), n, n)
      /\ Quiet

\* An invalid right neighbour is unlinked; the thread that unlinks it frees it.
RightUnlink(t) ==
  LET m == loc[t]
  IN  /\ m.pc = "right_unlink"
      /\ Cas(t, m.cur, m.cw, PassRight(m.cur, m.cw, m.nw),
             [m EXCEPT !.pc = "free", !.fv = m.nxt, !.fback = "reread"],
             [m EXCEPT !.pc = "reread"])
      /\ Quiet

\* A right neighbour with nothing below it is made invalid.
RightInvalidate(t) ==
  LET m == loc[t]
  IN  /\ m.pc = "right_invalidate"
      /\ Cas(t, m.nxt, m.nw, [m.nw EXCEPT !.st = "INVALID"],
             [m EXCEPT !.pc = "reread"], [m EXCEPT !.pc = "reread"])
      /\ Quiet

\* the walk goes on with the word it had
MutReread(t) ==
  LET m == loc[t]
  IN  /\ m.pc = "reread"
      /\ Become(t, IF m.cw.st # "VALID" THEN Back(m) ELSE Continue(m))
      /\ UNCHANGED vec /\ Quiet

\* After helping, the walk goes on from the new word of cur.
Reread(t) ==
  LET m == [loc[t] EXCEPT !.cw = vec[loc[t].cur]]
  IN  /\ loc[t].pc = "reread"
      /\ Become(t, IF m.cw.st # "VALID" THEN Back(m) ELSE Continue(m))
      /\ UNCHANGED vec /\ Quiet

\* The down neighbour is read.
ReadDown(t) ==
  LET m == [loc[t] EXCEPT !.nxt = loc[t].cw.down, !.nw = vec[loc[t].cw.down]]
      end == m.nw.pos + 1
  IN  /\ loc[t].pc = "down"
      /\ Become(t,
           IF m.nw.st = "RAW" THEN Restart(m)
           ELSE IF m.nw.st = "INVALID"
           THEN [m EXCEPT !.pc = IF m.nw.ty = "DATA" /\ m.nw.rd = Nil
                                 THEN "down_unlink" ELSE "down_validate"]
           ELSE IF m.fs < end
           THEN CASE m.op = "FIND" -> GetDataId(m, m.cur, "near")
                  [] m.op = "INSERT" -> [m EXCEPT !.pc = "insert_mid"]
                  [] m.op = "DELETE" -> Answer(m, m.ret)
           ELSE Continue([m EXCEPT !.pre = m.cur, !.cur = m.nxt, !.cw = m.nw,
                                   !.dir = "DOWN", !.start = end]))
      /\ UNCHANGED vec /\ Quiet

\* A down neighbour without a record is unlinked and freed.
DownUnlink(t) ==
  LET m == loc[t]
  IN  /\ m.pc = "down_unlink"
      /\ Cas(t, m.cur, m.cw, [m.cw EXCEPT !.down = m.nw.down],
             [m EXCEPT !.pc = "free", !.fv = m.nxt, !.fback = "reread"],
             [m EXCEPT !.pc = "reread"])
      /\ Quiet

\* An invalid down neighbour that still has something on its right was
\* invalidated as a right neighbour: it is made valid again.
DownValidate(t) ==
  LET m == loc[t]
  IN  /\ m.pc = "down_validate"
      /\ Cas(t, m.nxt, m.nw, [m.nw EXCEPT !.st = "VALID"],
             [m EXCEPT !.pc = "reread_any"], [m EXCEPT !.pc = "reread_any"])
      /\ Quiet

\* The re-read that follows tests for INVALID only.
RereadAny(t) ==
  LET m == [loc[t] EXCEPT !.cw = vec[loc[t].cur]]
  IN  /\ loc[t].pc = "reread_any"
      /\ Become(t, IF m.cw.st = "INVALID" THEN Back(m) ELSE Continue(m))
      /\ UNCHANGED vec /\ Quiet

\* cur was reached from the left and has nothing below it: it is made invalid.
Orphan(t) ==
  LET m == loc[t]
  IN  /\ m.pc = "orphan"
      /\ Cas(t, m.cur, m.cw, [m.cw EXCEPT !.st = "INVALID"], Back(m), Back(m))
      /\ Quiet

\* vec_free_to_buf marks the node RAW with a load and a store of its word, and
\* answers OK or the memory layer's trouble.
FreeLoad(t) ==
  /\ loc[t].pc = "free"
  /\ Become(t, [loc[t] EXCEPT !.pc = "free_store", !.fw = vec[loc[t].fv]])
  /\ UNCHANGED vec /\ Quiet

FreeStore(t) ==
  LET m == loc[t]
      n == [m EXCEPT !.fv = Nil, !.fw = NoWord, !.fback = "NONE"]
  IN  /\ m.pc = "free_store"
      /\ vec' = [vec EXCEPT ![m.fv] = [m.fw EXCEPT !.st = "RAW"]]
      /\ \/ Become(t, [n EXCEPT !.pc = m.fback])
         \/ \E code \in Trouble :
              Become(t, IF m.fback = "reread" THEN Fail(n, code) ELSE GidReturn(n, code))
      /\ Quiet
-----------------------------------------------------------------------------
(* get_data_id.                                                             *)

Gid(t) ==
  LET m == [loc[t] EXCEPT !.gc = loc[t].gv, !.gw = vec[loc[t].gv]]
  IN  /\ loc[t].pc = "gid"
      /\ Become(t, IF m.gw.st # "VALID" THEN GidReturn(m, DO_AGAIN) ELSE GidWalk(m))
      /\ UNCHANGED vec /\ Quiet

GidNext(t) ==
  LET m == [loc[t] EXCEPT !.gx = vec[loc[t].gn]]
  IN  /\ loc[t].pc = "gid_next"
      /\ Become(t, IF m.gx.st = "RAW" THEN [m EXCEPT !.pc = "gid"]
                   ELSE IF m.gx.st = "INVALID" THEN [m EXCEPT !.pc = "gid_unlink"]
                   ELSE IF m.gx.down = Nil THEN [m EXCEPT !.pc = "gid_invalidate"]
                   ELSE GidWalk([m EXCEPT !.gc = m.gn, !.gw = m.gx]))
      /\ UNCHANGED vec /\ Quiet

GidUnlink(t) ==
  LET m == loc[t]
  IN  /\ m.pc = "gid_unlink"
      /\ Cas(t, m.gc, m.gw, PassRight(m.gc, m.gw, m.gx),
             [m EXCEPT !.pc = "free", !.fv = m.gn, !.fback = "gid_reread"],
             [m EXCEPT !.pc = "gid_reread"])
      /\ Quiet

GidInvalidate(t) ==
  LET m == loc[t]
  IN  /\ m.pc = "gid_invalidate"
      /\ Cas(t, m.gn, m.gx, [m.gx EXCEPT !.st = "INVALID"],
             [m EXCEPT !.pc = "gid_reread"], [m EXCEPT !.pc = "gid_reread"])
      /\ Quiet

GidReread(t) ==
  LET m == [loc[t] EXCEPT !.gw = vec[loc[t].gc]]
  IN  /\ loc[t].pc = "gid_reread"
      /\ Become(t, IF m.gw.st # "VALID" THEN [m EXCEPT !.pc = "gid"] ELSE GidWalk(m))
      /\ UNCHANGED vec /\ Quiet
-----------------------------------------------------------------------------
(* The five insertions: new nodes and a new record are private until the   *)
(* compare-and-swap of cur publishes them; if it fails they are freed.      *)

Node(ty, pos, down, rd) == [st |-> "VALID", ty |-> ty, pos |-> pos, down |-> down, rd |-> rd]
NewVec == Len(vec) + 1
NewData == Len(dat) + 1

\* a plain store instead of the compare-and-swap
MutPublish(t, new, nodes) ==
  /\ vec' = [vec EXCEPT ![loc[t].cur] = new] \o nodes
  /\ dat' = Append(dat, [key |-> loc[t].key, ref |-> 1, retired |-> FALSE])
  /\ Become(t, Answer(loc[t], OK))
  /\ UNCHANGED <<out, todo, budget>>

\* a lost race is retried with the same old word
MutPublishAgain(t, new, nodes) ==
  LET m == loc[t]
  IN  /\ IF vec[m.cur] = m.cw
         THEN /\ vec' = [vec EXCEPT ![m.cur] = new] \o nodes
              /\ dat' = Append(dat, [key |-> m.key, ref |-> 1, retired |-> FALSE])
              /\ Become(t, Answer(m, OK))
         ELSE UNCHANGED <<vec, dat, loc>>
      /\ UNCHANGED <<out, todo, budget>>

\* a lost race is retried with the new word, without a new walk
MutPublishHere(t, new, nodes) ==
  LET m == loc[t]
  IN  /\ IF vec[m.cur] = m.cw
         THEN /\ vec' = [vec EXCEPT ![m.cur] = new] \o nodes
              /\ dat' = Append(dat, [key |-> m.key, ref |-> 1, retired |-> FALSE])
              /\ Become(t, Answer(m, OK))
         ELSE /\ UNCHANGED <<vec, dat>>
              /\ Become(t, [m EXCEPT !.cw = vec[m.cur]])
      /\ UNCHANGED <<out, todo, budget>>

Publish(t, new, nodes) ==
  LET m == loc[t]
  IN  /\ IF vec[m.cur] = m.cw
         THEN /\ vec' = [vec EXCEPT ![m.cur] = new] \o nodes
              /\ dat' = Append(dat, [key |-> m.key, ref |-> 1, retired |-> FALSE])
              /\ Become(t, Answer(m, OK))
         ELSE /\ UNCHANGED <<vec, dat>>
              /\ Become(t, Restart(m))
      /\ UNCHANGED <<out, todo, budget>>

\* do_insert_first_set: the empty head gets its first record.
InsertFirst(t) ==
  LET m == loc[t]
  IN  /\ m.pc = "insert_first"
      /\ IF m.cur # Head1
         THEN Become(t, Stuck(m)) /\ UNCHANGED vec /\ Quiet
         ELSE Publish(t, [m.cw EXCEPT !.rd = NewData], <<>>)

\* do_insert_up_via_r: the new key has a 1 where the record to the right has
\* a 0, so the new node goes above what cur had on its right.
InsertUp(t) ==
  LET m == loc[t]
      p == DiffPos(m)
      fs == FirstSet(dat[m.cd].key, p, SegmentEnd(m))
      split == m.cw.ty = "DATA" \/ fs < SegmentEnd(m)
      a == Node("DATA", p - 1, IF split THEN NewVec + 1 ELSE m.cw.rd, NewData)
      b == Node(m.cw.ty, fs - 1, Nil, m.cw.rd)
  IN  /\ m.pc = "insert_up"
      /\ IF m.cw.pos = a.pos /\ a.pos # 0
         THEN Become(t, Stuck(m)) /\ UNCHANGED vec /\ Quiet
         ELSE Publish(t, [m.cw EXCEPT !.ty = "RIGHT", !.rd = NewVec],
                      IF split THEN <<a, b>> ELSE <<a>>)

\* do_insert_down_via_r: the new key has a 0 there, so it goes below.
InsertDown(t) ==
  LET m == loc[t]
      p == DiffPos(m)
      fs == FirstSet(m.key, p, Width)
      a == Node(m.cw.ty, p - 1, NewVec + 1, m.cw.rd)
      b == Node("DATA", fs - 1, Nil, NewData)
  IN  /\ m.pc = "insert_down"
      /\ IF m.cw.pos = a.pos /\ a.pos # 0
         THEN Become(t, Stuck(m)) /\ UNCHANGED vec /\ Quiet
         ELSE Publish(t, [m.cw EXCEPT !.ty = "RIGHT", !.rd = NewVec], <<a, b>>)

\* do_insert_last_down: the new node ends the down chain.
InsertLast(t) ==
  LET m == loc[t]
  IN  /\ m.pc = "insert_last"
      /\ Publish(t, [m.cw EXCEPT !.down = NewVec], <<Node("DATA", m.fs - 1, Nil, NewData)>>)

\* the old down neighbour is not hung below the new node
MutInsertMid(t) ==
  LET m == loc[t]
  IN  /\ m.pc = "insert_mid"
      /\ Publish(t, [m.cw EXCEPT !.down = NewVec], <<Node("DATA", m.fs - 1, Nil, NewData)>>)

\* do_insert_up_via_d: the new node goes between cur and its down neighbour.
InsertMid(t) ==
  LET m == loc[t]
  IN  /\ m.pc = "insert_mid"
      /\ Publish(t, [m.cw EXCEPT !.down = NewVec],
                 <<Node("DATA", m.fs - 1, m.cw.down, NewData)>>)

\* The record or a node cannot be allocated, or the reserve cannot be refilled
\* after a lost race: nothing was published and the call fails.
InsertTrouble(t) ==
  /\ loc[t].pc \in {"insert_first", "insert_up", "insert_down", "insert_last", "insert_mid"}
  /\ \E code \in Trouble : Become(t, Answer(loc[t], code))
  /\ UNCHANGED vec /\ Quiet
-----------------------------------------------------------------------------
(* The key was found.                                                       *)

\* The data id the found label works on; a node of the wrong type, or an
\* empty one, is a point the code does not survive.
FoundData(m) == IF m.cd # Unset THEN m.cd ELSE m.cw.rd
Broken(m) == FoundData(m) = Nil \/ (m.cd = Unset /\ m.cw.ty # "DATA")

\* a count of zero is not told from the others
MutFound(t) ==
  LET m == loc[t]
      d == FoundData(m)
      set(ref) == dat' = [dat EXCEPT ![d].ref = ref]
  IN  /\ m.pc = "found"
      /\ IF Broken(m) THEN Become(t, Stuck(m)) /\ UNCHANGED dat
         ELSE CASE m.op = "FIND" -> Become(t, Answer(m, OK)) /\ UNCHANGED dat
                [] m.op = "INSERT" -> Become(t, Answer(m, OK)) /\ set(dat[d].ref + 1)
                [] m.op = "DELETE" ->
                     /\ set(dat[d].ref - 1)
                     /\ Become(t, IF dat[d].ref = 1
                                  THEN [m EXCEPT !.pc = "delete", !.cd = d]
                                  ELSE Answer(m, OK))
      /\ UNCHANGED <<vec, out, todo, budget>>

Found(t) ==
  LET m == loc[t]
      d == FoundData(m)
      set(ref) == dat' = [dat EXCEPT ![d].ref = ref]
  IN  /\ m.pc = "found"
      /\ IF Broken(m) THEN Become(t, Stuck(m)) /\ UNCHANGED dat
         ELSE CASE m.op = "FIND" -> Become(t, Answer(m, OK)) /\ UNCHANGED dat
                [] m.op = "INSERT" ->
                     IF dat[d].ref = 0
                     THEN Become(t, Restart([m EXCEPT !.ret = NOT_FOUND])) /\ UNCHANGED dat
                     ELSE Become(t, Answer(m, OK)) /\ set(dat[d].ref + 1)
                [] m.op = "DELETE" ->
                     IF dat[d].ref = 0
                     THEN Become(t, Answer(m, NOT_FOUND)) /\ UNCHANGED dat
                     ELSE /\ set(dat[d].ref - 1)
                          /\ Become(t, IF dat[d].ref = 1
                                       THEN [m EXCEPT !.pc = "delete", !.cd = d]
                                       ELSE Answer(m, OK))
      /\ UNCHANGED <<vec, out, todo, budget>>

\* the emptied node stays valid
MutDelete(t) ==
  LET m == loc[t]
      head == m.cur = Head1
  IN  /\ m.pc = "delete"
      /\ Cas(t, m.cur, m.cw, [m.cw EXCEPT !.rd = Nil],
             IF head THEN Answer(m, OK)
             ELSE Restart([m EXCEPT !.op = "FIND", !.ret = OK, !.cd = Unset]),
             [m EXCEPT !.pc = "undo"])
      /\ dat' = IF vec[m.cur] = m.cw THEN [dat EXCEPT ![m.cd].retired = TRUE] ELSE dat
      /\ UNCHANGED <<out, todo, budget>>

\* The last reference is gone: the record is taken out of its node, which
\* becomes invalid unless it is the head.  A second walk, as a FIND, then
\* unlinks the node.
Delete(t) ==
  LET m == loc[t]
      head == m.cur = Head1
      new == [m.cw EXCEPT !.rd = Nil, !.st = IF head THEN m.cw.st ELSE "INVALID"]
  IN  /\ m.pc = "delete"
      /\ Cas(t, m.cur, m.cw, new,
             IF head THEN Answer(m, OK)
             ELSE Restart([m EXCEPT !.op = "FIND", !.ret = OK, !.cd = Unset]),
             [m EXCEPT !.pc = "undo"])
      /\ dat' = IF vec[m.cur] = m.cw THEN [dat EXCEPT ![m.cd].retired = TRUE] ELSE dat
      /\ UNCHANGED <<out, todo, budget>>

\* the reference is not given back
MutUndo(t) ==
  LET m == loc[t]
  IN  /\ m.pc = "undo"
      /\ Become(t, Restart([m EXCEPT !.cd = Unset, !.ret = NOT_FOUND]))
      /\ UNCHANGED <<vec, dat, out, todo, budget>>

\* The node changed meanwhile: the reference is given back.
Undo(t) ==
  LET m == loc[t]
  IN  /\ m.pc = "undo"
      /\ dat' = [dat EXCEPT ![m.cd].ref = @ + 1]
      /\ Become(t, Restart([m EXCEPT !.cd = Unset, !.ret = NOT_FOUND]))
      /\ UNCHANGED <<vec, out, todo, budget>>
-----------------------------------------------------------------------------
(* What the caller sees: a count per key, and the calls in progress.        *)

\* The references to a key: one that a delete in progress has taken, and may
\* give back, still counts.
Count ==
  [k \in Keys |->
     Cardinality(UNION {{d} \X (1 .. dat[d].ref) : d \in {d \in DOMAIN dat : dat[d].key = k}})
     + Cardinality({t \in Thread : loc[t].pc \in {"delete", "undo"} /\ loc[t].key = k})]

\* The calls in progress, and whether they have done their work.
Calls == [t \in Thread |->
            [op |-> loc[t].goal, key |-> loc[t].key,
             done |-> loc[t].ret = OK /\ loc[t].goal \in {"INSERT", "DELETE"}]]

Set == INSTANCE RefSet WITH cnt <- Count, call <- Calls, answer <- out,
                            MissCodes <- {NOT_FOUND, NullCode}, FailCodes <- Trouble

Step(t) ==
  \/ \E op \in Operation, key \in Keys : Call(t, op, key)
  \/ Return(t)
  \/ Forward(t)
  \/ ReadRight(t) \/ RightUnlink(t) \/ RightInvalidate(t) \/ Reread(t)
  \/ ReadDown(t) \/ DownUnlink(t) \/ DownValidate(t) \/ RereadAny(t) \/ Orphan(t)
  \/ FreeLoad(t) \/ FreeStore(t)
  \/ Gid(t) \/ GidNext(t) \/ GidUnlink(t) \/ GidInvalidate(t) \/ GidReread(t)
  \/ InsertFirst(t) \/ InsertUp(t) \/ InsertDown(t) \/ InsertLast(t) \/ InsertMid(t)
  \/ InsertTrouble(t)
  \/ Found(t) \/ Delete(t) \/ Undo(t)

\* All calls are answered: the workers stop.
Done == todo = <<>> /\ \A t \in Thread : loc[t].pc = "idle" /\ budget[t] = 0

Next ==
  /\ \/ \E t \in Thread : Step(t)
     \/ Done /\ UNCHANGED <<vec, dat, loc, out, todo, budget>>
  /\ Set!Histories

Spec == Init /\ [][Next]_vars

\* The threads are scheduled: one that can take a step eventually does.
FairSpec == Spec /\ \A t \in Thread : WF_vars(Step(t) /\ Set!Histories)
-----------------------------------------------------------------------------
(* Properties.                                                              *)

Word == [st : {"VALID", "INVALID", "RAW"}, ty : {"DATA", "RIGHT"}, pos : -1 .. 2 * Width,
         down : 0 .. Len(vec), rd : 0 .. Len(vec) + Len(dat)]

\* Node words, records and counts are well formed.  What could be wrong is a
\* reference count: find_data asserts that it never finds one below zero.
TypeOK ==
  /\ \A v \in DOMAIN vec : vec[v] \in Word
  /\ \A d \in DOMAIN dat : dat[d] \in [key : Keys, ref : Nat, retired : BOOLEAN]
  /\ \A t \in Thread :
       /\ loc[t].cur \in 0 .. Len(vec) /\ loc[t].nxt \in 0 .. Len(vec)
       /\ loc[t].cd \in {Unset} \union 0 .. Len(dat)
       /\ loc[t].ret \in {OK, NOT_FOUND, NullCode, DO_AGAIN} \union Trouble
  /\ missed \subseteq Thread /\ seen \subseteq Thread
  /\ budget \in [Thread -> Nat]

\* The assertions and the deliberate endless loops of the walk ("bug",
\* while(1)) are never reached.
NeverStuck == \A t \in Thread : loc[t].pc # "stuck"

\* The nodes on a path from the head, and the records they hold.
Below(v) == ({vec[v].down} \union IF vec[v].ty = "RIGHT" THEN {vec[v].rd} ELSE {}) \ {Nil}
Reachable ==
  LET reach[n \in Nat] ==
        IF n = 0 THEN {Head1} ELSE reach[n - 1] \union UNION {Below(v) : v \in reach[n - 1]}
  IN  reach[Len(vec)]
Linked == {vec[v].rd : v \in {w \in Reachable : vec[w].ty = "DATA"}} \ {Nil}

\* The records in the tree are those inserted and not yet deleted: no
\* compare-and-swap drops a record another thread has just linked, and none
\* brings back a retired one.  It holds among threads that only add, and where
\* no thread deletes next to a key that another inserts or deletes.  Two threads
\* at neighbouring keys, one of which deletes, can break it: a node is unlinked
\* by one and made valid again by the other (2350-2388, 3328).
RecordsLinked == Linked = {d \in DOMAIN dat : ~dat[d].retired}

\* A key has one record, its references counted there.
OneRecord ==
  \A d, e \in Linked : dat[d].key = dat[e].key => d = e

\* A node is freed once, by the thread that unlinked it, and not while a path
\* leads to it.
Freeing(t) == loc[t].pc \in {"free", "free_store"}
FreedOnce ==
  /\ \A t \in Thread : Freeing(t) =>
       /\ vec[loc[t].fv].st # "RAW"
       /\ \A u \in Thread \ {t} : Freeing(u) => loc[u].fv # loc[t].fv
  /\ \A t \in Thread : Freeing(t) => loc[t].fv \notin Reachable
  /\ \A v \in Reachable : vec[v].st # "RAW"

\* What a thread unlinks and frees is an invalid node: nothing is lost with it.
UnlinkedInvalid ==
  \A t \in Thread : Freeing(t) => vec[loc[t].fv].st = "INVALID"

\* The first set bit a walk looks for is never past the end of its key.
FirstSetInRange == \A t \in Thread : loc[t].fs <= Width

\* The record a walk ends at is that of its key ("find the same record", 2928):
\* what is counted up or down is what the caller named.
SameRecord ==
  \A t \in Thread : loc[t].pc = "found" /\ ~Broken(loc[t]) =>
    dat[FoundData(loc[t])].key = loc[t].key

\* The callers see a multiset of keys (RefSet).
KeysCounted == Set!Spec

\* Among threads that only add, every call is answered: a compare-and-swap
\* fails only when another call has done its work.
CallsAnswered == <>Done

\* An INSERT has come to a record whose last reference another's DELETE has
\* taken (3862) and neither swapped out of the tree nor given back (3877,
\* 3908): it starts again from refind_start, and again (3817-3823).
HeldAtZero(t) ==
  /\ loc[t].goal = "INSERT"
  /\ \E u \in Thread \ {t} :
       /\ loc[u].pc \in {"delete", "undo"} /\ loc[u].key = loc[t].key
       /\ dat[loc[u].cd].ref = 0

\* A thread left alone answers its call, wherever the others have stopped, but
\* for one place: it waits for a DELETE of its key that has counted a record
\* down to zero.  Elsewhere no walk waits for another thread to finish what it
\* began, and helps to unlink instead.
Alone(t) == [][\A u \in Thread \ {t} : loc'[u] = loc[u]]_vars
AloneAnswers ==
  \A t \in Thread :
    (<>Alone(t) /\ WF_vars(Step(t) /\ Set!Histories))
      => []<>(loc[t].pc = "idle" \/ HeldAtZero(t))
=============================================================================
