----------------------------- MODULE RetireBuf -----------------------------
(***************************************************************************)
(* The memory of a cluster under concurrent use: chunk_block.c, called by  *)
(* the workers of data_set_construct.c inside the sessions of              *)
(* spt_thread.c.                                                           *)
(*                                                                         *)
(* A node or a data block taken out of the tree is not freed at once, as   *)
(* another thread may still read it.  It is appended to a queue of the     *)
(* thread that took it out, with the tick of that moment, and leaves the   *)
(* queue two ticks later: to the free list, or straight to a new use.  An  *)
(* entry of a queue is itself a node, from a reserve that each thread      *)
(* keeps full.  When a queue is longer than its watermark the thread is    *)
(* answered SPT_WAIT_AMT, ends its session and tries again.                *)
(*                                                                         *)
(* Queues and reserves are private to a thread and a free list is changed  *)
(* by one compare-and-swap, so a call of chunk_block.c is one action here, *)
(* with one reading of tick.  The tree is the set of the ids linked in it. *)
(***************************************************************************)
EXTENDS Naturals, Sequences, FiniteSets, SequencesExt

CONSTANTS
  Thread, Bit, TickMod, WaitTicks,  \* of SptThread
  BufMod,     \* the modulus of the tick of an entry: 2^SPT_BUF_TICK_BITS
  MaxTick,    \* bound: no session starts when tick is that high
  NVec,       \* the nodes of the cluster are 1 .. NVec
  NData,      \* its data blocks are 1 .. NData
  RsvCnt,     \* SPT_PER_THRD_RSV_CNT
  VecMark,    \* SPT_BUF_VEC_WATERMARK
  DataMark,   \* SPT_BUF_DATA_WATERMARK
  MaxNew,     \* how many nodes one insertion links, at most
  Budget      \* bound: how many calls each worker makes, a lost race included

ASSUME BufAssumption ==
  /\ Thread # {} /\ IsFiniteSet(Thread)
  /\ BufMod \in Nat /\ BufMod > 2 /\ MaxTick \in Nat
  /\ NVec \in Nat /\ NData \in Nat
  /\ MaxNew \in Nat /\ RsvCnt \in Nat /\ MaxNew < RsvCnt
  /\ RsvCnt * Cardinality(Thread) <= NVec
  /\ VecMark \in Nat \ {0} /\ DataMark \in Nat \ {0}
  /\ Budget \in [Thread -> Nat]

VARIABLES
  online, bwmap, tick, pc, olmap, waiters, tick0, held,   \* of SptThread
  buf,        \* thrd_data: each thread's reserve and its two queues
  pool,       \* the free lists of nodes and of data blocks
  status,     \* pclst->status
  tree,       \* the nodes and data blocks linked in the tree
  phase,      \* where each worker is between and within its calls
  own,        \* what each worker has just unlinked
  budget,     \* the calls each worker has still to make
  hold,       \* history: the sessions that were open when a node or a data
              \* block was unlinked or queued, and still are
  short       \* history: the threads whose reserve could not be refilled

Grace == INSTANCE SptThread

ASSUME SessionAssumption == Grace!ThreadAssumption /\ Grace!TickAssumption

graceVars == <<online, bwmap, tick, pc, olmap, waiters, tick0, held>>
bufVars == <<buf, pool, status, tree, phase, own, budget, hold, short>>
vars == <<online, bwmap, tick, pc, olmap, waiters, tick0, held,
          buf, pool, status, tree, phase, own, budget, hold, short>>

Nil == 0
OK == "OK"
NOMEM == "NOMEM"
WAIT_AMT == "WAIT_AMT"

Vec == 1 .. NVec
Data == 1 .. NData
Phase == {"idle", "call", "retire", "retire_data", "help",
          "help_retire", "leave", "stuck"}

\* cluster_init fills the reserves, one thread after the other.
Order == CHOOSE o \in [1 .. Cardinality(Thread) -> Thread] :
           \A t \in Thread : \E i \in DOMAIN o : o[i] = t
Turn(t) == CHOOSE i \in DOMAIN Order : Order[i] = t

Init ==
  /\ Grace!Init
  /\ buf = [t \in Thread |->
              [rsv |-> [i \in 1 .. RsvCnt |-> Turn(t) * RsvCnt + 1 - i],
               vq |-> <<>>, dq |-> <<>>]]
  /\ pool = [vec |-> [i \in 1 .. NVec - RsvCnt * Cardinality(Thread) |->
                        RsvCnt * Cardinality(Thread) + i],
             data |-> [i \in Data |-> i]]
  /\ status = OK
  /\ tree = [vec |-> {}, data |-> {}]
  /\ phase = [t \in Thread |-> "idle"]
  /\ own = [t \in Thread |-> Nil]
  /\ budget = Budget
  /\ hold = [vec |-> [v \in Vec |-> {}], data |-> [d \in Data |-> {}]]
  /\ short = {}
-----------------------------------------------------------------------------
(* Local work on m, the memory a thread sees: its reserve rsv, its queues  *)
(* vq and dq, the free lists vec and data; the code of the last call, and  *)
(* whether a call answered WAIT_AMT, a refill failed, or the reserve was   *)
(* found empty.                                                             *)

Mem(t) == [rsv |-> buf[t].rsv, vq |-> buf[t].vq, dq |-> buf[t].dq,
           vec |-> pool.vec, data |-> pool.data,
           code |-> OK, wait |-> FALSE, nomem |-> FALSE, dry |-> FALSE]

Ids(q) == [i \in DOMAIN q |-> q[i].id]
Nodes(q) == [i \in DOMAIN q |-> q[i].node]
QueuedVec(b) == Range(Ids(b.vq)) \union Range(Nodes(b.vq)) \union Range(Nodes(b.dq))
QueuedData(b) == Range(Ids(b.dq))

\* m becomes the memory; what it has newly queued, entries' nodes included, is
\* held by the sessions open now.
Keep(t, m) ==
  LET upd(f, new) == [x \in DOMAIN f |-> IF x \in new THEN f[x] \union online ELSE f[x]]
  IN  /\ buf' = [buf EXCEPT ![t] = [rsv |-> m.rsv, vq |-> m.vq, dq |-> m.dq]]
      /\ pool' = [vec |-> m.vec, data |-> m.data]
      /\ hold' = [vec |-> upd(hold.vec, QueuedVec(m) \ QueuedVec(buf[t])),
                  data |-> upd(hold.data, QueuedData(m) \ QueuedData(buf[t]))]

Now == tick % BufMod

\* entries leave as soon as the tick has moved
MutAge(e) == (IF Now < e.tick THEN Now + BufMod ELSE Now) - e.tick + 1

\* The age of an entry, its tick being one lap behind if it is ahead of now.
Age(e) == (IF Now < e.tick THEN Now + BufMod ELSE Now) - e.tick

Aged(e) == Age(e) >= 2

\* The sweep of a queue: the lap, once added, stays added for the entries
\* that follow, and the last entry is never reached.
SweptAge(q, i) ==
  (IF \E j \in 1 .. i : Now < q[j].tick THEN Now + BufMod ELSE Now) - q[i].tick

\* nothing is ever swept
MutSwept(q) == 0

Swept(q) ==
  LET lens == {n \in 0 .. Len(q) : n < Len(q) /\ \A i \in 1 .. n : SweptAge(q, i) >= 2}
  IN  IF q = <<>> THEN 0 ELSE CHOOSE n \in lens : \A k \in lens : k <= n

Drop(q, n) == SubSeq(q, n + 1, Len(q))

\* vec_free of an entry's id, unless it was taken, and of its node.
FreeEntry(list, e) == <<e.node>> \o (IF e.id = Nil THEN <<>> ELSE <<e.id>>) \o list

\* vec_buf_free
SweepVec(m) ==
  LET n == Swept(m.vq)
  IN  [m EXCEPT !.vq = Drop(m.vq, n),
                !.vec = FoldLeft(FreeEntry, m.vec, SubSeq(m.vq, 1, n))]

\* db_buf_free
SweepData(m) ==
  LET n == Swept(m.dq)
      out == SubSeq(m.dq, 1, n)
  IN  [m EXCEPT !.dq = Drop(m.dq, n),
                !.data = Reverse(Ids(out)) \o m.data,
                !.vec = Reverse(Nodes(out)) \o m.vec]

\* An allocation's outcome: the id, Nil if there is none, and the memory left.
Got(id, m) == [id |-> id, m |-> m]

\* the id stays in its entry
MutVecAlloc(m) ==
  IF m.vq # <<>> /\ m.vq[1].id = Nil THEN Got(m.vq[1].node, [m EXCEPT !.vq = Tail(@)])
  ELSE IF m.vq # <<>> /\ Aged(m.vq[1]) THEN Got(m.vq[1].id, m)
  ELSE IF m.vec # <<>> THEN Got(m.vec[1], [m EXCEPT !.vec = Tail(@)])
  ELSE Got(Nil, m)

\* vec_alloc_combo: the oldest entry gives first its id, when that is old
\* enough, and then its node; vec_alloc is asked otherwise.
VecAlloc(m) ==
  IF m.vq # <<>> /\ m.vq[1].id = Nil THEN Got(m.vq[1].node, [m EXCEPT !.vq = Tail(@)])
  ELSE IF m.vq # <<>> /\ Aged(m.vq[1]) THEN Got(m.vq[1].id, [m EXCEPT !.vq[1].id = Nil])
  ELSE IF m.vec # <<>> THEN Got(m.vec[1], [m EXCEPT !.vec = Tail(@)])
  ELSE Got(Nil, m)

\* the entry stays in its queue
MutDataAlloc(m) ==
  IF m.dq # <<>> /\ Aged(m.dq[1]) THEN Got(m.dq[1].id, m)
  ELSE IF m.data # <<>> THEN Got(m.data[1], [m EXCEPT !.data = Tail(@)])
  ELSE Got(Nil, m)

\* data_alloc_combo: the entry's node goes to the free list.
DataAlloc(m) ==
  IF m.dq # <<>> /\ Aged(m.dq[1])
  THEN Got(m.dq[1].id, [m EXCEPT !.dq = Tail(@), !.vec = <<m.dq[1].node>> \o @])
  ELSE IF m.data # <<>> THEN Got(m.data[1], [m EXCEPT !.data = Tail(@)])
  ELSE Got(Nil, m)

\* fill_in_rsv_list_simple
Refill(m, nr) ==
  LET fill[n \in 0 .. nr] ==
        IF n = 0 THEN m
        ELSE LET got == VecAlloc(fill[n - 1])
             IN  IF got.id = Nil THEN got.m ELSE [got.m EXCEPT !.rsv = <<got.id>> \o @]
  IN  fill[nr]
Refilled(m, nr) == Len(Refill(m, nr).rsv) = Len(m.rsv) + nr

\* WAIT_AMT is answered without a refill
MutEnding(m, nr, over) ==
  IF over THEN [m EXCEPT !.code = WAIT_AMT, !.wait = TRUE]
  ELSE [Refill(m, nr) EXCEPT !.code = IF Refilled(m, nr) THEN OK ELSE NOMEM,
                             !.nomem = @ \/ ~Refilled(m, nr)]

\* The end of a call of the memory layer: the reserve gets nr nodes back, and
\* the answer is WAIT_AMT if a queue in over is still longer than its mark.
Ending(m, nr, over) ==
  [Refill(m, nr) EXCEPT
     !.code = IF over THEN WAIT_AMT ELSE IF Refilled(m, nr) THEN OK ELSE NOMEM,
     !.wait = @ \/ over,
     !.nomem = @ \/ ~Refilled(m, nr)]

OverVec(m) == Len(m.vq) > VecMark
OverData(m) == Len(m.dq) > DataMark
MaybeSweepVec(m) == IF OverVec(m) THEN SweepVec(m) ELSE m
MaybeSweepData(m) == IF OverData(m) THEN SweepData(m) ELSE m

\* the reserve is filled whatever it still holds
MutFillIn(m0, nr) ==
  LET m == MaybeSweepData(MaybeSweepVec(m0))
  IN  Ending(m, RsvCnt, OverVec(m) \/ OverData(m))

\* fill_in_rsv_list
FillIn(m0, nr) ==
  LET m == MaybeSweepData(MaybeSweepVec(m0))
  IN  Ending(m, nr, OverVec(m) \/ OverData(m))

Entry(m, id) == [id |-> id, node |-> m.rsv[1], tick |-> Now]

\* vec_free_to_buf_simple and db_free_to_buf_simple.  An empty reserve is not
\* tested for: the thread then waits for a page that no cluster has.
VecRetire(m, id) ==
  IF m.rsv = <<>> THEN [m EXCEPT !.dry = TRUE]
  ELSE [m EXCEPT !.rsv = Tail(@), !.vq = Append(@, Entry(m, id))]
DataRetire(m, id) ==
  IF m.rsv = <<>> THEN [m EXCEPT !.dry = TRUE]
  ELSE [m EXCEPT !.rsv = Tail(@), !.dq = Append(@, Entry(m, id))]

\* vec_free_to_buf and db_free_to_buf
VecFree(m0, id) ==
  LET m == MaybeSweepVec(VecRetire(m0, id)) IN Ending(m, 1, OverVec(m))
DataFree(m0, id) ==
  LET m == MaybeSweepData(DataRetire(m0, id)) IN Ending(m, 1, OverData(m))

\* A node that could be got is retired.
GiveBack(m, id) == IF id = Nil THEN m ELSE VecFree(m, id)
-----------------------------------------------------------------------------
(* The workers.  A session holds some calls of find_data; a call answered  *)
(* WAIT_AMT is made again in a new session, one answered NOMEM is given up. *)

MemStep == UNCHANGED graceVars

Goto(t, ph) == phase' = [phase EXCEPT ![t] = ph]
Spend(t) == budget' = [budget EXCEPT ![t] = @ - 1]

\* What a worker does with the answer of a call.
Answer(t, code) ==
  CASE code = OK -> (\E ph \in {"idle", "leave"} : Goto(t, ph)) /\ Spend(t)
    [] code = NOMEM -> Goto(t, "leave") /\ Spend(t)
    [] code = WAIT_AMT -> Goto(t, "leave") /\ UNCHANGED budget

\* A call of the memory layer left m.
Settle(t, m) ==
  /\ Keep(t, m)
  /\ status' = IF m.wait THEN WAIT_AMT ELSE status
  /\ short' = IF m.nomem THEN short \union {t} ELSE short

\* What follows: phase ph, or the answer.
After(t, m, ph) ==
  /\ Settle(t, m)
  /\ IF m.dry THEN Goto(t, "stuck") /\ UNCHANGED budget
     ELSE IF m.code = OK THEN Goto(t, ph) /\ UNCHANGED budget
     ELSE Answer(t, m.code)
  /\ UNCHANGED graceVars

\* spt_thread_start and the steps of spt_thread_exit.
StartSession(t) ==
  /\ phase[t] = "idle" /\ budget[t] > 0 /\ tick < MaxTick
  /\ Grace!Start(t)
  /\ UNCHANGED bufVars

EndSession(t) ==
  /\ phase[t] = "leave" \/ (phase[t] = "idle" /\ budget[t] = 0)
  /\ Grace!ExitClear(t)
  /\ Goto(t, "idle")
  /\ hold' = [vec |-> [v \in Vec |-> hold.vec[v] \ {t}],
              data |-> [d \in Data |-> hold.data[d] \ {t}]]
  /\ UNCHANGED <<buf, pool, status, tree, own, budget, short>>

ExitStep(t) == Grace!Exit(t) /\ UNCHANGED bufVars

\* find_data begins: after a WAIT_AMT, anyone's, the reserve is filled first.
Enter(t) ==
  LET m == FillIn(Mem(t), RsvCnt - Len(buf[t].rsv))
  IN  /\ pc[t] = "on" /\ phase[t] = "idle" /\ budget[t] > 0
      /\ IF status # WAIT_AMT
         THEN /\ Goto(t, "call")
              /\ UNCHANGED <<buf, pool, hold, status, budget, short, graceVars>>
         ELSE IF m.code = OK
         THEN /\ Goto(t, "call")
              /\ Keep(t, m)
              /\ status' = OK
              /\ short' = short \ {t}
              /\ UNCHANGED <<budget, graceVars>>
         ELSE After(t, m, "call")
      /\ UNCHANGED <<tree, own>>

\* The data block and the n nodes of an insertion, in the order they are got.
Allocated(t, n) ==
  LET d == DataAlloc(Mem(t))
      v[i \in 0 .. n] == IF i = 0 THEN d ELSE VecAlloc(v[i - 1].m)
  IN  [data |-> d.id, vecs |-> [i \in 1 .. n |-> v[i].id], m |-> v[n].m]
Complete(a) == a.data # Nil /\ \A i \in DOMAIN a.vecs : a.vecs[i] # Nil

\* do_insert_*: the compare-and-swap publishes the new nodes.
Publish(t, n) ==
  LET a == Allocated(t, n)
  IN  /\ phase[t] = "call"
      /\ Complete(a)
      /\ Keep(t, a.m)
      /\ tree' = [vec |-> tree.vec \union Range(a.vecs), data |-> tree.data \union {a.data}]
      /\ Answer(t, OK)
      /\ UNCHANGED <<status, own, short, graceVars>>

\* It is lost: data block and nodes are retired and the reserve is filled
\* again; then the walk starts over, unless the answer ends the call.  The
\* bound: a new attempt counts as a call.
LoseRace(t, n) ==
  LET a == Allocated(t, n)
      m == FillIn(FoldLeft(VecRetire, DataRetire(a.m, a.data), a.vecs), n + 1)
  IN  /\ phase[t] = "call" /\ budget[t] > 1
      /\ Complete(a)
      /\ Settle(t, m)
      /\ Goto(t, IF m.dry THEN "stuck" ELSE IF m.code = OK THEN "call" ELSE "leave")
      /\ Spend(t)
      /\ UNCHANGED <<tree, own, graceVars>>

\* A data block or a node cannot be had: what was got before is retired, each
\* with a refill whose answer is not looked at.
RunOut(t, n) ==
  LET a == Allocated(t, n)
      m == IF a.data = Nil THEN Mem(t) ELSE FoldLeft(GiveBack, DataFree(a.m, a.data), a.vecs)
  IN  /\ phase[t] = "call"
      /\ ~Complete(a)
      /\ After(t, [m EXCEPT !.code = NOMEM], "leave")
      /\ UNCHANGED <<tree, own>>

\* A call that changed nothing, or has done its work.
Finish(t) ==
  /\ phase[t] \in {"call", "help"}
  /\ Answer(t, OK)
  /\ UNCHANGED <<buf, pool, status, tree, own, hold, short, graceVars>>

\* The walk unlinks an invalid node; a reader may still stand on it.
Unlink(t) ==
  /\ phase[t] \in {"call", "help"}
  /\ \E v \in tree.vec :
       /\ tree' = [tree EXCEPT !.vec = @ \ {v}]
       /\ own' = [own EXCEPT ![t] = v]
       /\ hold' = [hold EXCEPT !.vec[v] = online]
  /\ Goto(t, IF phase[t] = "call" THEN "retire" ELSE "help_retire")
  /\ UNCHANGED <<buf, pool, status, budget, short, graceVars>>

\* vec_free_to_buf: a call that has not done its work yet ends with the code.
Retire(t) ==
  /\ phase[t] = "retire"
  /\ After(t, VecFree(Mem(t), own[t]), "call")
  /\ own' = [own EXCEPT ![t] = Nil]
  /\ UNCHANGED tree

\* A delete that has answers OK whatever the code.
HelpRetire(t) ==
  LET m == VecFree(Mem(t), own[t])
  IN  /\ phase[t] = "help_retire"
      /\ IF m.code = OK \/ m.dry THEN After(t, m, "help")
         ELSE Settle(t, m) /\ Answer(t, OK) /\ UNCHANGED graceVars
      /\ own' = [own EXCEPT ![t] = Nil]
      /\ UNCHANGED tree

\* A delete takes a record out of the tree and goes on as a find.
Delete(t) ==
  /\ phase[t] = "call"
  /\ \E d \in tree.data :
       /\ tree' = [tree EXCEPT !.data = @ \ {d}]
       /\ own' = [own EXCEPT ![t] = d]
       /\ hold' = [hold EXCEPT !.data[d] = online]
  /\ Goto(t, "retire_data")
  /\ UNCHANGED <<buf, pool, status, budget, short, graceVars>>

\* db_free_to_buf, whose answer is not looked at.
RetireData(t) ==
  LET m == DataFree(Mem(t), own[t])
  IN  /\ phase[t] = "retire_data"
      /\ After(t, [m EXCEPT !.code = OK], "help")
      /\ own' = [own EXCEPT ![t] = Nil]
      /\ UNCHANGED tree

\* A thread that found its reserve empty never comes back.
Spin(t) == phase[t] = "stuck" /\ UNCHANGED vars

Step(t) ==
  \/ StartSession(t) \/ EndSession(t) \/ ExitStep(t)
  \/ Enter(t) \/ Finish(t)
  \/ \E n \in 0 .. MaxNew : Publish(t, n) \/ LoseRace(t, n) \/ RunOut(t, n)
  \/ Unlink(t) \/ Retire(t) \/ HelpRetire(t)
  \/ Delete(t) \/ RetireData(t)

\* The workers have made their calls, or the bound on tick is reached.
Done ==
  \A t \in Thread : pc[t] = "off" /\ phase[t] = "idle" /\ (budget[t] = 0 \/ tick >= MaxTick)

Next ==
  \/ \E t \in Thread : Step(t) \/ Spin(t)
  \/ Done /\ UNCHANGED vars

Spec == Init /\ [][Next]_vars

\* A worker can take a step unless it has stopped, or is stuck.
CanStep(t) ==
  phase[t] # "stuck" /\ (pc[t] # "off" \/ (budget[t] > 0 /\ tick < MaxTick))

\* The threads are scheduled: one that can take a step eventually does.  This
\* is WF_vars(Step(t)), with ENABLED Step(t) written out as CanStep(t).
FairSpec ==
  /\ Spec
  /\ \A t \in Thread : []<>~CanStep(t) \/ []<><<Step(t)>>_vars
-----------------------------------------------------------------------------
(* Properties.                                                              *)

At(s, x) == Cardinality({i \in DOMAIN s : s[i] = x})
Total(f) == SumFunction(f)
OwnVec(t) == phase[t] \in {"retire", "help_retire"}
OwnData(t) == phase[t] = "retire_data"

\* No thread has found its reserve empty in the middle of a call.
Running == \A t \in Thread : phase[t] # "stuck"

TypeOK ==
  /\ Grace!TypeOK
  /\ phase \in [Thread -> Phase]
  /\ status \in {OK, WAIT_AMT}
  /\ budget \in [Thread -> Nat]
  /\ tree.vec \subseteq Vec /\ tree.data \subseteq Data
  /\ \A t \in Thread :
       /\ OwnVec(t) => own[t] \in Vec
       /\ OwnData(t) => own[t] \in Data
       /\ Len(buf[t].rsv) <= RsvCnt

\* Every node is in one place, and no node gets lost: it is linked in the
\* tree, free, in a reserve, queued, the node of a queue's entry, or on its
\* way to a queue.
VecOnePlace ==
  Running => \A v \in Vec :
    At(pool.vec, v) + (IF v \in tree.vec THEN 1 ELSE 0)
    + Total([t \in Thread |->
               At(buf[t].rsv, v) + At(Ids(buf[t].vq), v) + At(Nodes(buf[t].vq), v)
               + At(Nodes(buf[t].dq), v) + (IF OwnVec(t) /\ own[t] = v THEN 1 ELSE 0)]) = 1

\* So is every data block.
DataOnePlace ==
  Running => \A d \in Data :
    At(pool.data, d) + (IF d \in tree.data THEN 1 ELSE 0)
    + Total([t \in Thread |->
               At(Ids(buf[t].dq), d) + (IF OwnData(t) /\ own[t] = d THEN 1 ELSE 0)]) = 1

\* No sequence of calls loses a node or a block, or has one in two places.
OnePlace == VecOnePlace /\ DataOnePlace

\* What was unlinked or queued is in no new use, and on no free list, while a
\* session that was open then still is.  FreeList rests on this for the nodes
\* of the entries too.
NoEarlyReuse ==
  Running =>
  /\ \A v \in Vec : hold.vec[v] # {} =>
       \E t \in Thread : v \in QueuedVec(buf[t]) \/ (OwnVec(t) /\ own[t] = v)
  /\ \A d \in Data : hold.data[d] # {} =>
       \E t \in Thread : d \in QueuedData(buf[t]) \/ (OwnData(t) /\ own[t] = d)

\* Between two calls the reserve of a thread is whole, as long as each refill
\* found a node: no sequence of calls, answered WAIT_AMT or not, drains it.
ReserveWhole ==
  \A t \in Thread : t \notin short =>
    phase[t] # "stuck" /\ (phase[t] \in {"idle", "leave"} => Len(buf[t].rsv) = RsvCnt)

\* A worker that is answered WAIT_AMT is not turned away for ever: the ticks
\* it waits for come, its queue shrinks, and it makes all its calls, unless it
\* found its reserve empty.
CallsMade == <>(\A t \in Thread : budget[t] = 0 \/ phase[t] = "stuck")
=============================================================================
