------------------------------ MODULE Division ------------------------------
(***************************************************************************)
(* The division of a cluster of splitter.c, and the workers it runs among. *)
(*                                                                         *)
(* An upper cluster holds the boards.  Each board names the lower cluster  *)
(* that keeps the keys up to its own and above the board before it, so a   *)
(* worker first finds the board of its key (find_next_cluster), reads the  *)
(* cluster the board names, and works there.  When a lower cluster has     *)
(* grown, the dividing thread moves its smallest keys into a new one: it   *)
(* masks a range with a board that names no cluster, waits two ticks so    *)
(* that no worker is still at work in the range (the grace period of       *)
(* SptThread), moves the range's references one by one, and lets the board *)
(* name the new cluster.  A worker that meets a masked board leaves its    *)
(* session and tries again.                                                *)
(*                                                                         *)
(* One operation on one cluster is one step: SdTree, which implements      *)
(* RefSet, is about what happens inside.  Routing is not such a step: the  *)
(* board is found, its cluster read and the operation done at three        *)
(* different instants.                                                     *)
(*                                                                         *)
(* Left out: the assertion of find_next_cluster where find_data gives a    *)
(* negative answer on the upper cluster (4094-4098), and a worker's own    *)
(* SPT_WAIT_AMT answers, with the retries of its caller: RetireBuf has the *)
(* calls that are turned away and made again.                              *)
(***************************************************************************)
EXTENDS Naturals, FiniteSets, Sequences, FiniteSetsExt, Functions

CONSTANTS
  Thread, Bit, TickMod, WaitTicks,  \* of SptThread
  Divider,    \* the thread that divides; the others are workers
  Keys,       \* the keys in use, 1 .. n
  Virt,       \* the keys of the boards spt_cluster_init draws at random
  Filled,     \* the references to each key before the dividing thread starts
  Cluster,    \* the lower clusters, 1 .. n: a bound on the divisions
  Threshold,  \* SPT_DVD_THRESHOLD_VA
  PerTime,    \* SPT_DVD_CNT_PER_TIME
  MoveTimes,  \* SPT_DVD_MOVE_TIMES
  Calls,      \* the operations on keys a worker may be asked for
  Budget,     \* a bound: how many of them each worker is asked for
  MaxDrop,    \* a bound: how often an insert into the new cluster may fail
  MaxPause    \* a bound: how often a delete may answer SPT_WAIT_AMT

Null == 0                      \* a board that names no cluster
Top == Cardinality(Keys) + 1   \* the board of all ones
Boards == Keys \union {Top}
Worker == Thread \ {Divider}

ASSUME DivisionAssumption ==
  /\ Divider \in Thread
  /\ IsFiniteSet(Keys) /\ Keys # {} /\ Keys = 1 .. Cardinality(Keys)
  /\ IsFiniteSet(Cluster) /\ Cluster = 1 .. Cardinality(Cluster)
  /\ Virt \subseteq Keys
  /\ Cardinality(Virt) < Cardinality(Cluster)
  /\ Filled \in [Keys -> Nat]
  /\ PerTime \in Nat \ {0}
  /\ MoveTimes \in Nat \ {0}
  /\ Threshold \in Nat
  /\ PerTime * MoveTimes < Threshold
  /\ Calls \subseteq {"INSERT", "DELETE"} \X Keys
  /\ Budget \in Nat
  /\ MaxDrop \in Nat
  /\ MaxPause \in Nat

VARIABLES
  online, bwmap, tick, pc, olmap, waiters, tick0, held,  \* of SptThread
  board,      \* the boards in the upper cluster
  plower,     \* the cluster each board names
  refs,       \* the references to each key in each lower cluster
  dv,         \* the local variables of the dividing thread
  wk,         \* the local variables of each worker
  asked,      \* how many operations each worker has been asked for
  cnt,        \* history: the references the workers were told there are
  dropped     \* history: the references the dividing thread let fall

Spt == INSTANCE SptThread

ASSUME SessionAssumption == Spt!ThreadAssumption /\ Spt!TickAssumption

sptvars == <<online, bwmap, tick, pc, olmap, waiters, tick0, held>>
tree == <<board, plower, refs>>
vars == <<sptvars, tree, dv, wk, asked, cnt, dropped>>

OK == "ok"
NOT_FOUND == "not found"

(***************************************************************************)
(* The dividing thread is at the step it takes next; behind "pause" it     *)
(* keeps in back the step it will try again.                               *)
(***************************************************************************)
InSessionStep == {"sort", "mask", "board", "take", "put", "unboard", "publish", "retract"}
LeaveStep == {"sorted", "masked", "moved", "pause"}
Step == {"scan", "wait", "pausing"} \union InSessionStep \union LeaveStep

Resting == [at |-> "scan", loop |-> 0, cuts |-> <<>>, src |-> Null, dst |-> Null,
            hand |-> 0, second |-> FALSE, back |-> "scan", pauses |-> 0]

Idle == [at |-> "idle", op |-> "INSERT", key |-> 1, board |-> Top, lower |-> Null, ret |-> OK]

\* The clusters in the order in which spt_cluster_init makes them.
Nth(S, n) == CHOOSE x \in S : Cardinality({y \in S : y <= x}) = n
Rank(S, x) == Cardinality({y \in S : y <= x})
Least(S) == CHOOSE x \in S : \A y \in S : x <= y

\* The board of a key: the smallest one that is not below it.
Route(k) == Least({b \in board : k <= b})

Records(c) == {k \in Keys : refs[c][k] > 0}

Init ==
  /\ Spt!Init
  /\ board = Virt \union {Top}
  /\ plower = [b \in Boards |-> IF b = Top THEN 1
                                ELSE IF b \in Virt THEN 1 + Rank(Virt, b) ELSE Null]
  /\ refs = [c \in Cluster |-> [k \in Keys |-> IF plower[Route(k)] = c THEN Filled[k] ELSE 0]]
  /\ dv = Resting
  /\ wk = [t \in Worker |-> Idle]
  /\ asked = [t \in Worker |-> 0]
  /\ cnt = Filled
  /\ dropped = [k \in Keys |-> 0]
-----------------------------------------------------------------------------
(***************************************************************************)
(* Sessions.  Code of a thread runs between spt_thread_start and           *)
(* spt_thread_exit; the rounds inside spt_thread_wait are SptThread's.     *)
(***************************************************************************)
InSession(t) == pc[t] = "on" /\ t \notin waiters
Outside(t) == pc[t] = "off"

At(s) == dv.at = s /\ InSession(Divider)
DividerIs(d) == dv' = d
WorkerIs(t, w) == wk' = [wk EXCEPT ![t] = w]

\* The rest of an exit, and the empty sessions of a wait.  A bound: tick does
\* not run through all its 2^32 values between two tests of a wait, which the
\* other threads leave to the waiter to close.
Scheduling(t) ==
  /\ \/ Spt!Exit(t)
     \/ Spt!Wait(t)
     \/ pc[t] = "begin" /\ Spt!Start(t)
     \/ t \in waiters /\ Spt!ExitClear(t)
  /\ tick' # tick => \A u \in waiters \ {t} : Spt!Elapsed(u) + 2 < TickMod
  /\ UNCHANGED <<tree, dv, wk, asked, cnt, dropped>>

Start ==
  /\ dv.at \in InSessionStep
  /\ Outside(Divider)
  /\ Spt!Start(Divider)
  /\ UNCHANGED <<tree, dv, wk, asked, cnt, dropped>>

(***************************************************************************)
(* The operators named Mut... are seeded bugs: each changes the definition *)
(* after it as a plausible coding error would, and breaks a property.      *)
(***************************************************************************)
\* one round too many
MutOnward ==
  CASE dv.at = "sorted" -> [dv EXCEPT !.at = "mask"]
    [] dv.at = "masked" -> [dv EXCEPT !.at = "wait"]
    [] dv.at = "pause"  -> [dv EXCEPT !.at = "pausing"]
    [] dv.at = "moved"  -> IF dv.loop <= MoveTimes
                             THEN [dv EXCEPT !.at = "mask", !.loop = @ + 1, !.second = FALSE]
                             ELSE [Resting EXCEPT !.pauses = dv.pauses]

\* Where the dividing thread goes on after it has left its session.
Onward ==
  CASE dv.at = "sorted" -> [dv EXCEPT !.at = "mask"]
    [] dv.at = "masked" -> [dv EXCEPT !.at = "wait"]
    [] dv.at = "pause"  -> [dv EXCEPT !.at = "pausing"]
    [] dv.at = "moved"  -> IF dv.loop < MoveTimes
                             THEN [dv EXCEPT !.at = "mask", !.loop = @ + 1, !.second = FALSE]
                             ELSE [Resting EXCEPT !.pauses = dv.pauses]

Leave ==
  /\ dv.at \in LeaveStep
  /\ InSession(Divider)
  /\ Spt!ExitClear(Divider)
  /\ DividerIs(Onward)
  /\ UNCHANGED <<tree, wk, asked, cnt, dropped>>

\* spt_thread_wait(2), after which the next session starts.
AfterWait == [dv EXCEPT !.at = IF @ = "wait" THEN "board" ELSE dv.back, !.back = "scan"]

\* no waiting
MutWait ==
  /\ dv.at \in {"wait", "pausing"}
  /\ Outside(Divider)
  /\ DividerIs(AfterWait)
  /\ UNCHANGED <<sptvars, tree, wk, asked, cnt, dropped>>

Wait ==
  /\ dv.at \in {"wait", "pausing"}
  /\ Outside(Divider)
  /\ Spt!WaitEnter(Divider)
  /\ DividerIs(AfterWait)
  /\ UNCHANGED <<tree, wk, asked, cnt, dropped>>
-----------------------------------------------------------------------------
\* spt_divided_scan: a board whose cluster has grown to the threshold.
Free == Cluster \ {plower[b] : b \in board}

Scan ==
  /\ dv.at = "scan"
  /\ Outside(Divider)
  /\ Free # {}
  /\ \E b \in board :
       /\ Cardinality(Records(plower[b])) >= Threshold
       /\ DividerIs([dv EXCEPT !.at = "sort", !.src = plower[b]])
  /\ UNCHANGED <<sptvars, tree, wk, asked, cnt, dropped>>

\* get_about_Nth_smallest_data.
Smallest(S, n) == Nth(S, IF n > Cardinality(S) THEN Cardinality(S) ELSE n)

\* The keys of the boards of a division, one for every PerTime records.
Cuts(S) == [i \in 1 .. MoveTimes |-> Smallest(S, i * PerTime)]

\* spt_cluster_sort and spt_divided_info_init.  The sorted array is a snapshot
\* and the cuts are distinct: Threshold leaves more records than the moves take.
Sort ==
  /\ At("sort")
  /\ Cardinality(Records(dv.src)) >= PerTime * MoveTimes
  /\ DividerIs([dv EXCEPT !.at = "sorted", !.loop = 1,
                          !.cuts = Cuts(Records(dv.src)), !.dst = Least(Free)])
  /\ UNCHANGED <<sptvars, tree, wk, asked, cnt, dropped>>

Cut == dv.cuts[dv.loop]

\* The board of the round goes into the upper cluster and names no cluster.
Mask ==
  /\ At("mask")
  /\ board' = board \union {Cut}
  /\ plower' = [plower EXCEPT ![Cut] = Null]
  /\ DividerIs([dv EXCEPT !.at = "masked"])
  /\ UNCHANGED <<sptvars, refs, wk, asked, cnt, dropped>>

\* The board of the lower cluster: one more reference to the key of the cut.
Board ==
  /\ At("board")
  /\ refs' = [refs EXCEPT ![dv.src][Cut] = @ + 1]
  /\ DividerIs([dv EXCEPT !.at = "take"])
  /\ UNCHANGED <<sptvars, board, plower, wk, asked, cnt, dropped>>

Lowest(k) == k \in Records(dv.src) /\ \A j \in Records(dv.src) : k <= j

\* In the first loop the references of every key up to the cut are taken, the
\* second takes what is left of the cut's own.
Take ==
  /\ At("take")
  /\ \E k \in Keys :
       /\ Lowest(k)
       /\ dv.second => k = Cut
       /\ refs' = [refs EXCEPT ![dv.src][k] = @ - 1]
       /\ DividerIs([dv EXCEPT !.at = "put", !.hand = k])
  /\ UNCHANGED <<sptvars, board, plower, wk, asked, cnt, dropped>>

\* no second loop
MutPut ==
  /\ At("put")
  /\ refs' = [refs EXCEPT ![dv.dst][dv.hand] = @ + 1]
  /\ DividerIs([dv EXCEPT !.at = IF dv.hand = Cut THEN "unboard" ELSE "take", !.hand = 0])
  /\ UNCHANGED <<sptvars, board, plower, wk, asked, cnt, dropped>>

Put ==
  /\ At("put")
  /\ \/ /\ refs' = [refs EXCEPT ![dv.dst][dv.hand] = @ + 1]
        /\ UNCHANGED dropped
     \/ /\ \A k \in Keys : dropped[k] < MaxDrop
        /\ dropped' = [dropped EXCEPT ![dv.hand] = @ + 1]
        /\ UNCHANGED refs
  /\ DividerIs([dv EXCEPT !.at = "take", !.hand = 0, !.second = @ \/ dv.hand = Cut])
  /\ UNCHANGED <<sptvars, board, plower, wk, asked, cnt>>

\* The cut's key is no longer in the source.
Emptied ==
  /\ At("take")
  /\ dv.second
  /\ ~Lowest(Cut)
  /\ DividerIs([dv EXCEPT !.at = "unboard"])
  /\ UNCHANGED <<sptvars, tree, wk, asked, cnt, dropped>>

\* the board's reference stays
MutUnboard ==
  /\ At("unboard")
  /\ refs[dv.dst][Cut] > 0
  /\ DividerIs([dv EXCEPT !.at = "publish"])
  /\ UNCHANGED <<sptvars, tree, wk, asked, cnt, dropped>>

\* The board's reference is deleted where it was moved to.
Unboard ==
  /\ At("unboard")
  /\ refs[dv.dst][Cut] > 0
  /\ refs' = [refs EXCEPT ![dv.dst][Cut] = @ - 1]
  /\ DividerIs([dv EXCEPT !.at = "publish"])
  /\ UNCHANGED <<sptvars, board, plower, wk, asked, cnt, dropped>>

\* The delete finds nothing and is repeated for ever, inside the session.
Spin ==
  /\ At("unboard")
  /\ refs[dv.dst][Cut] = 0
  /\ UNCHANGED vars

\* A delete out of either cluster or of a board that answers SPT_WAIT_AMT: the
\* session is left for two ticks and the delete is tried again.
Pause ==
  /\ dv.at \in {"take", "unboard", "retract"}
  /\ InSession(Divider)
  /\ dv.pauses < MaxPause
  /\ DividerIs([dv EXCEPT !.at = "pause", !.back = dv.at, !.pauses = @ + 1])
  /\ UNCHANGED <<sptvars, tree, wk, asked, cnt, dropped>>

\* The board of the round names the new cluster.
Publish ==
  /\ At("publish")
  /\ plower' = [plower EXCEPT ![Cut] = dv.dst]
  /\ DividerIs([dv EXCEPT !.at = IF dv.loop > 1 THEN "retract" ELSE "moved"])
  /\ UNCHANGED <<sptvars, board, refs, wk, asked, cnt, dropped>>

\* The board of the round before is deleted.
Retract ==
  /\ At("retract")
  /\ board' = board \ {dv.cuts[dv.loop - 1]}
  /\ DividerIs([dv EXCEPT !.at = "moved"])
  /\ UNCHANGED <<sptvars, plower, refs, wk, asked, cnt, dropped>>
-----------------------------------------------------------------------------
(***************************************************************************)
(* A worker: test_insert_proc and test_delete_proc, insert_data and        *)
(* delete_data, find_next_cluster.                                         *)
(***************************************************************************)
WorkerStart(t) ==
  /\ Outside(t)
  /\ wk[t].at # "idle" \/ asked[t] < Budget
  /\ Spt!Start(t)
  /\ UNCHANGED <<tree, dv, wk, asked, cnt, dropped>>

\* a worker that met a masked board tries again in the same session
MutWorkerLeave(t) ==
  /\ wk[t].at \in {"idle", "masked"}
  /\ InSession(t)
  /\ IF wk[t].at = "masked" THEN UNCHANGED sptvars ELSE Spt!ExitClear(t)
  /\ WorkerIs(t, [wk[t] EXCEPT !.at = IF @ = "masked" THEN "route" ELSE @])
  /\ UNCHANGED <<tree, dv, asked, cnt, dropped>>

\* The session ends between two operations, or because the board was masked.
WorkerLeave(t) ==
  /\ wk[t].at \in {"idle", "masked"}
  /\ InSession(t)
  /\ Spt!ExitClear(t)
  /\ WorkerIs(t, [wk[t] EXCEPT !.at = IF @ = "masked" THEN "route" ELSE @])
  /\ UNCHANGED <<tree, dv, asked, cnt, dropped>>

Ask(t) ==
  /\ wk[t].at = "idle"
  /\ InSession(t)
  /\ asked[t] < Budget
  /\ \E call \in Calls : WorkerIs(t, [Idle EXCEPT !.at = "route", !.op = call[1], !.key = call[2]])
  /\ asked' = [asked EXCEPT ![t] = @ + 1]
  /\ UNCHANGED <<sptvars, tree, dv, cnt, dropped>>

\* find_next_cluster finds the board ...
FindBoard(t) ==
  /\ wk[t].at = "route"
  /\ InSession(t)
  /\ WorkerIs(t, [wk[t] EXCEPT !.at = "read", !.board = Route(wk[t].key)])
  /\ UNCHANGED <<sptvars, tree, dv, asked, cnt, dropped>>

\* ... and returns what it names.
ReadLower(t) ==
  /\ wk[t].at = "read"
  /\ InSession(t)
  /\ LET c == plower[wk[t].board] IN
       WorkerIs(t, [wk[t] EXCEPT !.at = IF c = Null THEN "masked" ELSE "act",
                                 !.board = Top, !.lower = c])
  /\ UNCHANGED <<sptvars, tree, dv, asked, cnt, dropped>>

Done(t, code) == WorkerIs(t, [Idle EXCEPT !.ret = code])

Insert(t) ==
  /\ wk[t].at = "act" /\ wk[t].op = "INSERT"
  /\ InSession(t)
  /\ refs' = [refs EXCEPT ![wk[t].lower][wk[t].key] = @ + 1]
  /\ cnt' = [cnt EXCEPT ![wk[t].key] = @ + 1]
  /\ Done(t, OK)
  /\ UNCHANGED <<sptvars, board, plower, dv, asked, dropped>>

Delete(t) ==
  /\ wk[t].at = "act" /\ wk[t].op = "DELETE"
  /\ InSession(t)
  /\ LET c == wk[t].lower
         k == wk[t].key
     IN \/ /\ refs[c][k] > 0
           /\ refs' = [refs EXCEPT ![c][k] = @ - 1]
           /\ cnt' = [cnt EXCEPT ![k] = @ - 1]
           /\ Done(t, OK)
        \/ /\ refs[c][k] = 0
           /\ Done(t, NOT_FOUND)
           /\ UNCHANGED <<refs, cnt>>
  /\ UNCHANGED <<sptvars, board, plower, dv, asked, dropped>>
-----------------------------------------------------------------------------
Divide ==
  \/ Start \/ Leave \/ Wait
  \/ Sort \/ Mask \/ Board \/ Take \/ Put \/ Emptied
  \/ Unboard \/ Spin \/ Pause \/ Publish \/ Retract

Work(t) ==
  \/ FindBoard(t) \/ ReadLower(t) \/ Insert(t) \/ Delete(t) \/ WorkerLeave(t)

\* Nothing is left to be done: the dividing thread sleeps and the workers are over.
Over ==
  /\ dv.at = "scan"
  /\ \A t \in Thread : Outside(t)
  /\ \A t \in Worker : wk[t].at = "idle" /\ asked[t] = Budget
  /\ UNCHANGED vars

Next ==
  \/ \E t \in Thread : Scheduling(t)
  \/ Divide
  \/ Scan
  \/ \E t \in Worker : WorkerStart(t) \/ Ask(t) \/ Work(t)
  \/ Over

Spec == Init /\ [][Next]_vars

(***************************************************************************)
(* Every thread keeps running.  A worker closes its session after a        *)
(* bounded number of operations, and starts a new one while it has an      *)
(* operation to finish.  Nothing forces a scan or a new operation.         *)
(***************************************************************************)
Fairness ==
  /\ \A t \in Thread : WF_vars(Scheduling(t))
  /\ WF_vars(Divide)
  /\ \A t \in Worker :
       /\ WF_vars(Work(t))
       /\ WF_vars(wk[t].at # "idle" /\ WorkerStart(t))

FairSpec == Spec /\ Fairness
-----------------------------------------------------------------------------
\* The variables are typed: no round after the last, no key or cluster out of range.
TypeOK ==
  /\ Spt!TypeOK
  /\ board \subseteq Boards /\ Top \in board
  /\ plower \in [Boards -> Cluster \union {Null}]
  /\ refs \in [Cluster -> [Keys -> Nat]]
  /\ dv.at \in Step /\ dv.back \in Step
  /\ dv.loop \in 0 .. MoveTimes /\ dv.pauses \in 0 .. MaxPause
  /\ dv.src \in Cluster \union {Null} /\ dv.dst \in Cluster \union {Null}
  /\ dv.hand \in Keys \union {0} /\ dv.second \in BOOLEAN
  /\ \A i \in DOMAIN dv.cuts : dv.cuts[i] \in Keys
  /\ \A t \in Worker :
       /\ wk[t].at \in {"idle", "route", "read", "masked", "act"}
       /\ <<wk[t].op, wk[t].key>> \in {"INSERT", "DELETE"} \X Keys
       /\ wk[t].board \in Boards /\ wk[t].lower \in Cluster \union {Null}
       /\ wk[t].ret \in {OK, NOT_FOUND}
  /\ asked \in [Worker -> 0 .. Budget]
  /\ cnt \in [Keys -> Nat]
  /\ dropped \in [Keys -> 0 .. MaxDrop]

\* The reference that stands for the board of the lower cluster is in the tree.
Doing == IF dv.at \in {"pause", "pausing"} THEN dv.back ELSE dv.at
BoardRef(k) == IF Doing \in {"take", "put", "unboard"} /\ k = Cut THEN 1 ELSE 0
InHand(k) == IF dv.hand = k THEN 1 ELSE 0

\* A division neither loses nor invents a reference: those of a key, in all
\* clusters and in the dividing thread's hand, are as many as the workers were
\* told, but for those whose insert failed (splitter.c:1857) and for the
\* lower board's own.
RefsConserved ==
  \A k \in Keys :
    SumFunction([c \in Cluster |-> refs[c][k]]) + InHand(k) + dropped[k]
      = cnt[k] + BoardRef(k)

\* The upper cluster tells the truth: all references to a key are in the cluster
\* its board names; while the board is masked they are in the two clusters of
\* the division.
RoutedRight ==
  \A k \in Keys, c \in Cluster :
    refs[c][k] > 0 =>
      LET named == plower[Route(k)] IN
      IF named = Null THEN c \in {dv.src, dv.dst} ELSE c = named

\* "So that a query does not give a wrong result" (the comment at
\* splitter.c:1781): a delete is told "not found" only when no reference to its
\* key is anywhere.
NotFoundRight ==
  [][\A t \in Worker :
       wk[t].at = "act" /\ wk'[t].ret = NOT_FOUND /\ wk'[t].at = "idle"
         => cnt[wk[t].key] <= dropped[wk[t].key]]_vars

\* A worker that meets a masked board tries again, but not for ever: unless an
\* insert into the new cluster failed, the range is opened again.
CallsAnswered ==
  \A t \in Worker :
    wk[t].at # "idle" ~> (wk[t].at = "idle" \/ \E k \in Keys : dropped[k] > 0)
=============================================================================
