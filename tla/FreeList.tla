------------------------------ MODULE FreeList ------------------------------
(***************************************************************************)
(* A free list of chunk_block.c: a stack of ids changed by compare-and-    *)
(* swap, the next id kept in the free unit itself.  There are three: of    *)
(* nodes (vec_alloc, vec_free), of data blocks (db_alloc, db_free) and of  *)
(* the blocks both are cut from (blk_alloc), which are never freed.        *)
(*                                                                         *)
(* A thread that pops reads the head, then the head's next, and swaps the  *)
(* one for the other.  If the head were popped, used and pushed again      *)
(* between the reads and the swap, the swap would succeed with a next that *)
(* is out of date, and give out units that are in use.  The code has no    *)
(* counter in the head.  It relies on the two ticks a unit spends in a     *)
(* queue before it is pushed: whoever could have read it as the head has   *)
(* ended its session by then (RetireBuf, NoEarlyReuse).                    *)
(*                                                                         *)
(* hold is that promise: a unit is pushed only when the sessions that were *)
(* open when it was given up are over.  Sessions are SptThread's.          *)
(***************************************************************************)
EXTENDS Naturals, Sequences

CONSTANTS
  Thread,     \* the threads
  Unit,       \* the ids of the units
  Nil,        \* -1, the end of the list
  Chains,     \* the chains new units come in: those of one block, or page
  Stray,      \* what may be read as the next of a unit in use
  FirstTry    \* the values of try_cnts # 0 a pop starts with

\* What a user of this module owes it.
ListAssumption ==
  /\ Nil \notin Unit
  /\ Stray \subseteq Unit \union {Nil}
  /\ FirstTry \subseteq BOOLEAN
  /\ \A c \in Chains :
       /\ c \in Seq(Unit) /\ c # <<>>
       /\ \A i, j \in 1 .. Len(c) : c[i] = c[j] => i = j

VARIABLES
  head,       \* vec_free_head, dblk_free_head or blk_free_head
  next,       \* the next field of each unit
  loc,        \* the local variables of each thread
  online,     \* the threads with an open session
  free,       \* history: the units on the list, the head first
  place,      \* history: where each unit is
  hold        \* history: the sessions open when a unit was given up that
              \* still are

vars == <<head, next, loc, online, free, place, hold>>

Control == {"idle", "read", "next", "take", "grow", "link", "push"}
Place == {"new", "moving", "free", "used", "given"}
Link == Unit \union {Nil}
Elems(s) == {s[i] : i \in 1 .. Len(s)}

\* Where a pop or a push stands: cur is the head it read and nxt that head's
\* next; chain is what it pushes, and nxt the head it pushes onto; back is
\* what follows the push.
Local == [pc : Control, cur : Link, nxt : Link, chain : Seq(Unit),
          back : {"idle", "read"}, tried : BOOLEAN]

Idle == [pc |-> "idle", cur |-> Nil, nxt |-> Nil, chain |-> <<>>, back |-> "idle",
         tried |-> FALSE]

Init ==
  /\ head = Nil
  /\ next = [u \in Unit |-> Nil]
  /\ loc = [t \in Thread |-> Idle]
  /\ online = {}
  /\ free = <<>>
  /\ place = [u \in Unit |-> "new"]
  /\ hold = [u \in Unit |-> {}]
-----------------------------------------------------------------------------
At(t, c) == loc[t].pc = c
Become(t, m) == loc' = [loc EXCEPT ![t] = m]
Goto(t, c) == Become(t, [loc[t] EXCEPT !.pc = c])

\* spt_thread_start and spt_thread_exit.
Begin(t) ==
  /\ At(t, "idle") /\ t \notin online
  /\ online' = online \union {t}
  /\ UNCHANGED <<head, next, loc, free, place, hold>>

End(t) ==
  /\ At(t, "idle") /\ t \in online
  /\ online' = online \ {t}
  /\ hold' = [u \in Unit |-> hold[u] \ {t}]
  /\ UNCHANGED <<head, next, loc, free, place>>

\* A pop begins.  vec_alloc never sets try_cnts: it may be anything.
Alloc(t) ==
  /\ At(t, "idle") /\ t \in online
  /\ \E tried \in FirstTry :
       Become(t, [Idle EXCEPT !.pc = "read", !.tried = tried])
  /\ UNCHANGED <<head, next, online, free, place, hold>>

\* The head is read.
Read(t) ==
  /\ At(t, "read")
  /\ Become(t, [loc[t] EXCEPT !.pc = IF head = Nil THEN "grow" ELSE "next", !.cur = head])
  /\ UNCHANGED <<head, next, online, free, place, hold>>

\* Its next is read: in a unit taken meanwhile, whatever its user wrote there.
ReadNext(t) ==
  /\ At(t, "next")
  /\ \E n \in IF loc[t].cur \in Elems(free) THEN {next[loc[t].cur]} ELSE Stray :
       Become(t, [loc[t] EXCEPT !.pc = "take", !.nxt = n])
  /\ UNCHANGED <<head, next, online, free, place, hold>>

\* a plain store instead of the compare-and-swap
MutTake(t) ==
  /\ At(t, "take")
  /\ head' = loc[t].nxt
  /\ free' = IF free = <<>> THEN free ELSE Tail(free)
  /\ place' = [place EXCEPT ![loc[t].cur] = "used"]
  /\ Goto(t, "idle")
  /\ UNCHANGED <<next, online, hold>>

\* The compare-and-swap of the pop.
Take(t) ==
  /\ At(t, "take")
  /\ IF head = loc[t].cur
     THEN /\ head' = loc[t].nxt
          /\ free' = Tail(free)
          /\ place' = [place EXCEPT ![loc[t].cur] = "used"]
          /\ Goto(t, "idle")
     ELSE /\ Goto(t, "read")
          /\ UNCHANGED <<head, free, place>>
  /\ UNCHANGED <<next, online, hold>>

\* The list is empty and new units are made: a chain, linked in order.
Grow(t, units) ==
  /\ At(t, "grow")
  /\ \A i \in 1 .. Len(units) : place[units[i]] = "new"
  /\ next' = [u \in Unit |->
                IF \E i \in 1 .. Len(units) - 1 : units[i] = u
                THEN units[1 + CHOOSE i \in 1 .. Len(units) - 1 : units[i] = u]
                ELSE next[u]]
  /\ place' = [u \in Unit |-> IF u \in Elems(units) THEN "moving" ELSE place[u]]
  /\ Become(t, [loc[t] EXCEPT !.pc = "link", !.chain = units, !.back = "read"])
  /\ UNCHANGED <<head, online, free, hold>>

\* No units can be made: the head is read once more, or the pop fails.
GrowFail(t) ==
  /\ At(t, "grow")
  /\ Become(t, [loc[t] EXCEPT !.pc = IF loc[t].tried THEN "idle" ELSE "read", !.tried = TRUE])
  /\ UNCHANGED <<head, next, online, free, place, hold>>

\* A unit in use is given up: it enters a queue.
GiveUp(t, u) ==
  /\ At(t, "idle") /\ t \in online
  /\ place[u] = "used"
  /\ place' = [place EXCEPT ![u] = "given"]
  /\ hold' = [hold EXCEPT ![u] = online]
  /\ UNCHANGED <<head, next, loc, online, free>>

\* the unit is pushed at once
MutFree(t, u) ==
  /\ At(t, "idle") /\ t \in online
  /\ place[u] = "given"
  /\ place' = [place EXCEPT ![u] = "moving"]
  /\ Become(t, [Idle EXCEPT !.pc = "link", !.chain = <<u>>])
  /\ UNCHANGED <<head, next, online, free, hold>>

\* vec_free, db_free: called when the unit is old enough.
Free(t, u) ==
  /\ At(t, "idle") /\ t \in online
  /\ place[u] = "given" /\ hold[u] = {}
  /\ place' = [place EXCEPT ![u] = "moving"]
  /\ Become(t, [Idle EXCEPT !.pc = "link", !.chain = <<u>>])
  /\ UNCHANGED <<head, next, online, free, hold>>

\* The head is read and becomes the next of the last unit pushed.
LinkHead(t) ==
  LET last == loc[t].chain[Len(loc[t].chain)]
  IN  /\ At(t, "link")
      /\ next' = [next EXCEPT ![last] = head]
      /\ Become(t, [loc[t] EXCEPT !.pc = "push", !.nxt = head])
      /\ UNCHANGED <<head, online, free, place, hold>>

\* The compare-and-swap of the push.
Push(t) ==
  LET m == loc[t]
  IN  /\ At(t, "push")
      /\ IF head = m.nxt
         THEN /\ head' = m.chain[1]
              /\ free' = m.chain \o free
              /\ place' = [u \in Unit |-> IF u \in Elems(m.chain) THEN "free" ELSE place[u]]
              /\ Become(t, [m EXCEPT !.pc = m.back, !.chain = <<>>])
         ELSE /\ Goto(t, "link")
              /\ UNCHANGED <<head, free, place>>
      /\ UNCHANGED <<next, online, hold>>
-----------------------------------------------------------------------------
Step(t) ==
  \/ Begin(t) \/ End(t)
  \/ Alloc(t) \/ Read(t) \/ ReadNext(t) \/ Take(t)
  \/ \E units \in Chains : Grow(t, units)
  \/ GrowFail(t)
  \/ \E u \in Unit : GiveUp(t, u) \/ Free(t, u)
  \/ LinkHead(t) \/ Push(t)

Next == \E t \in Thread : Step(t)

Spec == Init /\ [][Next]_vars
-----------------------------------------------------------------------------
(* Properties.                                                              *)

\* The variables are typed.
TypeOK ==
  /\ head \in Link
  /\ next \in [Unit -> Link]
  /\ loc \in [Thread -> Local]
  /\ online \subseteq Thread
  /\ free \in Seq(Unit)
  /\ place \in [Unit -> Place]
  /\ hold \in [Unit -> SUBSET Thread]

\* A walk from the head visits the units that were pushed and not popped, in
\* order, to the end: no swap with an out-of-date next has cut the list, or
\* hung onto it what is in use.
ListWhole ==
  /\ head = IF free = <<>> THEN Nil ELSE free[1]
  /\ \A i \in 1 .. Len(free) : next[free[i]] = IF i = Len(free) THEN Nil ELSE free[i + 1]

\* A unit is in one place: on the list once, or on its way there in the chain
\* of one thread, or in use, or given up, and never in the hands of two.
OnePlace ==
  /\ \A i, j \in 1 .. Len(free) : free[i] = free[j] => i = j
  /\ \A u \in Unit : place[u] = "free" <=> u \in Elems(free)
  /\ \A u \in Unit : place[u] = "moving" <=> \E t \in Thread : u \in Elems(loc[t].chain)
  /\ \A t, v \in Thread :
       \A i \in 1 .. Len(loc[t].chain), j \in 1 .. Len(loc[v].chain) :
         loc[t].chain[i] = loc[v].chain[j] => t = v /\ i = j
=============================================================================
