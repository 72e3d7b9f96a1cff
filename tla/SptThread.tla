----------------------------- MODULE SptThread -----------------------------
(***************************************************************************)
(* The grace periods of spt_thread.c.                                      *)
(*                                                                         *)
(* A worker brackets its accesses to the tree by spt_thread_start and      *)
(* spt_thread_exit.  The shared word online_map holds the bit of every     *)
(* thread between the two; black_white_map holds the bits a round still    *)
(* waits for.  The exit that empties black_white_map advances tick and     *)
(* opens the next round; spt_thread_wait(n) runs empty sessions until tick *)
(* has advanced n times.                                                   *)
(*                                                                         *)
(* A compare-and-swap loop whose failed rounds change nothing is one       *)
(* atomic step.  The words are sets of bits, and tick is an unsigned       *)
(* integer modulo TickMod (2^32 in the code).  A local variable that is    *)
(* out of scope has its first value.                                       *)
(***************************************************************************)
EXTENDS Naturals

CONSTANTS
  Thread,     \* the threads, each identified by its bit of the two maps
  Bit,        \* the bits of SPT_BWMAP_ALL_ONLINE: 64 whatever thread_num is
  TickMod,    \* the modulus of tick
  WaitTicks   \* the n of spt_thread_wait; every caller passes 2

ASSUME ThreadAssumption == Thread # {} /\ Thread \subseteq Bit
ASSUME TickAssumption ==
  /\ TickMod \in Nat
  /\ WaitTicks \in Nat
  /\ 0 < WaitTicks
  /\ WaitTicks < TickMod

VARIABLES
  online,     \* g_thrd_h->online_map
  bwmap,      \* g_thrd_h->black_white_map
  tick,       \* g_thrd_h->tick
  pc,         \* where each thread is in start, exit and wait
  olmap,      \* the local olmap of spt_thread_exit: a snapshot of online_map
  waiters,    \* the threads inside spt_thread_wait
  tick0,      \* the local tick of spt_thread_wait
  held        \* history: held[w] are the threads whose session was open when
              \* w entered spt_thread_wait and has not been closed since

vars == <<online, bwmap, tick, pc, olmap, waiters, tick0, held>>

Tick == 0 .. TickMod - 1

(***************************************************************************)
(* Control points: outside ("off"), in a session ("on"), between the two   *)
(* read-modify-writes of exit ("mask"), about to advance tick ("tick"),    *)
(* about to reopen the map ("reset"), at the loop test of wait ("test")    *)
(* and at the start call in the loop's body ("begin").                     *)
(***************************************************************************)
Control == {"off", "on", "mask", "tick", "reset", "test", "begin"}

\* Where spt_thread_exit returns to: its caller, or the loop test of wait.
Return(t) == IF t \in waiters THEN "test" ELSE "off"

Goto(t, l) == pc' = [pc EXCEPT ![t] = l]

Init ==
  /\ online = {}
  /\ bwmap = Bit
  /\ tick = 0
  /\ pc = [t \in Thread |-> "off"]
  /\ olmap = [t \in Thread |-> {}]
  /\ waiters = {}
  /\ tick0 = [t \in Thread |-> 0]
  /\ held = [t \in Thread |-> {}]
-----------------------------------------------------------------------------
(***************************************************************************)
(* Seeded bugs: each changes one step below as a plausible coding error     *)
(* would, and breaks a property of this module.                             *)
(***************************************************************************)
\* exit keeps no snapshot: the map it intersects is empty
MutNoSnapshot(t) ==
  /\ pc[t] = "on"
  /\ online' = online \ {t}
  /\ olmap' = [olmap EXCEPT ![t] = {}]
  /\ held' = [w \in Thread |-> held[w] \ {t}]
  /\ Goto(t, "mask")
  /\ UNCHANGED <<bwmap, tick, waiters, tick0>>

\* exit does not return when another thread is closing the round
MutIgnoreClosing(t) ==
  /\ pc[t] = "mask"
  /\ bwmap' = bwmap \intersect olmap[t]
  /\ olmap' = [olmap EXCEPT ![t] = {}]
  /\ Goto(t, IF bwmap' = {} THEN "tick" ELSE Return(t))
  /\ UNCHANGED <<online, tick, waiters, tick0, held>>

\* tick never wraps
MutTickUnbounded(t) ==
  /\ pc[t] = "tick"
  /\ tick' = tick + 1
  /\ Goto(t, "reset")
  /\ UNCHANGED <<online, bwmap, olmap, waiters, tick0, held>>

\* the map is not reopened
MutNoReopen(t) ==
  /\ pc[t] = "reset"
  /\ bwmap' = bwmap
  /\ Goto(t, Return(t))
  /\ UNCHANGED <<online, tick, olmap, waiters, tick0, held>>
-----------------------------------------------------------------------------
\* spt_thread_start: the caller's bit is set in online_map.
Start(t) ==
  /\ pc[t] \in {"off", "begin"}
  /\ online' = online \union {t}
  /\ Goto(t, "on")
  /\ UNCHANGED <<bwmap, tick, olmap, waiters, tick0, held>>

\* spt_thread_exit, first step: the bit is cleared, and the value of the map
\* at that instant is kept.
ExitClear(t) ==
  /\ pc[t] = "on"
  /\ online' = online \ {t}
  /\ olmap' = [olmap EXCEPT ![t] = online \ {t}]
  /\ held' = [w \in Thread |-> held[w] \ {t}]
  /\ Goto(t, "mask")
  /\ UNCHANGED <<bwmap, tick, waiters, tick0>>

\* A round is being closed by another thread: return.
ExitClosing(t) ==
  /\ pc[t] = "mask"
  /\ bwmap = {}
  /\ olmap' = [olmap EXCEPT ![t] = {}]
  /\ Goto(t, Return(t))
  /\ UNCHANGED <<online, bwmap, tick, waiters, tick0, held>>

\* The kept map is intersected into black_white_map; the thread that leaves
\* it empty goes on to close the round.
ExitMask(t) ==
  /\ pc[t] = "mask"
  /\ bwmap # {}
  /\ bwmap' = bwmap \intersect olmap[t]
  /\ olmap' = [olmap EXCEPT ![t] = {}]
  /\ Goto(t, IF bwmap' = {} THEN "tick" ELSE Return(t))
  /\ UNCHANGED <<online, tick, waiters, tick0, held>>

ExitTick(t) ==
  /\ pc[t] = "tick"
  /\ tick' = (tick + 1) % TickMod
  /\ Goto(t, "reset")
  /\ UNCHANGED <<online, bwmap, olmap, waiters, tick0, held>>

\* The compare-and-swap from 0 to SPT_BWMAP_ALL_ONLINE; the code asserts that
\* it succeeds.
ExitReset(t) ==
  /\ pc[t] = "reset"
  /\ bwmap' = IF bwmap = {} THEN Bit ELSE bwmap
  /\ Goto(t, Return(t))
  /\ UNCHANGED <<online, tick, olmap, waiters, tick0, held>>
-----------------------------------------------------------------------------
\* spt_thread_wait, called between two sessions.
WaitEnter(t) ==
  /\ pc[t] = "off"
  /\ waiters' = waiters \union {t}
  /\ tick0' = [tick0 EXCEPT ![t] = tick]
  /\ held' = [held EXCEPT ![t] = online]
  /\ Goto(t, "test")
  /\ UNCHANGED <<online, bwmap, tick, olmap>>

\* The unsigned difference of the loop test.
Elapsed(t) == (tick + TickMod - tick0[t]) % TickMod

WaitAgain(t) ==
  /\ pc[t] = "test"
  /\ Elapsed(t) < WaitTicks
  /\ Goto(t, "begin")
  /\ UNCHANGED <<online, bwmap, tick, olmap, waiters, tick0, held>>

WaitReturn(t) ==
  /\ pc[t] = "test"
  /\ Elapsed(t) >= WaitTicks
  /\ waiters' = waiters \ {t}
  /\ tick0' = [tick0 EXCEPT ![t] = 0]
  /\ Goto(t, "off")
  /\ UNCHANGED <<online, bwmap, tick, olmap, held>>
-----------------------------------------------------------------------------
Exit(t) == ExitClosing(t) \/ ExitMask(t) \/ ExitTick(t) \/ ExitReset(t)
Wait(t) == WaitAgain(t) \/ WaitReturn(t)

Next ==
  \E t \in Thread :
    \/ Start(t)
    \/ ExitClear(t)
    \/ ExitClosing(t)
    \/ ExitMask(t)
    \/ ExitTick(t)
    \/ ExitReset(t)
    \/ WaitEnter(t)
    \/ WaitAgain(t)
    \/ WaitReturn(t)

(***************************************************************************)
(* A thread inside exit or wait keeps running, and a worker closes its     *)
(* session after a bounded number of operations.  Nothing forces a thread  *)
(* that is outside to start a session or to wait.                          *)
(***************************************************************************)
Fairness ==
  \A t \in Thread :
    /\ WF_vars(ExitClear(t))
    /\ WF_vars(Exit(t))
    /\ WF_vars(Wait(t))
    /\ WF_vars(pc[t] = "begin" /\ Start(t))

Spec == Init /\ [][Next]_vars
FairSpec == Spec /\ Fairness
-----------------------------------------------------------------------------
TypeOK ==
  /\ online \subseteq Thread
  /\ bwmap \subseteq Bit
  /\ tick \in Tick
  /\ pc \in [Thread -> Control]
  /\ olmap \in [Thread -> SUBSET Thread]
  /\ waiters \subseteq Thread
  /\ tick0 \in [Thread -> Tick]
  /\ held \in [Thread -> SUBSET Thread]

Closing(t) == pc[t] \in {"tick", "reset"}

\* The assertion of spt_thread_exit: no thread changes black_white_map between
\* the step that empties it and the step that reopens it.
ResetFindsZero == \A t \in Thread : pc[t] = "reset" => bwmap = {}

\* One round is closed by one thread: tick never advances twice for a round.
OneCloser == \A t, u \in Thread : Closing(t) /\ Closing(u) => t = u

\* tick moves by one, and only while black_white_map is empty.
TickClosesRound ==
  [][tick' # tick => tick' = (tick + 1) % TickMod /\ bwmap = {} /\ bwmap' = {}]_vars

\* What the caller of spt_thread_wait(2) relies on (the comment at
\* splitter.c:1781): a session that was open when the wait began is over when
\* the wait returns.
GracePeriod ==
  [][\A w \in Thread : w \in waiters /\ w \notin waiters' => held[w] = {}]_vars

\* While a thread waits, rounds keep being closed.
RoundsAdvance ==
  \A t \in Thread, k \in Tick :
    (t \in waiters /\ tick = k) ~> (t \notin waiters \/ tick # k)
=============================================================================
