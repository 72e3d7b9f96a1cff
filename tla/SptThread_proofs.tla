-------------------------- MODULE SptThread_proofs --------------------------
(***************************************************************************)
(* Safety of the grace-period rounds for any set of threads, any width of  *)
(* the maps and any modulus of tick.  Everything rests on one inductive    *)
(* fact: black_white_map is empty exactly while one thread, and only one,  *)
(* is between the step that emptied it and the step that reopens it.  The  *)
(* grace period rests besides on how many ticks an open session may see.   *)
(***************************************************************************)
EXTENDS SptThread, FiniteSetTheorems, TLAPS

\* tick stays within its width.
LEMMA TickStep == ASSUME NEW k \in Tick PROVE (k + 1) % TickMod \in Tick
  BY TickAssumption DEF Tick

\* tick starts within its width.
LEMMA FirstTick == 0 \in Tick
  BY TickAssumption DEF Tick

\* Where exit returns to is a control point outside the closing of a round.
LEMMA ReturnControl ==
  ASSUME NEW t \in Thread
  PROVE  Return(t) \in {"off", "test"}
  BY DEF Return

\* The variables keep their types: in particular the kept snapshots and the
\* history hold threads only, and tick stays an unsigned integer of its width.
THEOREM TypeCorrect == Spec => []TypeOK
<1>1. Init => TypeOK
  BY ThreadAssumption, TickAssumption DEF Init, TypeOK, Tick, Control
<1>2. TypeOK /\ [Next]_vars => TypeOK'
  <2> SUFFICES ASSUME TypeOK, [Next]_vars PROVE TypeOK'
    OBVIOUS
  <2> USE DEF TypeOK, Goto, Control
  <2>1. ASSUME NEW t \in Thread, Start(t) PROVE TypeOK'
    BY <2>1 DEF Start
  <2>2. ASSUME NEW t \in Thread, ExitClear(t) PROVE TypeOK'
    BY <2>2 DEF ExitClear
  <2>3. ASSUME NEW t \in Thread, ExitClosing(t) PROVE TypeOK'
    BY <2>3, ReturnControl DEF ExitClosing
  <2>4. ASSUME NEW t \in Thread, ExitMask(t) PROVE TypeOK'
    BY <2>4, ReturnControl DEF ExitMask
  <2>5. ASSUME NEW t \in Thread, ExitTick(t) PROVE TypeOK'
    BY <2>5, TickStep DEF ExitTick
  <2>6. ASSUME NEW t \in Thread, ExitReset(t) PROVE TypeOK'
    BY <2>6, ReturnControl DEF ExitReset
  <2>7. ASSUME NEW t \in Thread, WaitEnter(t) PROVE TypeOK'
    BY <2>7 DEF WaitEnter
  <2>8. ASSUME NEW t \in Thread, WaitAgain(t) PROVE TypeOK'
    BY <2>8 DEF WaitAgain
  <2>9. ASSUME NEW t \in Thread, WaitReturn(t) PROVE TypeOK'
    BY <2>9, FirstTick DEF WaitReturn, Tick
  <2>10. CASE UNCHANGED vars
    BY <2>10 DEF vars
  <2> QED
    BY <2>1, <2>2, <2>3, <2>4, <2>5, <2>6, <2>7, <2>8, <2>9, <2>10 DEF Next
<1> QED
  BY <1>1, <1>2, PTL DEF Spec
-----------------------------------------------------------------------------
\* The strengthening: ResetFindsZero alone says nothing of the step between
\* the intersection and the tick, and nothing forbids a second closer.
CloserInv ==
  /\ TypeOK
  /\ OneCloser
  /\ bwmap = {} <=> \E t \in Thread : Closing(t)

\* A step of t that leaves black_white_map alone, and t outside of a closing,
\* keeps the closer.
LEMMA QuietStep ==
  ASSUME CloserInv, NEW t \in Thread, NEW l \in Control \ {"tick", "reset"},
         ~Closing(t), Goto(t, l), bwmap' = bwmap
  PROVE  OneCloser' /\ (bwmap' = {} <=> \E u \in Thread : Closing(u)')
<1>1. \A u \in Thread : Closing(u)' <=> Closing(u)
  BY DEF CloserInv, TypeOK, Closing, Goto
<1> QED
  BY <1>1 DEF CloserInv, OneCloser

\* A round is open at first, and nobody is closing it.
LEMMA CloserInit == Init => CloserInv
<1> SUFFICES ASSUME Init PROVE CloserInv
  OBVIOUS
<1>1. TypeOK
  BY ThreadAssumption, TickAssumption DEF Init, TypeOK, Tick, Control
<1>2. \A t \in Thread : ~Closing(t)
  BY DEF Init, Closing
<1>3. bwmap # {}
  BY ThreadAssumption DEF Init
<1> QED
  BY <1>1, <1>2, <1>3 DEF CloserInv, OneCloser

\* Every step keeps it: the exit that empties the map becomes the closer, and
\* the closer alone reopens the map and so ends its closing.
LEMMA CloserStep ==
  ASSUME CloserInv, TypeOK', [Next]_vars
  PROVE  CloserInv'
<1> USE DEF Control
<1>1. ASSUME NEW t \in Thread, Start(t) PROVE CloserInv'
  <2>1. ~Closing(t)
    BY <1>1 DEF Start, Closing
  <2> QED
    BY <1>1, <2>1, QuietStep DEF Start, CloserInv
<1>2. ASSUME NEW t \in Thread, ExitClear(t) PROVE CloserInv'
  <2>1. ~Closing(t)
    BY <1>2 DEF ExitClear, Closing
  <2> QED
    BY <1>2, <2>1, QuietStep DEF ExitClear, CloserInv
<1>3. ASSUME NEW t \in Thread, ExitClosing(t) PROVE CloserInv'
  <2>1. ~Closing(t)
    BY <1>3 DEF ExitClosing, Closing
  <2> QED
    BY <1>3, <2>1, QuietStep, ReturnControl DEF ExitClosing, CloserInv
<1>4. ASSUME NEW t \in Thread, ExitMask(t) PROVE CloserInv'
  <2>1. \A u \in Thread : ~Closing(u)
    BY <1>4 DEF ExitMask, CloserInv
  <2>2. \A u \in Thread : Closing(u)' <=> (u = t /\ bwmap' = {})
    BY <1>4, <2>1, ReturnControl DEF ExitMask, Goto, Closing, CloserInv, TypeOK
  <2> QED
    BY <2>2 DEF CloserInv, OneCloser
<1>5. ASSUME NEW t \in Thread, ExitTick(t) PROVE CloserInv'
  <2>1. \A u \in Thread : Closing(u)' <=> Closing(u)
    BY <1>5 DEF ExitTick, Goto, Closing, CloserInv, TypeOK
  <2>2. bwmap' = bwmap
    BY <1>5 DEF ExitTick
  <2> QED
    BY <2>1, <2>2 DEF CloserInv, OneCloser
<1>6. ASSUME NEW t \in Thread, ExitReset(t) PROVE CloserInv'
  <2>1. Closing(t)
    BY <1>6 DEF ExitReset, Closing
  <2>2. bwmap' # {}
    BY <1>6, ThreadAssumption DEF ExitReset
  <2>3. \A u \in Thread : Closing(u) => u = t
    BY <2>1 DEF CloserInv, OneCloser
  <2>4. \A u \in Thread : ~Closing(u)'
    BY <1>6, <2>3, ReturnControl DEF ExitReset, Goto, Closing, CloserInv, TypeOK
  <2> QED
    BY <2>2, <2>4 DEF CloserInv, OneCloser
<1>7. ASSUME NEW t \in Thread, WaitEnter(t) PROVE CloserInv'
  <2>1. ~Closing(t)
    BY <1>7 DEF WaitEnter, Closing
  <2> QED
    BY <1>7, <2>1, QuietStep DEF WaitEnter, CloserInv
<1>8. ASSUME NEW t \in Thread, WaitAgain(t) PROVE CloserInv'
  <2>1. ~Closing(t)
    BY <1>8 DEF WaitAgain, Closing
  <2> QED
    BY <1>8, <2>1, QuietStep DEF WaitAgain, CloserInv
<1>9. ASSUME NEW t \in Thread, WaitReturn(t) PROVE CloserInv'
  <2>1. ~Closing(t)
    BY <1>9 DEF WaitReturn, Closing
  <2> QED
    BY <1>9, <2>1, QuietStep DEF WaitReturn, CloserInv
<1>10. CASE UNCHANGED vars
  BY <1>10 DEF vars, CloserInv, OneCloser, Closing
<1> QED
  BY <1>1, <1>2, <1>3, <1>4, <1>5, <1>6, <1>7, <1>8, <1>9, <1>10 DEF Next

\* The map is empty exactly while one thread closes the round.
LEMMA CloserInvariant == Spec => []CloserInv
<1>1. CloserInv /\ TypeOK' /\ [Next]_vars => CloserInv'
  BY CloserStep
<1> QED
  BY <1>1, CloserInit, TypeCorrect, PTL DEF Spec

\* The assertion of spt_thread_exit (spt_thread.c:82) never fails: the map a
\* thread reopens is still the empty map it left.
THEOREM ResetNeverFails == Spec => []ResetFindsZero
<1>1. CloserInv => ResetFindsZero
  BY DEF CloserInv, ResetFindsZero, Closing
<1> QED
  BY <1>1, CloserInvariant, PTL

\* One thread at a time closes a round, so a round advances tick once.
THEOREM RoundHasOneCloser == Spec => []OneCloser
<1>1. CloserInv => OneCloser
  BY DEF CloserInv
<1> QED
  BY <1>1, CloserInvariant, PTL

\* tick changes only by one, in its width, and only inside the closing of a
\* round.
THEOREM TickOnlyClosing == Spec => TickClosesRound
<1> DEFINE A == tick' # tick => tick' = (tick + 1) % TickMod /\ bwmap = {} /\ bwmap' = {}
<1>1. CloserInv /\ [Next]_vars => [A]_vars
  <2> SUFFICES ASSUME CloserInv, Next, tick' # tick PROVE A
    OBVIOUS
  <2>1. PICK t \in Thread : ExitTick(t)
    BY DEF Next, Start, ExitClear, ExitClosing, ExitMask, ExitReset, WaitEnter,
           WaitAgain, WaitReturn
  <2>2. bwmap = {}
    BY <2>1 DEF ExitTick, CloserInv, Closing
  <2> QED
    BY <2>1, <2>2 DEF ExitTick
<1> QED
  BY <1>1, CloserInvariant, PTL DEF Spec, TickClosesRound
-----------------------------------------------------------------------------
(***************************************************************************)
(* How many ticks are enough.  A session can outlive one tick because its  *)
(* bit was already gone from black_white_map when it began, and one more   *)
(* for every other thread that stands between the two halves of exit with  *)
(* a map kept before the session began: the intersection with such a map   *)
(* takes the bit away although the session is open.  So a wait needs as    *)
(* many ticks as there are threads, and the two of every caller are        *)
(* enough for two threads only (the run divide has three).                 *)
(***************************************************************************)
\* The threads whose kept map does not know of u's session.
Stale(u) == {t \in Thread : pc[t] = "mask" /\ u \notin olmap[t]}

\* The round being closed closes without u.
Debt(u) == IF u \in bwmap \/ \E t \in Thread : pc[t] = "reset" THEN 0 ELSE 1

\* The ticks u's session may still see.
Owed(u) == Debt(u) + Cardinality(Stale(u))

\* The bits of online_map are those of the open sessions.
OnlineIsOn == \A t \in Thread : t \in online <=> pc[t] = "on"

GraceInv ==
  /\ CloserInv
  /\ OnlineIsOn
  /\ \A w \in waiters : \A u \in held[w] :
       pc[u] = "on" /\ Elapsed(w) + Owed(u) < Cardinality(Thread)

\* Neither an open session nor an empty one is stale: the count is a number.
LEMMA StaleFinite ==
  ASSUME IsFiniteSet(Thread)
  PROVE  \A u : /\ IsFiniteSet(Stale(u))
                /\ Cardinality(Stale(u)) \in Nat
                /\ Debt(u) \in {0, 1}
                /\ Owed(u) \in Nat
<1> TAKE u
<1>1. Stale(u) \subseteq Thread
  BY DEF Stale
<1>2. IsFiniteSet(Stale(u))
  BY <1>1, FS_Subset
<1>3. Cardinality(Stale(u)) \in Nat
  BY <1>2, FS_CardinalityType
<1>4. Debt(u) \in {0, 1}
  BY DEF Debt
<1> HIDE DEF Stale, Debt
<1> QED
  BY <1>2, <1>3, <1>4 DEF Owed

\* While one thread is outside and another in a session, that session may see
\* fewer ticks than there are threads.
LEMMA OwedBound ==
  ASSUME IsFiniteSet(Thread), NEW u \in Thread, NEW w \in Thread,
         pc[u] = "on", pc[w] = "off"
  PROVE  Owed(u) < Cardinality(Thread)
<1> DEFINE S == Thread \ {w}
           R == S \ {u}
<1>1. IsFiniteSet(S) /\ Cardinality(S) = Cardinality(Thread) - 1
  BY FS_RemoveElement
<1>2. IsFiniteSet(R) /\ Cardinality(R) = Cardinality(S) - 1
  BY <1>1, FS_RemoveElement
<1>3. Stale(u) \subseteq R
  BY DEF Stale
<1>4. Cardinality(Stale(u)) <= Cardinality(R)
  BY <1>2, <1>3, FS_Subset
<1>5. Cardinality(Stale(u)) \in Nat /\ Debt(u) \in {0, 1}
  BY StaleFinite
<1>6. Cardinality(Thread) \in Nat
  BY FS_CardinalityType
<1> HIDE DEF S, R
<1> QED
  BY <1>1, <1>2, <1>4, <1>5, <1>6 DEF Owed

\* If no thread becomes stale and the round's debt does not grow, no tick is
\* owed in addition.
LEMMA OwedKept ==
  ASSUME IsFiniteSet(Thread), NEW u,
         Stale(u)' \subseteq Stale(u), Debt(u)' <= Debt(u)
  PROVE  Owed(u)' <= Owed(u)
<1>1. Cardinality(Stale(u)') <= Cardinality(Stale(u))
  BY StaleFinite, FS_Subset
<1>2. IsFiniteSet(Stale(u)') /\ Cardinality(Stale(u)') \in Nat /\ Debt(u)' \in {0, 1}
  <2>1. IsFiniteSet(Stale(u)')
    BY StaleFinite, FS_Subset
  <2> QED
    BY <2>1, FS_CardinalityType DEF Debt
<1>3. Cardinality(Stale(u)) \in Nat /\ Debt(u) \in {0, 1}
  BY StaleFinite
<1> QED
  BY <1>1, <1>2, <1>3 DEF Owed

\* A session pays for every tick it sees: a step of any thread that leaves it
\* open either leaves tick alone and owes it no more ticks, or advances tick
\* once and owes it one less.
LEMMA SessionPays ==
  ASSUME IsFiniteSet(Thread), CloserInv, OnlineIsOn, [Next]_vars,
         NEW u \in Thread, pc[u] = "on", pc'[u] = "on"
  PROVE  \/ tick' = tick /\ Owed(u)' <= Owed(u)
         \/ tick' = (tick + 1) % TickMod /\ Owed(u)' + 1 <= Owed(u)
<1> USE DEF Goto
<1> DEFINE Pays == \/ tick' = tick /\ Owed(u)' <= Owed(u)
                   \/ tick' = (tick + 1) % TickMod /\ Owed(u)' + 1 <= Owed(u)
<1>0. /\ pc \in [Thread -> Control]
      /\ olmap \in [Thread -> SUBSET Thread]
  BY DEF CloserInv, TypeOK
<1>a. Debt(u) \in {0, 1}
  BY DEF Debt
\* no thread stands in the two steps of a closing, and none enters exit's second half
<1>b. ASSUME NEW t \in Thread, NEW l \in Control \ {"mask", "reset"}, pc[t] # "reset",
             Goto(t, l), bwmap' = bwmap, tick' = tick, olmap' = olmap
      PROVE  Pays
  <2>1. Stale(u)' \subseteq Stale(u)
    BY <1>0, <1>b DEF Stale
  <2>2. Debt(u)' = Debt(u)
    BY <1>0, <1>b DEF Debt
  <2> HIDE DEF Goto
  <2> QED
    BY <1>a, <1>b, <2>1, <2>2, OwedKept
<1>1. ASSUME NEW t \in Thread, Start(t) PROVE Pays
  BY <1>1, <1>b DEF Start, Control
<1>2. ASSUME NEW t \in Thread, ExitClear(t) PROVE Pays
  <2>1. t # u /\ u \in online
    BY <1>0, <1>2 DEF ExitClear, OnlineIsOn
  <2>2. u \in olmap'[t]
    BY <1>0, <1>2, <2>1 DEF ExitClear
  <2>3. Stale(u)' \subseteq Stale(u)
    BY <1>0, <1>2, <2>2 DEF ExitClear, Stale
  <2>4. Debt(u)' = Debt(u)
    BY <1>0, <1>2 DEF ExitClear, Debt
  <2>5. tick' = tick
    BY <1>2 DEF ExitClear
  <2> QED
    BY <1>a, <2>3, <2>4, <2>5, OwedKept
<1>3. ASSUME NEW t \in Thread, ExitClosing(t) PROVE Pays
  <2>1. Return(t) \notin {"mask", "reset"}
    BY ReturnControl
  <2>2. Stale(u)' \subseteq Stale(u)
    BY <1>0, <1>3, <2>1 DEF ExitClosing, Stale
  <2>3. Debt(u)' = Debt(u)
    BY <1>0, <1>3, <2>1 DEF ExitClosing, Debt
  <2>4. tick' = tick
    BY <1>3 DEF ExitClosing
  <2> QED
    BY <1>a, <2>2, <2>3, <2>4, OwedKept
<1>4. ASSUME NEW t \in Thread, ExitMask(t) PROVE Pays
  <2>1. pc'[t] \notin {"mask", "reset"} /\ pc[t] = "mask"
    BY <1>0, <1>4, ReturnControl DEF ExitMask
  <2>2. Stale(u)' = Stale(u) \ {t}
    BY <1>0, <1>4, <2>1 DEF ExitMask, Stale
  <2>3. tick' = tick
    BY <1>4 DEF ExitMask
  <2>4. CASE u \in olmap[t]
    <3>1. Debt(u)' = Debt(u)
      BY <1>0, <1>4, <2>1, <2>4 DEF ExitMask, Debt
    <3> QED
      BY <1>a, <2>2, <2>3, <3>1, OwedKept
  <2>5. CASE u \notin olmap[t]
    <3>1. t \in Stale(u)
      BY <2>1, <2>5 DEF Stale
    <3>2. IsFiniteSet(Stale(u)) /\ Cardinality(Stale(u)) \in Nat
      BY StaleFinite
    <3>3. Cardinality(Stale(u)') = Cardinality(Stale(u)) - 1
      BY <2>2, <3>1, <3>2, FS_RemoveElement
    <3>4. Debt(u)' \in {0, 1}
      BY DEF Debt
    <3> QED
      BY <1>a, <2>3, <3>2, <3>3, <3>4 DEF Owed
  <2> QED
    BY <2>4, <2>5
<1>5. ASSUME NEW t \in Thread, ExitTick(t) PROVE Pays
  <2>1. Stale(u)' = Stale(u)
    BY <1>0, <1>5 DEF ExitTick, Stale
  <2>2. Debt(u)' = 0
    BY <1>0, <1>5 DEF ExitTick, Debt
  <2>3. bwmap = {} /\ \A v \in Thread : pc[v] # "reset"
    <3>1. Closing(t)
      BY <1>5 DEF ExitTick, Closing
    <3>2. \A v \in Thread : Closing(v) => v = t
      BY <3>1 DEF CloserInv, OneCloser
    <3> QED
      BY <1>5, <3>1, <3>2 DEF ExitTick, CloserInv, Closing
  <2>4. Debt(u) = 1
    BY <2>3 DEF Debt
  <2>5. tick' = (tick + 1) % TickMod
    BY <1>5 DEF ExitTick
  <2>6. Cardinality(Stale(u)) \in Nat
    BY StaleFinite
  <2> QED
    BY <2>1, <2>2, <2>4, <2>5, <2>6 DEF Owed
<1>6. ASSUME NEW t \in Thread, ExitReset(t) PROVE Pays
  <2>1. Stale(u)' = Stale(u)
    BY <1>0, <1>6, ReturnControl DEF ExitReset, Stale
  <2>2. bwmap = {}
    BY <1>6 DEF ExitReset, CloserInv, Closing
  <2>3. Debt(u)' = 0
    BY <1>6, <2>2, ThreadAssumption DEF ExitReset, Debt
  <2>4. tick' = tick
    BY <1>6 DEF ExitReset
  <2> QED
    BY <1>a, <2>1, <2>3, <2>4, OwedKept
<1>7. ASSUME NEW t \in Thread, WaitEnter(t) PROVE Pays
  BY <1>7, <1>b DEF WaitEnter, Control
<1>8. ASSUME NEW t \in Thread, WaitAgain(t) PROVE Pays
  BY <1>8, <1>b DEF WaitAgain, Control
<1>9. ASSUME NEW t \in Thread, WaitReturn(t) PROVE Pays
  BY <1>9, <1>b DEF WaitReturn, Control
<1>10. CASE UNCHANGED vars
  <2>1. Owed(u)' = Owed(u) /\ tick' = tick
    BY <1>10 DEF vars, Owed, Stale, Debt
  <2>2. Owed(u) \in Nat
    BY StaleFinite
  <2> QED
    BY <2>1, <2>2
<1> QED
  BY <1>1, <1>2, <1>3, <1>4, <1>5, <1>6, <1>7, <1>8, <1>9, <1>10 DEF Next

\* A tick adds at most one to what a waiter has counted.
LEMMA ElapsedTick ==
  ASSUME NEW k \in Tick, NEW k0 \in Tick
  PROVE  /\ (k + TickMod - k0) % TickMod \in Nat
         /\ (((k + 1) % TickMod) + TickMod - k0) % TickMod <= ((k + TickMod - k0) % TickMod) + 1
         /\ (k0 + TickMod - k0) % TickMod = 0
<1>1. TickMod \in Nat /\ TickMod > 0 /\ k \in Nat /\ k < TickMod /\ k0 \in Nat /\ k0 < TickMod
  BY TickAssumption DEF Tick
<1>2. (k + 1) % TickMod = IF k + 1 = TickMod THEN 0 ELSE k + 1
  BY <1>1
<1>3. (k + TickMod - k0) % TickMod = IF k < k0 THEN k + TickMod - k0 ELSE k - k0
  BY <1>1
<1>4. (k0 + TickMod - k0) % TickMod = 0
  BY <1>1
<1>5. CASE k + 1 = TickMod
  <2>1. (0 + TickMod - k0) % TickMod = IF k0 = 0 THEN 0 ELSE TickMod - k0
    BY <1>1
  <2> QED
    BY <1>1, <1>2, <1>3, <1>4, <1>5, <2>1
<1>6. CASE k + 1 # TickMod
  <2>1. ((k + 1) + TickMod - k0) % TickMod = IF k + 1 < k0 THEN k + 1 + TickMod - k0 ELSE k + 1 - k0
    BY <1>1, <1>6
  <2> QED
    BY <1>1, <1>2, <1>3, <1>4, <1>6, <2>1
<1> QED
  BY <1>5, <1>6

\* online_map holds the bit of a thread exactly while its session is open.
LEMMA OnlineStep ==
  ASSUME TypeOK, OnlineIsOn, [Next]_vars
  PROVE  OnlineIsOn'
<1> USE DEF TypeOK, OnlineIsOn, Goto
<1>1. ASSUME NEW t \in Thread, Start(t) PROVE OnlineIsOn'
  BY <1>1 DEF Start
<1>2. ASSUME NEW t \in Thread, ExitClear(t) PROVE OnlineIsOn'
  BY <1>2 DEF ExitClear
<1>3. ASSUME NEW t \in Thread, ExitClosing(t) PROVE OnlineIsOn'
  BY <1>3, ReturnControl DEF ExitClosing
<1>4. ASSUME NEW t \in Thread, ExitMask(t) PROVE OnlineIsOn'
  BY <1>4, ReturnControl DEF ExitMask
<1>5. ASSUME NEW t \in Thread, ExitTick(t) \/ WaitEnter(t) \/ WaitAgain(t) \/ WaitReturn(t)
      PROVE  OnlineIsOn'
  BY <1>5 DEF ExitTick, WaitEnter, WaitAgain, WaitReturn
<1>6. ASSUME NEW t \in Thread, ExitReset(t) PROVE OnlineIsOn'
  BY <1>6, ReturnControl DEF ExitReset
<1>7. CASE UNCHANGED vars
  BY <1>7 DEF vars
<1> QED
  BY <1>1, <1>2, <1>3, <1>4, <1>5, <1>6, <1>7 DEF Next

\* However many threads there are.
LEMMA OnlineInvariant == Spec => []OnlineIsOn
<1>1. Init => OnlineIsOn
  BY DEF Init, OnlineIsOn
<1>2. TypeOK /\ OnlineIsOn /\ [Next]_vars => OnlineIsOn'
  BY OnlineStep
<1> QED
  BY <1>1, <1>2, TypeCorrect, PTL DEF Spec

\* Nobody waits at first.
LEMMA GraceInit == Init => GraceInv
<1> SUFFICES ASSUME Init PROVE GraceInv
  OBVIOUS
<1>1. OnlineIsOn /\ waiters = {}
  BY DEF Init, OnlineIsOn
<1> QED
  BY <1>1, CloserInit DEF GraceInv

\* A thread that waited before the step and waits after it keeps its first
\* tick, and no session joins those it waits for.
LEMMA WaiterKept ==
  ASSUME TypeOK, [Next]_vars, NEW w \in waiters, w \in waiters'
  PROVE  \/ tick0'[w] = tick0[w] /\ held'[w] \subseteq held[w]
         \/ WaitEnter(w)
<1> USE DEF TypeOK
<1>1. ASSUME NEW t \in Thread, Start(t) \/ ExitClosing(t) \/ ExitMask(t) \/ ExitTick(t) \/ ExitReset(t)
      PROVE  UNCHANGED <<tick0, held>>
  BY <1>1 DEF Start, ExitClosing, ExitMask, ExitTick, ExitReset
<1>2. ASSUME NEW t \in Thread, ExitClear(t) PROVE tick0' = tick0 /\ held'[w] \subseteq held[w]
  BY <1>2 DEF ExitClear
<1>3. ASSUME NEW t \in Thread, WaitEnter(t), t # w PROVE tick0'[w] = tick0[w] /\ held'[w] = held[w]
  BY <1>3 DEF WaitEnter
<1>4. ASSUME NEW t \in Thread, WaitAgain(t) PROVE UNCHANGED <<tick0, held>>
  BY <1>4 DEF WaitAgain
<1>5. ASSUME NEW t \in Thread, WaitReturn(t) PROVE tick0'[w] = tick0[w] /\ held' = held
  BY <1>5 DEF WaitReturn
<1>6. CASE UNCHANGED vars
  BY <1>6 DEF vars
<1> QED
  BY <1>1, <1>2, <1>3, <1>4, <1>5, <1>6 DEF Next

\* Only its own exit ends a session, and then no waiter waits for it.
LEMMA HeldOpen ==
  ASSUME TypeOK, [Next]_vars, NEW u \in Thread, pc[u] = "on"
  PROVE  \/ pc'[u] = "on"
         \/ \A w \in Thread : u \notin held'[w]
<1> USE DEF TypeOK, Goto
<1>1. ASSUME NEW t \in Thread, ExitClear(t) PROVE pc'[u] = "on" \/ \A w \in Thread : u \notin held'[w]
  BY <1>1 DEF ExitClear
<1>2. ASSUME NEW t \in Thread,
             \/ Start(t) \/ ExitClosing(t) \/ ExitMask(t) \/ ExitTick(t) \/ ExitReset(t)
             \/ WaitEnter(t) \/ WaitAgain(t) \/ WaitReturn(t)
      PROVE  pc'[u] = "on"
  BY <1>2 DEF Start, ExitClosing, ExitMask, ExitTick, ExitReset, WaitEnter, WaitAgain, WaitReturn
<1>3. CASE UNCHANGED vars
  BY <1>3 DEF vars
<1> QED
  BY <1>1, <1>2, <1>3 DEF Next

\* A thread begins to wait by WaitEnter only.
LEMMA WaiterNew ==
  ASSUME [Next]_vars, NEW w \in Thread, w \notin waiters, w \in waiters'
  PROVE  WaitEnter(w)
BY DEF Next, vars, Start, ExitClear, ExitClosing, ExitMask, ExitTick, ExitReset, WaitEnter,
       WaitAgain, WaitReturn

\* Every step keeps it: a wait that begins is owed fewer ticks than there are
\* threads, and from then on every tick counted is a tick paid.
LEMMA GraceStep ==
  ASSUME IsFiniteSet(Thread), GraceInv, CloserInv', [Next]_vars
  PROVE  GraceInv'
<1>0. TypeOK /\ TypeOK' /\ CloserInv /\ OnlineIsOn
  BY DEF GraceInv, CloserInv
<1>1. OnlineIsOn'
  BY <1>0, OnlineStep
<1>2. Cardinality(Thread) \in Nat
  BY FS_CardinalityType
<1>3. ASSUME NEW w \in waiters', NEW u \in held'[w]
      PROVE  pc'[u] = "on" /\ Elapsed(w)' + Owed(u)' < Cardinality(Thread)
  <2>0. w \in Thread /\ u \in Thread
    BY <1>0, <1>3 DEF TypeOK
  <2>1. Owed(u) \in Nat
    BY StaleFinite
  <2>2. Owed(u)' \in Nat
    <3>1. Stale(u)' \subseteq Thread
      BY DEF Stale
    <3>2. Cardinality(Stale(u)') \in Nat
      BY <3>1, FS_Subset, FS_CardinalityType
    <3>3. Debt(u)' \in {0, 1}
      BY DEF Debt
    <3> QED
      BY <3>2, <3>3 DEF Owed
  <2>3. CASE WaitEnter(w)
    <3>1. held'[w] = online /\ tick' = tick /\ tick0'[w] = tick /\ pc[w] = "off"
      BY <1>0, <2>0, <2>3 DEF WaitEnter, TypeOK
    <3>2. pc[u] = "on"
      BY <1>0, <2>0, <3>1 DEF OnlineIsOn
    <3>3. pc'[u] = "on"
      BY <1>0, <2>0, <3>2, HeldOpen
    <3>4. Owed(u) < Cardinality(Thread)
      BY <2>0, <3>1, <3>2, OwedBound
    <3>5. Owed(u)' <= Owed(u)
      BY <1>0, <2>0, <2>1, <2>2, <3>2, <3>3, SessionPays
    <3>6. Elapsed(w)' = 0
      BY <1>0, <3>1, ElapsedTick DEF Elapsed, TypeOK
    <3> QED
      BY <1>2, <2>1, <2>2, <3>3, <3>4, <3>5, <3>6
  <2>4. CASE ~WaitEnter(w)
    <3>1. w \in waiters
      BY <2>0, <2>4, WaiterNew
    <3>2. tick0'[w] = tick0[w] /\ u \in held[w]
      BY <1>0, <2>4, <3>1, WaiterKept
    <3>3. pc[u] = "on" /\ Elapsed(w) + Owed(u) < Cardinality(Thread)
      BY <3>1, <3>2 DEF GraceInv
    <3>4. pc'[u] = "on"
      BY <1>0, <2>0, <3>3, HeldOpen
    <3>5. \/ tick' = tick /\ Owed(u)' <= Owed(u)
          \/ tick' = (tick + 1) % TickMod /\ Owed(u)' + 1 <= Owed(u)
      BY <1>0, <2>0, <3>3, <3>4, SessionPays
    <3>6. tick \in Tick /\ tick0[w] \in Tick
      BY <1>0, <2>0 DEF TypeOK
    <3>7. Elapsed(w) \in Nat
      BY <3>6, ElapsedTick DEF Elapsed
    <3>8. CASE tick' = tick /\ Owed(u)' <= Owed(u)
      <4>1. Elapsed(w)' = Elapsed(w)
        BY <3>2, <3>8 DEF Elapsed
      <4> QED
        BY <1>2, <2>1, <2>2, <3>3, <3>4, <3>7, <3>8, <4>1
    <3>9. CASE tick' = (tick + 1) % TickMod /\ Owed(u)' + 1 <= Owed(u)
      <4>1. Elapsed(w)' <= Elapsed(w) + 1
        BY <3>2, <3>6, <3>9, ElapsedTick DEF Elapsed
      <4>2. Elapsed(w)' \in Nat
        BY <1>0, <2>0, ElapsedTick DEF Elapsed, TypeOK
      <4> QED
        BY <1>2, <2>1, <2>2, <3>3, <3>4, <3>7, <3>9, <4>1, <4>2
    <3> QED
      BY <3>5, <3>8, <3>9
  <2> QED
    BY <2>3, <2>4
<1> QED
  BY <1>1, <1>3 DEF GraceInv

\* While a session that a wait is about stays open, the ticks the waiter has
\* counted and those the session may still see stay below the number of threads.
LEMMA GraceInvariant == ASSUME IsFiniteSet(Thread) PROVE Spec => []GraceInv
<1>1. Init => GraceInv
  BY GraceInit
<1>2. GraceInv /\ CloserInv' /\ [Next]_vars => GraceInv'
  BY GraceStep
<1> QED
  BY <1>1, <1>2, CloserInvariant, PTL DEF Spec

\* With as many ticks as there are threads the wait of spt_thread.c gives what
\* the comment at splitter.c:1781 asks of it: every session that was open when
\* it began is over.  The wait for two ticks is enough for two threads.
THEOREM EnoughTicks ==
  ASSUME IsFiniteSet(Thread), Cardinality(Thread) <= WaitTicks
  PROVE  Spec => GracePeriod
<1> DEFINE Over == \A w \in Thread : w \in waiters /\ w \notin waiters' => held[w] = {}
<1>1. Spec => []GraceInv
  BY GraceInvariant
<1>2. GraceInv /\ [Next]_vars => [Over]_vars
  <2> SUFFICES ASSUME GraceInv, Next,
                      NEW w \in Thread, w \in waiters, w \notin waiters',
                      NEW u \in held[w]
               PROVE  FALSE
    OBVIOUS
  <2>1. WaitReturn(w)
    BY DEF Next, Start, ExitClear, ExitClosing, ExitMask, ExitTick, ExitReset, WaitEnter,
           WaitAgain, WaitReturn
  <2>2. Elapsed(w) >= WaitTicks
    BY <2>1 DEF WaitReturn
  <2>3. Elapsed(w) + Owed(u) < Cardinality(Thread)
    BY DEF GraceInv
  <2>4. Elapsed(w) \in Nat /\ Owed(u) \in Nat
    BY StaleFinite, ElapsedTick DEF GraceInv, CloserInv, TypeOK, Elapsed
  <2>5. Cardinality(Thread) \in Nat /\ WaitTicks \in Nat
    BY FS_CardinalityType, TickAssumption
  <2> QED
    BY <2>2, <2>3, <2>4, <2>5
<1> QED
  BY <1>1, <1>2, PTL DEF Spec, GracePeriod
-----------------------------------------------------------------------------
(* The sessions of two threads.                                             *)

\* u's session may still see a tick.
MaySee(u) == Debt(u) = 1 \/ Stale(u) # {}

\* With two threads an open session sees one tick more at most: whoever closes
\* the round is the only other thread, which then keeps no map, and reopens
\* the map with u's bit in it.
LEMMA SeesOnce ==
  ASSUME IsFiniteSet(Thread), Cardinality(Thread) <= 2, CloserInv, OnlineIsOn, [Next]_vars,
         NEW u \in Thread, pc[u] = "on", pc'[u] = "on"
  PROVE  \/ tick' = tick /\ (MaySee(u)' => MaySee(u))
         \/ tick' = (tick + 1) % TickMod /\ MaySee(u) /\ ~ MaySee(u)'
<1>1. /\ Owed(u) \in Nat /\ Debt(u) \in {0, 1}
      /\ IsFiniteSet(Stale(u)) /\ Cardinality(Stale(u)) \in Nat
  BY StaleFinite
<1>2. Stale(u)' \subseteq Thread
  BY DEF Stale
<1>3. /\ IsFiniteSet(Stale(u)') /\ Cardinality(Stale(u)') \in Nat
      /\ Debt(u)' \in {0, 1} /\ Owed(u)' \in Nat
  <2>1. IsFiniteSet(Stale(u)') /\ Cardinality(Stale(u)') \in Nat
    BY <1>2, FS_Subset, FS_CardinalityType
  <2>2. Debt(u)' \in {0, 1}
    BY DEF Debt
  <2> QED
    BY <2>1, <2>2 DEF Owed
<1>4. /\ MaySee(u) <=> Owed(u) > 0
      /\ MaySee(u)' <=> Owed(u)' > 0
  <2>1. Cardinality(Stale(u)) = 0 <=> Stale(u) = {}
    BY <1>1, FS_EmptySet
  <2>2. Cardinality(Stale(u)') = 0 <=> Stale(u)' = {}
    BY <1>3, FS_EmptySet
  <2>3. Owed(u) = Debt(u) + Cardinality(Stale(u)) /\ Owed(u)' = Debt(u)' + Cardinality(Stale(u)')
    BY DEF Owed
  <2>4. /\ MaySee(u) <=> Debt(u) = 1 \/ Stale(u) # {}
        /\ MaySee(u)' <=> Debt(u)' = 1 \/ Stale(u)' # {}
    BY DEF MaySee
  <2> QED
    BY <1>1, <1>3, <2>1, <2>2, <2>3, <2>4
<1>5. \/ tick' = tick /\ Owed(u)' <= Owed(u)
      \/ tick' = (tick + 1) % TickMod /\ Owed(u)' + 1 <= Owed(u)
  BY SessionPays
<1>6. CASE tick' = tick
  <2>1. Owed(u)' <= Owed(u)
    BY <1>1, <1>3, <1>5
  <2> QED
    BY <1>1, <1>3, <1>4, <1>6, <2>1
<1>7. CASE tick' # tick
  <2>1. PICK t \in Thread : ExitTick(t)
    BY <1>7 DEF Next, vars, Start, ExitClear, ExitClosing, ExitMask, ExitReset, WaitEnter,
           WaitAgain, WaitReturn
  <2>2. pc[t] = "tick" /\ t # u /\ pc' = [pc EXCEPT ![t] = "reset"] /\ olmap' = olmap
    BY <2>1 DEF ExitTick, Goto
  <2>3. Thread = {t, u}
    <3>1. IsFiniteSet(Thread \ {t}) /\ Cardinality(Thread \ {t}) = Cardinality(Thread) - 1
      BY FS_RemoveElement
    <3> DEFINE S == Thread \ {t}
    <3>2. IsFiniteSet(S \ {u}) /\ Cardinality(S \ {u}) = Cardinality(S) - 1
      <4>1. IsFiniteSet(S) /\ u \in S
        BY <2>2, <3>1
      <4> HIDE DEF S
      <4> QED
        BY <4>1, FS_RemoveElement
    <3>3. Cardinality(S \ {u}) \in Nat /\ Cardinality(Thread) \in Nat
      BY <3>2, FS_CardinalityType
    <3>4. Cardinality(S \ {u}) = 0
      BY <3>1, <3>2, <3>3
    <3>5. S \ {u} = {}
      BY <3>2, <3>4, FS_EmptySet
    <3> QED
      BY <3>5
  <2>4. pc \in [Thread -> Control]
    BY DEF CloserInv, TypeOK
  <2>5. Stale(u)' = {}
    <3>1. pc'[t] = "reset" /\ pc'[u] = "on"
      BY <2>2, <2>4
    <3> QED
      BY <2>3, <3>1 DEF Stale
  <2>6. Debt(u)' = 0
    BY <2>2, <2>4 DEF Debt
  <2>7. ~ MaySee(u)'
    BY <2>5, <2>6 DEF MaySee
  <2>8. Owed(u)' + 1 <= Owed(u)
    BY <1>5, <1>7
  <2>9. MaySee(u)
    BY <1>1, <1>3, <1>4, <2>8
  <2> QED
    BY <1>5, <1>7, <2>7, <2>9
<1> QED
  BY <1>6, <1>7
=============================================================================
