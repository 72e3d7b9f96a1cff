-------------------------- MODULE FreeList_proofs --------------------------
(***************************************************************************)
(* Proofs about FreeList, for any number of threads and units: the list is *)
(* whole, though its compare-and-swaps cannot tell a unit from the same    *)
(* unit pushed again.                                                      *)
(*                                                                         *)
(* The invariant rests on where the head that a thread has read may be     *)
(* (Popping): still on the list, with the next that was read; or popped    *)
(* and in use; or given up, and then this thread's session is among those  *)
(* that keep it from being pushed.  So when the compare-and-swap finds     *)
(* that unit at the head, the unit never left.                             *)
(***************************************************************************)
EXTENDS FreeList, TLAPS

\* A pop or a push is made inside a session.
InSession == \A t \in Thread : loc[t].pc # "idle" => t \in online

\* Where the head that a pop has read may be.
Popping ==
  \A t \in Thread : loc[t].pc \in {"next", "take"} =>
    LET cur == loc[t].cur
    IN  /\ cur \in Unit
        /\ \/ place[cur] = "free" /\ (loc[t].pc = "take" => next[cur] = loc[t].nxt)
           \/ place[cur] = "used"
           \/ place[cur] = "given" /\ t \in hold[cur]

\* What a push carries: a chain linked in order, its end to the head read.
Pushing ==
  \A t \in Thread :
    LET chain == loc[t].chain
    IN  IF loc[t].pc \in {"link", "push"}
        THEN /\ chain # <<>>
             /\ \A i \in 1 .. Len(chain) - 1 : next[chain[i]] = chain[i + 1]
             /\ loc[t].pc = "push" => next[chain[Len(chain)]] = loc[t].nxt
        ELSE chain = <<>>

Inv == TypeOK /\ ListWhole /\ OnePlace /\ InSession /\ Popping /\ Pushing
-----------------------------------------------------------------------------
\* The rest of a list holds what the list holds, but for its head.
LEMMA TailElems ==
  ASSUME NEW S, NEW s \in Seq(S), s # <<>>,
         \A i, j \in 1 .. Len(s) : s[i] = s[j] => i = j
  PROVE  /\ Tail(s) \in Seq(S)
         /\ Len(Tail(s)) = Len(s) - 1
         /\ \A i \in 1 .. Len(s) - 1 : Tail(s)[i] = s[i + 1]
         /\ Elems(Tail(s)) = Elems(s) \ {s[1]}
<1>1. /\ Tail(s) \in Seq(S)
      /\ Len(s) \in Nat \ {0}
      /\ Len(Tail(s)) = Len(s) - 1
      /\ \A i \in 1 .. Len(s) - 1 : Tail(s)[i] = s[i + 1]
  OBVIOUS
<1>2. ASSUME NEW x \in Elems(Tail(s)) PROVE x \in Elems(s) \ {s[1]}
  BY <1>1 DEF Elems
<1>3. ASSUME NEW x \in Elems(s) \ {s[1]} PROVE x \in Elems(Tail(s))
  <2>1. PICK i \in 1 .. Len(s) : x = s[i]
    BY <1>3 DEF Elems
  <2>2. i # 1
    BY <1>3, <2>1
  <2>3. i - 1 \in 1 .. Len(Tail(s)) /\ Tail(s)[i - 1] = s[i]
    BY <1>1, <2>1, <2>2
  <2> QED
    BY <2>1, <2>3 DEF Elems
<1> QED
  BY <1>1, <1>2, <1>3

\* Chains that stay as they are keep apart.
LEMMA ChainsApart ==
  ASSUME OnePlace, \A v \in Thread : loc'[v].chain = loc[v].chain
  PROVE  \A v, w \in Thread :
           \A i \in 1 .. Len(loc'[v].chain), j \in 1 .. Len(loc'[w].chain) :
             loc'[v].chain[i] = loc'[w].chain[j] => v = w /\ i = j
<1> TAKE v, w \in Thread
<1>1. loc'[v].chain = loc[v].chain /\ loc'[w].chain = loc[w].chain
  OBVIOUS
<1>2. \A i \in 1 .. Len(loc[v].chain), j \in 1 .. Len(loc[w].chain) :
        loc[v].chain[i] = loc[w].chain[j] => v = w /\ i = j
  BY DEF OnePlace
<1> QED
  BY <1>1, <1>2

\* Every chain, the list and every place stay as they are: so does OnePlace.
LEMMA SamePlace ==
  ASSUME OnePlace, \A v \in Thread : loc'[v].chain = loc[v].chain, free' = free, place' = place
  PROVE  OnePlace'
<1>1. \A v \in Thread : Elems(loc'[v].chain) = Elems(loc[v].chain)
  OBVIOUS
<1>2. \A i, j \in 1 .. Len(free') : free'[i] = free'[j] => i = j
  BY DEF OnePlace
<1>3. \A u \in Unit : place'[u] = "free" <=> u \in Elems(free')
  BY DEF OnePlace
<1>4. \A u \in Unit : place'[u] = "moving" <=> \E v \in Thread : u \in Elems(loc'[v].chain)
  BY <1>1 DEF OnePlace
<1>5. \A v, w \in Thread :
        \A i \in 1 .. Len(loc'[v].chain), j \in 1 .. Len(loc'[w].chain) :
          loc'[v].chain[i] = loc'[w].chain[j] => v = w /\ i = j
  BY ChainsApart
<1> QED
  BY <1>2, <1>3, <1>4, <1>5 DEF OnePlace

\* A chain whose thread and units stay as they are is still linked.
LEMMA ChainKept ==
  ASSUME NEW v \in Thread, Pushing, loc'[v] = loc[v], loc[v].chain \in Seq(Unit),
         \A i \in 1 .. Len(loc[v].chain) : next'[loc[v].chain[i]] = next[loc[v].chain[i]]
  PROVE  LET chain == loc'[v].chain
         IN  IF loc'[v].pc \in {"link", "push"}
             THEN /\ chain # <<>>
                  /\ \A i \in 1 .. Len(chain) - 1 : next'[chain[i]] = chain[i + 1]
                  /\ loc'[v].pc = "push" => next'[chain[Len(chain)]] = loc'[v].nxt
             ELSE chain = <<>>
<1> DEFINE chain == loc[v].chain
<1>1. chain # <<>> => Len(chain) \in 1 .. Len(chain)
  OBVIOUS
<1>2. \A i \in 1 .. Len(chain) - 1 : i \in 1 .. Len(chain)
  OBVIOUS
<1>3. IF loc[v].pc \in {"link", "push"}
      THEN /\ chain # <<>>
           /\ \A i \in 1 .. Len(chain) - 1 : next[chain[i]] = chain[i + 1]
           /\ loc[v].pc = "push" => next[chain[Len(chain)]] = loc[v].nxt
      ELSE chain = <<>>
  BY DEF Pushing
<1> QED
  BY <1>1, <1>2, <1>3

\* A chain put before a list.
LEMMA ConcatElems ==
  ASSUME NEW S, NEW c \in Seq(S), NEW s \in Seq(S)
  PROVE  /\ c \o s \in Seq(S)
         /\ Len(c \o s) = Len(c) + Len(s)
         /\ Len(c) \in Nat /\ Len(s) \in Nat
         /\ \A i \in 1 .. Len(c) : (c \o s)[i] = c[i]
         /\ \A i \in 1 .. Len(s) : (c \o s)[Len(c) + i] = s[i]
         /\ \A i \in 1 .. Len(c) + Len(s) : i <= Len(c) \/ i - Len(c) \in 1 .. Len(s)
         /\ Elems(c \o s) = Elems(c) \union Elems(s)
<1>1. /\ c \o s \in Seq(S)
      /\ Len(c \o s) = Len(c) + Len(s)
      /\ Len(c) \in Nat /\ Len(s) \in Nat
      /\ \A i \in 1 .. Len(c) : (c \o s)[i] = c[i]
  OBVIOUS
<1>2. ASSUME NEW i \in 1 .. Len(s) PROVE (c \o s)[Len(c) + i] = s[i]
  BY <1>1
<1>3. \A i \in 1 .. Len(c) + Len(s) : i <= Len(c) \/ i - Len(c) \in 1 .. Len(s)
  BY <1>1
<1>4. ASSUME NEW x \in Elems(c \o s) PROVE x \in Elems(c) \union Elems(s)
  <2>1. PICK i \in 1 .. Len(c) + Len(s) : x = (c \o s)[i]
    BY <1>1, <1>4 DEF Elems
  <2>2. CASE i <= Len(c)
    BY <1>1, <2>1, <2>2 DEF Elems
  <2>3. CASE i - Len(c) \in 1 .. Len(s)
    <3>1. (c \o s)[Len(c) + (i - Len(c))] = s[i - Len(c)]
      BY <1>2, <2>3
    <3>2. Len(c) + (i - Len(c)) = i
      BY <1>1
    <3> QED
      BY <2>1, <2>3, <3>1, <3>2 DEF Elems
  <2> QED
    BY <1>3, <2>1, <2>2, <2>3
<1>5. ASSUME NEW x \in Elems(c) \union Elems(s) PROVE x \in Elems(c \o s)
  <2>1. CASE x \in Elems(c)
    <3>1. PICK i \in 1 .. Len(c) : x = c[i]
      BY <2>1 DEF Elems
    <3>2. i \in 1 .. Len(c \o s)
      BY <1>1
    <3> QED
      BY <1>1, <3>1, <3>2 DEF Elems
  <2>2. CASE x \in Elems(s)
    <3>1. PICK i \in 1 .. Len(s) : x = s[i]
      BY <2>2 DEF Elems
    <3>2. Len(c) + i \in 1 .. Len(c \o s) /\ (c \o s)[Len(c) + i] = x
      BY <1>1, <1>2, <3>1
    <3> QED
      BY <3>2 DEF Elems
  <2> QED
    BY <1>5, <2>1, <2>2
<1> QED
  BY <1>1, <1>2, <1>3, <1>4, <1>5
-----------------------------------------------------------------------------
\* The list starts empty.
LEMMA InitInv == ASSUME ListAssumption PROVE Init => Inv
<1> SUFFICES ASSUME Init PROVE Inv
  OBVIOUS
<1> USE ListAssumption DEF Init
<1>1. TypeOK
  BY DEF TypeOK, Local, Link, Control, Place, Idle
<1>2. ListWhole
  BY DEF ListWhole
<1>3. OnePlace
  BY DEF OnePlace, Elems, Idle
<1>4. InSession /\ Popping /\ Pushing
  BY DEF InSession, Popping, Pushing, Idle
<1> QED
  BY <1>1, <1>2, <1>3, <1>4 DEF Inv

\* A session begins or ends: whoever pops is inside one.
LEMMA SessionInv ==
  ASSUME Inv, NEW t \in Thread, Begin(t) \/ End(t)
  PROVE  Inv'
<1> USE DEF Inv
<1>0. /\ UNCHANGED <<head, next, loc, free, place>>
      /\ online' \in SUBSET Thread
      /\ loc[t].pc = "idle"
      /\ \A v \in Thread \ {t} : v \in online' <=> v \in online
      /\ \A u \in Unit : \A v \in Thread \ {t} : v \in hold'[u] <=> v \in hold[u]
      /\ hold' \in [Unit -> SUBSET Thread]
  BY DEF TypeOK, Begin, End, At
<1>1. TypeOK' /\ ListWhole' /\ OnePlace' /\ Pushing'
  BY <1>0 DEF TypeOK, ListWhole, OnePlace, Pushing
<1>2. InSession'
  BY <1>0 DEF InSession
<1>3. Popping'
  BY <1>0 DEF Popping
<1> QED
  BY <1>1, <1>2, <1>3

\* Thread t moves on to m in a pop.
Moves(t, m) ==
  /\ Become(t, m)
  /\ m.chain = <<>> /\ loc[t].chain = <<>>
  /\ m.pc \notin {"link", "push"}
  /\ t \in online
  /\ UNCHANGED <<head, next, online, free, place, hold>>
  /\ m.pc \in {"next", "take"} =>
       /\ m.cur \in Unit
       /\ \/ place[m.cur] = "free" /\ (m.pc = "take" => next[m.cur] = m.nxt)
          \/ place[m.cur] = "used"
          \/ place[m.cur] = "given" /\ t \in hold[m.cur]

\* A step of a pop that only moves the thread on.
LEMMA PopInv ==
  ASSUME ListAssumption, Inv, NEW t \in Thread,
         \/ Alloc(t) \/ Read(t) \/ ReadNext(t) \/ GrowFail(t)
         \/ Take(t) /\ head # loc[t].cur
  PROVE  Inv'
<1> USE DEF Inv
<1>0. PICK m \in Local : Moves(t, m)
  <2>1. CASE Alloc(t)
    <3>1. PICK tried \in FirstTry : Become(t, [Idle EXCEPT !.pc = "read", !.tried = tried])
      BY <2>1 DEF Alloc
    <3> DEFINE m == [Idle EXCEPT !.pc = "read", !.tried = tried]
    <3>2. m \in Local /\ m.chain = <<>> /\ m.pc = "read"
      <4>1. tried \in BOOLEAN
        BY ListAssumption DEF ListAssumption
      <4>2. Idle \in Local
        BY DEF Idle, Local, Control, Link
      <4>3. Idle.chain = <<>>
        BY DEF Idle
      <4> QED
        BY <4>1, <4>2, <4>3 DEF Local, Control
    <3>3. /\ Become(t, m) /\ t \in online /\ loc[t].chain = <<>>
          /\ UNCHANGED <<head, next, online, free, place, hold>>
      BY <2>1, <3>1 DEF Alloc, At, Pushing
    <3> HIDE DEF m
    <3>4. Moves(t, m)
      BY <3>2, <3>3 DEF Moves
    <3> QED
      BY <3>2, <3>4
  <2>2. CASE Read(t)
    <3> DEFINE m == [loc[t] EXCEPT !.pc = IF head = Nil THEN "grow" ELSE "next", !.cur = head]
    <3>1. m \in Local /\ loc[t].chain = <<>> /\ t \in online
      <4>1. loc[t] \in Local /\ head \in Link /\ loc[t].pc = "read"
        BY <2>2 DEF Read, At, TypeOK
      <4>2. m \in Local
        BY <4>1 DEF Local, Control
      <4>3. loc[t].chain = <<>>
        BY <4>1 DEF Pushing
      <4> QED
        BY <4>1, <4>2, <4>3 DEF InSession
    <3>2. head # Nil => head \in Unit /\ place[head] = "free"
      <4> SUFFICES ASSUME head # Nil PROVE head \in Unit /\ place[head] = "free"
        OBVIOUS
      <4>1. free \in Seq(Unit) /\ free # <<>> /\ head = free[1]
        BY DEF TypeOK, ListWhole
      <4>2. 1 \in 1 .. Len(free)
        BY <4>1
      <4>3. head \in Elems(free) /\ head \in Unit
        BY <4>1, <4>2 DEF Elems
      <4> QED
        BY <4>3 DEF OnePlace
    <3>3. m.chain = loc[t].chain /\ m.cur = head /\ m.pc = IF head = Nil THEN "grow" ELSE "next"
      BY DEF TypeOK, Local
    <3>4. Become(t, m) /\ UNCHANGED <<head, next, online, free, place, hold>>
      BY <2>2 DEF Read
    <3> HIDE DEF m
    <3>5. Moves(t, m)
      BY <3>1, <3>2, <3>3, <3>4 DEF Moves
    <3> QED
      BY <3>1, <3>5
  <2>3. CASE ReadNext(t)
    <3>1. PICK n \in IF loc[t].cur \in Elems(free) THEN {next[loc[t].cur]} ELSE Stray :
            Become(t, [loc[t] EXCEPT !.pc = "take", !.nxt = n])
      BY <2>3 DEF ReadNext
    <3> DEFINE m == [loc[t] EXCEPT !.pc = "take", !.nxt = n]
    <3>2. loc[t] \in Local /\ loc[t].pc = "next" /\ loc[t].chain = <<>> /\ t \in online
      BY <2>3 DEF ReadNext, At, TypeOK, Pushing, InSession
    <3>3. loc[t].cur \in Unit
      BY <3>2 DEF Popping
    <3>4. n \in Link
      BY <3>3 DEF TypeOK, ListAssumption, Link
    <3>5. m \in Local /\ m.chain = loc[t].chain /\ m.cur = loc[t].cur /\ m.nxt = n /\ m.pc = "take"
      BY <3>2, <3>4 DEF Local, Control
    <3>6. UNCHANGED <<head, next, online, free, place, hold>>
      BY <2>3 DEF ReadNext
    <3>7. place[loc[t].cur] = "free" => n = next[loc[t].cur]
      BY <3>1, <3>3 DEF OnePlace
    <3>8. \/ place[loc[t].cur] = "free" /\ next[loc[t].cur] = n
          \/ place[loc[t].cur] = "used"
          \/ place[loc[t].cur] = "given" /\ t \in hold[loc[t].cur]
      BY <3>2, <3>7 DEF Popping
    <3>9. Become(t, m)
      BY <3>1
    <3> HIDE DEF m
    <3>10. Moves(t, m)
      BY <3>2, <3>3, <3>5, <3>6, <3>8, <3>9 DEF Moves
    <3> QED
      BY <3>5, <3>10
  <2>4. CASE GrowFail(t)
    <3> DEFINE m == [loc[t] EXCEPT !.pc = IF loc[t].tried THEN "idle" ELSE "read", !.tried = TRUE]
    <3>1. loc[t] \in Local /\ loc[t].chain = <<>> /\ t \in online
      BY <2>4 DEF GrowFail, At, TypeOK, Pushing, InSession
    <3>2. m \in Local /\ m.chain = loc[t].chain /\ m.pc \in {"idle", "read"}
      BY <3>1 DEF Local, Control
    <3>3. Become(t, m) /\ UNCHANGED <<head, next, online, free, place, hold>>
      BY <2>4 DEF GrowFail
    <3> HIDE DEF m
    <3>4. Moves(t, m)
      BY <3>1, <3>2, <3>3 DEF Moves
    <3> QED
      BY <3>2, <3>4
  <2>5. CASE Take(t) /\ head # loc[t].cur
    <3> DEFINE m == [loc[t] EXCEPT !.pc = "read"]
    <3>1. loc[t] \in Local /\ loc[t].chain = <<>> /\ t \in online
      BY <2>5 DEF Take, At, TypeOK, Pushing, InSession
    <3>2. m \in Local /\ m.chain = loc[t].chain /\ m.pc = "read"
      BY <3>1 DEF Local, Control
    <3>3. Become(t, m) /\ UNCHANGED <<head, next, online, free, place, hold>>
      BY <2>5 DEF Take, Goto
    <3> HIDE DEF m
    <3>4. Moves(t, m)
      BY <3>1, <3>2, <3>3 DEF Moves
    <3> QED
      BY <3>2, <3>4
  <2> QED
    BY <2>1, <2>2, <2>3, <2>4, <2>5
<1>1. /\ loc'[t] = m
      /\ \A v \in Thread \ {t} : loc'[v] = loc[v]
      /\ loc' \in [Thread -> Local]
  BY <1>0 DEF TypeOK, Become, Moves
<1>2. TypeOK' /\ ListWhole'
  BY <1>0, <1>1 DEF Moves, TypeOK, ListWhole
<1>3. OnePlace'
  <2>1. \A v \in Thread : loc'[v].chain = loc[v].chain
    BY <1>0, <1>1 DEF Moves
  <2>2. free' = free /\ place' = place
    BY <1>0 DEF Moves
  <2> QED
    BY <2>1, <2>2, SamePlace
<1>4. InSession'
  BY <1>0, <1>1 DEF Moves, InSession
<1>5. Popping'
  <2> SUFFICES ASSUME NEW v \in Thread, loc'[v].pc \in {"next", "take"}
               PROVE  /\ loc'[v].cur \in Unit
                      /\ \/ place[loc'[v].cur] = "free"
                            /\ (loc'[v].pc = "take" => next[loc'[v].cur] = loc'[v].nxt)
                         \/ place[loc'[v].cur] = "used"
                         \/ place[loc'[v].cur] = "given" /\ v \in hold[loc'[v].cur]
    BY <1>0 DEF Popping, Moves
  <2> QED
    BY <1>0, <1>1 DEF Moves, Popping
<1>6. Pushing'
  BY <1>0, <1>1 DEF Moves, Pushing
<1> QED
  BY <1>2, <1>3, <1>4, <1>5, <1>6

\* The compare-and-swap of a pop takes the head off and leaves the rest whole.
LEMMA TakeInv ==
  ASSUME ListAssumption, Inv, NEW t \in Thread, Take(t), head = loc[t].cur
  PROVE  Inv'
<1> USE DEF Inv
<1> DEFINE cur == loc[t].cur
           nxt == loc[t].nxt
           m == [loc[t] EXCEPT !.pc = "idle"]
<1>1. /\ loc[t] \in Local /\ loc[t].pc = "take" /\ loc[t].chain = <<>> /\ t \in online
      /\ cur \in Unit /\ nxt \in Link
      /\ free \in Seq(Unit)
  BY DEF Take, At, TypeOK, Pushing, InSession, Popping, Local
<1>2. /\ head' = nxt /\ free' = Tail(free)
      /\ place' = [place EXCEPT ![cur] = "used"]
      /\ Become(t, m)
      /\ UNCHANGED <<next, online, hold>>
  BY DEF Take, Goto
<1>3. m \in Local /\ m.pc = "idle" /\ m.chain = <<>>
  BY <1>1 DEF Local, Control
<1> HIDE DEF m
<1>4. /\ loc'[t] = m
      /\ \A v \in Thread \ {t} : loc'[v] = loc[v]
      /\ loc' \in [Thread -> Local]
  BY <1>2, <1>3 DEF TypeOK, Become
<1>5. free # <<>> /\ cur = free[1]
  <2>1. free = <<>> => FALSE
    BY <1>1, ListAssumption DEF ListWhole, ListAssumption
  <2> QED
    BY <2>1 DEF ListWhole
<1>6. place[cur] = "free" /\ next[cur] = nxt
  <2>1. cur \in Elems(free)
    BY <1>1, <1>5 DEF Elems
  <2> QED
    BY <1>1, <2>1 DEF OnePlace, Popping
<1>7. /\ free' \in Seq(Unit) /\ Len(free) \in Nat \ {0}
      /\ Len(free') = Len(free) - 1
      /\ \A i \in 1 .. Len(free) - 1 : free'[i] = free[i + 1]
      /\ Elems(free') = Elems(free) \ {cur}
  BY <1>1, <1>2, <1>5, TailElems DEF OnePlace
<1>8. /\ place' \in [Unit -> Place] /\ place'[cur] = "used"
      /\ \A u \in Unit \ {cur} : place'[u] = place[u]
  BY <1>1, <1>2 DEF TypeOK, Place
<1>9. TypeOK'
  BY <1>1, <1>2, <1>4, <1>7, <1>8 DEF TypeOK
<1>10. ListWhole'
  <2>1. head' = IF free' = <<>> THEN Nil ELSE free'[1]
    <3>1. 1 \in 1 .. Len(free)
      BY <1>7
    <3>2. nxt = IF 1 = Len(free) THEN Nil ELSE free[1 + 1]
      BY <1>5, <1>6, <3>1 DEF ListWhole
    <3>3. CASE Len(free) = 1
      <4>1. free' = <<>>
        BY <1>7, <3>3
      <4> QED
        BY <1>2, <3>2, <3>3, <4>1
    <3>4. CASE Len(free) # 1
      <4>1. free' # <<>> /\ 1 \in 1 .. Len(free) - 1 /\ 1 + 1 = 2
        BY <1>7, <3>4
      <4>2. free'[1] = free[1 + 1]
        BY <1>7, <4>1
      <4> QED
        BY <1>2, <3>2, <3>4, <4>1, <4>2
    <3> QED
      BY <3>3, <3>4
  <2>2. ASSUME NEW i \in 1 .. Len(free')
        PROVE  next'[free'[i]] = IF i = Len(free') THEN Nil ELSE free'[i + 1]
    <3>1. /\ i + 1 \in 1 .. Len(free) /\ free'[i] = free[i + 1]
          /\ i = Len(free') <=> i + 1 = Len(free)
          /\ i # Len(free') => free'[i + 1] = free[i + 1 + 1]
      BY <1>7
    <3>2. next[free[i + 1]] = IF i + 1 = Len(free) THEN Nil ELSE free[i + 1 + 1]
      BY <3>1 DEF ListWhole
    <3> QED
      BY <1>2, <3>1, <3>2
  <2> QED
    BY <2>1, <2>2 DEF ListWhole
<1>11. \A v \in Thread : loc'[v].chain = loc[v].chain
  BY <1>1, <1>3, <1>4
<1>12. OnePlace'
  <2>1. \A i, j \in 1 .. Len(free') : free'[i] = free'[j] => i = j
    <3> SUFFICES ASSUME NEW i \in 1 .. Len(free'), NEW j \in 1 .. Len(free'),
                        free'[i] = free'[j]
                 PROVE  i = j
      OBVIOUS
    <3>1. /\ i + 1 \in 1 .. Len(free) /\ j + 1 \in 1 .. Len(free)
          /\ free[i + 1] = free[j + 1]
      BY <1>7
    <3>2. i + 1 = j + 1
      BY <3>1 DEF OnePlace
    <3> QED
      BY <1>7, <3>2
  <2>2. \A u \in Unit : place'[u] = "free" <=> u \in Elems(free')
    BY <1>1, <1>6, <1>7, <1>8 DEF OnePlace
  <2>3. \A v \in Thread : Elems(loc'[v].chain) = Elems(loc[v].chain)
    BY <1>11
  <2>4. \A u \in Unit : place'[u] = "moving" <=> place[u] = "moving"
    BY <1>6, <1>8
  <2>5. \A u \in Unit : place'[u] = "moving" <=> \E v \in Thread : u \in Elems(loc'[v].chain)
    BY <2>3, <2>4 DEF OnePlace
  <2>6. \A a, b \in Thread :
          \A i \in 1 .. Len(loc'[a].chain), j \in 1 .. Len(loc'[b].chain) :
            loc'[a].chain[i] = loc'[b].chain[j] => a = b /\ i = j
    BY <1>11, ChainsApart
  <2>7. \A u \in Unit : place'[u] = "free" <=> u \in Elems(free')
    BY <2>2
  <2> HIDE DEF Inv
  <2> QED
    BY <2>1, <2>5, <2>6, <2>7 DEF OnePlace
<1>13. InSession'
  BY <1>2, <1>3, <1>4 DEF InSession
<1>14. Popping'
  <2> SUFFICES ASSUME NEW v \in Thread, loc'[v].pc \in {"next", "take"}
               PROVE  /\ loc'[v].cur \in Unit
                      /\ \/ place'[loc'[v].cur] = "free"
                            /\ (loc'[v].pc = "take" => next[loc'[v].cur] = loc'[v].nxt)
                         \/ place'[loc'[v].cur] = "used"
                         \/ place'[loc'[v].cur] = "given" /\ v \in hold[loc'[v].cur]
    BY <1>2 DEF Popping
  <2>1. v # t /\ loc'[v] = loc[v]
    BY <1>3, <1>4
  <2>2. CASE loc[v].cur = cur
    BY <1>1, <1>8, <2>1, <2>2
  <2>3. CASE loc[v].cur # cur
    BY <1>8, <2>1, <2>3 DEF Popping
  <2> QED
    BY <2>2, <2>3
<1>15. Pushing'
  BY <1>2, <1>3, <1>4 DEF Pushing
<1> QED
  BY <1>9, <1>10, <1>12, <1>13, <1>14, <1>15

\* Giving a unit up holds it for every session that is open.
LEMMA GiveUpInv ==
  ASSUME Inv, NEW t \in Thread, NEW u \in Unit, GiveUp(t, u)
  PROVE  Inv'
<1> USE DEF Inv
<1>1. /\ UNCHANGED <<head, next, loc, online, free>>
      /\ place[u] = "used" /\ place'[u] = "given"
      /\ place' \in [Unit -> Place]
      /\ hold'[u] = online /\ hold' \in [Unit -> SUBSET Thread]
      /\ \A x \in Unit \ {u} : place'[x] = place[x] /\ hold'[x] = hold[x]
  BY DEF GiveUp, TypeOK, Place
<1>2. TypeOK' /\ ListWhole' /\ InSession' /\ Pushing'
  BY <1>1 DEF TypeOK, ListWhole, InSession, Pushing
<1>3. OnePlace'
  <2>1. \A x \in Unit : /\ place'[x] = "free" <=> place[x] = "free"
                        /\ place'[x] = "moving" <=> place[x] = "moving"
    BY <1>1
  <2> QED
    BY <1>1, <2>1 DEF OnePlace
<1>4. Popping'
  <2> SUFFICES ASSUME NEW v \in Thread, loc[v].pc \in {"next", "take"}
               PROVE  /\ loc[v].cur \in Unit
                      /\ \/ place'[loc[v].cur] = "free"
                            /\ (loc[v].pc = "take" => next[loc[v].cur] = loc[v].nxt)
                         \/ place'[loc[v].cur] = "used"
                         \/ place'[loc[v].cur] = "given" /\ v \in hold'[loc[v].cur]
    BY <1>1 DEF Popping
  <2>1. v \in online /\ loc[v].cur \in Unit
    BY DEF InSession, Popping
  <2>2. CASE loc[v].cur = u
    BY <1>1, <2>1, <2>2
  <2>3. CASE loc[v].cur # u
    BY <1>1, <2>1, <2>3 DEF Popping
  <2> QED
    BY <2>2, <2>3
<1> QED
  BY <1>2, <1>3, <1>4

\* A thread takes units that nobody can have read as the head, and links them
\* to each other: new ones, or one given up that no session holds.
Takes(t, c, m) ==
  /\ c \in Seq(Unit) /\ c # <<>>
  /\ \A i, j \in 1 .. Len(c) : c[i] = c[j] => i = j
  /\ \A x \in Elems(c) : place[x] \in {"new", "given"} /\ (place[x] = "given" => hold[x] = {})
  /\ t \in online /\ loc[t].chain = <<>>
  /\ m \in Local /\ m.pc = "link" /\ m.chain = c
  /\ Become(t, m)
  /\ place' \in [Unit -> Place]
  /\ \A x \in Unit : place'[x] = IF x \in Elems(c) THEN "moving" ELSE place[x]
  /\ next' \in [Unit -> Link]
  /\ \A x \in Unit : x \notin Elems(c) => next'[x] = next[x]
  /\ \A i \in 1 .. Len(c) - 1 : next'[c[i]] = c[i + 1]
  /\ UNCHANGED <<head, online, free, hold>>

\* A unit, or a chain, that leaves its place for the hands of one thread.
LEMMA TakesInv ==
  ASSUME Inv, NEW t \in Thread, NEW c, NEW m, Takes(t, c, m)
  PROVE  Inv'
<1> USE DEF Inv
<1>1. /\ loc'[t] = m
      /\ \A v \in Thread \ {t} : loc'[v] = loc[v]
      /\ loc' \in [Thread -> Local]
  BY DEF TypeOK, Become, Takes
<1>2. /\ c \in Seq(Unit) /\ Len(c) \in Nat /\ free \in Seq(Unit)
      /\ Elems(c) \subseteq Unit /\ m.chain = c
      /\ \A x \in Elems(c) : place[x] # "free" /\ place[x] # "moving" /\ place[x] # "used"
      /\ UNCHANGED <<head, online, free, hold>>
  <2>1. c \in Seq(Unit) /\ m.chain = c /\ UNCHANGED <<head, online, free, hold>>
    BY DEF Takes
  <2>2. Len(c) \in Nat /\ free \in Seq(Unit)
    BY <2>1 DEF TypeOK
  <2>3. Elems(c) \subseteq Unit
    BY <2>1 DEF Elems
  <2>4. \A x \in Elems(c) : place[x] # "free" /\ place[x] # "moving" /\ place[x] # "used"
    BY DEF Takes
  <2> QED
    BY <2>1, <2>2, <2>3, <2>4
<1>3. \A i \in 1 .. Len(free) : free[i] \in Unit /\ free[i] \notin Elems(c)
  BY <1>2 DEF OnePlace, Elems
<1>4. \A v \in Thread \ {t} : \A i \in 1 .. Len(loc[v].chain) :
        loc[v].chain[i] \in Unit /\ loc[v].chain[i] \notin Elems(c)
  <2> SUFFICES ASSUME NEW v \in Thread \ {t}, NEW i \in 1 .. Len(loc[v].chain)
               PROVE  loc[v].chain[i] \in Unit /\ loc[v].chain[i] \notin Elems(c)
    OBVIOUS
  <2>1. loc[v].chain \in Seq(Unit)
    BY DEF TypeOK, Local
  <2>2. loc[v].chain[i] \in Unit /\ loc[v].chain[i] \in Elems(loc[v].chain)
    BY <2>1 DEF Elems
  <2>3. place[loc[v].chain[i]] = "moving"
    BY <2>2 DEF OnePlace
  <2> QED
    BY <1>2, <2>2, <2>3
<1>5. TypeOK'
  BY <1>1, <1>2 DEF TypeOK, Takes
<1>6. ListWhole'
  <2>1. \A i \in 1 .. Len(free) : next'[free[i]] = next[free[i]]
    BY <1>3 DEF Takes
  <2>2. free' = free /\ head' = head
    BY <1>2
  <2> QED
    BY <2>1, <2>2 DEF ListWhole
<1>7. OnePlace'
  <2>1. \A x \in Unit : place'[x] = "free" <=> place[x] = "free"
    BY <1>2 DEF Takes
  <2>2. \A x \in Unit : place'[x] = "moving" <=> \E v \in Thread : x \in Elems(loc'[v].chain)
    <3>1. Elems(loc'[t].chain) = Elems(c) /\ Elems(loc[t].chain) = {}
      BY <1>1, <1>2 DEF Takes, Elems
    <3>2. \A v \in Thread \ {t} : Elems(loc'[v].chain) = Elems(loc[v].chain)
      BY <1>1
    <3>3. \A x \in Unit : place'[x] = "moving" <=> x \in Elems(c) \/ place[x] = "moving"
      BY DEF Takes
    <3> QED
      BY <3>1, <3>2, <3>3 DEF OnePlace
  <2>3. \A v, w \in Thread :
          \A i \in 1 .. Len(loc'[v].chain), j \in 1 .. Len(loc'[w].chain) :
            loc'[v].chain[i] = loc'[w].chain[j] => v = w /\ i = j
    <3> SUFFICES ASSUME NEW v \in Thread, NEW w \in Thread,
                        NEW i \in 1 .. Len(loc'[v].chain), NEW j \in 1 .. Len(loc'[w].chain),
                        loc'[v].chain[i] = loc'[w].chain[j]
                 PROVE  v = w /\ i = j
      OBVIOUS
    <3>1. CASE v = t /\ w = t
      BY <1>1, <1>2, <3>1 DEF Takes
    <3>2. CASE v = t /\ w # t
      <4>1. loc'[v].chain = c /\ loc'[w] = loc[w]
        BY <1>1, <1>2, <3>2
      <4>2. loc'[v].chain[i] \in Elems(c)
        BY <4>1 DEF Elems
      <4> QED
        BY <1>4, <3>2, <4>1, <4>2
    <3>3. CASE v # t /\ w = t
      <4>1. loc'[w].chain = c /\ loc'[v] = loc[v]
        BY <1>1, <1>2, <3>3
      <4>2. loc'[w].chain[j] \in Elems(c)
        BY <4>1 DEF Elems
      <4> QED
        BY <1>4, <3>3, <4>1, <4>2
    <3>4. CASE v # t /\ w # t
      <4>1. loc'[v] = loc[v] /\ loc'[w] = loc[w]
        BY <1>1, <3>4
      <4>2. i \in 1 .. Len(loc[v].chain) /\ j \in 1 .. Len(loc[w].chain)
            /\ loc[v].chain[i] = loc[w].chain[j]
        BY <4>1
      <4> QED
        BY <4>2 DEF OnePlace
    <3> QED
      BY <3>1, <3>2, <3>3, <3>4
  <2>4. /\ \A i, j \in 1 .. Len(free') : free'[i] = free'[j] => i = j
        /\ \A u \in Unit : place'[u] = "free" <=> u \in Elems(free')
    BY <1>2, <2>1 DEF OnePlace
  <2> HIDE DEF Inv
  <2> QED
    BY <2>2, <2>3, <2>4 DEF OnePlace
<1>8. InSession'
  BY <1>1, <1>2 DEF InSession, Takes
<1>9. Popping'
  <2> SUFFICES ASSUME NEW v \in Thread, loc'[v].pc \in {"next", "take"}
               PROVE  /\ loc'[v].cur \in Unit
                      /\ \/ place'[loc'[v].cur] = "free"
                            /\ (loc'[v].pc = "take" => next'[loc'[v].cur] = loc'[v].nxt)
                         \/ place'[loc'[v].cur] = "used"
                         \/ place'[loc'[v].cur] = "given" /\ v \in hold[loc'[v].cur]
    BY <1>2 DEF Popping
  <2>1. v # t /\ loc'[v] = loc[v]
    BY <1>1 DEF Takes
  <2>2. loc[v].cur \in Unit /\ loc[v].cur \notin Elems(c)
    BY <2>1 DEF Popping, Takes
  <2>3. place'[loc[v].cur] = place[loc[v].cur] /\ next'[loc[v].cur] = next[loc[v].cur]
    BY <2>2 DEF Takes
  <2> QED
    BY <2>1, <2>2, <2>3 DEF Popping
<1>10. Pushing'
  <2> SUFFICES ASSUME NEW v \in Thread
               PROVE  IF loc'[v].pc \in {"link", "push"}
                      THEN /\ loc'[v].chain # <<>>
                           /\ \A i \in 1 .. Len(loc'[v].chain) - 1 :
                                next'[loc'[v].chain[i]] = loc'[v].chain[i + 1]
                           /\ loc'[v].pc = "push" =>
                                next'[loc'[v].chain[Len(loc'[v].chain)]] = loc'[v].nxt
                      ELSE loc'[v].chain = <<>>
    BY DEF Pushing
  <2>1. CASE v = t
    BY <1>1, <1>2, <2>1 DEF Takes
  <2>2. CASE v # t
    <3>1. loc'[v] = loc[v] /\ loc[v].chain \in Seq(Unit)
      BY <1>1, <2>2 DEF TypeOK, Local
    <3>2. \A i \in 1 .. Len(loc[v].chain) : next'[loc[v].chain[i]] = next[loc[v].chain[i]]
      BY <1>4, <2>2 DEF Takes
    <3> QED
      BY <3>1, <3>2, ChainKept
  <2> QED
    BY <2>1, <2>2
<1> QED
  BY <1>5, <1>6, <1>7, <1>8, <1>9, <1>10

\* New units, and units given up that no session holds, are so taken.
LEMMA GrowInv ==
  ASSUME ListAssumption, Inv, NEW t \in Thread, NEW c \in Chains, Grow(t, c)
  PROVE  Inv'
<1> USE DEF Inv
<1> DEFINE m == [loc[t] EXCEPT !.pc = "link", !.chain = c, !.back = "read"]
           mid(u) == \E i \in 1 .. Len(c) - 1 : c[i] = u
           at(u) == CHOOSE i \in 1 .. Len(c) - 1 : c[i] = u
<1>1. /\ c \in Seq(Unit) /\ c # <<>> /\ Len(c) \in Nat
      /\ \A i, j \in 1 .. Len(c) : c[i] = c[j] => i = j
  BY ListAssumption DEF ListAssumption
<1>2. /\ loc[t] \in Local /\ loc[t].pc = "grow" /\ loc[t].chain = <<>> /\ t \in online
  BY DEF Grow, At, TypeOK, Pushing, InSession
<1>3. m \in Local /\ m.pc = "link" /\ m.chain = c
  <2>1. [loc[t] EXCEPT !.pc = "link"] \in Local
    BY <1>2 DEF Local, Control
  <2> QED
    BY <1>1, <2>1 DEF Local
<1>4. \A x \in Elems(c) : place[x] = "new"
  BY DEF Grow, Elems
<1>5. /\ place' \in [Unit -> Place]
      /\ \A x \in Unit : place'[x] = IF x \in Elems(c) THEN "moving" ELSE place[x]
  BY DEF Grow, TypeOK, Place
<1>6. \A u \in Unit : next'[u] = IF mid(u) THEN c[1 + at(u)] ELSE next[u]
  BY DEF Grow
<1>7. next' = [u \in Unit |-> IF mid(u) THEN c[1 + at(u)] ELSE next[u]]
  BY DEF Grow
<1>8. \A u : mid(u) => at(u) \in 1 .. Len(c) - 1 /\ c[at(u)] = u
  OBVIOUS
<1>9. \A i \in 1 .. Len(c) - 1 : c[i] \in Unit /\ i \in 1 .. Len(c) /\ mid(c[i])
  BY <1>1
<1>10. \A i \in 1 .. Len(c) - 1 : at(c[i]) = i
  <2> SUFFICES ASSUME NEW i \in 1 .. Len(c) - 1 PROVE at(c[i]) = i
    OBVIOUS
  <2>1. at(c[i]) \in 1 .. Len(c) - 1 /\ c[at(c[i])] = c[i]
    BY <1>8, <1>9
  <2> HIDE DEF at
  <2> QED
    BY <1>1, <2>1
<1>11. \A u \in Unit : mid(u) => u \in Elems(c) /\ c[1 + at(u)] \in Unit
  <2> SUFFICES ASSUME NEW u \in Unit, mid(u) PROVE u \in Elems(c) /\ c[1 + at(u)] \in Unit
    OBVIOUS
  <2>1. at(u) \in 1 .. Len(c) - 1 /\ c[at(u)] = u
    BY <1>8
  <2> HIDE DEF at, mid
  <2>2. at(u) \in 1 .. Len(c) /\ 1 + at(u) \in 1 .. Len(c)
    BY <1>1, <2>1
  <2> QED
    BY <1>1, <2>1, <2>2 DEF Elems
<1>12. Become(t, m) /\ UNCHANGED <<head, online, free, hold>>
  BY DEF Grow
<1> HIDE DEF m, mid, at
<1>13. next' \in [Unit -> Link]
  BY <1>7, <1>11 DEF Link, TypeOK
<1>14. /\ \A x \in Unit : x \notin Elems(c) => next'[x] = next[x]
       /\ \A i \in 1 .. Len(c) - 1 : next'[c[i]] = c[i + 1]
  <2>1. \A x \in Unit : x \notin Elems(c) => next'[x] = next[x]
    BY <1>6, <1>11
  <2>2. ASSUME NEW i \in 1 .. Len(c) - 1 PROVE next'[c[i]] = c[i + 1]
    <3>1. next'[c[i]] = c[1 + i]
      BY <1>6, <1>9, <1>10
    <3>2. 1 + i = i + 1
      OBVIOUS
    <3> QED
      BY <3>1, <3>2
  <2> QED
    BY <2>1, <2>2
<1>15. Takes(t, c, m)
  BY <1>1, <1>2, <1>3, <1>4, <1>5, <1>12, <1>13, <1>14 DEF Takes
<1> QED
  BY <1>15, TakesInv

\* vec_free takes an old unit, which is in nobody else's hands.
LEMMA FreeInv ==
  ASSUME Inv, NEW t \in Thread, NEW u \in Unit, Free(t, u)
  PROVE  Inv'
<1> USE DEF Inv
<1> DEFINE c == <<u>>
           m == [Idle EXCEPT !.pc = "link", !.chain = c]
<1>1. /\ c \in Seq(Unit) /\ c # <<>> /\ Len(c) = 1 /\ Elems(c) = {u}
      /\ \A i, j \in 1 .. Len(c) : c[i] = c[j] => i = j
  BY DEF Elems
<1>2. loc[t].chain = <<>> /\ t \in online /\ place[u] = "given" /\ hold[u] = {}
  BY DEF Free, At, Pushing
<1>3. m \in Local /\ m.pc = "link" /\ m.chain = c
  <2>1. Idle \in Local
    BY DEF Idle, Local, Control, Link
  <2>2. [Idle EXCEPT !.pc = "link"] \in Local
    BY <2>1 DEF Local, Control
  <2> QED
    BY <1>1, <2>2 DEF Local
<1>4. Become(t, m) /\ UNCHANGED <<head, next, online, free, hold>>
  BY DEF Free
<1> HIDE DEF c, m
<1>5. /\ place' \in [Unit -> Place]
      /\ \A x \in Unit : place'[x] = IF x \in Elems(c) THEN "moving" ELSE place[x]
  BY <1>1 DEF Free, TypeOK, Place
<1>6. /\ next' \in [Unit -> Link]
      /\ \A x \in Unit : x \notin Elems(c) => next'[x] = next[x]
      /\ \A i \in 1 .. Len(c) - 1 : next'[c[i]] = c[i + 1]
  BY <1>1, <1>4 DEF TypeOK
<1>7. Takes(t, c, m)
  BY <1>1, <1>2, <1>3, <1>4, <1>5, <1>6 DEF Takes
<1> QED
  BY <1>7, TakesInv

\* A thread that pushes, before its compare-and-swap succeeds, changes nobody
\* else's chain and no list.
LEMMA LinkInv ==
  ASSUME Inv, NEW t \in Thread, LinkHead(t) \/ (Push(t) /\ head # loc[t].nxt)
  PROVE  Inv'
<1> USE DEF Inv
<1> DEFINE c == loc[t].chain
           last == c[Len(c)]
<1>1. /\ loc[t] \in Local /\ loc[t].pc \in {"link", "push"} /\ t \in online
      /\ c \in Seq(Unit) /\ c # <<>> /\ Len(c) \in Nat
      /\ \A i \in 1 .. Len(c) - 1 : next[c[i]] = c[i + 1]
  <2>1. loc[t] \in Local /\ loc[t].pc \in {"link", "push"}
    BY DEF LinkHead, Push, At, TypeOK
  <2>2. c \in Seq(Unit) /\ t \in online
    BY <2>1 DEF Local, InSession
  <2> QED
    BY <2>1, <2>2 DEF Pushing
<1>2. Len(c) \in 1 .. Len(c) /\ last \in Unit /\ last \in Elems(c)
  BY <1>1 DEF Elems
<1>3. PICK m \in Local :
        /\ m.chain = c /\ m.pc \in {"link", "push"} /\ Become(t, m)
        /\ m.pc = "push" => next'[last] = m.nxt
  <2>1. CASE LinkHead(t)
    <3> DEFINE m == [loc[t] EXCEPT !.pc = "push", !.nxt = head]
    <3>1. m \in Local /\ m.chain = c /\ m.pc = "push" /\ m.nxt = head
      <4>1. [loc[t] EXCEPT !.pc = "push"] \in Local /\ head \in Link
        BY <1>1 DEF Local, Control, TypeOK
      <4> QED
        BY <4>1, <1>1 DEF Local
    <3>2. Become(t, m) /\ next'[last] = head
      BY <1>2, <2>1 DEF LinkHead, TypeOK
    <3> QED
      BY <3>1, <3>2
  <2>2. CASE Push(t) /\ head # loc[t].nxt
    <3> DEFINE m == [loc[t] EXCEPT !.pc = "link"]
    <3>1. m \in Local /\ m.chain = c /\ m.pc = "link"
      BY <1>1 DEF Local, Control
    <3>2. Become(t, m)
      BY <2>2 DEF Push, Goto
    <3> QED
      BY <3>1, <3>2
  <2> QED
    BY <2>1, <2>2
<1>4. /\ UNCHANGED <<head, online, free, place, hold>>
      /\ next' \in [Unit -> Link]
      /\ \A x \in Unit : x # last => next'[x] = next[x]
  BY DEF LinkHead, Push, TypeOK, Link
<1>5. /\ loc'[t] = m
      /\ \A v \in Thread \ {t} : loc'[v] = loc[v]
      /\ loc' \in [Thread -> Local]
  BY <1>3 DEF TypeOK, Become
<1>6. place[last] = "moving"
  BY <1>2 DEF OnePlace
<1>7. \A v \in Thread : loc'[v].chain = loc[v].chain
  BY <1>3, <1>5
<1> HIDE DEF c, last
<1>8. TypeOK'
  BY <1>4, <1>5 DEF TypeOK
<1>9. ListWhole'
  <2>1. \A i \in 1 .. Len(free) : next'[free[i]] = next[free[i]]
    <3> SUFFICES ASSUME NEW i \in 1 .. Len(free) PROVE next'[free[i]] = next[free[i]]
      OBVIOUS
    <3>1. free[i] \in Unit /\ free[i] \in Elems(free)
      BY DEF TypeOK, Elems
    <3>2. place[free[i]] = "free"
      BY <3>1 DEF OnePlace
    <3> QED
      BY <1>4, <1>6, <3>1, <3>2
  <2> QED
    BY <1>4, <2>1 DEF ListWhole
<1>10. OnePlace'
  <2> free' = free /\ place' = place
    BY <1>4
  <2> QED
    BY <1>7, SamePlace
<1>11. InSession'
  BY <1>1, <1>4, <1>5 DEF InSession
<1>12. Popping'
  <2> SUFFICES ASSUME NEW v \in Thread, loc'[v].pc \in {"next", "take"}
               PROVE  /\ loc'[v].cur \in Unit
                      /\ \/ place[loc'[v].cur] = "free"
                            /\ (loc'[v].pc = "take" => next'[loc'[v].cur] = loc'[v].nxt)
                         \/ place[loc'[v].cur] = "used"
                         \/ place[loc'[v].cur] = "given" /\ v \in hold[loc'[v].cur]
    BY <1>4 DEF Popping
  <2>1. v # t /\ loc'[v] = loc[v]
    BY <1>3, <1>5
  <2>2. loc[v].cur \in Unit /\ loc[v].cur # last
    BY <1>6, <2>1 DEF Popping
  <2>3. next'[loc[v].cur] = next[loc[v].cur]
    BY <1>4, <2>2
  <2> QED
    BY <2>1, <2>2, <2>3 DEF Popping
<1>13. Pushing'
  <2> SUFFICES ASSUME NEW v \in Thread
               PROVE  IF loc'[v].pc \in {"link", "push"}
                      THEN /\ loc'[v].chain # <<>>
                           /\ \A i \in 1 .. Len(loc'[v].chain) - 1 :
                                next'[loc'[v].chain[i]] = loc'[v].chain[i + 1]
                           /\ loc'[v].pc = "push" =>
                                next'[loc'[v].chain[Len(loc'[v].chain)]] = loc'[v].nxt
                      ELSE loc'[v].chain = <<>>
    BY DEF Pushing
  <2>1. CASE v = t
    <3>1. \A i \in 1 .. Len(c) - 1 : next'[c[i]] = c[i + 1]
      <4> SUFFICES ASSUME NEW i \in 1 .. Len(c) - 1 PROVE next'[c[i]] = c[i + 1]
        OBVIOUS
      <4>1. i \in 1 .. Len(c) /\ i # Len(c) /\ c[i] \in Unit
        BY <1>1
      <4>2. c[i] # last
        BY <1>2, <4>1 DEF OnePlace, c, last
      <4> QED
        BY <1>1, <1>4, <4>1, <4>2
    <3>2. loc'[v] = m /\ loc'[v].chain = c
      BY <1>3, <1>5, <2>1
    <3>3. m.pc = "push" => next'[c[Len(c)]] = m.nxt
      BY <1>3 DEF last
    <3> QED
      BY <1>1, <1>3, <3>1, <3>2, <3>3
  <2>2. CASE v # t
    <3>1. loc'[v] = loc[v] /\ loc[v].chain \in Seq(Unit)
      BY <1>5, <2>2 DEF TypeOK, Local
    <3>2. \A i \in 1 .. Len(loc[v].chain) : next'[loc[v].chain[i]] = next[loc[v].chain[i]]
      <4> SUFFICES ASSUME NEW i \in 1 .. Len(loc[v].chain)
                   PROVE  next'[loc[v].chain[i]] = next[loc[v].chain[i]]
        OBVIOUS
      <4>1. loc[v].chain[i] \in Unit
        BY <3>1
      <4>2. loc[v].chain[i] # last
        BY <1>2, <2>2 DEF OnePlace, c, last
      <4> QED
        BY <1>4, <4>1, <4>2
    <3> QED
      BY <3>1, <3>2, ChainKept
  <2> QED
    BY <2>1, <2>2
<1> QED
  BY <1>8, <1>9, <1>10, <1>11, <1>12, <1>13

\* The compare-and-swap of a push hangs the list onto the end of the chain.
LEMMA PushInv ==
  ASSUME Inv, NEW t \in Thread, Push(t), head = loc[t].nxt
  PROVE  Inv'
<1> USE DEF Inv
<1> DEFINE c == loc[t].chain
           m == [loc[t] EXCEPT !.pc = loc[t].back, !.chain = <<>>]
<1>1. /\ loc[t] \in Local /\ loc[t].pc = "push" /\ t \in online
      /\ c \in Seq(Unit) /\ c # <<>> /\ Len(c) \in Nat \ {0}
      /\ \A i \in 1 .. Len(c) - 1 : next[c[i]] = c[i + 1]
      /\ next[c[Len(c)]] = head
  <2>1. loc[t] \in Local /\ loc[t].pc = "push"
    BY DEF Push, At, TypeOK
  <2>2. c \in Seq(Unit) /\ t \in online
    BY <2>1 DEF Local, InSession
  <2>3. /\ c # <<>>
        /\ \A i \in 1 .. Len(c) - 1 : next[c[i]] = c[i + 1]
        /\ next[c[Len(c)]] = head
    BY <2>1 DEF Pushing
  <2>4. Len(c) \in Nat \ {0}
    BY <2>2, <2>3
  <2> QED
    BY <2>1, <2>2, <2>3, <2>4
<1>2. m \in Local /\ m.pc \in {"idle", "read"} /\ m.chain = <<>>
  <2>1. loc[t].back \in {"idle", "read"} /\ loc[t].back \in Control
    BY <1>1 DEF Local, Control
  <2>2. [loc[t] EXCEPT !.pc = loc[t].back] \in Local
    BY <1>1, <2>1 DEF Local
  <2>3. m.pc = loc[t].back /\ m.chain = <<>>
    BY <1>1 DEF Local
  <2>4. <<>> \in Seq(Unit)
    OBVIOUS
  <2>5. m \in Local
    BY <2>2, <2>4 DEF Local
  <2> QED
    BY <2>1, <2>3, <2>5
<1>3. /\ head' = c[1] /\ free' = c \o free
      /\ place' = [u \in Unit |-> IF u \in Elems(c) THEN "free" ELSE place[u]]
      /\ Become(t, m)
      /\ UNCHANGED <<next, online, hold>>
  BY DEF Push
<1> HIDE DEF m
<1>4. /\ loc'[t] = m
      /\ \A v \in Thread \ {t} : loc'[v] = loc[v]
      /\ loc' \in [Thread -> Local]
  BY <1>2, <1>3 DEF TypeOK, Become
<1>5. free \in Seq(Unit) /\ Len(free) \in Nat
  BY DEF TypeOK
<1> HIDE DEF c
<1>6. /\ free' \in Seq(Unit)
      /\ Len(free') = Len(c) + Len(free)
      /\ \A i \in 1 .. Len(c) : free'[i] = c[i]
      /\ \A i \in 1 .. Len(free) : free'[Len(c) + i] = free[i]
      /\ \A i \in 1 .. Len(c) + Len(free) : i <= Len(c) \/ i - Len(c) \in 1 .. Len(free)
      /\ Elems(free') = Elems(c) \union Elems(free)
  BY <1>1, <1>3, <1>5, ConcatElems
<1>7. /\ Elems(c) \subseteq Unit
      /\ \A u \in Elems(c) : place[u] = "moving"
      /\ place' \in [Unit -> Place]
      /\ \A u \in Unit : place'[u] = IF u \in Elems(c) THEN "free" ELSE place[u]
  <2>1. Elems(c) \subseteq Unit
    BY <1>1 DEF Elems
  <2>2. \A u \in Elems(c) : place[u] = "moving"
    BY <2>1 DEF OnePlace, c
  <2> QED
    BY <1>3, <2>1, <2>2 DEF TypeOK, Place
<1>8. \A i \in 1 .. Len(c) : c[i] \in Elems(c)
  BY DEF Elems
<1>9. \A i \in 1 .. Len(free) : free[i] \in Unit /\ place[free[i]] = "free" /\ free[i] \notin Elems(c)
  <2> SUFFICES ASSUME NEW i \in 1 .. Len(free)
               PROVE  free[i] \in Unit /\ place[free[i]] = "free" /\ free[i] \notin Elems(c)
    OBVIOUS
  <2>1. free[i] \in Unit /\ free[i] \in Elems(free)
    BY <1>5 DEF Elems
  <2>2. place[free[i]] = "free"
    BY <2>1 DEF OnePlace
  <2> QED
    BY <1>7, <2>1, <2>2
<1>10. TypeOK'
  BY <1>1, <1>3, <1>4, <1>6, <1>7 DEF TypeOK, Link
<1>11. ListWhole'
  <2>1. free' # <<>> /\ head' = free'[1]
    BY <1>1, <1>3, <1>5, <1>6
  <2>2. ASSUME NEW i \in 1 .. Len(free')
        PROVE  next'[free'[i]] = IF i = Len(free') THEN Nil ELSE free'[i + 1]
    <3>1. i \in 1 .. Len(c) + Len(free) /\ (i < Len(c) \/ i = Len(c) \/ i - Len(c) \in 1 .. Len(free))
      BY <1>1, <1>5, <1>6
    <3>2. CASE i < Len(c)
      <4>1. i \in 1 .. Len(c) - 1 /\ i + 1 \in 1 .. Len(c) /\ i \in 1 .. Len(c) /\ i # Len(free')
        BY <1>1, <1>5, <1>6, <3>2
      <4> QED
        BY <1>1, <1>3, <1>6, <4>1
    <3>3. CASE i = Len(c)
      <4>1. free'[i] = c[Len(c)] /\ next'[free'[i]] = head
        BY <1>1, <1>3, <1>6, <3>3
      <4>2. CASE free = <<>>
        <5>1. i = Len(free')
          BY <1>6, <3>3, <4>2
        <5> QED
          BY <4>1, <4>2, <5>1 DEF ListWhole
      <4>3. CASE free # <<>>
        <5>1. 1 \in 1 .. Len(free) /\ i # Len(free')
          BY <1>1, <1>5, <1>6, <3>3, <4>3
        <5>2. free'[i + 1] = free[1]
          BY <1>6, <3>3, <5>1
        <5> QED
          BY <4>1, <4>3, <5>1, <5>2 DEF ListWhole
      <4> QED
        BY <4>2, <4>3
    <3>4. CASE i - Len(c) \in 1 .. Len(free)
      <4> DEFINE j == i - Len(c)
      <4>1. /\ j \in 1 .. Len(free) /\ i = Len(c) + j /\ i + 1 = Len(c) + (j + 1)
            /\ i = Len(free') <=> j = Len(free)
            /\ j # Len(free) => j + 1 \in 1 .. Len(free)
        <5>1. i \in Nat /\ Len(c) \in Nat
          BY <1>1, <1>5, <3>1
        <5> QED
          BY <1>5, <1>6, <3>4, <5>1
      <4> HIDE DEF j
      <4>2. free'[i] = free[j] /\ (j # Len(free) => free'[i + 1] = free[j + 1])
        BY <1>6, <4>1
      <4>3. next[free[j]] = IF j = Len(free) THEN Nil ELSE free[j + 1]
        BY <4>1 DEF ListWhole
      <4> QED
        BY <1>3, <4>1, <4>2, <4>3
    <3> QED
      BY <3>1, <3>2, <3>3, <3>4
  <2> QED
    BY <2>1, <2>2 DEF ListWhole
<1>12. OnePlace'
  <2>1. \A i, j \in 1 .. Len(free') : free'[i] = free'[j] => i = j
    <3> SUFFICES ASSUME NEW i \in 1 .. Len(free'), NEW j \in 1 .. Len(free'),
                        free'[i] = free'[j]
                 PROVE  i = j
      OBVIOUS
    <3> DEFINE first(k) == k \in 1 .. Len(c) /\ free'[k] = c[k]
               second(k) == k - Len(c) \in 1 .. Len(free) /\ free'[k] = free[k - Len(c)]
    <3>1. ASSUME NEW k \in 1 .. Len(free') PROVE first(k) \/ second(k)
      <4>1. k \in 1 .. Len(c) + Len(free)
        BY <1>6
      <4>2. CASE k <= Len(c)
        BY <1>1, <1>6, <4>1, <4>2
      <4>3. CASE k - Len(c) \in 1 .. Len(free)
        <5>1. free'[Len(c) + (k - Len(c))] = free[k - Len(c)]
          BY <1>6, <4>3
        <5>2. Len(c) + (k - Len(c)) = k
          BY <1>1, <4>1
        <5> QED
          BY <4>3, <5>1, <5>2
      <4> QED
        BY <1>6, <4>1, <4>2, <4>3
    <3>2. CASE first(i) /\ first(j)
      <4>1. c[i] = c[j] /\ i \in 1 .. Len(c) /\ j \in 1 .. Len(c)
        BY <3>2
      <4> QED
        BY <4>1 DEF OnePlace, c
    <3>3. CASE first(i) /\ second(j)
      BY <1>8, <1>9, <3>3
    <3>4. CASE second(i) /\ first(j)
      BY <1>8, <1>9, <3>4
    <3>5. CASE second(i) /\ second(j)
      <4>1. free[i - Len(c)] = free[j - Len(c)]
        BY <3>5
      <4>2. i - Len(c) = j - Len(c)
        BY <3>5, <4>1 DEF OnePlace
      <4>3. i \in Nat /\ j \in Nat
        BY <1>1, <1>5, <1>6
      <4> QED
        BY <1>1, <4>2, <4>3
    <3> HIDE DEF first, second
    <3> QED
      BY <3>1, <3>2, <3>3, <3>4, <3>5
  <2>2. \A u \in Unit : place'[u] = "free" <=> u \in Elems(free')
    <3>1. \A u \in Unit : place[u] = "free" <=> u \in Elems(free)
      BY DEF OnePlace
    <3> QED
      BY <1>6, <1>7, <3>1
  <2>3. \A u \in Unit : place'[u] = "moving" <=> \E v \in Thread : u \in Elems(loc'[v].chain)
    <3>1. Elems(loc'[t].chain) = {}
      BY <1>2, <1>4 DEF Elems
    <3>2. \A v \in Thread \ {t} : Elems(loc'[v].chain) = Elems(loc[v].chain)
      BY <1>4
    <3>3. \A u \in Unit : place'[u] = "moving" <=> place[u] = "moving" /\ u \notin Elems(c)
      BY <1>7
    <3>4. \A u \in Unit : place[u] = "moving" <=> \E v \in Thread : u \in Elems(loc[v].chain)
      BY DEF OnePlace
    <3>5. \A v \in Thread \ {t} : \A u \in Elems(loc[v].chain) : u \notin Elems(c)
      BY DEF OnePlace, Elems, c
    <3>6. Elems(loc[t].chain) = Elems(c)
      BY DEF c
    <3> QED
      BY <3>1, <3>2, <3>3, <3>4, <3>5, <3>6
  <2>4. \A v, w \in Thread :
          \A i \in 1 .. Len(loc'[v].chain), j \in 1 .. Len(loc'[w].chain) :
            loc'[v].chain[i] = loc'[w].chain[j] => v = w /\ i = j
    <3> SUFFICES ASSUME NEW v \in Thread, NEW w \in Thread,
                        NEW i \in 1 .. Len(loc'[v].chain), NEW j \in 1 .. Len(loc'[w].chain),
                        loc'[v].chain[i] = loc'[w].chain[j]
                 PROVE  v = w /\ i = j
      OBVIOUS
    <3>1. v # t /\ w # t
      BY <1>2, <1>4
    <3>2. loc'[v] = loc[v] /\ loc'[w] = loc[w]
      BY <1>4, <3>1
    <3> QED
      BY <3>2 DEF OnePlace
  <2> QED
    BY <2>1, <2>2, <2>3, <2>4 DEF OnePlace
<1>13. InSession'
  BY <1>1, <1>3, <1>4 DEF InSession
<1>14. Popping'
  <2> SUFFICES ASSUME NEW v \in Thread, loc'[v].pc \in {"next", "take"}
               PROVE  /\ loc'[v].cur \in Unit
                      /\ \/ place'[loc'[v].cur] = "free"
                            /\ (loc'[v].pc = "take" => next[loc'[v].cur] = loc'[v].nxt)
                         \/ place'[loc'[v].cur] = "used"
                         \/ place'[loc'[v].cur] = "given" /\ v \in hold[loc'[v].cur]
    BY <1>3 DEF Popping
  <2>1. v # t /\ loc'[v] = loc[v]
    BY <1>2, <1>4
  <2>2. loc[v].cur \in Unit /\ place[loc[v].cur] # "moving"
    BY <2>1 DEF Popping
  <2>3. place'[loc[v].cur] = place[loc[v].cur]
    BY <1>7, <2>2
  <2> QED
    BY <2>1, <2>2, <2>3 DEF Popping
<1>15. Pushing'
  BY <1>2, <1>3, <1>4 DEF Pushing
<1> QED
  BY <1>10, <1>11, <1>12, <1>13, <1>14, <1>15
-----------------------------------------------------------------------------
\* Every step of every thread keeps the invariant.
LEMMA StepInv == ASSUME ListAssumption, Inv, [Next]_vars PROVE Inv'
<1>1. CASE UNCHANGED vars
  <2>1. UNCHANGED <<head, next, loc, online, free, place, hold>>
    BY <1>1 DEF vars
  <2>2. TypeOK' /\ ListWhole' /\ InSession' /\ Popping' /\ Pushing'
    BY <2>1 DEF Inv, TypeOK, ListWhole, InSession, Popping, Pushing
  <2>3. OnePlace'
    BY <2>1 DEF Inv, OnePlace
  <2> QED
    BY <2>2, <2>3 DEF Inv
<1>2. ASSUME NEW t \in Thread, Step(t) PROVE Inv'
  <2>1. CASE Begin(t) \/ End(t)
    BY <2>1, SessionInv
  <2>2. CASE Alloc(t) \/ Read(t) \/ ReadNext(t) \/ GrowFail(t)
    BY <2>2, PopInv
  <2>3. CASE Take(t)
    BY <2>3, PopInv, TakeInv
  <2>4. ASSUME NEW c \in Chains, Grow(t, c) PROVE Inv'
    BY <2>4, GrowInv
  <2>5. ASSUME NEW u \in Unit, GiveUp(t, u) \/ Free(t, u) PROVE Inv'
    BY <2>5, GiveUpInv, FreeInv
  <2>6. CASE LinkHead(t)
    BY <2>6, LinkInv
  <2>7. CASE Push(t)
    BY <2>7, LinkInv, PushInv
  <2> QED
    BY <1>2, <2>1, <2>2, <2>3, <2>4, <2>5, <2>6, <2>7 DEF Step
<1> QED
  BY <1>1, <1>2 DEF Next

\* The invariant holds in every state of every behaviour.
THEOREM InvAlways == ASSUME ListAssumption PROVE Spec => []Inv
<1>1. Init => Inv
  BY InitInv
<1>2. Inv /\ [Next]_vars => Inv'
  BY StepInv
<1> QED
  BY <1>1, <1>2, PTL DEF Spec

\* A walk from the head of the list visits, for any number of threads, the
\* units that were pushed and not popped: the compare-and-swap of a pop never
\* swaps in a next that is out of date, as no unit is pushed while a session
\* that could have read it as the head is open.
THEOREM ListAlwaysWhole == ASSUME ListAssumption PROVE Spec => []ListWhole
<1>1. Inv => ListWhole
  BY DEF Inv
<1> QED
  BY <1>1, InvAlways, PTL

\* No unit is ever in two places, or in the hands of two threads that push.
THEOREM UnitInOnePlace == ASSUME ListAssumption PROVE Spec => []OnePlace
<1>1. Inv => OnePlace
  BY DEF Inv
<1> QED
  BY <1>1, InvAlways, PTL

\* The variables are typed.
THEOREM TypeCorrect == ASSUME ListAssumption PROVE Spec => []TypeOK
<1>1. Inv => TypeOK
  BY DEF Inv
<1> QED
  BY <1>1, InvAlways, PTL
=============================================================================
