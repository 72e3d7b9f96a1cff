------------------------ MODULE ClusterBlocks_proofs ------------------------
(***************************************************************************)
(* Proofs about ClusterBlocks, for any number of workers, pages, blocks    *)
(* and nodes, and any shape of the table.                                  *)
(*                                                                         *)
(* The numbers of pages come first (PageInv): they involve neither list.   *)
(* With them every step is a step of the list of blocks or leaves it alone *)
(* (BlkRefined), and what FreeList_proofs proves of a free list holds of   *)
(* it; with that every step is a step of the list of nodes (VecRefined).   *)
(* Last come the tables: what a page number's owner has stored (TableInv), *)
(* who may be waited for (Opener), and where the units in use are          *)
(* (PlaceInv).                                                             *)
(***************************************************************************)
EXTENDS ClusterBlocks, FiniteSetTheorems, TLAPS

Full == {t \in Thread : add[t].pc = "full"}
Adders == {t \in Thread : add[t].pc = "way"}
Adds == [pc : {"none", "full", "way"}, page : Pages, level : Nat]

\* The pages numbered: each has its owner, and whoever finds no number left
\* has not disturbed the count.
PageInv ==
  /\ cursor \in Nat /\ pages \subseteq Pages /\ lost \subseteq Pages
  /\ add \in [Thread -> Adds]
  /\ Numbered \in 0 .. PgMax - 1
  /\ Full # {} => Numbered = PgMax - 1
  /\ PageOnce
-----------------------------------------------------------------------------
\* The number of calls that found no page left, when one more does or one
\* has given its number back.
LEMMA FullCounted ==
  ASSUME NEW A \in SUBSET Thread
  PROVE  /\ Cardinality(A) \in Nat
         /\ \A t \in Thread \ A : Cardinality(A \union {t}) = Cardinality(A) + 1
         /\ \A t \in A : Cardinality(A \ {t}) = Cardinality(A) - 1
         /\ Cardinality({}) = 0
<1>1. IsFiniteSet(A)
  BY BlocksAssumption, FS_Subset DEF BlocksAssumption
<1> QED
  BY <1>1, FS_CardinalityType, FS_AddElement, FS_RemoveElement, FS_EmptySet

\* No page is numbered at first.
LEMMA InitPageInv == Init => PageInv
<1> SUFFICES ASSUME Init PROVE PageInv
  OBVIOUS
<1>1. Full = {} /\ Adders = {}
  BY DEF Init, Full, Adders, NoAdd
<1>2. Numbered = 0
  BY <1>1, FullCounted DEF Numbered, Full, Init
<1>3. 0 \in Pages
  BY BlocksAssumption DEF BlocksAssumption, Pages
<1>4. 0 .. Numbered - 1 = {}
  BY <1>2
<1>5. PageOnce
  BY <1>1, <1>4 DEF PageOnce, Init, Adders
<1> QED
  BY <1>1, <1>2, <1>3, <1>5, BlocksAssumption DEF PageInv, Init, Adds, NoAdd, BlocksAssumption

\* What a step does to the pages.
PageStep(t) ==
  \/ /\ PgMax <= cursor + 1 /\ cursor' = cursor + 1         \* AddPage, no number left
     /\ add[t].pc = "none" /\ add' = [add EXCEPT ![t].pc = "full"]
     /\ UNCHANGED <<pages, lost>>
  \/ /\ PgMax > cursor + 1 /\ cursor' = cursor + 1          \* AddPage
     /\ add[t].pc = "none"
     /\ add' = [add EXCEPT ![t] = [pc |-> "way", page |-> cursor, level |-> 1]]
     /\ UNCHANGED <<pages, lost>>
  \/ /\ PgMax > cursor + 1 /\ cursor' = cursor + 1          \* AddPage, without memory
     /\ lost' = lost \union {cursor}
     /\ UNCHANGED <<pages, add>>
  \/ /\ add[t].pc = "full" /\ cursor' = cursor - 1          \* AddFull
     /\ add' = [add EXCEPT ![t] = NoAdd]
     /\ UNCHANGED <<pages, lost>>
  \/ /\ add[t].pc = "way"                                   \* AddTable, PassTable
     /\ add' = [add EXCEPT ![t].level = @ + 1]
     /\ UNCHANGED <<cursor, pages, lost>>
  \/ /\ add[t].pc = "way"                                   \* AddTable, without memory
     /\ add' = [add EXCEPT ![t] = NoAdd]
     /\ lost' = lost \union {add[t].page}
     /\ UNCHANGED <<cursor, pages>>
  \/ /\ add[t].pc = "way"                                   \* StorePage
     /\ add' = [add EXCEPT ![t] = NoAdd]
     /\ pages' = pages \union {add[t].page}
     /\ UNCHANGED <<cursor, lost>>

\* Seen from the table, every step is one of the page steps above, or none.
LEMMA StepIsPageStep ==
  ASSUME PageInv, NEW t \in Thread,
         Adder(t) \/ Pop(t) \/ VecStep(t) \/ VecAlloc(t) \/ Session(t)
  PROVE  PageStep(t) \/ UNCHANGED <<cursor, pages, lost, add>>
<1>0. cursor \in Nat
  BY DEF PageInv
<1>1. CASE AddPage(t)
  BY <1>0, <1>1 DEF AddPage, Adding, PageStep
<1>2. CASE AddFull(t) \/ PassTable(t) \/ StorePage(t)
  BY <1>2 DEF AddFull, PassTable, StorePage, Adding, OnWay, Further, PageStep
<1>3. CASE AddTable(t)
  BY <1>3 DEF AddTable, Adding, OnWay, Further, PageStep
<1>4. CASE Pop(t) \/ VecStep(t) \/ VecAlloc(t) \/ Session(t)
  BY <1>4 DEF Pop, AskBlk, BlkStep, BlkTake, VecStep, VecAlloc, Session, pageVars
<1> QED
  BY <1>1, <1>2, <1>3, <1>4 DEF Adder

\* The numbers in the adders' hands.
Held == {add[u].page : u \in Adders}

\* A page step keeps page numbers in one hand.
LEMMA PageStepInv ==
  ASSUME PageInv, NEW t \in Thread, PageStep(t)
  PROVE  PageInv'
<1> DEFINE N == Numbered
<1>0. /\ PgMax \in Nat \ {0} /\ cursor \in Nat /\ pages \subseteq Pages /\ lost \subseteq Pages
      /\ add \in [Thread -> Adds] /\ N \in 0 .. PgMax - 1
      /\ Full \subseteq Thread /\ Cardinality(Full) \in Nat /\ N = cursor - Cardinality(Full)
      /\ Full # {} => N = PgMax - 1
      /\ pages \intersect lost = {}
      /\ \A u \in Adders : u \in Thread /\ add[u].page \in Pages /\ add[u].page \notin pages \union lost
      /\ \A u, v \in Adders : add[u].page = add[v].page => u = v
      /\ pages \union lost \union Held = 0 .. N - 1
  <2>1. Full \subseteq Thread
    BY DEF Full
  <2>2. Cardinality(Full) \in Nat
    BY <2>1, FullCounted
  <2>3. \A u \in Adders : u \in Thread /\ add[u].page \in Pages
    BY DEF PageInv, Adders, Adds
  <2>4. PgMax \in Nat \ {0}
    BY BlocksAssumption DEF BlocksAssumption
  <2>5. N = cursor - Cardinality(Full)
    BY DEF Numbered, Full
  <2> QED
    BY <2>1, <2>2, <2>3, <2>4, <2>5 DEF PageInv, PageOnce, Adders, Held
<1>1. (/\ cursor' \in Nat /\ pages' \subseteq Pages /\ lost' \subseteq Pages
       /\ add' \in [Thread -> Adds] /\ Full' \subseteq Thread
       /\ cursor' - Cardinality(Full') \in 0 .. PgMax - 1
       /\ Full' # {} => cursor' - Cardinality(Full') = PgMax - 1
       /\ pages' \intersect lost' = {}
       /\ \A u \in Adders' : add'[u].page \notin pages' \union lost'
       /\ \A u, v \in Adders' : add'[u].page = add'[v].page => u = v
       /\ pages' \union lost' \union {add'[u].page : u \in Adders'}
             = 0 .. cursor' - Cardinality(Full') - 1)
      => PageInv'
  BY DEF PageInv, PageOnce, Adders, Numbered, Full
<1>p. ASSUME NEW m \in Adds, add' = [add EXCEPT ![t] = m]
      PROVE  add' \in [Thread -> Adds] /\ add'[t] = m /\ \A u \in Thread \ {t} : add'[u] = add[u]
  BY <1>0, <1>p
<1> HIDE DEF N
<1>2. ASSUME PgMax > cursor + 1 PROVE Full = {} /\ Cardinality(Full) = 0 /\ N = cursor
  <2>1. Full = {}
    BY <1>0, <1>2
  <2>2. Cardinality({}) = 0
    BY FullCounted
  <2> QED
    BY <1>0, <2>1, <2>2
<1>3. CASE /\ PgMax <= cursor + 1 /\ cursor' = cursor + 1
           /\ add[t].pc = "none" /\ add' = [add EXCEPT ![t].pc = "full"]
           /\ UNCHANGED <<pages, lost>>
  <2> DEFINE m == [add[t] EXCEPT !.pc = "full"]
  <2>1. m \in Adds /\ m.pc = "full" /\ add' = [add EXCEPT ![t] = m]
    BY <1>0, <1>3 DEF Adds
  <2> HIDE DEF m
  <2>2. t \notin Full /\ t \notin Adders
    BY <1>3 DEF Full, Adders
  <2>3. /\ add' \in [Thread -> Adds] /\ Full' = Full \union {t} /\ Adders' = Adders
        /\ \A u \in Adders : add'[u] = add[u]
    <3>1. add' \in [Thread -> Adds] /\ add'[t] = m /\ \A u \in Thread \ {t} : add'[u] = add[u]
      BY <1>0, <2>1, <2>2, <1>p
    <3> QED
      BY <1>0, <2>1, <2>2, <3>1 DEF Full, Adders
  <2>4. Cardinality(Full') = Cardinality(Full) + 1
    BY <1>0, <2>2, <2>3, FullCounted
  <2>5. cursor' - Cardinality(Full') = N
    BY <1>0, <1>3, <2>4
  <2>6. N = PgMax - 1
    <3>1. CASE Full = {}
      <4>1. Cardinality(Full) = 0
        BY <3>1, FullCounted
      <4> QED
        BY <1>0, <1>3, <4>1
    <3> QED
      BY <1>0, <3>1
  <2>7. {add'[u].page : u \in Adders'} = Held
    BY <2>3 DEF Held
  <2>8. pages' \union lost' \union {add'[u].page : u \in Adders'} = 0 .. cursor' - Cardinality(Full') - 1
    BY <1>0, <1>3, <2>5, <2>7
  <2>9. cursor' - Cardinality(Full') \in 0 .. PgMax - 1 /\ cursor' - Cardinality(Full') = PgMax - 1
    BY <1>0, <2>5, <2>6
  <2>10. Full' \subseteq Thread /\ cursor' \in Nat
    BY <1>0, <1>3, <2>3
  <2>11. pages' \subseteq Pages /\ lost' \subseteq Pages /\ pages' \intersect lost' = {}
    BY <1>0, <1>3
  <2>12. \A u \in Adders' : add'[u].page \notin pages' \union lost'
    BY <1>0, <1>3, <2>3
  <2>13. \A u, v \in Adders' : add'[u].page = add'[v].page => u = v
    BY <1>0, <2>3
  <2> QED
    BY <1>1, <2>3, <2>8, <2>9, <2>10, <2>11, <2>12, <2>13
<1>4. CASE /\ PgMax > cursor + 1 /\ cursor' = cursor + 1
           /\ add[t].pc = "none"
           /\ add' = [add EXCEPT ![t] = [pc |-> "way", page |-> cursor, level |-> 1]]
           /\ UNCHANGED <<pages, lost>>
  <2> DEFINE m == [pc |-> "way", page |-> cursor, level |-> 1]
  <2>1. m \in Adds /\ m.pc = "way" /\ m.page = cursor /\ add' = [add EXCEPT ![t] = m]
    BY <1>0, <1>4 DEF Adds, Pages
  <2> HIDE DEF m
  <2>2. t \notin Full /\ t \notin Adders
    BY <1>4 DEF Full, Adders
  <2>3. /\ add' \in [Thread -> Adds] /\ Full' = Full /\ Adders' = Adders \union {t}
        /\ add'[t].page = cursor
        /\ \A u \in Adders : add'[u] = add[u]
    <3>1. add' \in [Thread -> Adds] /\ add'[t] = m /\ \A u \in Thread \ {t} : add'[u] = add[u]
      BY <1>0, <2>1, <2>2, <1>p
    <3> QED
      BY <1>0, <2>1, <2>2, <3>1 DEF Full, Adders
  <2>4. Full' = {} /\ cursor' - Cardinality(Full') = cursor + 1
    BY <1>0, <1>2, <1>4, <2>3
  <2>5. {add'[u].page : u \in Adders'} = Held \union {cursor}
    BY <2>3 DEF Held
  <2>6. 0 .. cursor + 1 - 1 = (0 .. N - 1) \union {cursor} /\ cursor \notin 0 .. N - 1
    BY <1>0, <1>2, <1>4
  <2>7. cursor \notin pages \union lost \union Held
    BY <1>0, <2>6
  <2>8. \A u, v \in Adders' : add'[u].page = add'[v].page => u = v
    <3>1. \A u \in Adders : add'[u].page \in Held
      BY <2>3 DEF Held
    <3> QED
      BY <1>0, <2>3, <2>7, <3>1
  <2>9. cursor' - Cardinality(Full') \in 0 .. PgMax - 1 /\ cursor' \in Nat
    BY <1>0, <1>4, <2>4
  <2> QED
    BY <1>0, <1>1, <1>4, <2>3, <2>4, <2>5, <2>6, <2>7, <2>8, <2>9
<1>5. CASE /\ PgMax > cursor + 1 /\ cursor' = cursor + 1
           /\ lost' = lost \union {cursor}
           /\ UNCHANGED <<pages, add>>
  <2>1. Full' = Full /\ Adders' = Adders /\ {add'[u].page : u \in Adders'} = Held
    BY <1>5 DEF Full, Adders, Held
  <2>2. Full' = {} /\ cursor' - Cardinality(Full') = cursor + 1
    BY <1>0, <1>2, <1>5, <2>1
  <2>3. 0 .. cursor + 1 - 1 = (0 .. N - 1) \union {cursor} /\ cursor \notin 0 .. N - 1
    BY <1>0, <1>2, <1>5
  <2>4. cursor \notin pages \union lost \union Held /\ cursor \in Pages
    BY <1>0, <1>5, <2>3 DEF Pages
  <2>5. \A u \in Adders : add[u].page \in Held
    BY DEF Held
  <2>6. cursor' - Cardinality(Full') \in 0 .. PgMax - 1 /\ cursor' \in Nat
    BY <1>0, <1>5, <2>2
  <2> QED
    BY <1>0, <1>1, <1>5, <2>1, <2>2, <2>3, <2>4, <2>5, <2>6
<1>6. CASE /\ add[t].pc = "full" /\ cursor' = cursor - 1
           /\ add' = [add EXCEPT ![t] = NoAdd]
           /\ UNCHANGED <<pages, lost>>
  <2>1. NoAdd \in Adds /\ NoAdd.pc = "none"
    BY <1>0 DEF Adds, NoAdd, Pages
  <2>2. t \in Full /\ t \notin Adders
    BY <1>6 DEF Full, Adders
  <2>3. /\ add' \in [Thread -> Adds] /\ Full' = Full \ {t} /\ Adders' = Adders
        /\ \A u \in Adders : add'[u] = add[u]
    <3>1. add' \in [Thread -> Adds] /\ add'[t] = NoAdd /\ \A u \in Thread \ {t} : add'[u] = add[u]
      BY <1>0, <1>6, <2>1, <2>2, <1>p
    <3> QED
      BY <1>0, <1>6, <2>1, <2>2, <3>1 DEF Full, Adders
  <2>4. Cardinality(Full') = Cardinality(Full) - 1 /\ Cardinality(Full') \in Nat
    BY <1>0, <2>2, <2>3, FullCounted
  <2>5. cursor' - Cardinality(Full') = N /\ N = PgMax - 1 /\ cursor' \in Nat
    BY <1>0, <1>6, <2>2, <2>4
  <2>6. {add'[u].page : u \in Adders'} = Held
    BY <2>3 DEF Held
  <2>7. pages' \union lost' \union {add'[u].page : u \in Adders'} = 0 .. cursor' - Cardinality(Full') - 1
    BY <1>0, <1>6, <2>5, <2>6
  <2>8. cursor' - Cardinality(Full') \in 0 .. PgMax - 1 /\ cursor' - Cardinality(Full') = PgMax - 1
    BY <1>0, <2>5
  <2>9. Full' \subseteq Thread
    BY <1>0, <2>3
  <2>10. pages' \subseteq Pages /\ lost' \subseteq Pages /\ pages' \intersect lost' = {}
    BY <1>0, <1>6
  <2>11. \A u \in Adders' : add'[u].page \notin pages' \union lost'
    BY <1>0, <1>6, <2>3
  <2>12. \A u, v \in Adders' : add'[u].page = add'[v].page => u = v
    BY <1>0, <2>3
  <2> QED
    BY <1>1, <2>3, <2>5, <2>7, <2>8, <2>9, <2>10, <2>11, <2>12
<1>7. CASE /\ add[t].pc = "way"
           /\ add' = [add EXCEPT ![t].level = @ + 1]
           /\ UNCHANGED <<cursor, pages, lost>>
  <2> DEFINE m == [add[t] EXCEPT !.level = add[t].level + 1]
  <2>1. m \in Adds /\ m.pc = "way" /\ m.page = add[t].page /\ add' = [add EXCEPT ![t] = m]
    BY <1>0, <1>7 DEF Adds
  <2> HIDE DEF m
  <2>2. t \notin Full /\ t \in Adders
    BY <1>7 DEF Full, Adders
  <2>3. /\ add' \in [Thread -> Adds] /\ Full' = Full /\ Adders' = Adders
        /\ \A u \in Adders : add'[u].page = add[u].page
    <3>1. add' \in [Thread -> Adds] /\ add'[t] = m /\ \A u \in Thread \ {t} : add'[u] = add[u]
      BY <1>0, <2>1, <2>2, <1>p
    <3> QED
      BY <1>0, <2>1, <2>2, <3>1 DEF Full, Adders
  <2>4. {add'[u].page : u \in Adders'} = Held
    BY <2>3 DEF Held
  <2> QED
    BY <1>0, <1>1, <1>7, <2>3, <2>4
<1>8. CASE /\ add[t].pc = "way"
           /\ add' = [add EXCEPT ![t] = NoAdd]
           /\ \/ lost' = lost \union {add[t].page} /\ UNCHANGED <<cursor, pages>>
              \/ pages' = pages \union {add[t].page} /\ UNCHANGED <<cursor, lost>>
  <2>1. NoAdd \in Adds /\ NoAdd.pc = "none"
    BY <1>0 DEF Adds, NoAdd, Pages
  <2>2. t \notin Full /\ t \in Adders
    BY <1>8 DEF Full, Adders
  <2>3. /\ add' \in [Thread -> Adds] /\ Full' = Full /\ Adders' = Adders \ {t}
        /\ \A u \in Adders \ {t} : add'[u].page = add[u].page
    <3>1. add' \in [Thread -> Adds] /\ add'[t] = NoAdd /\ \A u \in Thread \ {t} : add'[u] = add[u]
      BY <1>0, <1>8, <2>1, <2>2, <1>p
    <3> QED
      BY <1>0, <1>8, <2>1, <2>2, <3>1 DEF Full, Adders
  <2>4. {add'[u].page : u \in Adders'} \union {add[t].page} = Held
    BY <2>2, <2>3 DEF Held
  <2>5. /\ pages' \union lost' = pages \union lost \union {add[t].page}
        /\ pages' \intersect lost' = {} /\ cursor' = cursor
        /\ pages' \subseteq Pages /\ lost' \subseteq Pages
    BY <1>0, <1>8, <2>2
  <2>6. \A u \in Adders' : add'[u].page \notin pages' \union lost'
    BY <1>0, <2>2, <2>3, <2>5
  <2>7. pages' \union lost' \union {add'[u].page : u \in Adders'} = 0 .. N - 1
    BY <1>0, <2>4, <2>5
  <2> QED
    BY <1>0, <1>1, <2>3, <2>5, <2>6, <2>7
<1> QED
  BY <1>3, <1>4, <1>5, <1>6, <1>7, <1>8 DEF PageStep

\* So does every step.
LEMMA NextPageInv == ASSUME PageInv, [Next]_vars PROVE PageInv'
<1>1. CASE UNCHANGED <<cursor, pages, lost, add>>
  BY <1>1 DEF PageInv, PageOnce, Numbered, Full
<1>2. CASE UNCHANGED vars
  BY <1>1, <1>2 DEF vars
<1>3. ASSUME NEW t \in Thread, Adder(t) \/ Pop(t) \/ VecStep(t) \/ VecAlloc(t) \/ Session(t)
      PROVE  PageInv'
  BY <1>1, <1>3, StepIsPageStep, PageStepInv
<1> QED
  BY <1>2, <1>3 DEF Next

\* The invariant of the page numbers holds always.
THEOREM PageInvAlways == Spec => []PageInv
<1> QED
  BY InitPageInv, NextPageInv, PTL DEF Spec

\* No two threads that fill the list of blocks ever get one page, whatever
\* allocations fail and however many threads find that no page is left.
THEOREM PagesNumberedOnce == Spec => []PageOnce
<1>1. PageInv => PageOnce
  BY DEF PageInv
<1> QED
  BY <1>1, PageInvAlways, PTL
-----------------------------------------------------------------------------
\* Rows of a table with w entries: the entries of row r are entries of it, and
\* different entries of a row differ.
LEMMA Rows ==
  ASSUME NEW n \in Nat \ {0}, NEW w \in Nat \ {0}, NEW r \in 0 .. n - 1
  PROVE  /\ n * w \in Nat
         /\ \A i \in 1 .. w : r * w + i - 1 \in 0 .. n * w - 1
         /\ \A i, j \in 1 .. w : r * w + i - 1 = r * w + j - 1 => i = j
<1>1. /\ n * w \in Nat /\ r * w \in Nat /\ (n - 1 - r) * w \in Nat
      /\ n - 1 - r \in Nat
  OBVIOUS
<1>2. n * w = r * w + (n - 1 - r) * w + w
  OBVIOUS
<1> DEFINE a == r * w
           b == (n - 1 - r) * w
           d == n * w
<1> HIDE DEF a, b, d
<1>3. a \in Nat /\ b \in Nat /\ d = a + b + w
  BY <1>1, <1>2 DEF a, b, d
<1>4. \A i \in 1 .. w : a + i - 1 \in 0 .. d - 1
  BY <1>3
<1>5. \A i, j \in 1 .. w : a + i - 1 = a + j - 1 => i = j
  BY <1>3
<1> QED
  BY <1>1, <1>4, <1>5 DEF a, d

\* The chains of the blocks of a page are what FreeList asks for.
LEMMA BlkAssumed == Blk!ListAssumption
<1>1. End \notin Blks
  BY DEF End, Blks
<1>2. ASSUME NEW p \in Pages
      PROVE  /\ BlksOf(p) \in Seq(Blks) /\ BlksOf(p) # <<>>
             /\ \A i, j \in 1 .. Len(BlksOf(p)) : BlksOf(p)[i] = BlksOf(p)[j] => i = j
  <2>1. BlkPerPg \in Nat \ {0} /\ PgMax \in Nat \ {0} /\ p \in 0 .. PgMax - 1
    BY BlocksAssumption DEF BlocksAssumption, Pages
  <2>2. /\ \A i \in 1 .. BlkPerPg : p * BlkPerPg + i - 1 \in Blks
        /\ \A i, j \in 1 .. BlkPerPg : p * BlkPerPg + i - 1 = p * BlkPerPg + j - 1 => i = j
    BY <2>1, Rows DEF Blks
  <2>3. /\ BlksOf(p) \in Seq(Blks) /\ Len(BlksOf(p)) = BlkPerPg
        /\ \A i \in 1 .. BlkPerPg : BlksOf(p)[i] = p * BlkPerPg + i - 1
    BY <2>1, <2>2 DEF BlksOf
  <2> QED
    BY <2>1, <2>2, <2>3
<1> QED
  BY <1>1, <1>2 DEF Blk!ListAssumption

\* So are the chains of the nodes of a block.
LEMMA VecAssumed == Vec!ListAssumption
<1>1. End \notin Vecs /\ Stray \subseteq Vecs \union {End}
  <2>1. \A x \in -1 .. PgMax * BlkPerPg * VecPerBlk - 1 : x \in Vecs \/ x = -1
    BY BlocksAssumption DEF BlocksAssumption, Vecs
  <2> QED
    BY <2>1, BlocksAssumption DEF BlocksAssumption, End, Vecs
<1>2. ASSUME NEW b \in Blks
      PROVE  /\ VecsOf(b) \in Seq(Vecs) /\ VecsOf(b) # <<>>
             /\ \A i, j \in 1 .. Len(VecsOf(b)) : VecsOf(b)[i] = VecsOf(b)[j] => i = j
  <2>1. /\ VecPerBlk \in Nat \ {0} /\ PgMax * BlkPerPg \in Nat \ {0}
        /\ b \in 0 .. PgMax * BlkPerPg - 1
    BY BlocksAssumption DEF BlocksAssumption, Blks
  <2>2. /\ \A i \in 1 .. VecPerBlk : b * VecPerBlk + i - 1 \in Vecs
        /\ \A i, j \in 1 .. VecPerBlk : b * VecPerBlk + i - 1 = b * VecPerBlk + j - 1 => i = j
    BY <2>1, Rows DEF Vecs
  <2>3. /\ VecsOf(b) \in Seq(Vecs) /\ Len(VecsOf(b)) = VecPerBlk
        /\ \A i \in 1 .. VecPerBlk : VecsOf(b)[i] = b * VecPerBlk + i - 1
    BY <2>1, <2>2 DEF VecsOf
  <2> QED
    BY <2>1, <2>2, <2>3
<1> QED
  BY <1>1, <1>2 DEF Vec!ListAssumption
-----------------------------------------------------------------------------
\* A step is a step of the list of blocks, or leaves it alone.
LEMMA BlkRefined == ASSUME PageInv, [Next]_vars PROVE [Blk!Next]_(Blk!vars)
<1>1. ASSUME NEW t \in Thread,
             \/ Blk!Begin(t) \/ Blk!End(t) \/ Blk!Alloc(t) \/ Blk!Read(t) \/ Blk!ReadNext(t)
             \/ Blk!Take(t) \/ Blk!GrowFail(t) \/ Blk!LinkHead(t) \/ Blk!Push(t)
      PROVE  Blk!Next
  BY <1>1 DEF Blk!Next, Blk!Step
<1>2. ASSUME NEW t \in Thread, NEW p \in Pages, Blk!Grow(t, BlksOf(p)) PROVE Blk!Next
  BY <1>2 DEF Blk!Next, Blk!Step
<1>3. CASE UNCHANGED <<blkVars, online>>
  BY <1>3 DEF blkVars, Blk!vars
<1>4. CASE UNCHANGED vars
  BY <1>3, <1>4 DEF vars, blkVars
<1>5. ASSUME NEW t \in Thread, Adder(t) PROVE [Blk!Next]_(Blk!vars)
  <2>1. CASE AddPage(t)
    BY <1>1, <1>3, <2>1 DEF AddPage, BlkGrowFail
  <2>2. CASE AddFull(t)
    BY <1>1, <2>2 DEF AddFull, BlkGrowFail
  <2>3. CASE AddTable(t)
    BY <1>1, <1>3, <2>3 DEF AddTable, BlkGrowFail
  <2>4. CASE PassTable(t)
    BY <1>3, <2>4 DEF PassTable
  <2>5. CASE StorePage(t)
    <3>1. add[t].page \in Pages
      BY DEF PageInv, Adds
    <3> QED
      BY <1>2, <2>5, <3>1 DEF StorePage
  <2> QED
    BY <1>5, <2>1, <2>2, <2>3, <2>4, <2>5 DEF Adder
<1>6. ASSUME NEW t \in Thread, Pop(t) PROVE [Blk!Next]_(Blk!vars)
  BY <1>1, <1>6 DEF Pop, AskBlk, BlkStep, BlkTake
<1>7. ASSUME NEW t \in Thread, VecStep(t) \/ VecAlloc(t) PROVE [Blk!Next]_(Blk!vars)
  <2>1. UNCHANGED <<blkVars, online>>
    BY <1>7 DEF VecStep, VecAlloc, Vec!Read, Vec!Take, Vec!LinkHead, Vec!Push, Vec!ReadNext,
                Vec!GiveUp, Vec!Free, Vec!Alloc
  <2> QED
    BY <1>3, <2>1
<1>8. ASSUME NEW t \in Thread, Session(t) PROVE [Blk!Next]_(Blk!vars)
  BY <1>1, <1>8 DEF Session
<1> QED
  BY <1>4, <1>5, <1>6, <1>7, <1>8 DEF Next

\* What a cluster does to its free blocks is what a free list does.
THEOREM BlkListImplemented == Spec => BlkList
<1>1. Init => Blk!Init
  BY DEF Init
<1>2. PageInv /\ [Next]_vars => [Blk!Next]_(Blk!vars)
  BY BlkRefined
<1> QED
  BY <1>1, <1>2, PageInvAlways, PTL DEF Spec, BlkList, Blk!Spec
-----------------------------------------------------------------------------
\* What FreeList_proofs proves, of either list.
BlkProof == INSTANCE FreeList_proofs WITH
  Unit <- Blks, Nil <- End, Chains <- {BlksOf(p) : p \in Pages}, FirstTry <- {FALSE}, Stray <- {End},
  head <- blk, next <- blkNext, loc <- blkLoc, free <- blkFree, place <- blkPlace,
  hold <- blkHold
VecProof == INSTANCE FreeList_proofs WITH
  Unit <- Vecs, Nil <- End, Chains <- {VecsOf(b) : b \in Blks}, FirstTry <- BOOLEAN, Stray <- Stray,
  head <- vec, next <- vecNext, loc <- vecLoc, free <- vecFree, place <- vecPlace,
  hold <- vecHold

\* FreeList, and FreeList as FreeList_proofs extends it, are the same.
LEMMA BlkSame ==
  /\ Blk!ListAssumption => BlkProof!ListAssumption
  /\ Blk!Init => BlkProof!Init
  /\ [Blk!Next]_(Blk!vars) => [BlkProof!Next]_(BlkProof!vars)
<1>1. Blk!ListAssumption => BlkProof!ListAssumption
  BY DEF Blk!ListAssumption, BlkProof!ListAssumption
<1>2. Blk!Init => BlkProof!Init
  BY DEF Blk!Init, BlkProof!Init, Blk!Idle, BlkProof!Idle
<1>4. ASSUME NEW t \in Thread, Blk!Step(t) PROVE BlkProof!Step(t)
  <2> USE DEF Blk!At, BlkProof!At, Blk!Become, BlkProof!Become, Blk!Goto, BlkProof!Goto,
              Blk!Idle, BlkProof!Idle, Blk!Elems, BlkProof!Elems
  <2>1. Blk!Begin(t) => BlkProof!Begin(t)
    BY DEF Blk!Begin, BlkProof!Begin
  <2>2. Blk!End(t) => BlkProof!End(t)
    BY DEF Blk!End, BlkProof!End
  <2>3. Blk!Alloc(t) => BlkProof!Alloc(t)
    BY DEF Blk!Alloc, BlkProof!Alloc
  <2>4. Blk!Read(t) => BlkProof!Read(t)
    BY DEF Blk!Read, BlkProof!Read
  <2>5. Blk!ReadNext(t) => BlkProof!ReadNext(t)
    BY DEF Blk!ReadNext, BlkProof!ReadNext
  <2>6. Blk!Take(t) => BlkProof!Take(t)
    BY DEF Blk!Take, BlkProof!Take
  <2>7. ASSUME NEW c, Blk!Grow(t, c) PROVE BlkProof!Grow(t, c)
    BY <2>7 DEF Blk!Grow, BlkProof!Grow
  <2>8. Blk!GrowFail(t) => BlkProof!GrowFail(t)
    BY DEF Blk!GrowFail, BlkProof!GrowFail
  <2>9. ASSUME NEW u \in Blks
        PROVE  (Blk!GiveUp(t, u) => BlkProof!GiveUp(t, u)) /\ (Blk!Free(t, u) => BlkProof!Free(t, u))
    BY DEF Blk!GiveUp, BlkProof!GiveUp, Blk!Free, BlkProof!Free
  <2>10. Blk!LinkHead(t) => BlkProof!LinkHead(t)
    BY DEF Blk!LinkHead, BlkProof!LinkHead
  <2>11. Blk!Push(t) => BlkProof!Push(t)
    BY DEF Blk!Push, BlkProof!Push
  <2> QED
    BY <1>4, <2>1, <2>2, <2>3, <2>4, <2>5, <2>6, <2>7, <2>8, <2>9, <2>10, <2>11
       DEF Blk!Step, BlkProof!Step
<1>5. Blk!Next => BlkProof!Next
  BY <1>4 DEF Blk!Next, BlkProof!Next
<1>6. UNCHANGED Blk!vars => UNCHANGED BlkProof!vars
  BY DEF Blk!vars, BlkProof!vars
<1> QED
  BY <1>1, <1>2, <1>5, <1>6

\* The same for the list of nodes.
LEMMA VecSame ==
  /\ Vec!ListAssumption => VecProof!ListAssumption
  /\ Vec!Init => VecProof!Init
  /\ [Vec!Next]_(Vec!vars) => [VecProof!Next]_(VecProof!vars)
<1>1. Vec!ListAssumption => VecProof!ListAssumption
  BY DEF Vec!ListAssumption, VecProof!ListAssumption
<1>2. Vec!Init => VecProof!Init
  BY DEF Vec!Init, VecProof!Init, Vec!Idle, VecProof!Idle
<1>4. ASSUME NEW t \in Thread, Vec!Step(t) PROVE VecProof!Step(t)
  <2> USE DEF Vec!At, VecProof!At, Vec!Become, VecProof!Become, Vec!Goto, VecProof!Goto,
              Vec!Idle, VecProof!Idle, Vec!Elems, VecProof!Elems
  <2>1. Vec!Begin(t) => VecProof!Begin(t)
    BY DEF Vec!Begin, VecProof!Begin
  <2>2. Vec!End(t) => VecProof!End(t)
    BY DEF Vec!End, VecProof!End
  <2>3. Vec!Alloc(t) => VecProof!Alloc(t)
    BY DEF Vec!Alloc, VecProof!Alloc
  <2>4. Vec!Read(t) => VecProof!Read(t)
    BY DEF Vec!Read, VecProof!Read
  <2>5. Vec!ReadNext(t) => VecProof!ReadNext(t)
    BY DEF Vec!ReadNext, VecProof!ReadNext
  <2>6. Vec!Take(t) => VecProof!Take(t)
    BY DEF Vec!Take, VecProof!Take
  <2>7. ASSUME NEW c, Vec!Grow(t, c) PROVE VecProof!Grow(t, c)
    BY <2>7 DEF Vec!Grow, VecProof!Grow
  <2>8. Vec!GrowFail(t) => VecProof!GrowFail(t)
    BY DEF Vec!GrowFail, VecProof!GrowFail
  <2>9. ASSUME NEW u \in Vecs
        PROVE  (Vec!GiveUp(t, u) => VecProof!GiveUp(t, u)) /\ (Vec!Free(t, u) => VecProof!Free(t, u))
    BY DEF Vec!GiveUp, VecProof!GiveUp, Vec!Free, VecProof!Free
  <2>10. Vec!LinkHead(t) => VecProof!LinkHead(t)
    BY DEF Vec!LinkHead, VecProof!LinkHead
  <2>11. Vec!Push(t) => VecProof!Push(t)
    BY DEF Vec!Push, VecProof!Push
  <2> QED
    BY <1>4, <2>1, <2>2, <2>3, <2>4, <2>5, <2>6, <2>7, <2>8, <2>9, <2>10, <2>11
       DEF Vec!Step, VecProof!Step
<1>5. Vec!Next => VecProof!Next
  BY <1>4 DEF Vec!Next, VecProof!Next
<1>6. UNCHANGED Vec!vars => UNCHANGED VecProof!vars
  BY DEF Vec!vars, VecProof!vars
<1> QED
  BY <1>1, <1>2, <1>5, <1>6

\* The invariant of FreeList holds of the list of blocks.
THEOREM BlkInv == Spec => []BlkProof!Inv
<1>1. BlkProof!ListAssumption
  BY BlkAssumed, BlkSame
<1>2. BlkProof!Spec => []BlkProof!Inv
  BY <1>1, BlkProof!InvAlways
<1>3. Blk!Init => BlkProof!Init
  BY BlkSame
<1>4. [Blk!Next]_(Blk!vars) => [BlkProof!Next]_(BlkProof!vars)
  BY BlkSame
<1>5. Blk!Spec => BlkProof!Spec
  BY <1>3, <1>4, PTL DEF Blk!Spec, BlkProof!Spec
<1> QED
  BY <1>2, <1>5, BlkListImplemented, PTL DEF BlkList

\* A step is a step of the list of nodes, or leaves it alone: the block whose
\* nodes it is given was popped off the list of blocks.
LEMMA VecRefined == ASSUME BlkProof!Inv, [Next]_vars PROVE [Vec!Next]_(Vec!vars)
<1>1. ASSUME NEW t \in Thread,
             \/ Vec!Begin(t) \/ Vec!End(t) \/ Vec!Alloc(t) \/ Vec!Read(t) \/ Vec!ReadNext(t)
             \/ Vec!Take(t) \/ Vec!GrowFail(t) \/ Vec!LinkHead(t) \/ Vec!Push(t)
      PROVE  Vec!Next
  BY <1>1 DEF Vec!Next, Vec!Step
<1>2. ASSUME NEW t \in Thread, NEW b \in Blks, Vec!Grow(t, VecsOf(b)) PROVE Vec!Next
  BY <1>2 DEF Vec!Next, Vec!Step
<1>3. CASE UNCHANGED <<vecVars, online>>
  BY <1>3 DEF vecVars, Vec!vars
<1>4. CASE UNCHANGED vars
  BY <1>3, <1>4 DEF vars, vecVars
<1>5. ASSUME NEW t \in Thread, Adder(t) PROVE [Vec!Next]_(Vec!vars)
  <2>1. CASE AddPage(t)
    BY <1>1, <1>3, <2>1 DEF AddPage, BlkGrowFail
  <2>2. CASE AddFull(t)
    BY <1>1, <1>3, <2>2 DEF AddFull, BlkGrowFail
  <2>3. CASE AddTable(t)
    BY <1>1, <1>3, <2>3 DEF AddTable, BlkGrowFail
  <2>4. CASE PassTable(t) \/ StorePage(t)
    BY <1>3, <2>4 DEF PassTable, StorePage
  <2> QED
    BY <1>5, <2>1, <2>2, <2>3, <2>4 DEF Adder
<1>6. ASSUME NEW t \in Thread, AskBlk(t) \/ BlkStep(t) PROVE [Vec!Next]_(Vec!vars)
  <2>1. UNCHANGED <<vecVars, online>>
    BY <1>6 DEF AskBlk, BlkStep, Blk!Alloc, Blk!Read, Blk!LinkHead, Blk!Push, Blk!ReadNext
  <2> QED
    BY <1>3, <2>1
<1>7. ASSUME NEW t \in Thread, BlkTake(t) PROVE [Vec!Next]_(Vec!vars)
  <2>1. CASE blk = blkLoc[t].cur
    <3>1. blkLoc[t].pc = "take"
      BY <1>7 DEF BlkTake, Blk!Take, Blk!At
    <3>2. blk \in Blks
      BY <2>1, <3>1 DEF BlkProof!Inv, BlkProof!Popping
    <3> QED
      BY <1>2, <1>7, <2>1, <3>2 DEF BlkTake
  <2>2. CASE blk # blkLoc[t].cur
    <3>1. UNCHANGED <<vecVars, online>>
      BY <1>7, <2>2 DEF BlkTake, Blk!Take
    <3> QED
      BY <1>3, <3>1
  <2> QED
    BY <2>1, <2>2
<1>8. ASSUME NEW t \in Thread, VecStep(t) PROVE [Vec!Next]_(Vec!vars)
  <2>1. ASSUME NEW v \in Vecs, Vec!GiveUp(t, v) \/ Vec!Free(t, v) PROVE Vec!Next
    BY <2>1 DEF Vec!Next, Vec!Step
  <2> QED
    BY <1>1, <1>8, <2>1 DEF VecStep
<1>9. ASSUME NEW t \in Thread, VecAlloc(t) \/ Session(t) PROVE [Vec!Next]_(Vec!vars)
  BY <1>1, <1>9 DEF VecAlloc, Session
<1> QED
  BY <1>4, <1>5, <1>6, <1>7, <1>8, <1>9 DEF Next, Pop

\* What a cluster does to its free nodes is what a free list does.
THEOREM VecListImplemented == Spec => VecList
<1>1. Init => Vec!Init
  BY DEF Init
<1>2. BlkProof!Inv /\ [Next]_vars => [Vec!Next]_(Vec!vars)
  BY VecRefined
<1> QED
  BY <1>1, <1>2, BlkInv, PTL DEF Spec, VecList, Vec!Spec

\* The invariant of FreeList holds of the list of nodes.
THEOREM VecInv == Spec => []VecProof!Inv
<1>1. VecProof!ListAssumption
  BY VecAssumed, VecSame
<1>2. VecProof!Spec => []VecProof!Inv
  BY <1>1, VecProof!InvAlways
<1>3. Vec!Init => VecProof!Init
  BY VecSame
<1>4. [Vec!Next]_(Vec!vars) => [VecProof!Next]_(VecProof!vars)
  BY VecSame
<1>5. Vec!Spec => VecProof!Spec
  BY <1>3, <1>4, PTL DEF Vec!Spec, VecProof!Spec
<1> QED
  BY <1>2, <1>5, VecListImplemented, PTL DEF VecList

\* Both lists of a cluster are whole, and no block or node is in two hands,
\* for any number of workers: the compare-and-swaps of vec_alloc and blk_alloc
\* need no counter beside the id.
THEOREM ListsAlwaysWhole == Spec => []ListsWhole
<1>1. BlkProof!Inv => Blk!ListWhole /\ Blk!OnePlace
  BY DEF BlkProof!Inv, BlkProof!ListWhole, BlkProof!OnePlace, BlkProof!Elems,
         Blk!ListWhole, Blk!OnePlace, Blk!Elems
<1>2. VecProof!Inv => Vec!ListWhole /\ Vec!OnePlace
  BY DEF VecProof!Inv, VecProof!ListWhole, VecProof!OnePlace, VecProof!Elems,
         Vec!ListWhole, Vec!OnePlace, Vec!Elems
<1>3. BlkProof!Inv /\ VecProof!Inv => ListsWhole
  BY <1>1, <1>2 DEF ListsWhole
<1> QED
  BY <1>3, BlkInv, VecInv, PTL
-----------------------------------------------------------------------------
\* The row of an entry begins at an entry of the same row.
LEMMA RowStart ==
  ASSUME NEW a \in Nat, NEW w \in Nat \ {0}
  PROVE  /\ a \div w \in Nat
         /\ (a \div w) * w \in 0 .. a
         /\ ((a \div w) * w) \div w = a \div w
<1> DEFINE r == a \div w
<1>1. r \in Nat /\ a = r * w + (a % w) /\ a % w \in Nat
  OBVIOUS
<1>2. r * w \in Nat
  BY <1>1
<1>3. (r * w) \div w = r
  BY <1>1
<1>4. r * w <= a
  BY <1>1, <1>2
<1> QED
  BY <1>1, <1>2, <1>3, <1>4

\* A table page on the way to a page is on the way to the page that opens it,
\* which has a number no greater.
LEMMA Opener ==
  ASSUME NEW p \in Pages, NEW i \in 1 .. Len(Way(p))
  PROVE  \E f \in Pages : /\ f <= p /\ Opens(f, Way(p)[i])
                          /\ \E j \in 1 .. Len(Way(f)) : Way(f)[j] = Way(p)[i]
<1> DEFINE q == p - NDirect - Ptrs
<1>1. NDirect \in Nat /\ Ptrs \in Nat \ {0} /\ p \in Nat /\ q \in Int
  BY BlocksAssumption DEF BlocksAssumption, Pages
<1>2. \A f \in 0 .. p : f \in Pages
  BY BlocksAssumption DEF BlocksAssumption, Pages
<1>3. CASE p < NDirect
  <2>1. Way(p) = <<>>
    BY <1>3 DEF Way
  <2> QED
    BY <2>1
<1>4. CASE p >= NDirect /\ q < 0
  <2> DEFINE x == [level |-> "ind", at |-> 0]
  <2>1. Way(p) = <<x>> /\ Way(NDirect) = <<x>>
    BY <1>1, <1>4 DEF Way
  <2>2. NDirect \in 0 .. p /\ Opens(NDirect, x)
    BY <1>1, <1>4 DEF Opens
  <2> HIDE DEF x
  <2>3. Way(p)[i] = x /\ 1 \in 1 .. Len(Way(NDirect)) /\ Way(NDirect)[1] = x
    BY <2>1
  <2> QED
    BY <1>2, <2>2, <2>3
<1>5. CASE p >= NDirect /\ q >= 0
  <2> DEFINE x == [level |-> "dind", at |-> 0]
             y(k) == [level |-> "entry", at |-> k]
             r == q \div Ptrs
  <2>1. r \in Nat /\ r * Ptrs \in 0 .. q /\ (r * Ptrs) \div Ptrs = r
    <3> q \in Nat
      BY <1>1, <1>5
    <3> HIDE DEF q
    <3> QED
      BY <1>1, RowStart
  <2>2. \A n \in Nat : Way(NDirect + Ptrs + n) = <<x, y(n \div Ptrs)>>
    <3> SUFFICES ASSUME NEW n \in Nat PROVE Way(NDirect + Ptrs + n) = <<x, y(n \div Ptrs)>>
      OBVIOUS
    <3>1. /\ (NDirect + Ptrs + n) - NDirect - Ptrs = n
          /\ ~(NDirect + Ptrs + n < NDirect) /\ ~(n < 0)
      BY <1>1
    <3> QED
      BY <3>1 DEF Way
  <2>3. p = NDirect + Ptrs + q /\ q \in Nat
    BY <1>1, <1>5
  <2>4. Way(p) = <<x, y(r)>>
    BY <2>2, <2>3
  <2>5. CASE i = 1
    <3> DEFINE f == NDirect + Ptrs + 0
    <3>1. f \in 0 .. p /\ Opens(f, x)
      BY <1>1, <1>5 DEF Opens
    <3>2. Way(f) = <<x, y(0 \div Ptrs)>>
      BY <2>2
    <3> HIDE DEF x, f
    <3>3. Way(p)[i] = x /\ 1 \in 1 .. Len(Way(f)) /\ Way(f)[1] = x
      BY <2>4, <2>5, <3>2
    <3> QED
      BY <1>1, <1>2, <3>1, <3>3
  <2>6. CASE i = 2
    <3> DEFINE f == NDirect + Ptrs + r * Ptrs
    <3>1. f \in 0 .. p
      BY <1>1, <2>1
    <3>2. Opens(f, y(r))
      <4>1. f - NDirect - Ptrs = r * Ptrs
        BY <1>1, <2>1
      <4>2. y(r).level = "entry" /\ y(r).at = r
        OBVIOUS
      <4> HIDE DEF y, f, r
      <4> QED
        BY <4>1, <4>2 DEF Opens
    <3>3. Way(f) = <<x, y(r)>>
      BY <2>1, <2>2
    <3> HIDE DEF x, y, f, r
    <3>4. Way(p)[i] = y(r) /\ 2 \in 1 .. Len(Way(f)) /\ Way(f)[2] = y(r)
      BY <2>4, <2>6, <3>3
    <3> QED
      BY <1>1, <1>2, <3>1, <3>2, <3>4
  <2>7. i \in {1, 2}
    BY <2>4
  <2> QED
    BY <2>5, <2>6, <2>7
<1> QED
  BY <1>1, <1>3, <1>4, <1>5

\* The table pages on the way to a stored page are in place, and those an
\* adder has passed.
TableInv ==
  /\ \A p \in pages : \A i \in 1 .. Len(Way(p)) : Way(p)[i] \in tables
  /\ \A t \in Adders :
       /\ add[t].level \in Nat \ {0}
       /\ \A i \in 1 .. Len(Way(add[t].page)) : i < add[t].level => Way(add[t].page)[i] \in tables

\* The way of a page is a sequence.
LEMMA WayLen == ASSUME NEW p PROVE Len(Way(p)) \in Nat
<1>1. \A a, b : Len(<<>>) = 0 /\ Len(<<a>>) = 1 /\ Len(<<a, b>>) = 2
  OBVIOUS
<1> QED
  BY <1>1 DEF Way

\* A step keeps the way to what is stored in place.
LEMMA TableStep == ASSUME PageInv, TableInv, [Next]_vars PROVE TableInv'
<1>0. add \in [Thread -> Adds]
  BY DEF PageInv
<1>1. CASE UNCHANGED <<pages, tables, add>>
  BY <1>1 DEF TableInv, Adders
<1>2. ASSUME NEW t \in Thread, AddPage(t) PROVE TableInv'
  <2>1. UNCHANGED <<pages, tables>>
    BY <1>2 DEF AddPage
  <2>2. \A u \in Adders' : \/ u \in Adders /\ add'[u] = add[u]
                           \/ add'[u].level = 1
    BY <1>0, <1>2 DEF AddPage, Adding, Adders, Adds
  <2> QED
    BY <2>1, <2>2, WayLen DEF TableInv
<1>3. ASSUME NEW t \in Thread, AddFull(t) PROVE TableInv'
  <2>1. UNCHANGED <<pages, tables>>
    BY <1>3 DEF AddFull
  <2>2. \A u \in Adders' : u \in Adders /\ add'[u] = add[u]
    BY <1>0, <1>3 DEF AddFull, Adders, Adds, NoAdd
  <2> QED
    BY <2>1, <2>2 DEF TableInv
<1>4. ASSUME NEW t \in Thread, OnWay(t), Further(t), UNCHANGED pages,
             tables \subseteq tables', Level(t) \in tables'
      PROVE  TableInv'
  <2>1. t \in Adders /\ add[t].level \in Nat \ {0}
    BY <1>4 DEF OnWay, Adding, Adders, TableInv
  <2>2. \A u \in Adders' \ {t} : u \in Adders /\ add'[u] = add[u]
    BY <1>0, <1>4 DEF Further, Adders
  <2>3. add'[t].page = add[t].page /\ add'[t].level = add[t].level + 1
    BY <1>0, <1>4 DEF Further, Adds
  <2>4. ASSUME NEW i \in 1 .. Len(Way(add[t].page)), i < add[t].level + 1
        PROVE  Way(add[t].page)[i] \in tables'
    <3>1. CASE i = add[t].level
      BY <1>4, <3>1 DEF Level
    <3>2. CASE i < add[t].level
      BY <1>4, <2>1, <3>2 DEF TableInv
    <3> QED
      BY <2>1, <2>4, <3>1, <3>2
  <2>5. \A p \in pages' : \A i \in 1 .. Len(Way(p)) : Way(p)[i] \in tables'
    BY <1>4 DEF TableInv
  <2>6. ASSUME NEW u \in Adders'
        PROVE  /\ add'[u].level \in Nat \ {0}
               /\ \A i \in 1 .. Len(Way(add'[u].page)) :
                    i < add'[u].level => Way(add'[u].page)[i] \in tables'
    <3>1. CASE u = t
      BY <2>1, <2>3, <2>4, <3>1
    <3>2. CASE u # t
      BY <1>4, <2>2, <3>2 DEF TableInv
    <3> QED
      BY <3>1, <3>2
  <2> QED
    BY <2>5, <2>6 DEF TableInv
<1>5. ASSUME NEW t \in Thread, add' = [add EXCEPT ![t] = NoAdd], UNCHANGED tables,
             \A p \in pages' : \A i \in 1 .. Len(Way(p)) : Way(p)[i] \in tables
      PROVE  TableInv'
  <2>1. \A u \in Adders' : u \in Adders /\ add'[u] = add[u]
    BY <1>0, <1>5 DEF Adders, Adds, NoAdd
  <2> QED
    BY <1>5, <2>1 DEF TableInv
<1>6. ASSUME NEW t \in Thread, AddTable(t) PROVE TableInv'
  <2>1. CASE tables' = tables \union {Level(t)} /\ Further(t)
    BY <1>4, <1>6, <2>1 DEF AddTable
  <2>2. CASE add' = [add EXCEPT ![t] = NoAdd] /\ UNCHANGED tables
    BY <1>5, <1>6, <2>2 DEF AddTable, TableInv
  <2> QED
    BY <1>6, <2>1, <2>2 DEF AddTable
<1>7. ASSUME NEW t \in Thread, PassTable(t) PROVE TableInv'
  BY <1>4, <1>7 DEF PassTable
<1>8. ASSUME NEW t \in Thread, StorePage(t) PROVE TableInv'
  <2>1. /\ pages' = pages \union {add[t].page} /\ UNCHANGED tables
        /\ add' = [add EXCEPT ![t] = NoAdd]
        /\ t \in Adders /\ add[t].level > Len(Way(add[t].page))
    BY <1>8 DEF StorePage, Adding, Adders
  <2>2. \A i \in 1 .. Len(Way(add[t].page)) : Way(add[t].page)[i] \in tables
    BY <2>1, WayLen DEF TableInv
  <2>3. \A p \in pages' : \A i \in 1 .. Len(Way(p)) : Way(p)[i] \in tables
    BY <2>1, <2>2 DEF TableInv
  <2> QED
    BY <1>5, <2>1, <2>3
<1>9. ASSUME NEW t \in Thread, Pop(t) \/ VecStep(t) \/ VecAlloc(t) \/ Session(t)
      PROVE  UNCHANGED <<pages, tables, add>>
  BY <1>9 DEF Pop, AskBlk, BlkStep, BlkTake, VecStep, VecAlloc, Session, pageVars
<1> QED
  BY <1>1, <1>2, <1>3, <1>6, <1>7, <1>8, <1>9 DEF Next, Adder, vars

\* The tables never lose a page.
LEMMA TableInvAlways == Spec => []TableInv
<1>1. Init => TableInv
  BY DEF Init, TableInv, Adders, NoAdd
<1> QED
  BY <1>1, TableStep, PageInvAlways, PTL DEF Spec

\* A thread that adds a page is where the list of blocks was found empty.
GrowInv == \A t \in Thread : add[t].pc # "none" => blkLoc[t].pc = "grow"

\* No step takes a thread out of cluster_add_page but its own return.
LEMMA GrowStep == ASSUME BlkProof!Inv, PageInv, GrowInv, [Next]_vars PROVE GrowInv'
<1>0. add \in [Thread -> Adds] /\ \E S : blkLoc \in [Thread -> S]
  BY DEF PageInv, BlkProof!Inv, BlkProof!TypeOK
<1>1. CASE UNCHANGED <<add, blkLoc>>
  BY <1>1 DEF GrowInv
<1>2. ASSUME NEW t \in Thread,
             UNCHANGED add \/ \E m : add' = [add EXCEPT ![t] = m],
             UNCHANGED blkLoc \/ \E m : blkLoc' = [blkLoc EXCEPT ![t] = m],
             add'[t].pc # "none" => blkLoc'[t].pc = "grow"
      PROVE  GrowInv'
  <2>1. \A u \in Thread \ {t} : add'[u] = add[u] /\ blkLoc'[u] = blkLoc[u]
    BY <1>0, <1>2
  <2> QED
    BY <1>2, <2>1 DEF GrowInv
<1>3. ASSUME NEW t \in Thread, AddPage(t) PROVE GrowInv'
  BY <1>0, <1>1, <1>2, <1>3 DEF AddPage, Adding, BlkGrowFail, Blk!GrowFail, Blk!Become, blkVars
<1>4. ASSUME NEW t \in Thread, AddFull(t) PROVE GrowInv'
  BY <1>0, <1>2, <1>4 DEF AddFull, NoAdd, BlkGrowFail, Blk!GrowFail, Blk!Become, blkVars
<1>5. ASSUME NEW t \in Thread, AddTable(t) PROVE GrowInv'
  BY <1>0, <1>2, <1>5
     DEF AddTable, OnWay, Adding, Further, NoAdd, BlkGrowFail, Blk!GrowFail, Blk!Become, blkVars
<1>6. ASSUME NEW t \in Thread, PassTable(t) PROVE GrowInv'
  BY <1>0, <1>2, <1>6 DEF PassTable, OnWay, Adding, Further, blkVars
<1>7. ASSUME NEW t \in Thread, StorePage(t) PROVE GrowInv'
  BY <1>0, <1>2, <1>7 DEF StorePage, NoAdd, Blk!Grow, Blk!Become
<1>8. ASSUME NEW t \in Thread, Pop(t) PROVE GrowInv'
  <2>1. UNCHANGED add /\ blkLoc[t].pc # "grow"
    BY <1>8 DEF Pop, AskBlk, BlkStep, BlkTake, pageVars, Blk!Alloc, Blk!Read, Blk!LinkHead,
                Blk!Push, Blk!ReadNext, Blk!Take, Blk!At
  <2>2. \E m : blkLoc' = [blkLoc EXCEPT ![t] = m]
    BY <1>8 DEF Pop, AskBlk, BlkStep, BlkTake, Blk!Alloc, Blk!Read, Blk!LinkHead,
                Blk!Push, Blk!ReadNext, Blk!Take, Blk!Become, Blk!Goto
  <2> QED
    BY <1>2, <2>1, <2>2 DEF GrowInv
<1>9. ASSUME NEW t \in Thread, VecStep(t) \/ VecAlloc(t) \/ Session(t)
      PROVE  UNCHANGED <<add, blkLoc>>
  BY <1>9 DEF VecStep, VecAlloc, Session, pageVars, blkVars, Blk!Begin, Blk!End
<1> QED
  BY <1>1, <1>3, <1>4, <1>5, <1>6, <1>7, <1>8, <1>9 DEF Next, Adder, vars

\* Who waits for a table page has someone to wait for, or a lost page to blame.
LEMMA InvWaits == ASSUME PageInv, TableInv, GrowInv PROVE WaitsForSomeone
<1> SUFFICES ASSUME NEW t \in Thread, OnWay(t), Level(t) \notin tables
             PROVE  \/ \E u \in Thread : Adding(u, "way") /\ Opens(add[u].page, Level(t))
                    \/ \E p \in lost : Opens(p, Level(t))
  BY DEF WaitsForSomeone
<1> DEFINE p == add[t].page
           i == add[t].level
<1>1. /\ t \in Adders /\ p \in Pages /\ p \in Nat
      /\ i \in 1 .. Len(Way(p)) /\ Level(t) = Way(p)[i]
  <2>1. t \in Adders /\ i <= Len(Way(p)) /\ Level(t) = Way(p)[i]
    BY DEF OnWay, Adding, Adders, Level
  <2>2. i \in Nat \ {0} /\ p \in Pages
    BY <2>1 DEF TableInv, PageInv, Adders, Adds
  <2> QED
    BY <2>1, <2>2, WayLen DEF Pages
<1>2. PICK f \in Pages :
        /\ f <= p /\ Opens(f, Level(t))
        /\ \E j \in 1 .. Len(Way(f)) : Way(f)[j] = Level(t)
  <2> HIDE DEF p, i
  <2> QED
    BY <1>1, Opener
<1>3. f \in pages \union lost \union {add[u].page : u \in Adders}
  <2>1. pages \union lost \union {add[u].page : u \in Adders} = 0 .. Numbered - 1
    BY DEF PageInv, PageOnce, Adders
  <2>2. p \in 0 .. Numbered - 1 /\ f \in Nat
    BY <1>1, <2>1 DEF Pages
  <2> QED
    BY <1>2, <2>1, <2>2 DEF PageInv
<1>4. f \notin pages
  BY <1>2 DEF TableInv
<1>5. CASE f \in lost
  BY <1>2, <1>5
<1>6. ASSUME NEW u \in Adders, f = add[u].page
      PROVE  \E v \in Thread : Adding(v, "way") /\ Opens(add[v].page, Level(t))
  BY <1>2, <1>6 DEF Adding, Adders, GrowInv
<1> QED
  BY <1>3, <1>4, <1>5, <1>6

\* A thread in the wait loops of cluster_add_page waits for a page somebody is
\* about to store, unless memory could not be had: for any number of threads and
\* any shape of the table, they never wait for each other in a circle.
THEOREM NobodyForgotten == Spec => []WaitsForSomeone
<1>1. Init => GrowInv
  BY DEF Init, GrowInv, NoAdd
<1>2. Spec => []TableInv
  BY TableInvAlways
<1>3. Spec => []GrowInv
  BY <1>1, GrowStep, BlkInv, PageInvAlways, PTL DEF Spec
<1>4. PageInv /\ TableInv /\ GrowInv => WaitsForSomeone
  BY InvWaits
<1> QED
  BY <1>2, <1>3, <1>4, PageInvAlways, PTL
-----------------------------------------------------------------------------
\* The entries of a row are in that row.
LEMMA RowOf ==
  ASSUME NEW r \in Nat, NEW w \in Nat \ {0}, NEW i \in 1 .. w
  PROVE  (r * w + i - 1) \div w = r
<1>1. r * w \in Nat /\ i - 1 \in 0 .. w - 1
  OBVIOUS
<1> QED
  BY <1>1

\* A block or node is new until its chain is made, and never again.
BlkQuiet == \A b \in Blks : blkPlace'[b] = "new" <=> blkPlace[b] = "new"
VecQuiet == \A v \in Vecs : vecPlace'[v] = "new" <=> vecPlace[v] = "new"

\* Of the steps on the list of blocks only the making of a chain ends newness.
LEMMA BlkStepQuiet ==
  ASSUME BlkProof!Inv, NEW t \in Thread,
         \/ Blk!Begin(t) \/ Blk!End(t) \/ Blk!Alloc(t) \/ Blk!Read(t) \/ Blk!ReadNext(t)
         \/ Blk!Take(t) \/ Blk!GrowFail(t) \/ Blk!LinkHead(t) \/ Blk!Push(t)
  PROVE  BlkQuiet
<1>0. blkPlace \in [Blks -> BlkProof!Place] /\ blkLoc \in [Thread -> BlkProof!Local]
  BY DEF BlkProof!Inv, BlkProof!TypeOK
<1>1. CASE UNCHANGED blkPlace
  BY <1>1 DEF BlkQuiet
<1>2. CASE Blk!Take(t) /\ blk = blkLoc[t].cur
  <2>1. blkPlace[blkLoc[t].cur] # "new"
    BY <1>2 DEF BlkProof!Inv, BlkProof!Popping, Blk!Take, Blk!At
  <2>2. blkPlace' = [blkPlace EXCEPT ![blkLoc[t].cur] = "used"]
    BY <1>2 DEF Blk!Take
  <2> QED
    BY <1>0, <2>1, <2>2 DEF BlkQuiet
<1>3. CASE Blk!Push(t) /\ blk = blkLoc[t].nxt
  <2>1. \A b \in Blks : b \in Blk!Elems(blkLoc[t].chain) => blkPlace[b] = "moving"
    BY DEF BlkProof!Inv, BlkProof!OnePlace, BlkProof!Elems, Blk!Elems
  <2>2. blkPlace' = [b \in Blks |-> IF b \in Blk!Elems(blkLoc[t].chain) THEN "free" ELSE blkPlace[b]]
    BY <1>3 DEF Blk!Push
  <2> QED
    BY <2>1, <2>2 DEF BlkQuiet
<1> QED
  BY <1>1, <1>2, <1>3
     DEF Blk!Begin, Blk!End, Blk!Alloc, Blk!Read, Blk!ReadNext, Blk!Take, Blk!GrowFail,
         Blk!LinkHead, Blk!Push

\* So it is with the list of nodes.
LEMMA VecStepQuiet ==
  ASSUME VecProof!Inv, NEW t \in Thread,
         \/ Vec!Begin(t) \/ Vec!End(t) \/ Vec!Alloc(t) \/ Vec!Read(t) \/ Vec!ReadNext(t)
         \/ Vec!Take(t) \/ Vec!GrowFail(t) \/ Vec!LinkHead(t) \/ Vec!Push(t)
         \/ \E v \in Vecs : Vec!GiveUp(t, v) \/ Vec!Free(t, v)
  PROVE  VecQuiet
<1>0. vecPlace \in [Vecs -> VecProof!Place] /\ vecLoc \in [Thread -> VecProof!Local]
  BY DEF VecProof!Inv, VecProof!TypeOK
<1>1. CASE UNCHANGED vecPlace
  BY <1>1 DEF VecQuiet
<1>2. CASE Vec!Take(t) /\ vec = vecLoc[t].cur
  <2>1. vecPlace[vecLoc[t].cur] # "new"
    BY <1>2 DEF VecProof!Inv, VecProof!Popping, Vec!Take, Vec!At
  <2>2. vecPlace' = [vecPlace EXCEPT ![vecLoc[t].cur] = "used"]
    BY <1>2 DEF Vec!Take
  <2> QED
    BY <1>0, <2>1, <2>2 DEF VecQuiet
<1>3. CASE Vec!Push(t) /\ vec = vecLoc[t].nxt
  <2>1. \A v \in Vecs : v \in Vec!Elems(vecLoc[t].chain) => vecPlace[v] = "moving"
    BY DEF VecProof!Inv, VecProof!OnePlace, VecProof!Elems, Vec!Elems
  <2>2. vecPlace' = [v \in Vecs |-> IF v \in Vec!Elems(vecLoc[t].chain) THEN "free" ELSE vecPlace[v]]
    BY <1>3 DEF Vec!Push
  <2> QED
    BY <2>1, <2>2 DEF VecQuiet
<1>4. ASSUME NEW v \in Vecs, Vec!GiveUp(t, v) \/ Vec!Free(t, v) PROVE VecQuiet
  <2>1. vecPlace[v] # "new" /\ \E x \in {"given", "moving"} : vecPlace' = [vecPlace EXCEPT ![v] = x]
    BY <1>4 DEF Vec!GiveUp, Vec!Free
  <2> QED
    BY <1>0, <2>1 DEF VecQuiet
<1> QED
  BY <1>1, <1>2, <1>3, <1>4
     DEF Vec!Begin, Vec!End, Vec!Alloc, Vec!Read, Vec!ReadNext, Vec!Take, Vec!GrowFail,
         Vec!LinkHead, Vec!Push

\* What is not new any more has its page in place.
PlaceInv ==
  /\ \A b \in Blks : blkPlace[b] # "new" => b \div BlkPerPg \in pages
  /\ \A v \in Vecs : vecPlace[v] # "new" => blkPlace[v \div VecPerBlk] # "new"

\* A node is in a block.
LEMMA VecInBlk == ASSUME NEW v \in Vecs PROVE v \div VecPerBlk \in Blks
<1> DEFINE n == PgMax * BlkPerPg
<1>1. n \in Nat \ {0} /\ VecPerBlk \in Nat \ {0} /\ v \in 0 .. n * VecPerBlk - 1
  BY BlocksAssumption DEF BlocksAssumption, Vecs
<1> HIDE DEF n
<1>2. v \div VecPerBlk \in 0 .. n - 1
  BY <1>1
<1> QED
  BY <1>2 DEF Blks, n

\* A step that makes no chain, and takes no page away.
LEMMA QuietPlaces ==
  ASSUME PlaceInv, BlkQuiet, VecQuiet, pages \subseteq pages'
  PROVE  PlaceInv'
<1> QED
  BY VecInBlk DEF PlaceInv, BlkQuiet, VecQuiet

\* Every step keeps the pages of what is in use in place.
LEMMA PlaceStep ==
  ASSUME BlkProof!Inv, VecProof!Inv, PageInv, PlaceInv, [Next]_vars
  PROVE  PlaceInv'
<1>1. CASE UNCHANGED <<blkPlace, vecPlace, pages>>
  BY <1>1 DEF PlaceInv
<1>2. blkPlace' = blkPlace => BlkQuiet
  BY DEF BlkQuiet
<1>3. vecPlace' = vecPlace => VecQuiet
  BY DEF VecQuiet
<1>4. ASSUME NEW t \in Thread, AddPage(t) \/ AddFull(t) \/ AddTable(t) \/ PassTable(t)
      PROVE  PlaceInv'
  <2>1. UNCHANGED <<blkPlace, vecPlace, pages>>
    BY <1>4 DEF AddPage, AddFull, AddTable, PassTable, BlkGrowFail, Blk!GrowFail, Vec!GrowFail,
                blkVars, vecVars
  <2> QED
    BY <1>1, <2>1
<1>5. ASSUME NEW t \in Thread, StorePage(t) PROVE PlaceInv'
  <2> DEFINE p == add[t].page
  <2>1. /\ p \in Pages /\ p \in Nat /\ BlkPerPg \in Nat \ {0}
    BY <1>5, BlocksAssumption DEF StorePage, Adding, PageInv, Adds, Pages, BlocksAssumption
  <2>2. /\ pages' = pages \union {p} /\ UNCHANGED vecPlace
        /\ blkPlace' = [b \in Blks |-> IF b \in Blk!Elems(BlksOf(p)) THEN "moving" ELSE blkPlace[b]]
    BY <1>5 DEF StorePage, vecVars, Blk!Grow
  <2>3. \A b \in Blk!Elems(BlksOf(p)) : b \div BlkPerPg = p
    <3> HIDE DEF p
    <3>1. DOMAIN BlksOf(p) = 1 .. BlkPerPg /\ Len(BlksOf(p)) = BlkPerPg
      BY <2>1 DEF BlksOf
    <3>2. \A i \in 1 .. BlkPerPg : BlksOf(p)[i] = p * BlkPerPg + i - 1
      BY DEF BlksOf
    <3> TAKE b \in Blk!Elems(BlksOf(p))
    <3>3. PICK i \in 1 .. BlkPerPg : b = p * BlkPerPg + i - 1
      BY <3>1, <3>2 DEF Blk!Elems
    <3> QED
      BY <2>1, <3>3, RowOf
  <2>4. \A b \in Blks : blkPlace'[b] # "new" => b \div BlkPerPg \in pages'
    BY <2>2, <2>3 DEF PlaceInv
  <2>5. \A b \in Blks : blkPlace[b] # "new" => blkPlace'[b] # "new"
    BY <2>2
  <2>6. \A v \in Vecs : v \div VecPerBlk \in Blks
    BY VecInBlk
  <2> QED
    BY <2>2, <2>4, <2>5, <2>6 DEF PlaceInv
<1>6. ASSUME NEW t \in Thread, AskBlk(t) \/ BlkStep(t) PROVE PlaceInv'
  <2>1. UNCHANGED <<pages, vecPlace>> /\ BlkQuiet
    BY <1>6, BlkStepQuiet DEF AskBlk, BlkStep, pageVars, vecVars
  <2> QED
    BY <1>3, <2>1, QuietPlaces
<1>7. ASSUME NEW t \in Thread, BlkTake(t) PROVE PlaceInv'
  <2>1. UNCHANGED pages /\ BlkQuiet
    BY <1>7, BlkStepQuiet DEF BlkTake, pageVars
  <2>2. CASE blk # blkLoc[t].cur
    BY <1>3, <1>7, <2>1, <2>2, QuietPlaces DEF BlkTake, vecVars
  <2>3. CASE blk = blkLoc[t].cur
    <3>1. blk \in Blks /\ blkPlace[blk] # "new" /\ blk \in Nat /\ VecPerBlk \in Nat \ {0}
      BY <1>7, <2>3, BlocksAssumption
         DEF BlkTake, Blk!Take, Blk!At, BlkProof!Inv, BlkProof!Popping, Blks, BlocksAssumption
    <3>2. vecPlace' = [v \in Vecs |-> IF v \in Vec!Elems(VecsOf(blk)) THEN "moving" ELSE vecPlace[v]]
      BY <1>7, <2>3 DEF BlkTake, Vec!Grow
    <3>3. \A v \in Vec!Elems(VecsOf(blk)) : v \div VecPerBlk = blk
      <4>1. DOMAIN VecsOf(blk) = 1 .. VecPerBlk /\ Len(VecsOf(blk)) = VecPerBlk
        BY <3>1 DEF VecsOf
      <4>2. \A i \in 1 .. VecPerBlk : VecsOf(blk)[i] = blk * VecPerBlk + i - 1
        BY DEF VecsOf
      <4> TAKE v \in Vec!Elems(VecsOf(blk))
      <4>3. PICK i \in 1 .. VecPerBlk : v = blk * VecPerBlk + i - 1
        BY <4>1, <4>2 DEF Vec!Elems
      <4> QED
        BY <3>1, <4>3, RowOf
    <3>4. \A v \in Vecs : vecPlace'[v] # "new" => blkPlace[v \div VecPerBlk] # "new"
      BY <3>1, <3>2, <3>3 DEF PlaceInv
    <3> QED
      BY <2>1, <3>4, VecInBlk DEF PlaceInv, BlkQuiet
  <2> QED
    BY <2>2, <2>3
<1>8. ASSUME NEW t \in Thread, VecStep(t) \/ VecAlloc(t) \/ Session(t) PROVE PlaceInv'
  <2>1. UNCHANGED pages /\ VecQuiet
    BY <1>8, VecStepQuiet DEF VecStep, VecAlloc, Session, pageVars
  <2>2. UNCHANGED blkPlace
    BY <1>8 DEF VecStep, VecAlloc, Session, blkVars, Blk!Begin, Blk!End
  <2> QED
    BY <1>2, <2>1, <2>2, QuietPlaces
<1> QED
  BY <1>1, <1>4, <1>5, <1>6, <1>7, <1>8 DEF Next, Adder, Pop, vars, blkVars, vecVars

\* No thread that reads a block or a node off its list waits for its page: the
\* loops of blk_id_2_ptr end at once, for any shape of the table.
THEOREM NoWaitForPages == Spec => []PagesInPlace
<1>1. Init => PlaceInv
  BY VecInBlk DEF Init, PlaceInv, Blk!Init, Vec!Init
<1>2. Spec => []PlaceInv
  BY <1>1, PlaceStep, BlkInv, VecInv, PageInvAlways, PTL DEF Spec
<1>3. PlaceInv /\ TableInv => PagesInPlace
  BY VecInBlk, WayLen DEF PlaceInv, TableInv, PagesInPlace, BlkHere, VecHere, Found
<1>4. Spec => []TableInv
  BY TableInvAlways
<1> QED
  BY <1>2, <1>3, <1>4, PTL
-----------------------------------------------------------------------------
\* The cursor passes the last page by no more than the calls that will give
\* their number back, and the two lists are typed.
THEOREM TypeCorrect == Spec => []TypeOK
<1>1. PageInv => /\ cursor \in 0 .. PgMax - 1 + Cardinality(Full)
                 /\ pages \subseteq Pages /\ lost \subseteq Pages
                 /\ \A t \in Thread : add[t].page \in Pages
  <2> SUFFICES ASSUME PageInv PROVE /\ cursor \in 0 .. PgMax - 1 + Cardinality(Full)
                                    /\ pages \subseteq Pages /\ lost \subseteq Pages
                                    /\ \A t \in Thread : add[t].page \in Pages
    OBVIOUS
  <2>1. Cardinality(Full) \in Nat /\ PgMax \in Nat /\ cursor \in Nat
    BY FullCounted, BlocksAssumption DEF Full, PageInv, BlocksAssumption
  <2>2. cursor - Cardinality(Full) \in 0 .. PgMax - 1
    BY DEF PageInv, Numbered, Full
  <2> QED
    BY <2>1, <2>2 DEF PageInv, Adds
<1>2. BlkProof!Inv => Blk!TypeOK
  BY DEF BlkProof!Inv, BlkProof!TypeOK, BlkProof!Link, BlkProof!Local, BlkProof!Control,
         BlkProof!Place, Blk!TypeOK, Blk!Link, Blk!Local, Blk!Control, Blk!Place
<1>3. VecProof!Inv => Vec!TypeOK
  BY DEF VecProof!Inv, VecProof!TypeOK, VecProof!Link, VecProof!Local, VecProof!Control,
         VecProof!Place, Vec!TypeOK, Vec!Link, Vec!Local, Vec!Control, Vec!Place
<1>4. PageInv /\ BlkProof!Inv /\ VecProof!Inv => TypeOK
  BY <1>1, <1>2, <1>3 DEF TypeOK, Full
<1> QED
  BY <1>4, PageInvAlways, BlkInv, VecInv, PTL
=============================================================================
