---------------------------- MODULE ClusterBlocks ----------------------------
(***************************************************************************)
(* Where the nodes of a cluster come from (chunk_block.c): vec_alloc pops  *)
(* the list of free nodes; an empty list is filled by vec_add_blk with the *)
(* nodes of a block, which blk_alloc pops from the list of free blocks; an *)
(* empty list of blocks is filled by cluster_add_page with the blocks of a *)
(* new page.  db_alloc is vec_alloc over units of another size, and sets   *)
(* try_cnts.                                                               *)
(*                                                                         *)
(* Both lists are FreeLists.  A page is found through the table of the     *)
(* cluster: directly, or through an indirect page, or through a double     *)
(* indirect page and one more.  Whoever gets the first page behind a table *)
(* page allocates that too; who gets a later one waits for it in a loop.   *)
(*                                                                         *)
(* Pages, blocks and nodes are numbered from 0, as in the code.            *)
(***************************************************************************)
EXTENDS Integers, Sequences, FiniteSets

CONSTANTS
  Thread,     \* the workers
  NDirect,    \* CLST_NDIR_PGS: the pages found directly
  Ptrs,       \* the entries of a table page
  PgMax,      \* pg_num_max
  BlkPerPg, VecPerBlk,
  Stray,      \* what may be read as the next of a node in use
  MaxFail,    \* bound: how many allocations of memory fail
  Budget      \* bound: how many nodes each worker allocates

ASSUME BlocksAssumption ==
  /\ IsFiniteSet(Thread)
  /\ NDirect \in Nat /\ Ptrs \in Nat \ {0}
  /\ PgMax \in Nat \ {0} /\ PgMax <= NDirect + Ptrs + Ptrs * Ptrs   \* no id is too big
  /\ BlkPerPg \in Nat \ {0} /\ VecPerBlk \in Nat \ {0}
  /\ Stray \subseteq -1 .. PgMax * BlkPerPg * VecPerBlk - 1
  /\ MaxFail \in Nat /\ Budget \in [Thread -> Nat]

VARIABLES
  cursor,     \* pg_cursor
  pages,      \* the pages stored in the table, or in a table page
  tables,     \* the table pages stored
  add,        \* where each thread is in cluster_add_page
  lost,       \* history: the pages numbered but never stored
  online, budget,
  blk, blkNext, blkLoc, blkFree, blkPlace, blkHold,   \* the list of blocks
  vec, vecNext, vecLoc, vecFree, vecPlace, vecHold    \* the list of nodes

End == -1
Pages == 0 .. PgMax - 1
Blks == 0 .. PgMax * BlkPerPg - 1
Vecs == 0 .. PgMax * BlkPerPg * VecPerBlk - 1

\* The blocks of page p and the nodes of block b, in the order of their chain.
BlksOf(p) == [i \in 1 .. BlkPerPg |-> p * BlkPerPg + i - 1]
VecsOf(b) == [i \in 1 .. VecPerBlk |-> b * VecPerBlk + i - 1]

\* blk_alloc tries a second time; vec_alloc does not set its counter.
Blk == INSTANCE FreeList WITH
  Unit <- Blks, Nil <- End, Chains <- {BlksOf(p) : p \in Pages}, FirstTry <- {FALSE}, Stray <- {End},
  head <- blk, next <- blkNext, loc <- blkLoc, free <- blkFree, place <- blkPlace,
  hold <- blkHold
Vec == INSTANCE FreeList WITH
  Unit <- Vecs, Nil <- End, Chains <- {VecsOf(b) : b \in Blks}, FirstTry <- BOOLEAN, Stray <- Stray,
  head <- vec, next <- vecNext, loc <- vecLoc, free <- vecFree, place <- vecPlace,
  hold <- vecHold

pageVars == <<cursor, pages, tables, add, lost>>
blkVars == <<blk, blkNext, blkLoc, blkFree, blkPlace, blkHold>>
vecVars == <<vec, vecNext, vecLoc, vecFree, vecPlace, vecHold>>
vars == <<cursor, pages, tables, add, lost, online, budget,
          blk, blkNext, blkLoc, blkFree, blkPlace, blkHold,
          vec, vecNext, vecLoc, vecFree, vecPlace, vecHold>>

NoAdd == [pc |-> "none", page |-> 0, level |-> 0]

Init ==
  /\ cursor = 0 /\ pages = {} /\ tables = {} /\ lost = {}
  /\ add = [t \in Thread |-> NoAdd]
  /\ budget = Budget
  /\ Blk!Init /\ Vec!Init
-----------------------------------------------------------------------------
(* The table of the cluster.                                                *)

\* The table pages on the way to page p: pglist[CLST_IND_PG], or
\* pglist[CLST_DIND_PG] and one of its entries.
Way(p) ==
  LET q == p - NDirect - Ptrs
  IN  IF p < NDirect THEN <<>>
      ELSE IF q < 0 THEN <<[level |-> "ind", at |-> 0]>>
      ELSE <<[level |-> "dind", at |-> 0], [level |-> "entry", at |-> q \div Ptrs]>>

\* the second page allocates the table page
MutOpens(p, x) ==
  LET q == p - NDirect - Ptrs
  IN  CASE x.level = "ind" -> p = NDirect + 1
        [] x.level = "dind" -> q = 0
        [] x.level = "entry" -> q = x.at * Ptrs

\* Page p is the first behind the table page x: the offset of every entry on
\* the way from x to p is 0.
Opens(p, x) ==
  LET q == p - NDirect - Ptrs
  IN  CASE x.level = "ind" -> p = NDirect
        [] x.level = "dind" -> q = 0
        [] x.level = "entry" -> q = x.at * Ptrs

Found(p) == p \in pages /\ \A i \in DOMAIN Way(p) : Way(p)[i] \in tables

\* blk_id_2_ptr does not wait for the page of block b, or of node v.
BlkHere(b) == Found(b \div BlkPerPg)
VecHere(v) == BlkHere(v \div VecPerBlk)
-----------------------------------------------------------------------------
(* cluster_add_page, called where the list of blocks was found empty.       *)

Adding(t, pc) == blkLoc[t].pc = "grow" /\ add[t].pc = pc

\* blk_alloc goes on after a failure; its second one fails vec_add_blk too.
BlkGrowFail(t) ==
  /\ Blk!GrowFail(t)
  /\ IF blkLoc[t].tried THEN Vec!GrowFail(t) ELSE UNCHANGED vecVars

\* the cursor is read and written in two steps
MutAddPage(t) ==
  LET n == cursor + 1
  IN  /\ Adding(t, "none") /\ PgMax > n
      /\ \E c \in {cursor, n} : cursor' = c
      /\ add' = [add EXCEPT ![t] = [pc |-> "way", page |-> n - 1, level |-> 1]]
      /\ UNCHANGED <<pages, tables, lost, online, budget, blkVars, vecVars>>

\* A page number is taken, and memory for the page.  The number of a page
\* that cannot be had is not given back.
AddPage(t) ==
  LET n == cursor + 1
  IN  /\ Adding(t, "none")
      /\ cursor' = n
      /\ \/ /\ PgMax <= n
            /\ add' = [add EXCEPT ![t].pc = "full"]
            /\ UNCHANGED <<lost, blkVars, vecVars>>
         \/ /\ PgMax > n
            /\ add' = [add EXCEPT ![t] = [pc |-> "way", page |-> n - 1, level |-> 1]]
            /\ UNCHANGED <<lost, blkVars, vecVars>>
         \/ /\ PgMax > n /\ Cardinality(lost) < MaxFail
            /\ lost' = lost \union {n - 1}
            /\ BlkGrowFail(t)
            /\ UNCHANGED add
      /\ UNCHANGED <<pages, tables, online, budget>>

\* the number is not given back
MutAddFull(t) ==
  /\ Adding(t, "full")
  /\ add' = [add EXCEPT ![t] = NoAdd]
  /\ BlkGrowFail(t)
  /\ UNCHANGED <<cursor, pages, tables, lost, online, budget>>

\* No number is left: it is given back.
AddFull(t) ==
  /\ Adding(t, "full")
  /\ cursor' = cursor - 1
  /\ add' = [add EXCEPT ![t] = NoAdd]
  /\ BlkGrowFail(t)
  /\ UNCHANGED <<pages, tables, lost, online, budget>>

\* The next table page on the way to the new page.
Level(t) == Way(add[t].page)[add[t].level]
OnWay(t) == Adding(t, "way") /\ add[t].level <= Len(Way(add[t].page))
Further(t) == add' = [add EXCEPT ![t].level = @ + 1]

\* the table page is allocated and not stored
MutAddTable(t) ==
  /\ OnWay(t) /\ Opens(add[t].page, Level(t))
  /\ Further(t)
  /\ UNCHANGED <<cursor, pages, tables, lost, online, budget, blkVars, vecVars>>

\* The thread with the first page behind it allocates it.
AddTable(t) ==
  /\ OnWay(t) /\ Opens(add[t].page, Level(t))
  /\ \/ /\ tables' = tables \union {Level(t)}
        /\ Further(t)
        /\ UNCHANGED <<lost, blkVars, vecVars>>
     \/ /\ Cardinality(lost) < MaxFail
        /\ lost' = lost \union {add[t].page}
        /\ add' = [add EXCEPT ![t] = NoAdd]
        /\ BlkGrowFail(t)
        /\ UNCHANGED tables
  /\ UNCHANGED <<cursor, pages, online, budget>>

\* The others wait for it.
PassTable(t) ==
  /\ OnWay(t) /\ ~Opens(add[t].page, Level(t))
  /\ Level(t) \in tables
  /\ Further(t)
  /\ UNCHANGED <<cursor, pages, tables, lost, online, budget, blkVars, vecVars>>

\* the blocks are linked first
MutStorePage(t) ==
  /\ Adding(t, "way") /\ add[t].level > Len(Way(add[t].page))
  /\ Blk!Grow(t, BlksOf(add[t].page))
  /\ UNCHANGED <<cursor, pages, tables, add, lost, online, budget, vecVars>>

\* The page is stored and its blocks become a chain.
StorePage(t) ==
  /\ Adding(t, "way") /\ add[t].level > Len(Way(add[t].page))
  /\ pages' = pages \union {add[t].page}
  /\ Blk!Grow(t, BlksOf(add[t].page))
  /\ add' = [add EXCEPT ![t] = NoAdd]
  /\ UNCHANGED <<cursor, tables, lost, online, budget, vecVars>>

-----------------------------------------------------------------------------
(* blk_alloc, vec_add_blk, vec_alloc and vec_free.                          *)

\* vec_add_blk calls blk_alloc.
AskBlk(t) ==
  /\ vecLoc[t].pc = "grow"
  /\ Blk!Alloc(t)
  /\ UNCHANGED <<pageVars, budget, vecVars>>

\* A step on the list of blocks alone.  blk_id_2_ptr waits for a page that is
\* not in place.
BlkStep(t) ==
  /\ \/ Blk!Read(t) \/ Blk!LinkHead(t) \/ Blk!Push(t)
     \/ BlkHere(blkLoc[t].cur) /\ Blk!ReadNext(t)
  /\ UNCHANGED <<pageVars, budget, vecVars>>

\* A block is popped: vec_add_blk makes a chain of its nodes.
BlkTake(t) ==
  /\ Blk!Take(t)
  /\ IF blk = blkLoc[t].cur THEN Vec!Grow(t, VecsOf(blk)) ELSE UNCHANGED vecVars
  /\ UNCHANGED <<pageVars, budget>>

VecStep(t) ==
  /\ \/ Vec!Read(t) \/ Vec!Take(t) \/ Vec!LinkHead(t) \/ Vec!Push(t)
     \/ VecHere(vecLoc[t].cur) /\ Vec!ReadNext(t)
     \/ \E v \in Vecs : Vec!GiveUp(t, v) \/ Vec!Free(t, v)
  /\ UNCHANGED <<pageVars, budget, blkVars>>

\* A worker allocates a node.
VecAlloc(t) ==
  /\ budget[t] > 0
  /\ budget' = [budget EXCEPT ![t] = @ - 1]
  /\ Vec!Alloc(t)
  /\ UNCHANGED <<pageVars, blkVars>>

\* Its sessions.
Session(t) ==
  /\ \/ budget[t] > 0 /\ Blk!Begin(t) /\ Vec!Begin(t)
     \/ Blk!End(t) /\ Vec!End(t)
  /\ UNCHANGED <<pageVars, budget>>

Adder(t) ==
  \/ AddPage(t) \/ AddFull(t) \/ AddTable(t) \/ PassTable(t) \/ StorePage(t)

Pop(t) == AskBlk(t) \/ BlkStep(t) \/ BlkTake(t)

\* A worker has stopped, or waits for a table page that does not come.
Rest(t) ==
  \/ t \notin online /\ budget[t] = 0
  \/ OnWay(t) /\ ~Opens(add[t].page, Level(t)) /\ Level(t) \notin tables

Next ==
  \/ \E t \in Thread : Adder(t) \/ Pop(t) \/ VecStep(t) \/ VecAlloc(t) \/ Session(t)
  \/ (\A t \in Thread : Rest(t)) /\ UNCHANGED vars

Spec == Init /\ [][Next]_vars

\* A thread inside cluster_add_page is scheduled.
FairSpec == Spec /\ \A t \in Thread : WF_vars(Adder(t))
-----------------------------------------------------------------------------
(* Properties.                                                              *)

\* The cursor is ahead of the pages by no more than the calls about to give
\* their number back; the lists are typed.
TypeOK ==
  /\ cursor \in 0 .. PgMax - 1 + Cardinality({t \in Thread : add[t].pc = "full"})
  /\ pages \subseteq Pages /\ lost \subseteq Pages
  /\ \A t \in Thread : add[t].page \in Pages
  /\ Blk!TypeOK /\ Vec!TypeOK

\* The pages numbered and not given back.
Numbered == cursor - Cardinality({t \in Thread : add[t].pc = "full"})

\* A page number has one owner: it is stored, or lost, or in the hands of one
\* adder, and those are all the numbers the cursor has passed.
PageOnce ==
  LET adders == {t \in Thread : add[t].pc = "way"}
  IN  /\ pages \intersect lost = {}
      /\ \A t \in adders : add[t].page \notin pages \union lost
      /\ \A t, u \in adders : add[t].page = add[u].page => t = u
      /\ pages \union lost \union {add[t].page : t \in adders} = 0 .. Numbered - 1

\* A block or node that can be read off its list is in a page in place:
\* blk_id_2_ptr waits for nobody.
PagesInPlace ==
  /\ \A b \in Blks : blkPlace[b] # "new" => BlkHere(b)
  /\ \A v \in Vecs : vecPlace[v] # "new" => VecHere(v)

\* A thread that waits for a table page has a thread to wait for, which is
\* about to store it, unless memory for that page, or for the page behind it,
\* could not be had.
WaitsForSomeone ==
  \A t \in Thread : OnWay(t) /\ Level(t) \notin tables =>
    \/ \E u \in Thread : Adding(u, "way") /\ Opens(add[u].page, Level(t))
    \/ \E p \in lost : Opens(p, Level(t))

\* A walk down either list finds the units that were pushed and not popped,
\* each once, and no block or node is in two hands: no pop swaps in a next
\* that is out of date.
ListsWhole ==
  /\ Blk!ListWhole /\ Vec!ListWhole
  /\ Blk!OnePlace /\ Vec!OnePlace

\* The two lists are free lists.
BlkList == Blk!Spec
VecList == Vec!Spec

\* A thread that adds a page gets through, or waits behind a lost page.
AdderReturns ==
  \A t \in Thread :
    Adding(t, "way") ~>
      \/ ~Adding(t, "way")
      \/ OnWay(t) /\ \E p \in lost : Opens(p, Level(t))
=============================================================================
