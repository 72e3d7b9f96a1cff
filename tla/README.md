# Formal models of the sd_tree

TLA+ modules, TLC runs and TLAPS proofs for the concurrent binary tree of this
repository: `splitter.c` (the tree), `chunk_block.c` (its memory),
`spt_thread.c` (grace periods) and the worker loops of
`data_set_construct.c`.  Line numbers below are those of the files in `src/`.

## 1. The system

A *cluster* is a binary trie over bit strings.  A node (`spt_vec`) is one
64-bit word, always read and compare-and-swapped as a whole: a status, a type,
a position, a right field `rd` (a record, or the next node) and a `down`
neighbour.  Records (`spt_dh`) hold a pointer to the key and a reference count.
Any number of threads look up, insert and delete without a lock; nodes and
records they take out are used again only after a delay of two grace periods.

| Component | State | Operations | Hard behaviour |
|---|---|---|---|
| Grace periods, `spt_thread.c` | `online_map`, `black_white_map`, `tick` | start, exit, wait | three separate read-modify-writes in an exit; a snapshot of `online_map` used after others have moved on; rounds must keep being closed |
| Tree, `splitter.c` 254-1433, 2054-4024 | node words, records, reference counts | `find_data` (find, insert, delete), `get_data_id`, five `do_insert_*` | walks over nodes that others change and unlink; helping; retries after a lost compare-and-swap; a count that reaches zero while an insert of the same key meets it |
| Bit strings, `splitter.c` 4806-5573 | none | `find_fs`, `diff_identify` (`align_compare`, `find_smallfs`, `bit_inbyte_cmp`) | unaligned ranges cut into bytes, words and bits |
| Memory, `chunk_block.c` | per thread: a reserve of nodes, a queue of retired nodes, one of retired data blocks; free lists; `pclst->status` | `*_alloc_combo`, `*_free_to_buf(_simple)`, `fill_in_rsv_list(_simple)`, `*_buf_free` | re-use before every reader has gone; a reserve that drains; throttling that must let go; a tick that wraps |
| Pages and blocks, `chunk_block.c` 23-280, 390-488 | page tables, block and node free lists | `cluster_add_page`, `blk_id_2_ptr`, `blk_alloc`, `*_add_blk` | waiting for a page another thread is adding; stacks of plain ids |
| Workers, `data_set_construct.c` 444-658 | sessions | insert and delete loops | retry of a call that was answered `SPT_WAIT_AMT` |
| Division, `splitter.c` 1435-1964 | upper and lower clusters, `hang_vec`, hidden ranges | `spt_cluster_sort`, `divide_sub_cluster`, `spt_divided_scan` | moves records under concurrent readers, relying on `spt_thread_wait(2)` |
| Routing, `splitter.c` 4026-4294 | upper cluster | `find_next_cluster`, `insert_data`, `delete_data` | a lower cluster that is divided while a call is on its way to it |

How they interact: a worker opens a session (`spt_thread_start`), calls
`find_data` some times and closes it.  `find_data` takes nodes and data blocks
from the memory layer, publishes them with one compare-and-swap, and gives what
it unlinked to the memory layer, which stamps it with `tick`.  The exit of the
last thread of a round advances `tick`.  The memory layer may turn a caller away
with `SPT_WAIT_AMT` so that it ends its session and lets the tick move on.

What makes each part correct: a round is closed once, on an empty map, and what
waits two ticks outlasts every session open before (grace periods); the callers
see a multiset of keys, nothing linked is lost and nothing unlinked is freed
twice (tree); the answers of the two bit-string functions do not depend on where
the strings lie (bit strings); nodes and blocks are in one place at a time,
none is used again while a session that may see it is open, reserves never
drain while there is memory, and turned-away calls are made in the end (memory,
workers); no key is lost by a division (division, routing).

## 2. The modules

| Module | Stands for | Kind |
|---|---|---|
| `SptThread` | `spt_thread.c` | component |
| `SptThread_proofs` | - | theorems about `SptThread` |
| `SdTree` | the tree of one bottom cluster | component |
| `SdTree_proofs` | - | theorems about `SdTree` |
| `SdAdditions_proofs` | - | theorems about `SdTree` with threads that only add and look up |
| `RefSet` | what `find_data` promises its callers | abstract specification of `SdTree` |
| `BitString` | the comparison of bit strings | component |
| `BitString_proofs` | - | theorems about `BitString` |
| `RetireBuf` | memory of a cluster, workers, composed with `SptThread` | component and composition |
| `RetireBuf_proofs` | - | theorems about `RetireBuf` |
| `FreeList` | one free list, access by access | component; abstract specification of both lists of `ClusterBlocks` |
| `FreeList_proofs` | - | theorems about `FreeList` |
| `ClusterBlocks` | pages, blocks and the two lists cut from them | composition of two `FreeList`s |
| `ClusterBlocks_proofs` | - | theorems about `ClusterBlocks` |
| `Division` | division, routing and workers, composed with `SptThread` | component and composition |
| `Division_proofs` | - | theorems about `Division` |
| `MCSptThread`, `MCSdTree`, `MCBitString`, `MCRetireBuf`, `MCClusterBlocks`, `MCDivision` | - | bounds for TLC |

Operators named `Mut...` are seeded bugs: each stands before the definition it
would replace and changes it as a plausible coding error would.  Every property
of every passing run is violated under one of them; `PROJECT.json` lists which.

### SptThread

The maps are sets of bits and `tick` counts modulo `TickMod`.  A step is one
read-modify-write of a shared word: `Start` sets the caller's bit; an exit is
`ExitClear` (which keeps the old map as `olmap`), then `ExitClosing` (the round is
being closed by another thread) or `ExitMask` (intersect the snapshot), then, for
the thread that emptied the map, `ExitTick` and `ExitReset`.  `WaitEnter`,
`WaitAgain` and `WaitReturn` are `spt_thread_wait`, which runs empty sessions.  A
compare-and-swap loop whose failed rounds change nothing is one step.  A local
variable that has gone out of scope is put back to its first value.

### SdTree and RefSet

One step is one access to a node word or to a record's count, with the local
work up to the next access.  The local variables of `find_data` and
`get_data_id` are one record per thread, `pc` included: `Forward` is the entry of
`refind_forward`, `ReadRight`/`RightUnlink`/`Reread`/`RightInvalidate` the walk to
the right and its helping, `ReadDown`/`DownUnlink`/`DownValidate` the walk down,
`Gid*` the walk of `get_data_id`, `Insert*` with `Publish` the five
insertions, `Found`, `Delete` and `Undo` what is done with the record, and
`FreeLoad`/`FreeStore` the bit-field store by which `vec_free_to_buf` marks a
node.  Comparing keys is `FirstSet` and `FirstDiff`, what `BitString`'s two
functions return.

`RefSet` is a multiset of keys: an insert adds a reference and a delete takes
one at one instant of the call, and an answer "not found" needs an instant at
which the key was absent (for a delete: or was being deleted by another).
`SdTree` maps to it by `Count`, the references held in records, with the one
that a delete in progress has taken but may give back.  The property `KeysCounted`
is `RefSet`'s specification.

Facts of the code the model relies on: `type` is a one-bit field, so no word is
a signpost and those branches are dead; a double read of a freed word in
`find_data` returns the same and is one read; a key whose first bit is 0 never
goes to the right of the head.  Ids are allocated once: re-use is what
`RetireBuf` is about.

### BitString

`find_fs` and `diff_identify`, one turn of a loop per step.  A string is the set
of positions of its set bits; a byte is eight positions, most significant first.
`FindHead` and `DiffHead` do the first, partial byte (`bit_inbyte_cmp`, if the
range ends there); `Plan` chooses the widest word on which both addresses can be
aligned; `ToAligned` sets a loop up, or two if the address is not aligned;
`CompareWord`, `CompareByte` and `CompareBits` are `align_compare`; `Scan`,
`Narrow` and `ScanBits` the identical loops of `find_fs` and `find_smallfs`.
`smallfs` is left undefined by the code when the strings are equal, and no
property speaks of it then.

### RetireBuf

One action per call of `chunk_block.c`, since queues and reserves are private to
a thread and a free list changes by one compare-and-swap.  `VecAlloc` and
`DataAlloc` are the `*_alloc_combo` functions, `VecRetire`/`DataRetire` the
`*_free_to_buf_simple`, `VecFree`/`DataFree` the `*_free_to_buf`, `SweepVec` and
`SweepData` the `*_buf_free`, `FillIn`/`Refill` the `fill_in_rsv_list`
functions; `GiveBack` is one pass of the loop a failed insert ends with, which
`RunOut` folds over the nodes it had taken.  The tree is reduced to the set of linked ids, and a worker's call
to what it does to memory: `Enter` (the `status` test at the top of
`find_data`), `Publish`, `LoseRace`, `RunOut`, `Unlink` and `Retire`/`HelpRetire`,
`Delete` and `RetireData`, `Finish`.  Sessions are the steps of `SptThread`
(`Grace == INSTANCE SptThread`).

### FreeList and ClusterBlocks

`FreeList` is the stack of ids that `chunk_block.c` uses three times: a pop reads
the head (`Read`), the head's next (`ReadNext`) and swaps the one for the other
(`Take`); a push writes the head into the last unit of a chain (`LinkHead`) and
swaps (`Push`).  The head has no counter, so the swap of a pop succeeds although
the head was popped and pushed again in between.  What keeps that from happening
is the two ticks a unit spends in a queue: `hold` is that promise, the sessions
open when a unit was given up that still are, and `Free` waits for it to be
empty.  It is what `NoEarlyReuse` says of `RetireBuf`, and it fails where the
grace period does.  The next of a unit that is in use may read as any of `Stray`.

`ClusterBlocks` is the way a node takes: `vec_alloc` pops the list of nodes; if it
is empty, `vec_add_blk` takes a block from `blk_alloc` and pushes its nodes; if
there is no block, `cluster_add_page` numbers a page (`AddPage`), walks the table
pages to it (`AddTable` by the thread with the first page behind one, `PassTable`
by the others, which wait) and stores it (`StorePage`).  `Way` is the path of a
page through the direct, indirect and double indirect entries, `Opens` who
allocates a table page.  `blk_id_2_ptr` is the guard `VecHere` or `BlkHere` of a
read.  `vec_alloc` counts its tries in a `try_cnts` it never sets (549-558):
`FirstTry` is what it may start with.  The list of data blocks, `db_alloc`, is that of
nodes with the counter set.  `BlkList` and `VecList` say that the two lists are
`FreeList`s; a step that takes a block and pushes its nodes is a step of each.

### Division

`board` are the keys of the boards in the upper cluster, `plower` the cluster each
names, `refs` the references to each key in each lower cluster.  The dividing
thread (`dv.at`) scans (`Scan`), sorts (`Sort`), and for each round masks a range
(`Mask`), leaves its session and waits two ticks (`Leave`, `Wait`), adds the board
of the lower cluster (`Board`), moves references one by one (`Take`, `Put`; the
second loop is `second`), deletes the board where it was moved to (`Unboard`),
names the new cluster (`Publish`) and deletes the board of the round before
(`Retract`).  A delete that answers `SPT_WAIT_AMT` is tried again after two ticks
(`Pause`).  A worker finds its board (`FindBoard`), reads what it names
(`ReadLower`) and only then acts (`Insert`, `Delete`): the board may be masked
between any two.  A masked board makes it end its session and try again.

An operation on one cluster is one step, which is what `SdTree` implements
(`KeysCounted`).  The walk of the sort among concurrent changes is a snapshot.

## 3. The runs

| Run | Question | Bounds |
|---|---|---|
| `pair` | Are rounds closed once, does `spt_thread_wait(2)` outlast the open sessions, do rounds go on? | 2 threads, tick modulo 4 |
| `divide` (violation) | Does the grace period hold with three threads? | 3 threads, tick modulo 4 |
| `additions` | Two threads that insert: is anything lost or twice there, is every call answered? | 5 keys of 3 bits, 2 calls each |
| `readers` | A writer and a reader that also inserts one of the keys, both helping to unlink: is the tree a multiset, is a node freed once, for whom must a thread wait? | 4 records, three of them in one chain, 2 inserts or deletes, 2 finds or inserts of the fourth key |
| `writers` | Two threads insert three keys and delete one: is a count taken to zero once, is anything lost? | 3 keys of 3 bits, 2 references at first, 2 calls each, `WAIT_AMT` |
| `unlink` (violation) | Is what a walk unlinks an invalid node? | 1 delete, 1 insert |
| `range` (violation) | Does a walk search within its key? | 2 deletes, 2 finds |
| `carried` (violation) | Is the record a walk ends at that of its key? | 5 records of 7 bits in a chain, 1 delete against 1 insert and 2 deletes |
| `strings` | Are the two bit-string functions right, and does `find_fs` find the first set bit of a key? | ranges of up to 16 bytes; for `find_fs` keys of 1, 2 and 16 bytes, with what is left of the key and with its whole length as the length |
| `reuse` | Is memory in one place and not used too early, and does `SPT_WAIT_AMT` let go? | 2 workers, 1 and 3 calls, 6 nodes, 3 data blocks, 5 ticks modulo 8 |
| `blocks` | Do the free lists stay whole while they grow, has a page number one owner, does an adder get through? | 2 workers, 1 and 2 nodes, pages 0 to 3 behind the indirect and double indirect tables, 3 failed allocations |
| `division` | Does a division lose a reference, misroute a call, give a wrong answer or leave a call unanswered? | 1 worker with one call, 5 keys, 3 clusters, 2 rounds, 1 failed insert, 1 delete put off |

Why the bounds are enough.  A round of `SptThread` involves a closer and one
thread that races it, so two threads meet every pair of steps; three are needed
for the stale snapshot, and `divide` has them; the theorems remove the bound for
the four safety properties.  Three or four bits of key give every shape a node
and its neighbours can have (a record below, to the right, a chain, an empty
node) and every one of the five insertions; the interleaved runs start from a
tree with the shape that matters for their question, as from the empty tree the
calls would be used up in building it.  16 bytes hold a gap of up to seven
bytes, a word of eight, and words of 4, 2 and 1 after it; keys of one and two bytes end
in the gap, where `find_fs` leaves out last bits.  In `readers` the second thread
inserts the one key that is not in the chain: with a key of the chain the race of
`unlink` would come about.  A reserve of two
nodes, watermarks of one and six nodes make every list overflow and run out in
few calls; in `reuse` the tick stops below its modulus (`MaxTick`), as the sweep is
wrong after a wrap (section 5).  In `blocks`, two entries a table page and no direct
pages (which have nothing to wait for); `PgMax` is 5, so pages 0 to 3 get a number.
Page 1 waits for the indirect page, which page 0 opens, and page 3 for the double
indirect page and for its first entry, which page 2 opens: two adders meet in each
of these waits.  The second entry, which page 4 would open, is not in the run.
`WaitsForSomeone`, proved for any shape of the table, is about every entry;
`AdderReturns`, as a liveness property, is checked for these pages only.
Two rounds of a division meet the first round, which retracts nothing, and a later
one; the key with two references and the key of a board are among those moved, and the
call is of any key of the ranges that move or stay.
`division` has one worker because the grace period fails with three threads
(`divide`); its ticks may wrap, but other threads leave the last tick before a
lap to the thread that waits, which else would wait for all 2^32 of them.  The theorems of
section 4 remove the other bounds of `division` for its safety properties.

`CHECK_DEADLOCK` is left on everywhere: modules that stop have a `Done` step for
it, so that a thread stuck in the middle of a call is an error.  `RetireBuf` has a
`Spin` step for a thread whose reserve was empty, as the code then waits for a
page that does not exist, and `ReserveWhole` says when that cannot happen.

What they show beside the plain answers:

* `divide`: `spt_thread_exit` (67-76) intersects a snapshot of `online_map` taken
  when it cleared its bit.  If another round has opened meanwhile, a thread that
  started after the snapshot is dropped from that round.  With a third thread
  two ticks can pass within one session, against the comment at splitter.c:1781.
  `reuse` is therefore a statement about two threads.
* `unlink`: a walk down makes an invalid node valid again by a compare-and-swap
  of the node (3328-3346), a walk right unlinks it by a compare-and-swap of its
  parent (2350-2388); both succeed, and a valid node is freed with whatever hangs
  under it.
* `range`: `find_fs(prdata, startbit, endbit)` at 2214 passes the end for a
  length.
* `carried`: a walk to the right fetches a record once (2445) and compares its key
  with that record node after node.  An insert may have put the record above the
  nodes the walk goes through: its key then agrees with the record, and not with the
  nodes.  If the node it stands at becomes invalid it resumes at `ppre` (2399) and
  compares only what lies below `ppre`.  The run deletes key 1111111, and the
  reference taken is that of 1101111.  The check for this is compiled out (2343-2356).

### Fairness

`SptThread`: a thread inside exit or wait goes on, and a session is closed in
the end, as the worker loops end sessions after 100 calls; nobody must start
one.  `SdTree`: a thread that can take a step takes one (they are operating
system threads that do not block).  `AloneAnswers` assumes even less: one thread
runs and the others may have stopped anywhere; it excepts an INSERT at a record whose
last reference a stopped DELETE has taken (`HeldAtZero`, section 5).  `RetireBuf`: the same as
`SdTree`; `FairSpec` writes the enabling condition out as `CanStep`.  A lost race
costs a unit of budget, since a race is only lost to a call that has done its
work.  `BitString`: a loop runs on.  `ClusterBlocks`: a thread inside
`cluster_add_page` is scheduled; nothing makes it free a node.  `Division`: every thread runs, a worker
ends its session and starts the next while it has a call to finish, and nothing
forces a scan or a new call.

## 4. The proofs

`SptThread_proofs`, for any set of threads, any map width and any modulus:
`TypeCorrect`, `ResetNeverFails` (the assertion of `spt_thread_exit`),
`RoundHasOneCloser`, `TickOnlyClosing`.  None of the last three is inductive by
itself: `CloserInv` adds that the map is empty exactly while some thread is
between the step that emptied it and the step that reopens it.  Each action
either leaves the map and the closers alone (`QuietStep`), or makes one closer by
emptying a map that was not empty, or removes the only one by reopening it.
The assumptions are that there is a thread, that its bit is in the maps, and that
`TickMod` exceeds the ticks waited for.

`EnoughTicks` is the grace period: a wait of at least as many ticks as there are
threads outlasts every session that was open when it began.  The two of every
caller are therefore enough for two threads, and `divide` shows that they are not
for three: the theorem says how the third thread spoils it.  `GraceInv` counts what
a session may still live through, `Owed`: one tick if its bit is not in
`black_white_map` (it began after the round was opened), and one for each thread
that stands between the two halves of `spt_thread_exit` with an `online_map` read
before the session began (`Stale`), because the intersection with that map takes
the session's bit away.  For each session a waiter found open, the ticks it has
counted and those the session is owed stay below the number of threads.  A tick
that a session outlives pays one of its debts (`SessionPays`), a new session owes
no more than the other threads (`OwedBound`), and no step but the session's own
start raises the debt.

`BitString_proofs`, for all strings, addresses and ranges: `FindCorrect`,
`DiffCorrect` and `SmallCorrect` say what the two functions return, `RangeCovered`
that the loops look at all of what is to be searched and nothing else.  That is the
range, but for the last bits that `find_fs` leaves out if its whole bytes end before
an aligned address (`Searched`).  `KeyCorrect` says that this does no harm to the walk:
the ranges that end inside a byte are those of 2214, which are as long as the whole
key but start inside it, and what is left out of them lies past the key, so that the
first set bit of the key is found (`KeyFound`).  `TypeCorrect` says that no
counter leaves its range.  None is inductive: what is returned at the end follows
from what each loop has passed before.  `ScanInv` says it in parts, by the
program counter.  `Matching`: the strings are equal from the start up to the
pointers.  `Scanning`: no bit of the scanned string is set from where its scan
began, and the difference, if there is one, has been found (`Found`).  `Covered`:
the bytes and bits left add up to the rest of the range.  `LastBits`: bits are
left to a loop only if no bytes follow it, so that its end is the range's end.
Each action has a step lemma; they share `WordStep` (a word of zeros is passed, or
its least element is the first of all) and its forms for bits.  That a set of
natural numbers has a least element, which `Min` chooses, is `LeastOf`, from the
library's well-founded induction.  The assumption is `InputsAssumption`: `find_fs`
is called on keys of whole bytes, from a bit of the key on, with the length of what is
left of it or (2214) with the length of all of it.

`FreeList_proofs`, for any threads, units and chains of new units that satisfy
`ListAssumption`: `ListAlwaysWhole`, `UnitInOnePlace`, `TypeCorrect`.  The first is
the hard one: the swap of a pop compares only the head.  `Inv` adds what a thread
between its reads and its swap may rely on: the head it read is still on the list
with the next it read, or has been taken and cannot come back while its session is
open, because `hold` keeps it.  There is a lemma for each action, and `TakesInv`
and `PushInv` are the ones with something to show.

`ClusterBlocks_proofs`, for any number of workers, pages, blocks and table
entries: `PagesNumberedOnce`, `BlkListImplemented`, `VecListImplemented`,
`ListsAlwaysWhole`, `NobodyForgotten`, `NoWaitForPages`, `TypeCorrect`, which are
all its invariants.  `PageInv` says who owns each page number and that the blocks
of a page that is not stored are new.  From it a step of `ClusterBlocks` is a step
of the list of blocks, or leaves it alone, and its `Inv` holds; from that, since a
block is popped by one thread, the nodes made of it are new, and a step is one of
the list of nodes.  Nothing is proved twice: both lists inherit `Inv`.  For the
waits, `TableInv` says that the way to a stored page is in place and the part of
its way an adder has passed, and `Opener` that a table page on the way to a page is
opened by a page with a smaller number; that number has been given, so its page is
stored (and the table page with it), lost, or in the hands of a thread.  `PlaceInv`
says that a node in use is in a block in use, and that in a stored page.

`Division_proofs`, for any number of workers, keys, clusters, cuts and rounds.
`SessionsImplemented`: the dividing thread and its workers use sessions and waits
as `SptThread` allows, so that its theorems hold in every division.  Then all the
safety properties of `division`: `RoutedRightly`, `ReferencesConserved`,
`NotFoundIsRight`, `TypeCorrect`.  They have one hypothesis, `Spt!GracePeriod`: that
`spt_thread_wait(2)` does outlast the sessions it found open.  That is what the
division needs of the threads and no more, so the theorems say that its logic is
right however many workers there are, and that what `divide` finds is the one thing
it depends on.  `FewThreadsDivide` has no such hypothesis: with `EnoughTicks`, a
division with no more threads than ticks has all four properties.

None of them is inductive.  `RouteInv` is, in five parts:

* `Typed`, the types (but for the sign of `cnt`).
* `StepInv`, what the step of the dividing thread tells of its locals: the cuts
  ascend, source and destination differ, the hand is full only between a take
  and its put, the second loop begins with the first reference of the cut.
* `BoardInv`, the upper cluster: two boards name one cluster only while the board
  of the round before waits for its `Retract`; the masked board is `Cut` and the only
  one that names nothing; a board of the source is not below any cut, and the cuts
  still to come are routed to the source.  The last is why the next mask hides a
  range of the source and no other.
* `RefInv`, the references: `RoutedRight`, and in the masked range the phases.  Until
  the lower board is set everything is still in the source; until its reference is
  taken the source has one to the cut, so that the first loop stops there; once the
  second loop runs nothing below the cut is left in the source, and when it ends
  nothing up to it.
* `WorkInv`, a worker between its three instants.  The board it found may have been
  overtaken by a mask, and the cluster it read may be the source of a range masked
  since: then it is `Late`, and that is possible only while its session is one of
  those the wait is for.  When the wait returns nobody is late, which is where the
  grace period is used; from then on whoever is at work in the masked range is not.

`RoutesStep` and `WorkStep` take an action at a time.  `RefsConserved` is then
inductive on top of `RouteInv`: each step moves one reference between a cluster, the
hand and the history (`OneChange`), or none.  That a change at one cluster changes
the sum over all clusters by as much is `SumChange`, one of the facts about
`SumFunction` that this module and `RetireBuf_proofs` begin with: the sum's recursion
takes elements off in an order that `CHOOSE` fixes, and the facts hold for any order.  `AllHere` brings the two
together: all references to the key of a worker at work are in the cluster it works
in, so that "not found" is right and a delete never takes an uncounted reference.

The assumptions are those of `DivisionAssumption` (keys and clusters are numbered,
there is a cluster for every first board, `SPT_DVD_THRESHOLD_VA` leaves more records
than the moves take) and of `SptThread`.

`RetireBuf_proofs`, for any number of workers, calls, nodes and data blocks, any
reserve and watermarks: `EachInOnePlace` (while nobody has found its reserve empty, a
node or a block is in one place: a reserve, a free list, a queue, a worker's hands or
the tree), `ReserveIsWhole` and `TypeCorrect`.  Ticks play no part: the three hold
with more than two threads and after a wrap of the ticks, where entries may leave a
queue too early, since even then an entry leaves it as a whole and once.

The proof follows `chunk_block.c` upwards.  `MemT` is the memory one thread sees: its
own reserve and queues, and the free lists.  There is a lemma for what each call does
to it, counted for an arbitrary node: `Gives` (an allocation takes one, or none when
it fails), `Queued` and `Freed` (a node passes from the caller into a queue or to the
free list), the sweeps (what leaves the queue arrives in a reserve or a list),
`GivenAll` and `Obtained` (a whole call that gives back or obtains several).  The
loops are folds, and induction over them is out of the prover's reach with an operator
as the induction's parameter; `FoldClimbs` and `ChainDefined` say instead what the
recursive function under a fold is at each index, and the invariant is carried up the
indices as a set of natural numbers without a least counterexample.

`StateInv` is inductive for the types and the reserve: a thread whose refills have all
succeeded has a full reserve between its calls, and within a call it has taken at most
`MaxNew` nodes, fewer than `RsvCnt` (`ReserveInv`).  This is what makes the crash on an
empty reserve impossible until `short` is set.  `OnePlace` is inductive on it.  A
step changes what one thread holds (`Stepped`), the same number of copies as before
in total (`Balanced`), and so with `SumChange` the sum over all threads
and places does not move (`PlacesKept`).  Only publication needs `OnePlace` itself:
the nodes a worker publishes are not in the tree yet, and no two of them are equal
(`SeenOnce`).  At first the reserves are blocks of consecutive nodes, each thread's
by its turn in `Order` (`Turns`, `Blocks`).  The sessions of the workers are
`SptThread`'s, and `GraceProof == INSTANCE SptThread_proofs` brings their types.  The
assumptions are `BufAssumption` (there are nodes for all reserves, and a call needs
fewer than a reserve holds) and those of `SptThread`.

`NotReusedEarly` is `NoEarlyReuse`, under two hypotheses that are needed: there are two
threads at most, as a session of three outlives the two ticks (`divide` shows one that
does), and the ticks stay below `TickMod` and `BufMod`, as a sweep after a wrap frees
what was just queued (section 5).  `TickBound` derives the second from `MaxTick`:
sessions start below it, and each moves the tick by one at most.  The proof joins the
two parts of the code.  On the side of `spt_thread.c`, `SeesOnce`: with two threads an
open session sees one tick more at most, and none once its bit is in a map that nobody
stale will intersect (not `MaySee`).  On the side of `chunk_block.c`, what a call may do
to a queue as far as ages tell (`Older`): what comes in is of this tick; what goes out,
or gives its id away, is two ticks old (`Old`).  The sweep, the two allocations from a
queue, the refill, the folds of a lost race and of a failed insertion are each shown
to do no more than that (`SweptOld`, `VecAllocAges`, `RefillAges`, `RetireFoldAges`,
`GiveFoldAges`).  The invariant that joins them is `ReuseInv`: a session that holds what
an entry queues is `Young` to it (the entry is of this tick, or of the last and the
session sees no other), so that an old entry has no holder (`LeavesUnheld`).  It rests on
`OnePlace`: an id is in one thread's queue only, and what a walk unlinks is in none
(`PlacesApart`), so that a new hold never lands on an old entry.

`SdTree_proofs`, for any number of threads, any keys of any width and any calls:
`TypesInRange`, the types, with what `find_data` asserts of a
reference count.  `TypeOK` is not inductive: a walk acts on words it read earlier, so
what it writes depends on what every local variable may hold at every point.
`TreeInv` says so: the words of all nodes fit (`Nodes`), and a thread holds words its
nodes may have had (`Where`, point by point: at `"insert_mid"` the walk is on its way
down, at `"delete"` it stands at a node with a record, and so on).  What a thread
knows depends on how many nodes and records there are, the position of each node and
the key of each record; these never change once given, so it survives every step of
the others (`Grow`).  `TypesInRange` has the hypothesis `[]FirstSetInRange`: a walk
that looks past the end of its key (`range`) may take any bit for its next, and the
node it inserts gets a position beyond the key.

`SdAdditions_proofs` is about threads that only add and look up (`Adding`: no thread
has a delete among its calls), again any number of them, any keys of any width and any
calls.  `AdditionsSafe`: no walk gets stuck (`NeverStuck`), the record a walk ends at is
that of its key (`SameRecord`, which a delete can break: `carried`), and the types hold,
without the hypotheses above.  `AdditionsCounted`: such threads refine `RefSet`
(`KeysCounted`); no insert is lost to another, none is counted twice, and a lookup that
finds nothing had an instant without its key.  `AdditionsLinked` and `AdditionsOnce`:
every record stays on a path from the head (`RecordsLinked`), and no key has two there
(`OneRecord`).  The run `additions` is the instance, but `RecordsLinked` is run where
threads also delete (`readers`, `writers`).

The invariant is `AddInv`, with `TreeInv`.  Each node `v` stands for the keys that begin
as a key `R[v]` does, up to the node's position; `R` is chosen, not stored, as the code
keeps no key in a node.

* `Store`: the tree is a binary trie.  What a word points to belongs there (`Fine`:
  keys with a one at the first bit below `v` are on the right, others further down); from
  a node that another node, or a record's key, belongs below, the walk leads to it; no
  two nodes are in one place and no two records have one key.
* `Knows`: what a thread has read.  Its word of `cur` was fine, and sends its key the
  right way *unless the key has been absent since the call* (`Sure`, with `missed`): a
  walk that goes astray because the tree has grown has a key that was not there when
  the word was read.  `Settled` is the record confirmed on the right before an insert beside
  it; `Descended` the place of `get_data_id`.
* `Kept`: the histories `missed` and `seen` hold what is the case now.

The tree only grows, so that what a thread knows survives the steps of the others
(`GrownKnows`).  An insertion is the hard part: its compare-and-swap compares one word,
and what it puts there was computed from others.  `Trie` is the invariant over any set
of nodes and of records, and `Graft` puts one node between a node and its child; the
five `do_insert_*` are one graft (`BelowGraft`, `UpGraft`, `SplitGraft`) or two
(`UpperTrie`, `LowerTrie`), or the first record of the head (`FirstTrie`).  That two keys
with the same bits are the same is `KeyOfBits`; bits are taken with `Pow2`, a recursive
function in place of the operator `^`, which the provers do not know.  For the
refinement, a step that reads leaves its call unanswered (`ReadUnanswered`), and one
that answers has put in or counted one more of its key (`CountMore`).

What the head leads to (`Reachable`) is a recursive function, so the proof first gives
it a solution: where the paths of `n` steps end (`Path`, `ReachIs`).  As many steps as
there are nodes lead everywhere, by counting: until a step adds nothing, each adds a
node (`ReachWhole`).  For a record that is not linked, take the deepest linked node that
its key belongs below: `Store` says that the walk goes on from there (`AllLinked`).

Only model-checked: with deletes among the calls, the properties of `SdTree` but for
the types, on the instances of its runs, as they do not hold of every instance:
`OneRecord` and `KeysCounted` not where a walk may meet what `carried` shows (an insert
may put a second record of its key where no later walk finds it), `RecordsLinked` and
`FreedOnce` not after the race of `unlink`; `NeverStuck`; and all liveness.

## 5. What the models say of the code that no comment contradicts

* A retirement queue keeps an 18-bit tick.  When a sweep finds an entry ahead of
  the current tick it adds a lap to its copy of the tick, and keeps it added for
  the entries that follow (826-829, 906-909): after a wrap, entries queued since
  look a lap old and are freed at once.  `SweptAge` is the code; `reuse` stops
  before the wrap.
* `vec_alloc_from_rsvlist` (749) has no test for an empty reserve.  The reserve is
  whole as long as refills succeed (`ReserveWhole`), but `find_data` ignores some
  of their failures (3361, 3881), and enough of them leave a thread waiting for
  ever on a page with the id `SPT_NULL`.
* `pclst->status` is one word for all threads: any thread whose own reserve fills
  sets it back, and a thread with short queues pays for another's long ones.
* Two helpers can undo each other's step on one node (2426 and 3328) as long as
  they like, so that `CallsAnswered` holds of insertions and does not of deletions;
  `AloneAnswers` excludes it only for a thread left alone.
* An INSERT may wait for another thread.  At a record whose count is zero it goes back to
  `refind_start` (3817-3823); the count stays zero and the record in its node while
  the thread whose DELETE took the last reference is stopped between 3862 and its
  compare-and-swap (3877, 3908), or before it gives the reference back.  Until that
  thread goes on the INSERT starts again for ever, in an open session.
  `AloneAnswers` says that this is the only such wait of the walk.
* What follows the race of `unlink`: with three threads, a third thread that goes on
  in the node made valid unlinks and frees the right neighbour of it, while the
  unlink of the node puts that neighbour in its place: a freed node is on a path
  (`FreedOnce` fails with two deletes, one more delete and a find).
* The race of `unlink` needs no insert: two deletes of the keys 1111 and 1011 lose
  nodes with it too (`RecordsLinked`), which is why no run deletes two keys from
  two threads.
* A thread that cannot get memory for a page, or for a table page it opens, keeps
  the number it was given, and the threads with later pages behind that table page
  wait for ever in `cluster_add_page` (`WaitsForSomeone` and `AdderReturns` say that
  this is the only way to wait for ever).
* `vec_alloc` counts up a `try_cnts` that nothing has written (549, 557): an
  allocation that fails is given up at once or tried again, by chance.
* A division checks no answer of the insert that puts a masking board into the
  upper cluster (1797).  An insert into the new cluster that fails drops the
  reference (1857), `dropped` in `RefsConserved`; if it is the board's own, the
  delete at 1889 finds nothing and is repeated for ever, in an open session, so
  that no round of the grace period closes again (`Spin`).
* A sort that fails leaves the dividing thread's session open (1769-1770).
* `find_fs` leaves out the last bits of a range whose whole bytes end before the next
  aligned address (5163-5181).  The call at 2214, from inside a key with the length of
  all of it, has such ranges.  They go on past the key by as many bits as lie before
  the start, which covers the bits left out, so no set bit of the key is missed
  (`KeyFound`); what is found past the key is what `range` shows.

## 6. Not modelled

Signpost nodes and the big-endian code (dead or not compiled); data files, the
read cache, statistics, hashing, printing and checking functions (5576-7458);
the debug counters `map_cnt` and `unmap_cnt`; the atomic primitives, taken as
atomic.

In part: of the tree, `hang_vec`, by which the upper cluster remembers the next
board (1435-1457), and the walk over it in `find_next_cluster` (4026-4100), whose
outcome `Division` takes as the smallest board not below the key, and its assertion
that `find_data` gives no negative answer there, `SPT_WAIT_AMT` included (4094-4098);
of the workers in `Division`, their own `SPT_WAIT_AMT` answers (data_set_construct.c
518-533), which are in `RetireBuf`; of a division,
boards whose insert fails, two equal cuts, and the sort's walk (1459-1560) while
workers change the cluster.

## 7. The plan

1. `SptThread` and its proofs - done.
2. `SdTree` against `RefSet` - done for one bottom cluster.
3. `RetireBuf` over `SptThread` - done.
4. `BitString` and its proofs - done.
5. `Division` over `SptThread` - done for boards found at once.
6. `FreeList`, `ClusterBlocks` and their proofs - done.
7. Left to model: the walk of the upper cluster with `hang_vec` and the failed
   inserts of boards.
8. `GracePeriod` of `SptThread` and the safety of `Division` - proved.
9. `OnePlace`, `ReserveWhole` and the types of `RetireBuf` - proved.
10. `NoEarlyReuse` of `RetireBuf`, for two threads before a wrap - proved.
11. `TypeOK` of `SdTree` - proved.
12. `NeverStuck`, `SameRecord`, `RecordsLinked`, `OneRecord` and the refinement of
    `RefSet` for threads that only add and look up - proved.
