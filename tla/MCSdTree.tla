------------------------------ MODULE MCSdTree ------------------------------
(***************************************************************************)
(* Bounds for TLC: the keys and the tree to start from, and how many calls *)
(* of which operations each thread makes.  Comments give keys in binary.   *)
(***************************************************************************)
EXTENDS SdTree, TLC

CONSTANTS t1, t2

\* Keys of three bits that share prefixes and zero tails.
SomeKeys == {0, 1, 4, 5, 7}
Empty == <<>>

\* 1111 1011 1001 0101: three records in one chain, and one to its left.
OddKeys == {5, 9, 11, 15}
OddTree == <<15, 11, 9, 5>>

\* 1111 1011: a node and its down neighbour.
TwoTree == <<15, 11>>

\* 101, inserted twice: two references to one record, in the head.  The
\* others go to its left and to its right.
FewKeys == {1, 5, 7}
Twofold == <<5, 5>>

\* 1001 besides: it belongs under the node of 1011.
UnderKeys == {9, 11, 15}

\* 1111 1011 1001 1000: the last key ends in zeros.
TailKeys == {8, 9, 11, 15}
TailTree == <<15, 11, 9, 8>>

\* 1101111 1101101 1101001 1100001 1000001: a chain to the right, four nodes
\* deep, each with a down neighbour.  1111111 is to be inserted above it.
DeepKeys == {65, 97, 105, 109, 111, 127}
DeepTree == <<111, 109, 105, 97, 65>>

\* What each thread may call.
Upon(ops) == ops \X Keys
Additions == (t1 :> Upon({"INSERT"})) @@ (t2 :> Upon({"INSERT", "FIND"}))
DeleteFind == (t1 :> Upon({"DELETE"})) @@ (t2 :> Upon({"FIND"}))

\* The second thread inserts 0101 only, which is not in the chain of the other
\* three: it can meet the record that a DELETE has just counted to zero, and
\* the race of DeleteInsert cannot come about.
WriteFind ==
  (t1 :> Upon({"INSERT", "DELETE"})) @@ (t2 :> Upon({"FIND"}) \union {<<"INSERT", 5>>})

DeleteInsert == (t1 :> Upon({"DELETE"})) @@ (t2 :> Upon({"INSERT"}))
DeleteFive == [t \in Thread |-> Upon({"INSERT"}) \union {<<"DELETE", 5>>}]
DeleteOutside ==
  (t1 :> {<<"DELETE", 127>>})
  @@ (t2 :> {<<"INSERT", 127>>, <<"DELETE", 109>>, <<"DELETE", 105>>})

Waiting == {WAIT_AMT}

Once == [t \in Thread |-> 1]
Twice == [t \in Thread |-> 2]
OneThree == (t1 :> 1) @@ (t2 :> 3)
=============================================================================
