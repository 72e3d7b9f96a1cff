----------------------------- MODULE MCDivision -----------------------------
(***************************************************************************)
(* Bounds for TLC: a worker and the dividing thread, five keys of which    *)
(* the first has a board and a cluster of its own, and a key with two      *)
(* references.                                                             *)
(***************************************************************************)
EXTENDS Division

CONSTANTS SpareBit

MCBit == Thread \union {SpareBit}
FiveKeys == 1 .. 5
Clusters == 1 .. 3
TwoOfThree == [k \in FiveKeys |-> IF k = 3 THEN 2 ELSE 1]
SomeCalls == {"INSERT", "DELETE"} \X {2, 3, 4}
=============================================================================
