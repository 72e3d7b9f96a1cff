---------------------------- MODULE MCRetireBuf ----------------------------
(***************************************************************************)
(* Bounds for TLC: two workers, a reserve of two nodes, and few calls.     *)
(***************************************************************************)
EXTENDS RetireBuf

CONSTANTS t1, t2, SpareBit

MCBit == Thread \union {SpareBit}

OneAndThree == (t1 :> 1) @@ (t2 :> 3)
=============================================================================
