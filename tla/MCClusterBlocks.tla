-------------------------- MODULE MCClusterBlocks --------------------------
(***************************************************************************)
(* Bounds for TLC: two workers, a table without direct pages and with two  *)
(* entries a table page, one block of two nodes a page.  Five pages number *)
(* four, 0 to 3: page 1 waits for the indirect page, page 3 for the double *)
(* indirect page and for its first entry, which page 2 opens.  Two failed  *)
(* allocations bring a worker to page 2 while the other takes page 3, and  *)
(* a third to the end of the numbers.                                      *)
(***************************************************************************)
EXTENDS ClusterBlocks, TLC

CONSTANTS t1, t2

OneAndTwo == (t1 :> 1) @@ (t2 :> 2)
=============================================================================
