---------------------------- MODULE MCSptThread ----------------------------
(***************************************************************************)
(* Bounds for TLC: the threads of a .cfg, one bit that belongs to no       *)
(* thread (black_white_map starts with all 64), and a tick counter that    *)
(* wraps after a few rounds.                                               *)
(***************************************************************************)
EXTENDS SptThread, TLC

CONSTANTS SpareBit

MCBit == Thread \union {SpareBit}
=============================================================================
