----------------------------- MODULE MCGuestHeap -----------------------------
(* Blocks of two to five cells in an arena where a few fit.                *)
EXTENDS GuestHeap, TLC

CONSTANTS t1, t2

ThreadSymmetry == Permutations(Threads)
=============================================================================
