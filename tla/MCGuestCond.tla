---------------------------- MODULE MCGuestCond ----------------------------
(* Small instances of GuestCond for TLC. *)
EXTENDS GuestCond, TLC

ThreadSymmetry == Permutations(Threads)
=============================================================================
