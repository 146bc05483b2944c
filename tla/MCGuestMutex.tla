---------------------------- MODULE MCGuestMutex ----------------------------
(* Small instances of GuestMutex for TLC. *)
EXTENDS GuestMutex, TLC

ThreadSymmetry == Permutations(Threads)
=============================================================================
