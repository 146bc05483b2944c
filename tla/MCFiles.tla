------------------------------ MODULE MCFiles ------------------------------
(* Files with two threads, settings that were extracted, three saves.      *)
EXTENDS Files, TLC
CONSTANTS t1, t2, new, slot, backup, settings

Symmetry == Permutations(Threads)

(* Nothing is promised of what follows two threads in the bump pointer.    *)
Promised == ~raced
=============================================================================
