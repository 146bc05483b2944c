---------------------------- MODULE GuestAllocator ----------------------------
(***************************************************************************)
(* What malloc, free and realloc promise the guest: a block of at least    *)
(* the size asked for, inside the arena, apart from every block the guest  *)
(* still has; and a block is the guest's until the guest gives it back.    *)
(***************************************************************************)
EXTENDS Naturals, FiniteSets

CONSTANTS
  Arena,  \* the cells of the arena
  Wants   \* the sizes asked for, in cells

VARIABLE live  \* the guest's blocks: [at |-> first cell, len |-> cells,
               \* want |-> the cells asked for]

Extent(b) == b.at .. b.at + b.len - 1

Init == live = {}

Alloc(n) ==
  \E at \in Arena, len \in n .. Cardinality(Arena) :
    LET b == [at |-> at, len |-> len, want |-> n] IN
      /\ Extent(b) \subseteq Arena
      /\ \A c \in live : Extent(b) \cap Extent(c) = {}
      /\ live' = live \cup {b}

Free == \E b \in live : live' = live \ {b}

Next == (\E n \in Wants : Alloc(n)) \/ Free

Spec == Init /\ [][Next]_live
=============================================================================
