------------------------------ MODULE GuestHeap ------------------------------
(***************************************************************************)
(* The guest's heap (src/src/thunks_libc.cpp, GuestHeap).                  *)
(*                                                                         *)
(* Free blocks are on lists by size class; a header in front of a block    *)
(* says its size, whether it is in use and whether the block before it is; *)
(* a free block leaves its size in its last word, where a release of the   *)
(* block behind it finds it.  Memory is carved off an untouched tail.      *)
(*                                                                         *)
(* A cell is 8 bytes: a header is one cell, the smallest payload two, the  *)
(* links of a free block are in its first payload cell and its footer in   *)
(* the last.  The heap is a record h, an entry point maps it to the next   *)
(* one; every entry point but resize is one critical section.              *)
(***************************************************************************)
EXTENDS Naturals, FiniteSets, FiniteSetsExt, Functions

CONSTANTS
  Limit,        \* the arena is the cells 1 .. Limit
  NumBins,      \* 32
  SearchLimit,  \* 64: how far the search goes down a list
  Wants,        \* sizes the guest asks for, in bytes, none of which wraps
  Threads       \* guest threads

ASSUME HeapAssumption ==
  /\ Limit \in Nat \ {0} /\ NumBins \in Nat \ {0}
  /\ SearchLimit \in Nat \ {0} /\ Wants \subseteq Nat

Base == 1
Cells == 1 .. Limit
Null == 0
MinPayload == 2

VARIABLES
  heap,    \* the allocator's variables and what it keeps in the arena
  owned,   \* the blocks the guest was given and has not given back: a
           \* function to the cells it asked for
  resizes  \* Threads -> a realloc under way, or Idle

vars == <<heap, owned, resizes>>

Idle == [old |-> Null, want |-> 0, fresh |-> Null, step |-> "idle"]

(* (want + 7) & ~7, and no payload too small to be a free block's.         *)
CellsFor(bytes) == Max({MinPayload, (bytes + 7) \div 8})

(* Bin b holds the sizes of 2 << b cells and more, up to 4 << b; the last  *)
(* one all that are larger.                                                *)
bin_for(size) == Max({0} \cup {b \in 1 .. NumBins - 1 : 2^b <= size \div 2})

-----------------------------------------------------------------------------
(* init.                                                                   *)
Empty ==
  [top  |-> Base, live |-> 0,
   bins |-> [b \in 0 .. NumBins - 1 |-> Null],
   size |-> [c \in Cells |-> 0],
   used |-> [c \in Cells |-> FALSE],  prevUsed |-> [c \in Cells |-> FALSE],
   next |-> [c \in Cells |-> Null],   prev |-> [c \in Cells |-> Null],
   foot |-> [c \in Cells |-> 0]]

(* The cell behind the block at `at`, where the next block begins.         *)
After(at, size) == at + 1 + size

Payload(at, size) == at + 1 .. at + size

(* A block is put in front of its bin's list.                              *)
link(h, at, size) ==
  LET b    == bin_for(size)
      head == h.bins[b]
  IN  [h EXCEPT !.next[at] = head,
                !.prev     = [c \in Cells |-> IF c = at THEN Null
                                              ELSE IF c = head THEN at
                                              ELSE h.prev[c]],
                !.bins[b]  = at]

(* The neighbour behind keeps pointing at the block that is gone.          *)
unlink_OneWay(h, at, size) ==
  IF h.prev[at] = Null THEN [h EXCEPT !.bins[bin_for(size)] = h.next[at]]
                       ELSE [h EXCEPT !.next[h.prev[at]] = h.next[at]]

unlink(h, at, size) ==
  LET n == h.next[at]
      p == h.prev[at]
      g == IF p = Null THEN [h EXCEPT !.bins[bin_for(size)] = n]
                       ELSE [h EXCEPT !.next[p] = n]
  IN  IF n = Null THEN g ELSE [g EXCEPT !.prev[n] = p]

(* A block becomes the guest's, which may write anything in its payload:   *)
(* what the allocator left there is gone.                                  *)
Take(h, at, size, prevUsed) ==
  LET gone(f, x) == [c \in Cells |-> IF c \in Payload(at, size) THEN x ELSE f[c]]
  IN  [h EXCEPT
        !.size     = [gone(h.size, 0) EXCEPT ![at] = size],
        !.used     = [gone(h.used, FALSE) EXCEPT ![at] = TRUE],
        !.prevUsed = [gone(h.prevUsed, FALSE) EXCEPT ![at] = prevUsed],
        !.foot     = gone(h.foot, 0),
        !.next     = [gone(h.next, Null) EXCEPT ![at] = Null],
        !.prev     = [gone(h.prev, Null) EXCEPT ![at] = Null],
        !.live     = @ + size]

(* What was asked for is counted, not what was given.                      *)
carve_CountsWant(h, at, size, want) ==
  IF size >= want + 1 + MinPayload
  THEN LET tail == After(at, want)
           rest == size - want - 1
           g    == Take(h, at, want, h.prevUsed[at])
       IN  link([g EXCEPT !.size[tail] = rest, !.used[tail] = FALSE,
                          !.prevUsed[tail] = TRUE,
                          !.foot[tail + rest] = rest], tail, rest)
  ELSE LET after == After(at, size)
           g     == [Take(h, at, size, h.prevUsed[at]) EXCEPT !.live = h.live + want]
       IN  IF after < h.top THEN [g EXCEPT !.prevUsed[after] = TRUE] ELSE g

(* Turns a free block into an allocated one, returning the tail to the     *)
(* free lists when there is enough of it to be worth having.               *)
carve(h, at, size, want) ==
  IF size >= want + 1 + MinPayload
  THEN LET tail == After(at, want)
           rest == size - want - 1
           g    == Take(h, at, want, h.prevUsed[at])
       IN  link([g EXCEPT !.size[tail] = rest, !.used[tail] = FALSE,
                          !.prevUsed[tail] = TRUE,
                          !.foot[tail + rest] = rest], tail, rest)
  ELSE LET after == After(at, size)
           g     == Take(h, at, size, h.prevUsed[at])
       IN  IF after < h.top THEN [g EXCEPT !.prevUsed[after] = TRUE] ELSE g

-----------------------------------------------------------------------------
(* The n-th block of the list of bin b, from 0.                            *)
Nth(h, b) ==
  LET at[n \in 0 .. SearchLimit] ==
        IF n = 0 THEN h.bins[b]
        ELSE IF at[n - 1] = Null THEN Null ELSE h.next[at[n - 1]]
  IN  at

(* The size is not looked at, as it need not be in all bins but the first. *)
Fits_Unchecked(h, want) ==
  {x \in (bin_for(want) .. NumBins - 1) \X (0 .. SearchLimit - 1) :
     Nth(h, x[1])[x[2]] # Null}

(* Where in the lists the search may stop: <<bin, n>>, first bins first.   *)
Fits(h, want) ==
  {x \in (bin_for(want) .. NumBins - 1) \X (0 .. SearchLimit - 1) :
     LET at == Nth(h, x[1])[x[2]] IN at # Null /\ h.size[at] >= want}

First(found) ==
  LET b == Min({x[1] : x \in found})
  IN  <<b, Min({x[2] : x \in {y \in found : y[1] = b}})>>

FromTail(h, want) ==
  Take([h EXCEPT !.top = After(h.top, want)], h.top, want, TRUE)

(* <<the heap, the block or Null>>.                                        *)
unlocked_alloc(h, want) ==
  IF Fits(h, want) # {}
  THEN LET x  == First(Fits(h, want))
           at == Nth(h, x[1])[x[2]]
       IN  <<carve(unlink(h, at, h.size[at]), at, h.size[at], want), at>>
  ELSE IF h.top + 1 + want > Limit + 1 THEN <<h, Null>>
       ELSE <<FromTail(h, want), h.top>>

(* The block with the free block after it, then with the one before.       *)
AbsorbNext(h, at, size) ==
  LET next == After(at, size)
  IN  IF next < h.top /\ ~h.used[next]
      THEN <<unlink(h, next, h.size[next]), at, size + 1 + h.size[next]>>
      ELSE <<h, at, size>>

AbsorbPrev(h, at, size) ==
  LET prev == at - 1 - h.foot[at - 1]
  IN  IF ~h.prevUsed[at] /\ prev >= Base
      THEN <<unlink(h, prev, h.foot[at - 1]), prev, size + 1 + h.foot[at - 1]>>
      ELSE <<h, at, size>>

(* A block that reaches the tail is given back to it.                      *)
unlocked_release(h, at) ==
  LET x     == AbsorbNext([h EXCEPT !.live = @ - h.size[at]], at, h.size[at])
      y     == AbsorbPrev(x[1], x[2], x[3])
      g     == y[1]
      b     == y[2]
      size  == y[3]
      after == After(b, size)
  IN  IF after = g.top THEN [g EXCEPT !.top = b]
      ELSE link([g EXCEPT !.size[b] = size, !.used[b] = FALSE,
                          !.foot[b + size] = size,
                          !.prevUsed[after] = FALSE], b, size)

-----------------------------------------------------------------------------
(* report's walk: the blocks of the arena, from the bottom.                *)
Blocks ==
  LET from[at \in Nat \ {Null}] ==
        IF at >= heap.top \/ heap.size[at] = 0 THEN {}
        ELSE {at} \cup from[After(at, heap.size[at])]
  IN  from[Base]

InUse  == {at \in Blocks : heap.used[at]}
IsFree == Blocks \ InUse

(* Blocks in the hands of a realloc under way: the guest leaves them alone. *)
Moving == UNION {{resizes[t].old, resizes[t].fresh} : t \in Threads}

Given(at, want) ==
  owned' = IF at = Null THEN owned
           ELSE [b \in DOMAIN owned \cup {at} |-> IF b = at THEN want ELSE owned[b]]

GivenBack(at) == owned' = Restrict(owned, DOMAIN owned \ {at})

Init ==
  /\ heap = Empty
  /\ owned = [at \in {} |-> 0]
  /\ resizes = [t \in Threads |-> Idle]

Malloc(bytes) ==
  LET x == unlocked_alloc(heap, CellsFor(bytes)) IN
    /\ heap' = x[1] /\ Given(x[2], CellsFor(bytes))
    /\ UNCHANGED resizes

(* The guest frees what it has, once.                                      *)
Release(at) ==
  /\ at \in DOMAIN owned \ Moving
  /\ heap' = unlocked_release(heap, at) /\ GivenBack(at)
  /\ UNCHANGED resizes

(* resize: the size is looked at under the lock; a block that is large     *)
(* enough stays as it is.                                                  *)
ResizeLook(t, at, bytes) ==
  /\ resizes[t] = Idle /\ at \in DOMAIN owned \ Moving
  /\ heap.size[at] * 8 < bytes
  /\ resizes' = [resizes EXCEPT ![t] =
       [old |-> at, want |-> bytes, fresh |-> Null, step |-> "alloc"]]
  /\ UNCHANGED <<heap, owned>>

ResizeAlloc(t) ==
  /\ resizes[t].step = "alloc"
  /\ LET x == unlocked_alloc(heap, CellsFor(resizes[t].want)) IN
       /\ heap' = x[1] /\ Given(x[2], CellsFor(resizes[t].want))
       /\ resizes' = [resizes EXCEPT ![t] =
            IF x[2] = Null THEN Idle
            ELSE [@ EXCEPT !.fresh = x[2], !.step = "release"]]

(* The contents are copied and the old block is released.                  *)
ResizeRelease(t) ==
  /\ resizes[t].step = "release"
  /\ heap' = unlocked_release(heap, resizes[t].old)
  /\ GivenBack(resizes[t].old)
  /\ resizes' = [resizes EXCEPT ![t] = Idle]

Next ==
  \/ \E n \in Wants : Malloc(n)
  \/ \E at \in Cells : Release(at)
  \/ \E t \in Threads :
       \/ \E at \in Cells, n \in Wants : ResizeLook(t, at, n)
       \/ ResizeAlloc(t)
       \/ ResizeRelease(t)

Spec == Init /\ [][Next]_vars
-----------------------------------------------------------------------------
(* The tail begins within the arena or at its end, a list begins at a cell,*)
(* and a realloc under way knows the block it moves.                       *)
TypeOK ==
  /\ heap.top \in Base .. Limit + 1 /\ heap.live \in Nat
  /\ heap.bins \in [0 .. NumBins - 1 -> Cells \cup {Null}]
  /\ heap.size \in [Cells -> 0 .. Limit] /\ heap.foot \in [Cells -> 0 .. Limit]
  /\ heap.used \in [Cells -> BOOLEAN] /\ heap.prevUsed \in [Cells -> BOOLEAN]
  /\ heap.next \in [Cells -> Cells \cup {Null}]
  /\ heap.prev \in [Cells -> Cells \cup {Null}]
  /\ DOMAIN owned \subseteq Cells
  /\ \A t \in Threads :
       /\ resizes[t] = Idle \/ resizes[t].old \in DOMAIN owned
       /\ resizes[t].fresh # Null <=> resizes[t].step = "release"

(* The headers tile the arena up to the tail, every header tells the truth *)
(* about the block before it, and every free block about itself in its     *)
(* last word: release and report take each of these at its word.           *)
TagsTellTruth ==
  /\ heap.top = Base \/ \E at \in Blocks : After(at, heap.size[at]) = heap.top
  /\ \A at \in Blocks :
       /\ at = Base => heap.prevUsed[at]
       /\ LET after == After(at, heap.size[at]) IN
            after < heap.top => heap.prevUsed[after] = heap.used[at]
       /\ ~heap.used[at] => heap.foot[at + heap.size[at]] = heap.size[at]

(* thunks_libc.cpp 267-269: the block just below the tail is always in     *)
(* use; and two free blocks never lie side by side.                        *)
NoFreeNeighbours ==
  \A at \in IsFree :
    LET after == After(at, heap.size[at]) IN
      after < heap.top /\ heap.used[after]

(* The lists hold the free blocks, each in the bin of its size and linked  *)
(* both ways, and nothing else.                                            *)
ListsHoldTheFree ==
  /\ \A b \in 0 .. NumBins - 1 :
       LET at == heap.bins[b] IN
         at # Null => at \in IsFree /\ bin_for(heap.size[at]) = b /\ heap.prev[at] = Null
  /\ \A at \in IsFree :
       LET b == bin_for(heap.size[at])
           n == heap.next[at]
           p == heap.prev[at]
       IN /\ IF p = Null THEN heap.bins[b] = at
             ELSE p \in IsFree /\ heap.next[p] = at /\ bin_for(heap.size[p]) = b
          /\ n # Null => n \in IsFree /\ heap.prev[n] = at

(* live() is what the guest holds, to the cell, and the heap takes for in  *)
(* use exactly the blocks the guest was given and has not given back.      *)
GuestCells == UNION {Payload(at, heap.size[at]) : at \in DOMAIN owned}

LiveIsWhatTheGuestHolds ==
  /\ InUse = DOMAIN owned
  /\ heap.live = Cardinality(GuestCells)

(* What every release, split and search takes at its word, whatever the    *)
(* calls before it left: the tags, the lists, the tail in the arena and    *)
(* the accounting.                                                         *)
HeapIsSound ==
  /\ TypeOK /\ TagsTellTruth /\ NoFreeNeighbours /\ ListsHoldTheFree
  /\ LiveIsWhatTheGuestHolds

(* To the guest it is an allocator: blocks large enough, inside the arena, *)
(* apart from each other, whatever threads do between the steps of a       *)
(* realloc.                                                                *)
Allocator == INSTANCE GuestAllocator WITH
  Arena <- Cells, Wants <- {CellsFor(n) : n \in Wants},
  live  <- {[at |-> a + 1, len |-> heap.size[a], want |-> owned[a]] : a \in DOMAIN owned}

ImplementsAllocator == Allocator!Spec
=============================================================================
