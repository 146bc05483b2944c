--------------------------- MODULE GuestHeap_proofs ---------------------------
(***************************************************************************)
(* Theorems about GuestHeap, for arenas, lists and sizes of any length and *)
(* any number of threads: the heap is sound, and to the guest it is an     *)
(* allocator.                                                              *)
(*                                                                         *)
(* The argument separates the headers, which tile the arena (Tiles, Tags,  *)
(* Apart), from the lists that thread some of them (Lists).  Every split   *)
(* and every merge replaces the headers between two blocks' ends, so that  *)
(* one lemma about tilings serves each way a release can join blocks.      *)
(***************************************************************************)
EXTENDS GuestHeap, Integers, FiniteSetTheorems, WellFoundedInduction, TLAPS

Bins  == 0 .. NumBins - 1
Links == Cells \cup {Null}

Heap ==
  [top : Base .. Limit + 1, live : Int, bins : [Bins -> Links],
   size : [Cells -> 0 .. Limit], used : [Cells -> BOOLEAN],
   prevUsed : [Cells -> BOOLEAN], next : [Cells -> Links],
   prev : [Cells -> Links], foot : [Cells -> 0 .. Limit]]

(* From the bottom to the top the blocks of B follow one upon another.     *)
Tiles(top, size, B) ==
  /\ B \subseteq Base .. top - 1
  /\ Base \in B \cup {top}
  /\ \A at \in B :
       /\ size[at] >= MinPayload
       /\ After(at, size[at]) \in B \cup {top}
       /\ \A c \in B : c <= at \/ c >= After(at, size[at])
  /\ \A c \in (B \cup {top}) \ {Base} : \E at \in B : After(at, size[at]) = c

Tags(top, size, used, prevUsed, foot, B) ==
  /\ Base \in B => prevUsed[Base]
  /\ \A at \in B :
       /\ After(at, size[at]) < top => prevUsed[After(at, size[at])] = used[at]
       /\ ~used[at] => foot[at + size[at]] = size[at]

Apart(top, size, used, B) ==
  \A at \in B : ~used[at] =>
     After(at, size[at]) < top /\ used[After(at, size[at])]

(* The lists hold the blocks of F, each in the bin of its size.            *)
Lists(bins, size, next, prev, F) ==
  /\ F \subseteq Cells
  /\ \A b \in Bins : bins[b] # Null =>
       bins[b] \in F /\ bin_for(size[bins[b]]) = b /\ prev[bins[b]] = Null
  /\ \A at \in F :
       /\ prev[at] = Null => bins[bin_for(size[at])] = at
       /\ prev[at] # Null =>
            /\ prev[at] \in F /\ next[prev[at]] = at
            /\ bin_for(size[prev[at]]) = bin_for(size[at])
       /\ next[at] # Null => next[at] \in F /\ prev[next[at]] = at

FreeOf(used, B) == {c \in B : ~used[c]}

Sound(h, B) ==
  /\ h \in Heap
  /\ Tiles(h.top, h.size, B)
  /\ Tags(h.top, h.size, h.used, h.prevUsed, h.foot, B)
  /\ Apart(h.top, h.size, h.used, B)
  /\ Lists(h.bins, h.size, h.next, h.prev, FreeOf(h.used, B))

-----------------------------------------------------------------------------
(* Facts about tilings.                                                    *)

(* Blocks b to before e made one.                                          *)
LEMMA MergeTiles ==
  ASSUME NEW top \in Nat, NEW size \in [Cells -> 0 .. Limit], NEW B,
         Tiles(top, size, B), top <= Limit + 1,
         NEW b \in B, NEW e \in B \cup {top}, b < e,
         NEW new \in [Cells -> 0 .. Limit],
         After(b, new[b]) = e,
         \A c \in B \ {b} : new[c] = size[c]
  PROVE  Tiles(top, new, {c \in B : c <= b \/ c >= e})
  <1> DEFINE R == {c \in B : c <= b \/ c >= e}
  <1>0. /\ B \subseteq Cells /\ B \subseteq Int /\ Base \in Int /\ e \in Int
        /\ \A c \in B : /\ size[c] \in Nat /\ new[c] \in Nat
                        /\ c \in Int /\ Base <= c /\ c < top
    BY HeapAssumption DEF Tiles, Cells, Base
  <1>1. After(b, size[b]) <= e
    BY <1>0 DEF Tiles, After
  <1>2. R \subseteq Base .. top - 1 /\ Base \in R \cup {top}
    BY <1>0 DEF Tiles
  <1>3. ASSUME NEW at \in R
        PROVE  /\ new[at] >= MinPayload
               /\ After(at, new[at]) \in R \cup {top}
               /\ \A c \in R : c <= at \/ c >= After(at, new[at])
    <2>1. CASE at = b
      BY <1>0, <1>1, <2>1 DEF Tiles, After, MinPayload
    <2>2. CASE at < b
      <3>1. After(at, size[at]) <= b /\ new[at] = size[at]
        BY <1>0, <2>2 DEF Tiles, After
      <3> QED
        BY <1>0, <2>2, <3>1 DEF Tiles
    <2>3. CASE at >= e
      <3>1. After(at, size[at]) >= e /\ new[at] = size[at]
        BY <1>0, <2>3 DEF After
      <3> QED
        BY <1>0, <2>3, <3>1 DEF Tiles
    <2> QED
      BY <1>0, <2>1, <2>2, <2>3
  <1>4. ASSUME NEW c \in (R \cup {top}) \ {Base}
        PROVE  \E at \in R : After(at, new[at]) = c
    <2>1. PICK p \in B : After(p, size[p]) = c
      BY DEF Tiles
    <2>2. p < c
      BY <1>0, <2>1 DEF After
    <2>3. CASE c <= b
      BY <1>0, <2>1, <2>2, <2>3
    <2>4. CASE c = e
      BY <1>0, <2>4
    <2>5. CASE c > e
      <3>1. e \in B
        BY <1>0, <2>5
      <3>2. p >= e
        BY <1>0, <2>1, <2>5, <3>1 DEF Tiles
      <3> QED
        BY <1>0, <2>1, <3>2
    <2> QED
      BY <1>0, <2>3, <2>4, <2>5
  <1> QED
    BY <1>2, <1>3, <1>4 DEF Tiles

(* The blocks from b on given back to the tail.                            *)
LEMMA CutTiles ==
  ASSUME NEW top \in Nat, NEW size \in [Cells -> 0 .. Limit], NEW B,
         Tiles(top, size, B), top <= Limit + 1,
         NEW b \in B,
         NEW new \in [Cells -> 0 .. Limit],
         \A c \in B : c < b => new[c] = size[c]
  PROVE  Tiles(b, new, {c \in B : c < b})
  <1> DEFINE R == {c \in B : c < b}
  <1>0. /\ B \subseteq Cells /\ B \subseteq Int /\ Base \in Int
        /\ \A c \in B : /\ size[c] \in Nat /\ new[c] \in Nat
                        /\ c \in Int /\ Base <= c /\ c < top
    BY HeapAssumption DEF Tiles, Cells, Base
  <1>1. b \in Int /\ Base <= b /\ b < top /\ top \in Int
    BY <1>0
  <1>2. R \subseteq Base .. b - 1 /\ Base \in R \cup {b}
    <2>1. Base # top /\ Base \in B \cup {top}
      BY <1>0, <1>1 DEF Tiles
    <2>2. Base = b \/ Base < b
      BY <1>0, <1>1
    <2>3. Base \in R \cup {b}
      BY <2>1, <2>2
    <2>4. ASSUME NEW c \in R PROVE c \in Base .. b - 1
      BY <1>0, <1>1
    <2> QED
      BY <2>3, <2>4
  <1>3. ASSUME NEW at \in R
        PROVE  /\ new[at] >= MinPayload
               /\ After(at, new[at]) \in R \cup {b}
               /\ \A c \in R : c <= at \/ c >= After(at, new[at])
    <2>1. After(at, size[at]) <= b /\ new[at] = size[at]
      BY <1>0 DEF Tiles, After
    <2>2. After(at, size[at]) \in B /\ After(at, size[at]) \in Int
      BY <1>0, <1>1, <2>1 DEF Tiles, After
    <2>3. After(at, size[at]) \in R \cup {b}
      BY <1>0, <1>1, <2>1, <2>2
    <2> QED
      BY <1>0, <1>1, <2>1, <2>3 DEF Tiles
  <1>4. ASSUME NEW c \in (R \cup {b}) \ {Base}
        PROVE  \E at \in R : After(at, new[at]) = c
    <2>1. PICK p \in B : After(p, size[p]) = c
      BY DEF Tiles
    <2> QED
      BY <1>0, <2>1 DEF After
  <1> QED
    BY <1>2, <1>3, <1>4 DEF Tiles

(* A block cut in two.                                                     *)
LEMMA SplitTiles ==
  ASSUME NEW top \in Nat, NEW size \in [Cells -> 0 .. Limit], NEW B,
         Tiles(top, size, B), top <= Limit + 1,
         NEW at \in B, NEW tail \in Cells,
         NEW new \in [Cells -> 0 .. Limit],
         new[at] >= MinPayload, After(at, new[at]) = tail,
         new[tail] >= MinPayload, After(tail, new[tail]) = After(at, size[at]),
         \A c \in B \ {at} : new[c] = size[c]
  PROVE  /\ Tiles(top, new, B \cup {tail})
         /\ at < tail /\ tail < After(at, size[at]) /\ tail \notin B
  <1> DEFINE R == B \cup {tail}
             end == After(at, size[at])
  <1>0. /\ B \subseteq Cells /\ R \subseteq Int /\ Base \in Int /\ top \in Int
        /\ \A c \in B : /\ size[c] \in Nat /\ new[c] \in Nat
                        /\ c \in Int /\ Base <= c /\ c < top
        /\ tail \in Int /\ new[tail] \in Nat
    BY HeapAssumption DEF Tiles, Cells, Base
  <1>1. at < tail /\ tail < end /\ end <= top /\ end \in Int /\ end \in B \cup {top}
    BY <1>0 DEF After, Tiles, MinPayload
  <1>2. tail \notin B
    BY <1>0, <1>1 DEF Tiles
  <1>3. R \subseteq Base .. top - 1 /\ Base \in R \cup {top}
    BY <1>0, <1>1 DEF Tiles
  <1>4. ASSUME NEW x \in R
        PROVE  /\ new[x] >= MinPayload
               /\ After(x, new[x]) \in R \cup {top}
               /\ \A c \in R : c <= x \/ c >= After(x, new[x])
    <2>1. CASE x = at
      BY <1>0, <1>1, <2>1 DEF Tiles
    <2>2. CASE x = tail
      BY <1>0, <1>1, <2>2 DEF Tiles
    <2>3. CASE x \in B \ {at}
      <3>1. new[x] = size[x]
        BY <2>3
      <3>2. x < at => After(x, size[x]) <= at
        BY <1>0, <2>3 DEF Tiles
      <3>3. x < at \/ x >= end
        BY <1>0, <2>3 DEF Tiles
      <3>4. x >= end => tail <= x
        BY <1>0, <1>1
      <3>5. tail <= x \/ tail >= After(x, size[x])
        BY <1>0, <1>1, <2>3, <3>2, <3>3, <3>4 DEF After
      <3> QED
        BY <1>0, <2>3, <3>1, <3>5 DEF Tiles
    <2> QED
      BY <2>1, <2>2, <2>3
  <1>5. ASSUME NEW c \in (R \cup {top}) \ {Base}
        PROVE  \E x \in R : After(x, new[x]) = c
    <2>1. CASE c = tail
      BY <2>1
    <2>2. CASE c # tail
      <3>1. PICK p \in B : After(p, size[p]) = c
        BY <2>2 DEF Tiles
      <3>2. CASE p = at
        BY <3>1, <3>2
      <3>3. CASE p # at
        BY <3>1, <3>3
      <3> QED
        BY <3>2, <3>3
    <2> QED
      BY <2>1, <2>2
  <1> QED
    BY <1>1, <1>2, <1>3, <1>4, <1>5 DEF Tiles

(* A block carved off the tail.                                            *)
LEMMA GrowTiles ==
  ASSUME NEW top \in Nat, NEW size \in [Cells -> 0 .. Limit], NEW B,
         Tiles(top, size, B), Base <= top,
         NEW new \in [Cells -> 0 .. Limit],
         new[top] \in Nat, new[top] >= MinPayload,
         top + 1 + new[top] <= Limit + 1,
         \A c \in B : new[c] = size[c]
  PROVE  Tiles(After(top, new[top]), new, B \cup {top})
  <1> DEFINE R == B \cup {top}
             end == After(top, new[top])
  <1>1. Base \in Int /\ top \in Int /\ top <= Limit /\ end \in Int /\ top < end
    BY HeapAssumption DEF Base, After, MinPayload
  <1>0. /\ B \subseteq Cells /\ B \subseteq Int
        /\ \A c \in B : /\ size[c] \in Nat
                        /\ c \in Int /\ Base <= c /\ c < top
    BY <1>1, HeapAssumption DEF Tiles, Cells, Base
  <1>2. R \subseteq Base .. end - 1 /\ Base \in R \cup {end}
    BY <1>0, <1>1 DEF Tiles
  <1>3. ASSUME NEW at \in R
        PROVE  /\ new[at] >= MinPayload
               /\ After(at, new[at]) \in R \cup {end}
               /\ \A c \in R : c <= at \/ c >= After(at, new[at])
    <2>1. CASE at = top
      BY <1>0, <1>1, <2>1
    <2>2. CASE at \in B
      <3>1. After(at, size[at]) \in B \cup {top}
        BY <2>2 DEF Tiles
      <3>3. \A c \in B : c <= at \/ c >= After(at, size[at])
        BY <2>2 DEF Tiles
      <3>4. size[at] >= MinPayload /\ new[at] = size[at]
        BY <2>2 DEF Tiles
      <3>5. top >= After(at, size[at])
        BY <1>0, <1>1, <2>2, <3>1 DEF After
      <3> QED
        BY <3>1, <3>3, <3>4, <3>5, <2>2
    <2> QED
      BY <2>1, <2>2
  <1>4. ASSUME NEW c \in (R \cup {end}) \ {Base}
        PROVE  \E at \in R : After(at, new[at]) = c
    BY DEF Tiles
  <1> QED
    BY <1>2, <1>3, <1>4 DEF Tiles

-----------------------------------------------------------------------------
(* What the operations on the lists change.                                *)

Unlists(h, g, at, b) ==
  LET n == h.next[at]
      p == h.prev[at]
  IN  /\ g.bins = IF p = Null THEN [h.bins EXCEPT ![b] = n] ELSE h.bins
      /\ g.next = IF p = Null THEN h.next ELSE [h.next EXCEPT ![p] = n]
      /\ g.prev = IF n = Null THEN h.prev ELSE [h.prev EXCEPT ![n] = p]

SameBlocks(h, g) ==
  /\ g.top = h.top /\ g.live = h.live /\ g.size = h.size /\ g.used = h.used
  /\ g.prevUsed = h.prevUsed /\ g.foot = h.foot

LEMMA UnlinkIs ==
  ASSUME NEW h \in Heap, NEW at \in Cells, NEW size, bin_for(size) \in Bins
  PROVE  LET g == unlink(h, at, size)
         IN  g \in Heap /\ SameBlocks(h, g) /\ Unlists(h, g, at, bin_for(size))
  <1> DEFINE n == h.next[at]
             p == h.prev[at]
             m == IF p = Null THEN [h EXCEPT !.bins[bin_for(size)] = n]
                              ELSE [h EXCEPT !.next[p] = n]
             g == IF n = Null THEN m ELSE [m EXCEPT !.prev[n] = p]
  <1>1. n \in Links /\ p \in Links
    BY DEF Heap
  <1>2. /\ m \in Heap /\ SameBlocks(h, m) /\ m.prev = h.prev
        /\ m.bins = IF p = Null THEN [h.bins EXCEPT ![bin_for(size)] = n] ELSE h.bins
        /\ m.next = IF p = Null THEN h.next ELSE [h.next EXCEPT ![p] = n]
    BY <1>1 DEF Heap, SameBlocks, Links
  <1>3. g \in Heap /\ SameBlocks(h, g) /\ Unlists(h, g, at, bin_for(size))
    <2> HIDE DEF m
    <2>1. CASE n = Null
      BY <1>2, <2>1 DEF Unlists
    <2>2. CASE n # Null
      <3>1. /\ g \in Heap /\ SameBlocks(m, g) /\ g.bins = m.bins /\ g.next = m.next
            /\ g.prev = [m.prev EXCEPT ![n] = p]
        BY <1>1, <1>2, <2>2 DEF Heap, SameBlocks, Links
      <3> QED
        BY <1>2, <2>2, <3>1 DEF Unlists, SameBlocks
    <2> QED
      BY <2>1, <2>2
  <1> QED
    BY <1>3 DEF unlink

Enlists(h, g, at, b) ==
  /\ g.bins = [h.bins EXCEPT ![b] = at]
  /\ g.next = [h.next EXCEPT ![at] = h.bins[b]]
  /\ g.prev = [c \in Cells |-> IF c = at THEN Null
                               ELSE IF c = h.bins[b] THEN at ELSE h.prev[c]]

LEMMA LinkIs ==
  ASSUME NEW h \in Heap, NEW at \in Cells, NEW size, bin_for(size) \in Bins
  PROVE  LET g == link(h, at, size)
         IN  g \in Heap /\ SameBlocks(h, g) /\ Enlists(h, g, at, bin_for(size))
  <1> DEFINE b == bin_for(size)
             prev == [c \in Cells |-> IF c = at THEN Null
                               ELSE IF c = h.bins[b] THEN at ELSE h.prev[c]]
             g == [h EXCEPT !.next[at] = h.bins[b], !.prev = prev, !.bins[b] = at]
  <1>1. h.bins[b] \in Links /\ prev \in [Cells -> Links]
    BY DEF Heap, Links
  <1>2. g \in Heap /\ SameBlocks(h, g) /\ Enlists(h, g, at, b)
    <2> HIDE DEF prev
    <2>1. /\ g \in Heap /\ SameBlocks(h, g) /\ g.prev = prev
          /\ g.bins = [h.bins EXCEPT ![b] = at]
          /\ g.next = [h.next EXCEPT ![at] = h.bins[b]]
      BY <1>1 DEF Heap, SameBlocks, Links
    <2> QED
      BY <2>1 DEF Enlists, prev
  <1> QED
    BY <1>2 DEF link

(* A list is what its members' cells say of it.                            *)
LEMMA ListsFrame ==
  ASSUME NEW F, NEW bins, NEW size, NEW next, NEW prev,
         Lists(bins, size, next, prev, F), bins \in [Bins -> Links],
         NEW size2, NEW next2, NEW prev2,
         \A c \in F : size2[c] = size[c] /\ next2[c] = next[c] /\ prev2[c] = prev[c]
  PROVE  Lists(bins, size2, next2, prev2, F)
  BY DEF Lists

LEMMA Unlisted ==
  ASSUME NEW h \in Heap, NEW g \in Heap, NEW F, NEW at \in F,
         Lists(h.bins, h.size, h.next, h.prev, F),
         \A c \in F : bin_for(h.size[c]) \in Bins,
         SameBlocks(h, g), Unlists(h, g, at, bin_for(h.size[at]))
  PROVE  Lists(g.bins, g.size, g.next, g.prev, F \ {at})
  <1> DEFINE n == h.next[at]
             p == h.prev[at]
             b == bin_for(h.size[at])
  <1>0. /\ F \subseteq Cells /\ Null \notin F /\ at \in Cells /\ b \in Bins
        /\ h.bins \in [Bins -> Links] /\ h.next \in [Cells -> Links]
        /\ h.prev \in [Cells -> Links] /\ g.size = h.size
    BY DEF Lists, Heap, Cells, Null, SameBlocks
  <1>1. /\ \A c \in F : g.next[c] = IF c = p THEN n ELSE h.next[c]
        /\ \A c \in F : g.prev[c] = IF c = n THEN p ELSE h.prev[c]
        /\ \A d \in Bins : g.bins[d] = IF d = b /\ p = Null THEN n ELSE h.bins[d]
    BY <1>0 DEF Unlists
  <1>2. /\ \A c \in F : h.next[c] = at => c = p
        /\ \A c \in F : h.prev[c] = at => c = n
        /\ \A d \in Bins : h.bins[d] = at => d = b /\ p = Null
        /\ p # Null => p \in F /\ h.next[p] = at /\ bin_for(h.size[p]) = b
        /\ n # Null => n \in F /\ h.prev[n] = at /\ bin_for(h.size[n]) = b
        /\ p = Null => h.bins[b] = at
    BY <1>0 DEF Lists
  <1>3. (p # at /\ n # at) \/ (p = at /\ n = at)
    BY <1>0, <1>2
  <1>4. ASSUME NEW d \in Bins, g.bins[d] # Null
        PROVE  /\ g.bins[d] \in F \ {at}
               /\ bin_for(h.size[g.bins[d]]) = d /\ g.prev[g.bins[d]] = Null
    <2>1. CASE d = b /\ p = Null
      <3>1. g.bins[d] = n /\ n \in F
        BY <1>1, <1>2, <1>4, <2>1
      <3> QED
        BY <1>1, <1>2, <1>3, <2>1, <3>1, <1>0
    <2>2. CASE ~(d = b /\ p = Null)
      <3>1. /\ g.bins[d] = h.bins[d] /\ h.bins[d] \in F /\ h.bins[d] # at
            /\ bin_for(h.size[h.bins[d]]) = d /\ h.prev[h.bins[d]] = Null
        BY <1>1, <1>2, <1>4, <2>2 DEF Lists
      <3>2. h.bins[d] # n
        BY <1>0, <1>2, <3>1
      <3> QED
        BY <1>1, <3>1, <3>2
    <2> QED
      BY <2>1, <2>2
  <1>5. ASSUME NEW c \in F \ {at}, g.prev[c] = Null
        PROVE  g.bins[bin_for(h.size[c])] = c
    <2>1. CASE c = n
      BY <1>0, <1>1, <1>2, <1>5, <2>1
    <2>2. CASE c # n
      <3>1. h.prev[c] = Null /\ h.bins[bin_for(h.size[c])] = c
        BY <1>1, <1>5, <2>2 DEF Lists
      <3>2. ~(bin_for(h.size[c]) = b /\ p = Null)
        BY <1>2, <3>1
      <3> QED
        BY <1>1, <3>1, <3>2
    <2> QED
      BY <2>1, <2>2
  <1>6. ASSUME NEW c \in F \ {at}, g.prev[c] # Null
        PROVE  /\ g.prev[c] \in F \ {at} /\ g.next[g.prev[c]] = c
               /\ bin_for(h.size[g.prev[c]]) = bin_for(h.size[c])
    <2>1. CASE c = n
      <3>1. g.prev[c] = p /\ p \in F /\ c # Null
        BY <1>0, <1>1, <1>2, <1>6, <2>1
      <3>2. p # at /\ n # Null /\ p # Null
        BY <1>3, <1>6, <2>1, <3>1
      <3>3. g.next[p] = n
        BY <1>1, <3>1
      <3>4. bin_for(h.size[p]) = b /\ bin_for(h.size[n]) = b
        BY <1>2, <3>2
      <3> QED
        BY <2>1, <3>1, <3>2, <3>3, <3>4
    <2>2. CASE c # n
      <3>1. /\ g.prev[c] = h.prev[c] /\ h.prev[c] \in F
            /\ h.next[h.prev[c]] = c /\ h.prev[c] # at
            /\ bin_for(h.size[h.prev[c]]) = bin_for(h.size[c])
        BY <1>1, <1>2, <1>6, <2>2 DEF Lists
      <3>2. h.prev[c] # p
        BY <1>0, <1>2, <3>1
      <3> QED
        BY <1>1, <3>1, <3>2
    <2> QED
      BY <2>1, <2>2
  <1>7. ASSUME NEW c \in F \ {at}, g.next[c] # Null
        PROVE  g.next[c] \in F \ {at} /\ g.prev[g.next[c]] = c
    <2>1. CASE c = p
      <3>1. g.next[c] = n /\ n \in F
        BY <1>1, <1>2, <1>7, <2>1
      <3> QED
        BY <1>0, <1>1, <1>2, <1>3, <2>1, <3>1
    <2>2. CASE c # p
      <3>1. /\ g.next[c] = h.next[c] /\ h.next[c] \in F
            /\ h.prev[h.next[c]] = c /\ h.next[c] # at
        BY <1>1, <1>2, <1>7, <2>2 DEF Lists
      <3>2. h.next[c] # n
        BY <1>0, <1>2, <3>1
      <3> QED
        BY <1>1, <3>1, <3>2
    <2> QED
      BY <2>1, <2>2
  <1>8. F \ {at} \subseteq Cells
    BY <1>0
  <1> HIDE DEF n, p, b
  <1> QED
    BY <1>0, <1>4, <1>5, <1>6, <1>7, <1>8 DEF Lists

LEMMA Listed ==
  ASSUME NEW h \in Heap, NEW g \in Heap, NEW F, NEW at \in Cells \ F,
         Lists(h.bins, h.size, h.next, h.prev, F),
         \A c \in F \cup {at} : bin_for(h.size[c]) \in Bins,
         SameBlocks(h, g), Enlists(h, g, at, bin_for(h.size[at]))
  PROVE  Lists(g.bins, g.size, g.next, g.prev, F \cup {at})
  <1> DEFINE b == bin_for(h.size[at])
             n == h.bins[b]
             G == F \cup {at}
  <1>0. /\ F \subseteq Cells /\ Null \notin F /\ at \in Cells /\ at # Null /\ b \in Bins
        /\ h.bins \in [Bins -> Links] /\ h.next \in [Cells -> Links]
        /\ h.prev \in [Cells -> Links] /\ g.size = h.size /\ G \subseteq Cells
    BY DEF Lists, Heap, Cells, Null, SameBlocks
  <1>1. /\ \A c \in G : g.next[c] = IF c = at THEN n ELSE h.next[c]
        /\ \A c \in G : g.prev[c] = IF c = at THEN Null
                                    ELSE IF c = n THEN at ELSE h.prev[c]
        /\ \A d \in Bins : g.bins[d] = IF d = b THEN at ELSE h.bins[d]
    BY <1>0 DEF Enlists
  <1>2. n # Null => n \in F /\ bin_for(h.size[n]) = b /\ h.prev[n] = Null
    BY <1>0 DEF Lists
  <1>4. ASSUME NEW d \in Bins, g.bins[d] # Null
        PROVE  /\ g.bins[d] \in G
               /\ bin_for(h.size[g.bins[d]]) = d /\ g.prev[g.bins[d]] = Null
    <2>1. CASE d = b
      BY <1>1, <2>1
    <2>2. CASE d # b
      <3>1. /\ g.bins[d] = h.bins[d] /\ h.bins[d] \in F
            /\ bin_for(h.size[h.bins[d]]) = d /\ h.prev[h.bins[d]] = Null
        BY <1>1, <1>4, <2>2 DEF Lists
      <3>2. h.bins[d] # n /\ h.bins[d] # at
        BY <1>0, <1>2, <2>2, <3>1
      <3> QED
        BY <1>1, <3>1, <3>2
    <2> QED
      BY <2>1, <2>2
  <1>5. ASSUME NEW c \in G, g.prev[c] = Null
        PROVE  g.bins[bin_for(h.size[c])] = c
    <2>1. CASE c = at
      BY <1>0, <1>1, <2>1
    <2>2. CASE c # at
      <3>1. c # n /\ h.prev[c] = Null /\ h.bins[bin_for(h.size[c])] = c
        BY <1>0, <1>1, <1>5, <2>2 DEF Lists
      <3>2. bin_for(h.size[c]) # b
        BY <3>1
      <3> QED
        BY <1>1, <3>1, <3>2
    <2> QED
      BY <2>1, <2>2
  <1>6. ASSUME NEW c \in G, g.prev[c] # Null
        PROVE  /\ g.prev[c] \in G /\ g.next[g.prev[c]] = c
               /\ bin_for(h.size[g.prev[c]]) = bin_for(h.size[c])
    <2>0. c # at /\ c \in F
      BY <1>1, <1>6
    <2>1. CASE c = n
      BY <1>0, <1>1, <1>2, <2>0, <2>1
    <2>2. CASE c # n
      <3>1. /\ g.prev[c] = h.prev[c] /\ h.prev[c] \in F
            /\ h.next[h.prev[c]] = c
            /\ bin_for(h.size[h.prev[c]]) = bin_for(h.size[c])
        BY <1>1, <1>6, <2>0, <2>2 DEF Lists
      <3>2. h.prev[c] # at
        BY <3>1
      <3> QED
        BY <1>1, <3>1, <3>2
    <2> QED
      BY <2>1, <2>2
  <1>7. ASSUME NEW c \in G, g.next[c] # Null
        PROVE  g.next[c] \in G /\ g.prev[g.next[c]] = c
    <2>1. CASE c = at
      <3>1. g.next[c] = n /\ n \in F /\ n # at
        BY <1>0, <1>1, <1>2, <1>7, <2>1
      <3> QED
        BY <1>0, <1>1, <2>1, <3>1
    <2>2. CASE c # at
      <3>1. /\ g.next[c] = h.next[c] /\ h.next[c] \in F
            /\ h.prev[h.next[c]] = c /\ h.next[c] # at /\ c # Null
        BY <1>0, <1>1, <1>7, <2>2 DEF Lists
      <3>2. h.next[c] # n
        BY <1>0, <1>2, <3>1
      <3> QED
        BY <1>1, <3>1, <3>2
    <2> QED
      BY <2>1, <2>2
  <1> HIDE DEF n, b
  <1> QED
    BY <1>0, <1>4, <1>5, <1>6, <1>7 DEF Lists

-----------------------------------------------------------------------------
(* Least and greatest, and the two recursions.                             *)
LEMMA LeastNat ==
  ASSUME NEW S, S \subseteq Nat, S # {}
  PROVE  \E i \in S : \A j \in S : i <= j
  <1>1. PICK x \in S : \A y \in S : ~(<<y, x>> \in OpToRel(<, Nat))
    BY WFMin, NatLessThanWellFounded
  <1>2. \A y \in S : ~(y < x)
    BY <1>1 DEF OpToRel
  <1> QED
    BY <1>2

LEMMA MinIs ==
  ASSUME NEW S, S \subseteq Nat, S # {}
  PROVE  Min(S) \in S /\ \A y \in S : Min(S) <= y
  BY LeastNat DEF Min

LEMMA MaxIs ==
  ASSUME NEW N \in Nat, NEW S, S \subseteq 0 .. N, S # {}
  PROVE  Max(S) \in S /\ \A y \in S : Max(S) >= y
  <1> DEFINE T == {N - y : y \in S}
  <1>1. T \subseteq Nat /\ T # {}
    <2>1. \A y \in S : N - y \in Nat
      OBVIOUS
    <2> QED
      BY <2>1
  <1>2. PICK t \in T : \A u \in T : t <= u
    BY <1>1, LeastNat
  <1>3. PICK x \in S : t = N - x
    OBVIOUS
  <1>4. ASSUME NEW y \in S PROVE x >= y
    <2>1. N - y \in T
      OBVIOUS
    <2>2. t <= N - y
      BY <1>2, <2>1
    <2>3. x \in 0 .. N /\ y \in 0 .. N
      OBVIOUS
    <2> QED
      BY <1>3, <2>2, <2>3
  <1> QED
    BY <1>4 DEF Max

LEMMA BinFor == ASSUME NEW size PROVE bin_for(size) \in Bins
  <1> DEFINE S == {0} \cup {b \in 1 .. NumBins - 1 : 2^b <= size \div 2}
  <1>1. S \subseteq 0 .. NumBins - 1 /\ S # {} /\ NumBins - 1 \in Nat
    BY HeapAssumption
  <1>2. Max(S) \in S
    BY <1>1, MaxIs
  <1> HIDE DEF S
  <1>3. Max(S) \in Bins
    BY <1>1, <1>2 DEF Bins
  <1> QED
    BY <1>3 DEF bin_for, S

LEMMA CellsForIs ==
  ASSUME NEW bytes \in Nat
  PROVE  CellsFor(bytes) \in Nat /\ CellsFor(bytes) >= MinPayload
  <1> DEFINE k == (bytes + 7) \div 8
             S == {MinPayload, k}
  <1>1. k \in Nat
    OBVIOUS
  <1> HIDE DEF k
  <1>2. S \subseteq 0 .. k + 2 /\ S # {} /\ k + 2 \in Nat
    BY <1>1 DEF MinPayload
  <1>3. Max(S) \in S /\ \A y \in S : Max(S) >= y
    BY <1>2, MaxIs
  <1>4. Max(S) \in Nat /\ Max(S) >= MinPayload
    BY <1>1, <1>3 DEF MinPayload
  <1> QED
    BY <1>4 DEF CellsFor, k

(* A walk along a function exists.                                         *)
Walk(g, a, N) ==
  \E f \in [0 .. N -> Links] :
    \A n \in 0 .. N : f[n] = IF n = 0 THEN a ELSE g[f[n - 1]]

LEMMA Walks ==
  ASSUME NEW g \in [Links -> Links], NEW a \in Links, NEW N \in Nat
  PROVE  Walk(g, a, N)
  <1> DEFINE Good(k) == \E f \in [0 .. N -> Links] :
           \A n \in 0 .. N : n <= k => f[n] = IF n = 0 THEN a ELSE g[f[n - 1]]
             S == {k \in Nat : ~Good(k)}
  <1>1. Good(0)
    <2> DEFINE f == [n \in 0 .. N |-> a]
    <2>1. f \in [0 .. N -> Links]
      OBVIOUS
    <2>2. \A n \in 0 .. N : n <= 0 => f[n] = IF n = 0 THEN a ELSE g[f[n - 1]]
      OBVIOUS
    <2> QED
      BY <2>1, <2>2
  <1>2. ASSUME NEW k \in Nat, Good(k) PROVE Good(k + 1)
    <2>1. PICK f \in [0 .. N -> Links] :
            \A n \in 0 .. N : n <= k => f[n] = IF n = 0 THEN a ELSE g[f[n - 1]]
      BY <1>2
    <2>2. CASE k + 1 > N
      BY <2>1, <2>2
    <2>3. CASE k + 1 <= N
      <3> DEFINE e == [f EXCEPT ![k + 1] = g[f[k]]]
      <3>1. k \in 0 .. N /\ k + 1 \in 0 .. N
        BY <2>3
      <3>2. e \in [0 .. N -> Links]
        BY <3>1
      <3>3. ASSUME NEW n \in 0 .. N, n <= k + 1
            PROVE  e[n] = IF n = 0 THEN a ELSE g[e[n - 1]]
        <4>1. CASE n = k + 1
          <5>1. e[n] = g[f[k]] /\ e[k] = f[k] /\ n - 1 = k /\ n # 0
            BY <3>1, <4>1
          <5> QED
            BY <5>1
        <4>2. CASE n <= k
          <5>1. e[n] = f[n] /\ (n # 0 => e[n - 1] = f[n - 1])
            BY <3>1, <4>2
          <5> QED
            BY <2>1, <4>2, <5>1
        <4> QED
          BY <3>3, <4>1, <4>2
      <3> QED
        BY <3>2, <3>3
    <2> QED
      BY <2>2, <2>3
  <1> HIDE DEF Good
  <1>3. S = {}
    <2> SUFFICES ASSUME S # {} PROVE FALSE
      OBVIOUS
    <2>1. PICK k \in S : \A j \in S : k <= j
      BY LeastNat
    <2>2. k # 0 /\ k \in Nat
      BY <1>1
    <2>3. k - 1 \in Nat /\ k - 1 \notin S
      BY <2>1, <2>2
    <2>4. Good(k - 1)
      BY <2>3
    <2>5. Good((k - 1) + 1)
      BY <1>2, <2>3, <2>4
    <2> QED
      BY <2>2, <2>5
  <1>4. Good(N)
    BY <1>3
  <1>5. PICK f \in [0 .. N -> Links] :
          \A n \in 0 .. N : n <= N => f[n] = IF n = 0 THEN a ELSE g[f[n - 1]]
    BY <1>4 DEF Good
  <1> QED
    BY <1>5 DEF Walk

LEMMA NthIs ==
  ASSUME NEW h \in Heap, NEW b \in Bins
  PROVE  \A n \in 0 .. SearchLimit : Nth(h, b)[n] =
           IF n = 0 THEN h.bins[b]
           ELSE IF Nth(h, b)[n - 1] = Null THEN Null ELSE h.next[Nth(h, b)[n - 1]]
  <1> DEFINE g == [x \in Links |-> IF x = Null THEN Null ELSE h.next[x]]
             Is(f) == f = [n \in 0 .. SearchLimit |->
               IF n = 0 THEN h.bins[b]
               ELSE IF f[n - 1] = Null THEN Null ELSE h.next[f[n - 1]]]
  <1>1. g \in [Links -> Links] /\ h.bins[b] \in Links /\ SearchLimit \in Nat
    BY HeapAssumption DEF Heap, Links
  <1>2. PICK f \in [0 .. SearchLimit -> Links] :
          \A n \in 0 .. SearchLimit :
            f[n] = IF n = 0 THEN h.bins[b] ELSE g[f[n - 1]]
    <2> DEFINE a == h.bins[b]
    <2>1. a \in Links
      BY <1>1
    <2> HIDE DEF g, a
    <2>2. Walk(g, a, SearchLimit)
      <3>1. SearchLimit \in Nat /\ g \in [Links -> Links]
        BY <1>1
      <3> QED
        BY ONLY <2>1, <3>1, Walks
    <2> QED
      BY <2>2 DEF a, Walk
  <1>3. \A n \in 0 .. SearchLimit :
          f[n] = IF n = 0 THEN h.bins[b]
                 ELSE IF f[n - 1] = Null THEN Null ELSE h.next[f[n - 1]]
    <2> SUFFICES ASSUME NEW n \in 0 .. SearchLimit, n # 0
                 PROVE  f[n] = IF f[n - 1] = Null THEN Null ELSE h.next[f[n - 1]]
      BY <1>2
    <2>1. n - 1 \in 0 .. SearchLimit
      BY <1>1
    <2>2. f[n - 1] \in Links
      BY <2>1
    <2> QED
      BY <1>2, <2>2
  <1>4. Is(f)
    BY <1>3
  <1>5. Nth(h, b) = CHOOSE e : Is(e)
    BY DEF Nth
  <1> HIDE DEF Is
  <1>6. Is(Nth(h, b))
    BY <1>4, <1>5
  <1> QED
    BY <1>6 DEF Is

LEMMA NthIsListed ==
  ASSUME NEW h \in Heap, NEW b \in Bins, NEW F,
         Lists(h.bins, h.size, h.next, h.prev, F),
         NEW n \in 0 .. SearchLimit, Nth(h, b)[n] # Null
  PROVE  Nth(h, b)[n] \in F /\ bin_for(h.size[Nth(h, b)[n]]) = b
  <1> DEFINE at == Nth(h, b)
             Good(k) == at[k] # Null => at[k] \in F /\ bin_for(h.size[at[k]]) = b
             S == {k \in 0 .. SearchLimit : ~Good(k)}
  <1>0. SearchLimit \in Nat
    BY HeapAssumption
  <1>1. ASSUME S # {} PROVE FALSE
    <2>1. S \subseteq Nat
      BY <1>0
    <2>2. PICK k \in S : \A j \in S : k <= j
      BY <1>1, <2>1, LeastNat
    <2>3. k \in 0 .. SearchLimit /\ at[k] # Null /\ ~Good(k)
      OBVIOUS
    <2>4. CASE k = 0
      <3>1. at[k] = h.bins[b]
        BY <2>3, <2>4, NthIs
      <3> QED
        BY <2>3, <3>1 DEF Lists
    <2>5. CASE k # 0
      <3>1. k - 1 \in 0 .. SearchLimit /\ ~(k <= k - 1)
        BY <1>0, <2>3, <2>5
      <3>2. Good(k - 1)
        BY <2>2, <3>1
      <3>3. at[k - 1] # Null /\ at[k] = h.next[at[k - 1]]
        BY <2>3, <2>5, NthIs
      <3>4. at[k - 1] \in F /\ bin_for(h.size[at[k - 1]]) = b /\ at[k - 1] \in Cells
        BY <3>2, <3>3 DEF Lists
      <3>5. at[k] \in F /\ h.prev[at[k]] = at[k - 1]
        BY <2>3, <3>3, <3>4 DEF Lists
      <3>6. bin_for(h.size[at[k]]) = b
        BY <3>3, <3>4, <3>5 DEF Lists
      <3> QED
        BY <2>3, <3>5, <3>6
    <2> QED
      BY <2>4, <2>5
  <1> QED
    BY <1>1

LEMMA FirstIs ==
  ASSUME NEW found, found \subseteq Nat \X Nat, found # {}
  PROVE  First(found) \in found
  <1> DEFINE bs == {x[1] : x \in found}
             b  == Min(bs)
             ns == {x[2] : x \in {y \in found : y[1] = b}}
             n  == Min(ns)
  <1>1. bs \subseteq Nat /\ bs # {}
    OBVIOUS
  <1>2. b \in bs
    BY <1>1, MinIs
  <1> HIDE DEF b
  <1>3. ns \subseteq Nat /\ ns # {}
    BY <1>2
  <1>4. n \in ns
    BY <1>3, MinIs
  <1> HIDE DEF n
  <1>5. PICK y \in found : y[1] = b /\ y[2] = n
    BY <1>4
  <1>6. y = <<b, n>>
    BY <1>5
  <1>7. First(found) = <<b, n>>
    BY DEF First, b, n
  <1> QED
    BY <1>6, <1>7

(* report's walk exists, from wherever it begins: it only goes up.         *)
Places == Nat \ {Null}

LEMMA Climbs ==
  ASSUME NEW top \in Nat, NEW size \in [Cells -> 0 .. Limit], top <= Limit + 1
  PROVE  \E f \in [Places -> SUBSET Places] : \A n \in Places :
           f[n] = IF n >= top \/ size[n] = 0 THEN {}
                  ELSE {n} \cup f[After(n, size[n])]
  <1> DEFINE Right(f, n) == f[n] = IF n >= top \/ size[n] = 0 THEN {}
                                   ELSE {n} \cup f[After(n, size[n])]
             Good(k) == \E f \in [Places -> SUBSET Places] :
                          \A n \in Places : n + k >= top => Right(f, n)
             S == {k \in Nat : ~Good(k)}
  <1>0. ASSUME NEW n \in Places, n < top
        PROVE  n \in Cells /\ size[n] \in Nat /\ After(n, size[n]) \in Places
               /\ After(n, size[n]) > n
    BY <1>0, HeapAssumption DEF Cells, Places, Null, After
  <1>1. Good(0)
    <2> DEFINE f == [n \in Places |-> {}]
    <2>1. f \in [Places -> SUBSET Places]
      OBVIOUS
    <2>2. \A n \in Places : n + 0 >= top => Right(f, n)
      BY DEF Places
    <2> QED
      BY <2>1, <2>2
  <1>2. ASSUME NEW k \in Nat, Good(k) PROVE Good(k + 1)
    <2>1. PICK f \in [Places -> SUBSET Places] :
            \A n \in Places : n + k >= top => Right(f, n)
      BY <1>2
    <2>2. CASE k + 1 >= top
      <3>1. \A n \in Places : n + k >= top
        BY <2>2 DEF Places, Null
      <3> QED
        BY <2>1, <3>1
    <2>3. CASE k + 1 < top
      <3> DEFINE m == top - (k + 1)
                 e == [f EXCEPT ![m] = IF size[m] = 0 THEN {}
                                       ELSE {m} \cup f[After(m, size[m])]]
      <3>1. m \in Places /\ m < top
        BY <2>3 DEF Places, Null
      <3> HIDE DEF m
      <3>2. e \in [Places -> SUBSET Places]
        BY <1>0, <3>1
      <3>3. ASSUME NEW n \in Places, n + (k + 1) >= top PROVE Right(e, n)
        <4>1. n = m \/ n + k >= top
          BY <2>3, <3>3 DEF m, Places
        <4>2. n >= m /\ m \in Nat /\ n \in Nat
          BY <2>3, <3>3 DEF m, Places
        <4>3. n < top => After(n, size[n]) # m /\ After(n, size[n]) \in Places
          BY <1>0, <4>2
        <4>4. n < top => e[After(n, size[n])] = f[After(n, size[n])]
          BY <4>3
        <4>5. CASE n = m
          <5>1. e[n] = IF size[n] = 0 THEN {} ELSE {n} \cup f[After(n, size[n])]
            BY <3>1, <4>5
          <5> QED
            BY <3>1, <4>2, <4>4, <4>5, <5>1
        <4>6. CASE n # m
          <5>1. e[n] = f[n] /\ Right(f, n)
            BY <2>1, <4>1, <4>6
          <5> QED
            BY <4>2, <4>4, <5>1
        <4> QED
          BY <4>5, <4>6
      <3> HIDE DEF e, Right
      <3> QED
        BY <3>2, <3>3
    <2>4. k + 1 >= top \/ k + 1 < top
      OBVIOUS
    <2> HIDE DEF Good
    <2> QED
      BY <2>2, <2>3, <2>4
  <1> HIDE DEF Good
  <1>3. S = {}
    <2> SUFFICES ASSUME S # {} PROVE FALSE
      OBVIOUS
    <2>1. PICK k \in S : \A j \in S : k <= j
      BY LeastNat
    <2>2. k # 0 /\ k \in Nat
      BY <1>1
    <2>3. k - 1 \in Nat /\ k - 1 \notin S
      BY <2>1, <2>2
    <2>4. Good(k - 1)
      BY <2>3
    <2>5. Good((k - 1) + 1)
      BY <1>2, <2>3, <2>4
    <2> QED
      BY <2>2, <2>5
  <1>4. Good(top)
    BY <1>3
  <1>5. PICK f \in [Places -> SUBSET Places] :
          \A n \in Places : n + top >= top => Right(f, n)
    BY <1>4 DEF Good
  <1>6. \A n \in Places : n + top >= top
    BY DEF Places
  <1> QED
    BY <1>5, <1>6

(* It meets the blocks of a tiling, and nothing else.                      *)
LEMMA ClimbMeets ==
  ASSUME NEW top \in Nat, NEW size \in [Cells -> 0 .. Limit], NEW B,
         Tiles(top, size, B), top <= Limit + 1, Base <= top,
         NEW f, \A n \in Places :
                  f[n] = IF n >= top \/ size[n] = 0 THEN {}
                         ELSE {n} \cup f[After(n, size[n])]
  PROVE  f[Base] = B
  <1> DEFINE Good(c) == f[c] = {x \in B : x >= c}
             S == {k \in Nat : top - k \in B \cup {top} /\ ~Good(top - k)}
  <1>0. /\ B \subseteq Places /\ top \in Places
        /\ \A c \in B : c \in Int /\ size[c] \in Nat /\ size[c] # 0 /\ Base <= c /\ c < top
    <2>1. top \in Places
      BY DEF Places, Base, Null
    <2>2. ASSUME NEW c \in B
          PROVE  /\ c \in Places /\ c \in Cells /\ c \in Int /\ Base <= c /\ c < top
                 /\ size[c] >= MinPayload
      BY HeapAssumption DEF Tiles, Places, Base, Null, Cells
    <2>3. \A c \in B : size[c] \in Nat /\ size[c] # 0
      BY <2>2, HeapAssumption DEF MinPayload
    <2> QED
      BY <2>1, <2>2, <2>3
  <1>1. ASSUME S # {} PROVE FALSE
    <2>1. PICK k \in S : \A j \in S : k <= j
      BY <1>1, LeastNat
    <2> DEFINE c == top - k
    <2>2. c \in B \cup {top} /\ ~Good(c) /\ k \in Nat
      OBVIOUS
    <2>3. CASE c = top
      <3>0. c \in Places /\ c >= top /\ \A x \in B : ~(x >= c)
        BY <1>0, <2>3
      <3>1. f[c] = {}
        BY <3>0
      <3>2. {x \in B : x >= c} = {}
        BY <3>0
      <3> QED
        BY <2>2, <3>1, <3>2
    <2>4. CASE c \in B
      <3> DEFINE d == After(c, size[c])
      <3>1. d \in B \cup {top} /\ d > c /\ c \in Int /\ d \in Int
        BY <1>0, <2>4 DEF Tiles, After
      <3>2. Good(d)
        <4>1. d <= top
          BY <1>0, <3>1
        <4>2. top - d \in Nat /\ top - (top - d) = d /\ ~(k <= top - d)
          BY <2>2, <3>1, <4>1
        <4>3. top - d \notin S
          BY <2>1, <4>2
        <4> QED
          BY <3>1, <4>2, <4>3
      <3>3. f[c] = {c} \cup f[d]
        <4>1. c \in Places /\ ~(c >= top) /\ size[c] # 0
          BY <1>0, <2>4
        <4> QED
          BY <4>1
      <3>4. {x \in B : x >= c} = {c} \cup {x \in B : x >= d}
        <4>1. \A x \in B : x >= c <=> x = c \/ x >= d
          BY <1>0, <2>4, <3>1 DEF Tiles
        <4> QED
          BY <2>4, <4>1
      <3> QED
        BY <2>2, <3>2, <3>3, <3>4
    <2> QED
      BY <2>2, <2>3, <2>4
  <1>2. Good(Base)
    <2>1. top - Base \in Nat /\ top - (top - Base) = Base
      BY DEF Base
    <2>2. Base \in B \cup {top}
      BY DEF Tiles
    <2> QED
      BY <1>1, <2>1, <2>2
  <1>3. {x \in B : x >= Base} = B
    BY <1>0 DEF Base
  <1> QED
    BY <1>2, <1>3

LEMMA BlocksAre ==
  \A B : heap \in Heap /\ Tiles(heap.top, heap.size, B) => Blocks = B
  <1> SUFFICES ASSUME NEW B, heap \in Heap, Tiles(heap.top, heap.size, B)
               PROVE  Blocks = B
    OBVIOUS
  <1> DEFINE top == heap.top
             size == heap.size
             Right(f) == \A n \in Places :
                f[n] = IF n >= top \/ size[n] = 0 THEN {}
                       ELSE {n} \cup f[After(n, size[n])]
             Is(f) == f = [n \in Places |->
                IF n >= top \/ size[n] = 0 THEN {}
                ELSE {n} \cup f[After(n, size[n])]]
  <1>1. /\ top \in Nat /\ top <= Limit + 1 /\ Base <= top
        /\ size \in [Cells -> 0 .. Limit]
    BY HeapAssumption DEF Heap, Base
  <1> HIDE DEF top, size
  <1>2. PICK f \in [Places -> SUBSET Places] : Right(f)
    BY <1>1, Climbs
  <1>3. Is(f)
    BY <1>2
  <1>4. Blocks = (CHOOSE e : Is(e))[Base]
    BY DEF Blocks, Places, top, size
  <1>5. Is(CHOOSE e : Is(e))
    <2> HIDE DEF Is
    <2> QED
      BY <1>3
  <1> DEFINE g == CHOOSE e : Is(e)
  <1>6. Right(g)
    <2>1. Is(g)
      BY <1>5
    <2> HIDE DEF g
    <2> QED
      BY <2>1
  <1>7. Tiles(top, size, B)
    BY DEF top, size
  <1> HIDE DEF g
  <1>8. g[Base] = B
    <2>1. \A n \in Places : g[n] = IF n >= top \/ size[n] = 0 THEN {}
                                  ELSE {n} \cup g[After(n, size[n])]
      BY <1>6
    <2> HIDE DEF Right
    <2> QED
      BY ONLY <1>1, <1>7, <2>1, ClimbMeets
  <1> QED
    BY <1>4, <1>8 DEF g

-----------------------------------------------------------------------------
(* malloc.                                                                 *)

(* What a sound heap says of its blocks.                                   *)
LEMMA Basics ==
  ASSUME NEW h, NEW B, Sound(h, B)
  PROVE  /\ h.top \in Nat /\ Base <= h.top /\ h.top <= Limit + 1 /\ h.live \in Int
         /\ h.size \in [Cells -> 0 .. Limit] /\ h.foot \in [Cells -> 0 .. Limit]
         /\ h.used \in [Cells -> BOOLEAN] /\ h.prevUsed \in [Cells -> BOOLEAN]
         /\ h.bins \in [Bins -> Links] /\ h.next \in [Cells -> Links]
         /\ h.prev \in [Cells -> Links]
         /\ B \subseteq Cells
         /\ \A c \in B : /\ c \in Nat /\ Base <= c /\ c < h.top
                         /\ h.size[c] \in Nat /\ h.size[c] >= MinPayload
                         /\ After(c, h.size[c]) \in B \cup {h.top}
                         /\ After(c, h.size[c]) <= h.top
                         /\ c < After(c, h.size[c])
         /\ \A c, d \in B : c < d => After(c, h.size[c]) <= d
  <1>1. /\ h.top \in Nat /\ Base <= h.top /\ h.top <= Limit + 1 /\ h.live \in Int
        /\ h.size \in [Cells -> 0 .. Limit] /\ h.foot \in [Cells -> 0 .. Limit]
        /\ h.used \in [Cells -> BOOLEAN] /\ h.prevUsed \in [Cells -> BOOLEAN]
        /\ h.bins \in [Bins -> Links] /\ h.next \in [Cells -> Links]
        /\ h.prev \in [Cells -> Links]
    BY HeapAssumption DEF Sound, Heap, Base
  <1>2. ASSUME NEW c \in B
        PROVE  /\ c \in Nat /\ c \in Cells /\ Base <= c /\ c < h.top
               /\ h.size[c] >= MinPayload
               /\ After(c, h.size[c]) \in B \cup {h.top}
               /\ \A d \in B : d <= c \/ d >= After(c, h.size[c])
    BY <1>1, HeapAssumption DEF Sound, Tiles, Cells, Base
  <1>3. ASSUME NEW c \in B
        PROVE  /\ h.size[c] \in Nat /\ After(c, h.size[c]) \in Nat
               /\ c < After(c, h.size[c]) /\ After(c, h.size[c]) <= h.top
    <2>1. h.size[c] \in Nat
      BY <1>1, <1>2, HeapAssumption
    <2>2. After(c, h.size[c]) \in Nat /\ c < After(c, h.size[c])
      BY <1>2, <2>1 DEF After
    <2>3. After(c, h.size[c]) \in B \cup {h.top}
      BY <1>2
    <2>4. \A d \in B : d < h.top /\ d \in Nat
      BY <1>2
    <2> QED
      BY <1>1, <2>1, <2>2, <2>3, <2>4
  <1>4. ASSUME NEW c \in B, NEW d \in B, c < d PROVE After(c, h.size[c]) <= d
    BY <1>2, <1>3, <1>4
  <1>5. B \subseteq Cells
    BY <1>2
  <1> QED
    BY <1>1, <1>2, <1>3, <1>4, <1>5

(* g is the heap h with a header and a payload written.                    *)
Taken(h, g, at, size, prevUsed) ==
  /\ g \in Heap /\ g.top = h.top /\ g.bins = h.bins
  /\ g.live = h.live + size
  /\ g.size[at] = size /\ g.used[at] = TRUE /\ g.prevUsed[at] = prevUsed
  /\ \A c \in Cells \ {at} : c \notin Payload(at, size) =>
       /\ g.size[c] = h.size[c] /\ g.used[c] = h.used[c]
       /\ g.prevUsed[c] = h.prevUsed[c] /\ g.foot[c] = h.foot[c]
       /\ g.next[c] = h.next[c] /\ g.prev[c] = h.prev[c]

LEMMA TakeIs ==
  ASSUME NEW h \in Heap, NEW at \in Cells, NEW size \in 0 .. Limit,
         NEW prevUsed, prevUsed \in BOOLEAN
  PROVE  Taken(h, Take(h, at, size, prevUsed), at, size, prevUsed)
  <1> DEFINE Gone(f, x) ==
               [c \in Cells |-> IF c \in Payload(at, size) THEN x ELSE f[c]]
             s == [Gone(h.size, 0) EXCEPT ![at] = size]
             u == [Gone(h.used, FALSE) EXCEPT ![at] = TRUE]
             p == [Gone(h.prevUsed, FALSE) EXCEPT ![at] = prevUsed]
             o == Gone(h.foot, 0)
             n == [Gone(h.next, Null) EXCEPT ![at] = Null]
             q == [Gone(h.prev, Null) EXCEPT ![at] = Null]
  <1>1. s \in [Cells -> 0 .. Limit] /\ o \in [Cells -> 0 .. Limit]
    BY HeapAssumption DEF Heap
  <1>2. u \in [Cells -> BOOLEAN] /\ p \in [Cells -> BOOLEAN]
    <2>1. /\ Gone(h.used, FALSE) \in [Cells -> BOOLEAN]
          /\ Gone(h.prevUsed, FALSE) \in [Cells -> BOOLEAN]
      BY DEF Heap
    <2> QED
      BY <2>1
  <1>3. n \in [Cells -> Links] /\ q \in [Cells -> Links]
    BY DEF Heap, Links
  <1>4. /\ s[at] = size /\ u[at] = TRUE /\ p[at] = prevUsed
        /\ \A c \in Cells \ {at} : c \notin Payload(at, size) =>
             /\ s[c] = h.size[c] /\ u[c] = h.used[c]
             /\ p[c] = h.prevUsed[c] /\ o[c] = h.foot[c]
             /\ n[c] = h.next[c] /\ q[c] = h.prev[c]
    OBVIOUS
  <1> DEFINE z == h.live + size
  <1>0. z \in Int
    BY HeapAssumption DEF Heap
  <1> HIDE DEF s, u, p, o, n, q, z
  <1> DEFINE g == [h EXCEPT !.size = s, !.used = u, !.prevUsed = p, !.foot = o,
                            !.next = n, !.prev = q, !.live = z]
  <1>5. /\ g \in Heap /\ g.top = h.top /\ g.bins = h.bins /\ g.live = z
        /\ g.size = s /\ g.used = u /\ g.prevUsed = p /\ g.foot = o
        /\ g.next = n /\ g.prev = q
    BY <1>0, <1>1, <1>2, <1>3 DEF Heap
  <1>6. Take(h, at, size, prevUsed) = g
    BY DEF Take, s, u, p, o, n, q, z
  <1> HIDE DEF g
  <1> QED
    BY <1>4, <1>5, <1>6 DEF z, Taken

UsedOf(h, B) == {c \in B : h.used[c]}

(* g is the heap h after it gave the block at `at`.                        *)
Gives(h, B, g, C, at) ==
  /\ Sound(g, C)
  /\ at \notin UsedOf(h, B)
  /\ UsedOf(g, C) = UsedOf(h, B) \cup {at}
  /\ g.live = h.live + g.size[at]
  /\ \A c \in UsedOf(h, B) : g.size[c] = h.size[c]

LEMMA TailGives ==
  ASSUME NEW h, NEW B, Sound(h, B), NEW want \in Nat, want >= MinPayload,
         h.top + 1 + want <= Limit + 1
  PROVE  /\ Gives(h, B, FromTail(h, want), B \cup {h.top}, h.top)
         /\ FromTail(h, want).size[h.top] = want
  <1> DEFINE top == h.top
             k == [h EXCEPT !.top = After(top, want)]
             g == FromTail(h, want)
             C == B \cup {top}
             e == After(top, want)
  <1>1. /\ top \in Cells /\ want \in 0 .. Limit /\ top \in Nat /\ e \in Base .. Limit + 1
        /\ e \in Nat /\ top < e
    BY Basics, HeapAssumption DEF Cells, Base, After, MinPayload
  <1>2. /\ k \in Heap /\ k.top = e /\ k.live = h.live /\ k.bins = h.bins
        /\ k.size = h.size /\ k.used = h.used /\ k.prevUsed = h.prevUsed
        /\ k.foot = h.foot /\ k.next = h.next /\ k.prev = h.prev
    BY <1>1 DEF Sound, Heap
  <1> DEFINE yes == TRUE
  <1>3. g = Take(k, top, want, yes) /\ yes \in BOOLEAN
    BY DEF FromTail
  <1> HIDE DEF k, g, e, yes
  <1>4. /\ g \in Heap /\ g.top = e /\ g.bins = h.bins
        /\ g.live = h.live + want
        /\ g.size[top] = want /\ g.used[top] = TRUE /\ g.prevUsed[top] = TRUE
        /\ \A c \in Cells \ {top} : c \notin Payload(top, want) =>
             /\ g.size[c] = h.size[c] /\ g.used[c] = h.used[c]
             /\ g.prevUsed[c] = h.prevUsed[c] /\ g.foot[c] = h.foot[c]
             /\ g.next[c] = h.next[c] /\ g.prev[c] = h.prev[c]
    <2>1. Taken(k, Take(k, top, want, yes), top, want, yes)
      BY <1>1, <1>2, <1>3, TakeIs
    <2>2. Taken(k, g, top, want, yes)
      BY <1>3, <2>1
    <2>3. g.prevUsed[top] = TRUE
      BY <2>2 DEF yes, Taken
    <2> HIDE DEF top
    <2> QED
      BY <1>2, <2>2, <2>3 DEF Taken
  <1>5. ASSUME NEW c \in Cells, c < top
        PROVE  /\ g.size[c] = h.size[c] /\ g.used[c] = h.used[c]
               /\ g.prevUsed[c] = h.prevUsed[c] /\ g.foot[c] = h.foot[c]
               /\ g.next[c] = h.next[c] /\ g.prev[c] = h.prev[c]
    <2>1. c # top /\ c \notin Payload(top, want)
      BY <1>1, <1>5 DEF Payload, Cells
    <2> QED
      BY <1>4, <2>1
  <1>6. /\ B \subseteq Cells /\ top \notin B
        /\ \A c \in B : /\ c < top /\ c \in Nat /\ c \in Cells
                        /\ h.size[c] \in Nat
                        /\ After(c, h.size[c]) \in B \cup {top}
                        /\ After(c, h.size[c]) <= top
    BY Basics
  <1>7. Tiles(g.top, g.size, C)
    <2>1. g.size \in [Cells -> 0 .. Limit] /\ h.size \in [Cells -> 0 .. Limit]
      BY <1>4 DEF Heap, Sound
    <2>2. \A c \in B : g.size[c] = h.size[c]
      BY <1>5, <1>6
    <2>3. Tiles(top, h.size, B) /\ Base <= top
      BY Basics DEF Sound
    <2>4. top + 1 + g.size[top] <= Limit + 1 /\ g.top = After(top, g.size[top])
      BY <1>4 DEF e
    <2>5. g.size[top] \in Nat /\ g.size[top] >= MinPayload
      BY <1>4
    <2> DEFINE s == g.size
               r == h.size
    <2> HIDE DEF s, r
    <2>6. Tiles(After(top, s[top]), s, B \cup {top})
      BY <1>1, <2>1, <2>2, <2>3, <2>4, <2>5, GrowTiles DEF s, r
    <2> QED
      BY <2>4, <2>6 DEF s
  <1>8. ASSUME NEW c \in B
        PROVE  /\ After(c, g.size[c]) < e =>
                    g.prevUsed[After(c, g.size[c])] = g.used[c]
               /\ ~g.used[c] => g.foot[c + g.size[c]] = g.size[c]
               /\ ~g.used[c] => /\ After(c, g.size[c]) < e
                                /\ g.used[After(c, g.size[c])]
    <2> DEFINE f == After(c, h.size[c])
    <2>1. g.size[c] = h.size[c] /\ g.used[c] = h.used[c]
      BY <1>5, <1>6
    <2>2. f \in Nat /\ f <= top /\ f \in B \cup {top}
      BY <1>6 DEF After
    <2>3. c + h.size[c] \in Cells /\ c + h.size[c] < top
      <3>1. /\ c \in 1 .. Limit /\ h.size[c] \in Nat /\ c + 1 + h.size[c] <= top
            /\ top \in 1 .. Limit
        BY <1>1, <1>6 DEF After, Cells
      <3> QED
        BY <3>1, HeapAssumption DEF Cells
    <2>4. ~h.used[c] => /\ f < top /\ h.used[f] /\ h.foot[c + h.size[c]] = h.size[c]
      BY DEF Sound, Apart, Tags
    <2>5. f < top => /\ f \in Cells /\ g.prevUsed[f] = h.prevUsed[f]
                     /\ g.used[f] = h.used[f] /\ h.prevUsed[f] = h.used[c]
      <3>1. f < top => f \in B
        BY <2>2
      <3> QED
        BY <1>5, <1>6, <3>1 DEF Sound, Tags
    <2>6. f = top => h.used[c]
      BY <1>1, <2>4
    <2>7. h.used[c] \in BOOLEAN
      BY <1>6, Basics
    <2>8. g.foot[c + h.size[c]] = h.foot[c + h.size[c]]
      BY <1>5, <2>3
    <2>9. ~g.used[c] => /\ f < e /\ g.used[f]
                        /\ g.foot[c + g.size[c]] = g.size[c]
      BY <1>1, <2>1, <2>2, <2>4, <2>5, <2>8
    <2>10. f < top => g.prevUsed[f] = g.used[c]
      BY <2>1, <2>5
    <2>11. f = top => g.prevUsed[f] = g.used[c]
      BY <1>4, <2>1, <2>6, <2>7
    <2>12. f < top \/ f = top
      BY <1>1, <2>2
    <2> QED
      BY <2>1, <2>9, <2>10, <2>11, <2>12
  <1>9. Tags(g.top, g.size, g.used, g.prevUsed, g.foot, C)
    <2>1. Base \in C => g.prevUsed[Base]
      <3>1. CASE Base = top
        BY <1>4, <3>1
      <3>2. CASE Base \in B
        BY <1>5, <1>6, <3>2 DEF Sound, Tags
      <3> QED
        BY <3>1, <3>2
    <2>2. ~(After(top, g.size[top]) < g.top)
      BY <1>1, <1>4 DEF e
    <2> QED
      BY <1>4, <1>8, <2>1, <2>2 DEF Tags
  <1>10. Apart(g.top, g.size, g.used, C)
    BY <1>4, <1>8 DEF Apart
  <1>11. FreeOf(g.used, C) = FreeOf(h.used, B)
    BY <1>4, <1>5, <1>6 DEF FreeOf
  <1>12. Lists(g.bins, g.size, g.next, g.prev, FreeOf(g.used, C))
    <2>1. \A c \in FreeOf(h.used, B) :
            g.size[c] = h.size[c] /\ g.next[c] = h.next[c] /\ g.prev[c] = h.prev[c]
      BY <1>5, <1>6 DEF FreeOf
    <2>2. Lists(g.bins, h.size, h.next, h.prev, FreeOf(h.used, B))
      BY <1>4 DEF Sound
    <2>3. g.bins \in [Bins -> Links]
      BY <1>4 DEF Heap
    <2> QED
      BY <1>11, <2>1, <2>2, <2>3, ListsFrame
  <1>13. UsedOf(g, C) = UsedOf(h, B) \cup {top}
    BY <1>4, <1>5, <1>6 DEF UsedOf
  <1>14. Sound(g, C)
    BY <1>4, <1>7, <1>9, <1>10, <1>12 DEF Sound
  <1>15. top \notin UsedOf(h, B) /\ \A c \in UsedOf(h, B) : g.size[c] = h.size[c]
    BY <1>5, <1>6 DEF UsedOf
  <1> QED
    BY <1>4, <1>13, <1>14, <1>15 DEF Gives, g

(* Where the other blocks are: before the block or behind it.              *)
LEMMA Elsewhere ==
  ASSUME NEW h, NEW B, Sound(h, B), NEW at \in B, NEW c \in B \ {at}
  PROVE  /\ c < at \/ c >= After(at, h.size[at])
         /\ c < at => After(c, h.size[c]) <= at
         /\ c + h.size[c] \in Cells
         /\ c + h.size[c] < at \/ c + h.size[c] >= After(at, h.size[at])
         /\ After(c, h.size[c]) # After(at, h.size[at])
  <1>1. /\ c \in Nat /\ at \in Nat /\ h.size[c] \in Nat /\ h.size[at] \in Nat
        /\ c >= Base /\ After(c, h.size[c]) <= h.top /\ h.top \in Nat
        /\ h.top <= Limit + 1
    BY Basics
  <1>2. /\ c < at => After(c, h.size[c]) <= at
        /\ at < c => After(at, h.size[at]) <= c
    BY Basics
  <1>3. c < at \/ at < c
    BY <1>1
  <1>4. c + h.size[c] \in Cells
    BY <1>1, HeapAssumption DEF Cells, Base, After
  <1> QED
    BY <1>1, <1>2, <1>3, <1>4 DEF After

(* Two free blocks are never neighbours: what is before a free block is in *)
(* use, and the header says so.                                            *)
LEMMA BeforeFree ==
  ASSUME NEW h, NEW B, Sound(h, B), NEW at \in B, ~h.used[at]
  PROVE  /\ h.prevUsed[at]
         /\ After(at, h.size[at]) \in B /\ After(at, h.size[at]) < h.top
         /\ h.used[After(at, h.size[at])]
         /\ ~h.prevUsed[After(at, h.size[at])]
  <1>1. /\ After(at, h.size[at]) < h.top /\ h.used[After(at, h.size[at])]
        /\ ~h.prevUsed[After(at, h.size[at])]
    BY DEF Sound, Apart, Tags
  <1>2. After(at, h.size[at]) \in B
    BY <1>1, Basics
  <1>3. h.prevUsed[at]
    <2>1. CASE at = Base
      BY <2>1 DEF Sound, Tags
    <2>2. CASE at # Base
      <3>1. PICK p \in B : After(p, h.size[p]) = at
        BY <2>2 DEF Sound, Tiles
      <3>2. at < h.top
        BY Basics
      <3>3. h.used[p]
        BY <3>1 DEF Sound, Apart
      <3>4. h.prevUsed[at] = h.used[p]
        BY <3>1, <3>2 DEF Sound, Tags
      <3> QED
        BY <3>3, <3>4
    <2> QED
      BY <2>1, <2>2
  <1> QED
    BY <1>1, <1>2, <1>3

LEMMA TilesFrame ==
  ASSUME NEW top, NEW size, NEW B, NEW new, Tiles(top, size, B),
         \A c \in B : new[c] = size[c]
  PROVE  Tiles(top, new, B)
  <1>1. \A at \in B : new[at] >= MinPayload /\ After(at, new[at]) \in B \cup {top}
    BY DEF Tiles
  <1>2. \A at \in B : \A c \in B : c <= at \/ c >= After(at, new[at])
    BY DEF Tiles
  <1>3. \A c \in (B \cup {top}) \ {Base} : \E at \in B : After(at, new[at]) = c
    <2> SUFFICES ASSUME NEW c \in (B \cup {top}) \ {Base}
                 PROVE  \E at \in B : After(at, new[at]) = c
      OBVIOUS
    <2>1. PICK at \in B : After(at, size[at]) = c
      BY DEF Tiles
    <2> QED
      BY <2>1
  <1> QED
    BY <1>1, <1>2, <1>3 DEF Tiles

(* g is the heap h with a free block off its list and its header that of   *)
(* one in use.                                                             *)
Seized(h, B, g, at, given) ==
  /\ g \in Heap /\ g.top = h.top /\ g.live = h.live + given
  /\ g.size[at] = given /\ g.used[at] /\ g.prevUsed[at]
  /\ \A c \in Cells : c < at \/ c >= After(at, h.size[at]) =>
       /\ g.size[c] = h.size[c] /\ g.used[c] = h.used[c]
       /\ g.prevUsed[c] = h.prevUsed[c] /\ g.foot[c] = h.foot[c]
  /\ Lists(g.bins, g.size, g.next, g.prev, FreeOf(h.used, B) \ {at})

LEMMA SeizeFree ==
  ASSUME NEW h, NEW B, Sound(h, B), NEW at \in FreeOf(h.used, B),
         NEW given \in Nat, given <= h.size[at]
  PROVE  LET l == unlink(h, at, h.size[at])
         IN  Seized(h, B, Take(l, at, given, l.prevUsed[at]), at, given)
  <1> DEFINE F == FreeOf(h.used, B)
             l == unlink(h, at, h.size[at])
             p == l.prevUsed[at]
             g == Take(l, at, given, p)
  <1>0. /\ at \in B /\ at \in Cells /\ h \in Heap /\ F \subseteq B /\ B \subseteq Cells
        /\ ~h.used[at] /\ given \in 0 .. Limit
    <2>1. F \subseteq B /\ at \in B /\ ~h.used[at]
      BY DEF FreeOf
    <2>2. h \in Heap /\ B \subseteq Cells
      BY Basics DEF Sound
    <2>3. h.size[at] \in 0 .. Limit
      BY <2>1, <2>2, Basics
    <2> HIDE DEF F
    <2> QED
      BY <2>1, <2>2, <2>3, HeapAssumption
  <1>1. l \in Heap /\ SameBlocks(h, l) /\ Unlists(h, l, at, bin_for(h.size[at]))
    BY <1>0, UnlinkIs, BinFor
  <1>2. Lists(l.bins, l.size, l.next, l.prev, F \ {at})
    <2>1. Lists(h.bins, h.size, h.next, h.prev, F)
      BY DEF Sound
    <2>2. \A c \in F : bin_for(h.size[c]) \in Bins
      BY BinFor
    <2> HIDE DEF l, F
    <2> QED
      BY <1>0, <1>1, <2>1, <2>2, Unlisted DEF F
  <1> HIDE DEF l
  <1>3. p \in BOOLEAN /\ p
    BY <1>0, <1>1, BeforeFree DEF SameBlocks, Heap
  <1> HIDE DEF p
  <1>4. Taken(l, g, at, given, p)
    BY <1>0, <1>1, <1>3, TakeIs
  <1> HIDE DEF g
  <1>5. ASSUME NEW c \in Cells, c < at \/ c >= After(at, h.size[at])
        PROVE  /\ g.size[c] = h.size[c] /\ g.used[c] = h.used[c]
               /\ g.prevUsed[c] = h.prevUsed[c] /\ g.foot[c] = h.foot[c]
               /\ g.next[c] = l.next[c] /\ g.prev[c] = l.prev[c]
    <2>1. at \in Nat /\ h.size[at] \in Nat /\ c \in Nat
      BY <1>0, Basics, HeapAssumption DEF Cells
    <2>2. c # at /\ c \notin Payload(at, given)
      BY <1>5, <2>1 DEF After, Payload
    <2> QED
      BY <1>1, <1>4, <2>2 DEF Taken, SameBlocks
  <1>6. ASSUME NEW c \in F \ {at}
        PROVE  g.size[c] = l.size[c] /\ g.next[c] = l.next[c] /\ g.prev[c] = l.prev[c]
    <2>1. c \in Cells /\ (c < at \/ c >= After(at, h.size[at]))
      BY <1>0, Elsewhere
    <2> QED
      BY <1>1, <1>5, <2>1 DEF SameBlocks
  <1>7. Lists(g.bins, g.size, g.next, g.prev, F \ {at})
    <2>1. l.bins \in [Bins -> Links] /\ g.bins = l.bins
      BY <1>1, <1>4 DEF Heap, Taken
    <2> HIDE DEF F
    <2> QED
      BY <1>2, <1>6, <2>1, ListsFrame
  <1>8. /\ g \in Heap /\ g.top = h.top /\ g.live = h.live + given
        /\ g.size[at] = given /\ g.used[at] /\ g.prevUsed[at]
    BY <1>1, <1>3, <1>4 DEF Taken, SameBlocks
  <1>9. Seized(h, B, g, at, given)
    BY <1>5, <1>7, <1>8 DEF Seized
  <1> QED
    BY <1>9 DEF g, p, l

(* g is the heap h with another header at a free block, and perhaps other  *)
(* words in its payload: what the other headers say is as true as it was.  *)
Beside(h, g, at) ==
  /\ g \in Heap /\ g.top = h.top /\ g.used[at] /\ g.prevUsed[at]
  /\ \A c \in Cells : c < at \/ c >= After(at, h.size[at]) =>
       /\ g.size[c] = h.size[c] /\ g.used[c] = h.used[c]
       /\ g.foot[c] = h.foot[c]
       /\ c # After(at, h.size[at]) => g.prevUsed[c] = h.prevUsed[c]

LEMMA OthersAsBefore ==
  ASSUME NEW h, NEW B, Sound(h, B), NEW at \in B, ~h.used[at],
         NEW g, Beside(h, g, at), NEW c \in B \ {at}
  PROVE  /\ g.size[c] = h.size[c] /\ g.used[c] = h.used[c]
         /\ After(c, h.size[c]) < h.top =>
               g.prevUsed[After(c, h.size[c])] = g.used[c]
         /\ ~g.used[c] => /\ g.foot[c + h.size[c]] = h.size[c]
                          /\ After(c, h.size[c]) < h.top
                          /\ g.used[After(c, h.size[c])]
         /\ c = Base => g.prevUsed[c]
  <1> DEFINE f == After(c, h.size[c])
             e == After(at, h.size[at])
  <1>1. /\ c \in Cells /\ at \in Cells /\ (c < at \/ c >= e) /\ f # e
        /\ c + h.size[c] \in Cells /\ (c + h.size[c] < at \/ c + h.size[c] >= e)
        /\ at \in Nat /\ c \in Nat /\ at < e /\ Base <= at
    BY Basics, Elsewhere
  <1>2. g.size[c] = h.size[c] /\ g.used[c] = h.used[c]
    BY <1>1 DEF Beside
  <1>3. g.foot[c + h.size[c]] = h.foot[c + h.size[c]]
    BY <1>1 DEF Beside
  <1>4. h.used[c] \in BOOLEAN /\ g.prevUsed[at] \in BOOLEAN /\ g.used[at] \in BOOLEAN
    BY <1>1, Basics DEF Beside, Heap
  <1>5. CASE f = at
    <2>1. h.prevUsed[at] /\ at < h.top
      BY BeforeFree, Basics
    <2>2. h.prevUsed[at] = h.used[c]
      BY <1>5, <2>1 DEF Sound, Tags
    <2>3. g.used[c] /\ g.prevUsed[f] = g.used[c]
      BY <1>2, <1>4, <1>5, <2>1, <2>2 DEF Beside
    <2>4. c # Base \/ g.prevUsed[c]
      <3>1. c < at
        BY <1>5, Basics
      <3>2. c = Base => h.prevUsed[c]
        BY DEF Sound, Tags
      <3>3. g.prevUsed[c] = h.prevUsed[c]
        BY <1>1, <3>1 DEF Beside
      <3> QED
        BY <3>2, <3>3
    <2> QED
      BY <1>2, <2>3, <2>4
  <1>6. CASE f # at
    <2>1. f < h.top => /\ f \in B \ {at} /\ h.prevUsed[f] = h.used[c]
      BY <1>6, Basics DEF Sound, Tags
    <2>2. f < h.top => /\ g.prevUsed[f] = h.prevUsed[f] /\ g.used[f] = h.used[f]
      <3>1. f < h.top => f \in Cells /\ (f < at \/ f >= e)
        BY <2>1, Basics, Elsewhere
      <3> QED
        BY <1>1, <3>1 DEF Beside
    <2>3. ~h.used[c] => /\ f < h.top /\ h.used[f]
                        /\ h.foot[c + h.size[c]] = h.size[c]
      BY DEF Sound, Apart, Tags
    <2>4. c = Base => h.prevUsed[c] /\ c # e
      BY <1>1 DEF Sound, Tags
    <2>5. c = Base => g.prevUsed[c]
      BY <1>1, <2>4 DEF Beside
    <2> QED
      BY <1>2, <1>3, <2>1, <2>2, <2>3, <2>5
  <1> QED
    BY <1>5, <1>6

LEMMA WholeGives ==
  ASSUME NEW h, NEW B, Sound(h, B), NEW at \in FreeOf(h.used, B),
         NEW want \in Nat, want <= h.size[at],
         ~(h.size[at] >= want + 1 + MinPayload)
  PROVE  LET g == carve(unlink(h, at, h.size[at]), at, h.size[at], want)
         IN  Gives(h, B, g, B, at) /\ g.size[at] >= want
  <1> DEFINE size == h.size[at]
             e == After(at, size)
             l == unlink(h, at, size)
             k == Take(l, at, size, l.prevUsed[at])
             g == carve(l, at, size, want)
  <1>1. at \in B /\ ~h.used[at] /\ size \in Nat /\ at \in Cells
    BY Basics DEF FreeOf
  <1>2. Seized(h, B, k, at, size)
    <2>1. size <= size
      BY <1>1
    <2> QED
      BY <1>1, <2>1, SeizeFree
  <1>3. e \in B /\ e < h.top /\ e \in Cells /\ l.top = h.top
    <2>1. e \in B /\ e < h.top
      BY <1>1, BeforeFree
    <2>2. h \in Heap /\ B \subseteq Cells
      BY Basics DEF Sound
    <2>3. SameBlocks(h, l)
      BY <1>1, <2>2, UnlinkIs, BinFor
    <2> QED
      BY <2>1, <2>2, <2>3 DEF SameBlocks
  <1>4. g = [k EXCEPT !.prevUsed[e] = TRUE]
    BY <1>3 DEF carve
  <1>5. k \in Heap /\ k.prevUsed \in [Cells -> BOOLEAN]
    BY <1>2 DEF Seized, Heap
  <1> HIDE DEF k, l, g
  <1>6. /\ g \in Heap /\ g.top = k.top /\ g.live = k.live /\ g.bins = k.bins
        /\ g.size = k.size /\ g.used = k.used /\ g.foot = k.foot
        /\ g.next = k.next /\ g.prev = k.prev
        /\ g.prevUsed = [k.prevUsed EXCEPT ![e] = TRUE]
    BY <1>3, <1>4, <1>5 DEF Heap
  <1>7. at \in Nat /\ at < e /\ \A c \in Cells : c \in Nat
    BY <1>1, Basics, HeapAssumption DEF Cells
  <1>8. Beside(h, g, at)
    <2>1. \A c \in Cells : c # e => g.prevUsed[c] = k.prevUsed[c]
      BY <1>5, <1>6
    <2>2. /\ g \in Heap /\ g.top = h.top /\ g.used[at] /\ g.prevUsed[at]
      BY <1>1, <1>2, <1>6, <1>7, <2>1 DEF Seized
    <2> SUFFICES ASSUME NEW c \in Cells, c < at \/ c >= e
                 PROVE  /\ g.size[c] = h.size[c] /\ g.used[c] = h.used[c]
                        /\ g.foot[c] = h.foot[c]
                        /\ c # e => g.prevUsed[c] = h.prevUsed[c]
      BY <2>2 DEF Beside
    <2>3. /\ k.size[c] = h.size[c] /\ k.used[c] = h.used[c]
          /\ k.prevUsed[c] = h.prevUsed[c] /\ k.foot[c] = h.foot[c]
      BY <1>2 DEF Seized
    <2> QED
      BY <1>6, <2>1, <2>3
  <1>9. g.prevUsed[e] = TRUE /\ g.used[at] = TRUE /\ g.size[at] = size
    <2>1. g.used[at] \in BOOLEAN
      BY <1>1, <1>6 DEF Heap
    <2> QED
      BY <1>2, <1>3, <1>5, <1>6, <2>1 DEF Seized
  <1> HIDE DEF e
  <1>10. \A c \in B \ {at} :
          /\ g.size[c] = h.size[c] /\ g.used[c] = h.used[c]
          /\ After(c, h.size[c]) < h.top =>
                g.prevUsed[After(c, h.size[c])] = g.used[c]
          /\ ~g.used[c] => /\ g.foot[c + h.size[c]] = h.size[c]
                           /\ After(c, h.size[c]) < h.top
                           /\ g.used[After(c, h.size[c])]
          /\ c = Base => g.prevUsed[c]
    BY <1>1, <1>8, OthersAsBefore
  <1>11. g.top = h.top /\ \A c \in B : g.size[c] = h.size[c]
    BY <1>8, <1>9, <1>10 DEF Beside
  <1>12. Tiles(g.top, g.size, B)
    <2>1. Tiles(h.top, h.size, B)
      BY DEF Sound
    <2> QED
      BY <1>11, <2>1, TilesFrame
  <1>13. Tags(g.top, g.size, g.used, g.prevUsed, g.foot, B)
    <2>1. After(at, g.size[at]) = e
      BY <1>9 DEF e
    <2>2. Base \in B => g.prevUsed[Base]
      BY <1>8, <1>10 DEF Beside
    <2>3. /\ After(at, g.size[at]) < g.top => g.prevUsed[After(at, g.size[at])] = g.used[at]
          /\ ~g.used[at] => g.foot[at + g.size[at]] = g.size[at]
      BY <1>9, <2>1
    <2>4. ASSUME NEW c \in B \ {at}
          PROVE  /\ After(c, g.size[c]) < g.top => g.prevUsed[After(c, g.size[c])] = g.used[c]
                 /\ ~g.used[c] => g.foot[c + g.size[c]] = g.size[c]
      BY <1>10, <1>11
    <2> QED
      BY <2>2, <2>3, <2>4 DEF Tags
  <1>14. Apart(g.top, g.size, g.used, B)
    BY <1>9, <1>10, <1>11 DEF Apart
  <1>15. FreeOf(g.used, B) = FreeOf(h.used, B) \ {at}
    BY <1>9, <1>10 DEF FreeOf
  <1>16. Lists(g.bins, g.size, g.next, g.prev, FreeOf(g.used, B))
    BY <1>2, <1>6, <1>15 DEF Seized
  <1>17. Sound(g, B)
    BY <1>6, <1>12, <1>13, <1>14, <1>16 DEF Sound
  <1>18. UsedOf(g, B) = UsedOf(h, B) \cup {at} /\ at \notin UsedOf(h, B)
    BY <1>1, <1>9, <1>10 DEF UsedOf
  <1>19. g.live = h.live + g.size[at]
    BY <1>2, <1>6, <1>9 DEF Seized
  <1>20. Gives(h, B, g, B, at)
    BY <1>11, <1>17, <1>18, <1>19 DEF Gives, UsedOf
  <1> QED
    BY <1>9, <1>20 DEF g, l

LEMMA SplitGives ==
  ASSUME NEW h, NEW B, Sound(h, B), NEW at \in FreeOf(h.used, B),
         NEW want \in Nat, want >= MinPayload,
         h.size[at] >= want + 1 + MinPayload
  PROVE  LET g == carve(unlink(h, at, h.size[at]), at, h.size[at], want)
         IN  /\ Gives(h, B, g, B \cup {After(at, want)}, at)
             /\ g.size[at] = want
  <1> DEFINE size == h.size[at]
             e    == After(at, size)
             l    == unlink(h, at, size)
             k    == Take(l, at, want, l.prevUsed[at])
             tail == After(at, want)
             rest == size - want - 1
             f    == tail + rest
             m    == [k EXCEPT !.size[tail] = rest, !.used[tail] = FALSE,
                               !.prevUsed[tail] = TRUE, !.foot[f] = rest]
             g    == link(m, tail, rest)
             C    == B \cup {tail}
  <1>1. at \in B /\ ~h.used[at] /\ at \in Cells
    BY Basics DEF FreeOf
  <1>2. /\ at \in Nat /\ size \in Nat /\ e \in Nat /\ e < h.top /\ h.top <= Limit + 1
        /\ Limit \in Nat /\ h.top \in Nat /\ at >= Base /\ e \in B
    BY <1>1, Basics, BeforeFree, HeapAssumption DEF After
  <1>3. /\ tail \in Cells /\ f \in Cells /\ rest \in 0 .. Limit /\ rest >= MinPayload
        /\ tail \in Nat /\ f \in Nat /\ rest \in Nat
        /\ at < tail /\ tail < f /\ f < e /\ After(tail, rest) = e
    BY <1>2 DEF After, Cells, Base, MinPayload
  <1>4. Seized(h, B, k, at, want)
    <2>1. want <= size
      BY <1>2 DEF MinPayload
    <2> QED
      BY <1>1, <2>1, SeizeFree
  <1>5. g = carve(l, at, size, want)
    BY DEF carve
  <1> HIDE DEF k, l
  <1>6. /\ k \in Heap /\ k.size \in [Cells -> 0 .. Limit]
        /\ k.used \in [Cells -> BOOLEAN] /\ k.prevUsed \in [Cells -> BOOLEAN]
        /\ k.foot \in [Cells -> 0 .. Limit]
    BY <1>4 DEF Seized, Heap
  <1> HIDE DEF tail, rest, f
  <1>7. /\ m \in Heap /\ m.top = k.top /\ m.live = k.live /\ m.bins = k.bins
        /\ m.next = k.next /\ m.prev = k.prev
        /\ m.size = [k.size EXCEPT ![tail] = rest]
        /\ m.used = [k.used EXCEPT ![tail] = FALSE]
        /\ m.prevUsed = [k.prevUsed EXCEPT ![tail] = TRUE]
        /\ m.foot = [k.foot EXCEPT ![f] = rest]
    BY <1>3, <1>6 DEF Heap
  <1> HIDE DEF m
  <1>8. /\ m.size[tail] = rest /\ m.used[tail] = FALSE /\ m.prevUsed[tail] = TRUE
        /\ m.foot[f] = rest
        /\ \A c \in Cells \ {tail} : /\ m.size[c] = k.size[c] /\ m.used[c] = k.used[c]
                                     /\ m.prevUsed[c] = k.prevUsed[c]
        /\ \A c \in Cells \ {f} : m.foot[c] = k.foot[c]
    BY <1>3, <1>6, <1>7
  <1>9. g \in Heap /\ SameBlocks(m, g) /\ Enlists(m, g, tail, bin_for(rest))
    BY <1>3, <1>7, LinkIs, BinFor
  <1> HIDE DEF g
  <1>10. g.top = h.top /\ g.live = h.live + want
    BY <1>4, <1>7, <1>9 DEF Seized, SameBlocks
  <1>11. /\ g.size[at] = want /\ g.used[at] = TRUE /\ g.prevUsed[at] = TRUE
         /\ g.size[tail] = rest /\ g.used[tail] = FALSE /\ g.prevUsed[tail] = TRUE
         /\ g.foot[f] = rest
    <2>1. at \in Cells \ {tail}
      BY <1>1, <1>2, <1>3
    <2>2. k.used[at] = TRUE /\ k.prevUsed[at] = TRUE /\ k.size[at] = want
      BY <1>1, <1>4, <1>6 DEF Seized
    <2> QED
      BY <1>8, <1>9, <2>1, <2>2 DEF SameBlocks
  <1>12. ASSUME NEW c \in Cells, c < at \/ c >= e
         PROVE  /\ g.size[c] = h.size[c] /\ g.used[c] = h.used[c]
                /\ g.foot[c] = h.foot[c] /\ g.prevUsed[c] = h.prevUsed[c]
    <2>1. c # tail /\ c # f
      BY <1>2, <1>3, <1>12
    <2>2. /\ k.size[c] = h.size[c] /\ k.used[c] = h.used[c]
          /\ k.prevUsed[c] = h.prevUsed[c] /\ k.foot[c] = h.foot[c]
      BY <1>4, <1>12 DEF Seized
    <2> QED
      BY <1>8, <1>9, <2>1, <2>2 DEF SameBlocks
  <1>13. Beside(h, g, at)
    BY <1>9, <1>10, <1>11, <1>12 DEF Beside
  <1>14. \A c \in B \ {at} :
          /\ g.size[c] = h.size[c] /\ g.used[c] = h.used[c]
          /\ After(c, h.size[c]) < h.top =>
                g.prevUsed[After(c, h.size[c])] = g.used[c]
          /\ ~g.used[c] => /\ g.foot[c + h.size[c]] = h.size[c]
                           /\ After(c, h.size[c]) < h.top
                           /\ g.used[After(c, h.size[c])]
          /\ c = Base => g.prevUsed[c]
    BY <1>1, <1>13, OthersAsBefore
  <1>15. Tiles(g.top, g.size, C) /\ tail \notin B
    <2>1. g.size \in [Cells -> 0 .. Limit] /\ h.size \in [Cells -> 0 .. Limit]
      BY <1>9, Basics DEF Heap
    <2>2. Tiles(h.top, h.size, B)
      BY DEF Sound
    <2>3. After(at, g.size[at]) = tail /\ After(tail, g.size[tail]) = After(at, h.size[at])
      BY <1>3, <1>11 DEF tail
    <2>4. g.size[at] >= MinPayload /\ g.size[tail] >= MinPayload
      BY <1>3, <1>11
    <2>5. \A c \in B \ {at} : g.size[c] = h.size[c]
      BY <1>14
    <2> DEFINE s == g.size
               r == h.size
               t == h.top
    <2>6. /\ t \in Nat /\ t <= Limit + 1 /\ at \in B /\ tail \in Cells
          /\ s \in [Cells -> 0 .. Limit] /\ r \in [Cells -> 0 .. Limit]
          /\ Tiles(t, r, B) /\ s[at] >= MinPayload /\ s[tail] >= MinPayload
          /\ After(at, s[at]) = tail /\ After(tail, s[tail]) = After(at, r[at])
          /\ \A c \in B \ {at} : s[c] = r[c]
      BY <1>1, <1>2, <1>3, <2>1, <2>2, <2>3, <2>4, <2>5
    <2>7. g.top = t
      BY <1>10
    <2> HIDE DEF s, r, t, size, e
    <2>8. Tiles(t, s, B \cup {tail}) /\ tail \notin B
      BY <2>6, SplitTiles
    <2> QED
      BY <2>7, <2>8 DEF s
  <1>16. g.prevUsed[e] = FALSE /\ g.used[e] = TRUE
    <2>1. e \in Cells /\ e \in Nat
      BY <1>2, Basics
    <2>2. ~h.prevUsed[e] /\ h.used[e]
      BY <1>1, BeforeFree
    <2>3. h.prevUsed[e] \in BOOLEAN /\ h.used[e] \in BOOLEAN
      BY <2>1, Basics
    <2>4. g.prevUsed[e] = h.prevUsed[e] /\ g.used[e] = h.used[e]
      BY <1>12, <2>1
    <2> QED
      BY <2>2, <2>3, <2>4
  <1>17. Tags(g.top, g.size, g.used, g.prevUsed, g.foot, C)
    <2>1. After(at, g.size[at]) = tail /\ After(tail, g.size[tail]) = e
      BY <1>3, <1>11 DEF tail
    <2>2. Base \in C => g.prevUsed[Base]
      BY <1>11, <1>14
    <2>3. /\ g.prevUsed[After(at, g.size[at])] = g.used[at]
          /\ ~g.used[at] => g.foot[at + g.size[at]] = g.size[at]
      BY <1>11, <2>1
    <2>4. /\ g.prevUsed[After(tail, g.size[tail])] = g.used[tail]
          /\ ~g.used[tail] => g.foot[tail + g.size[tail]] = g.size[tail]
      BY <1>11, <1>16, <2>1 DEF f
    <2>5. ASSUME NEW c \in B \ {at}
          PROVE  /\ After(c, g.size[c]) < g.top => g.prevUsed[After(c, g.size[c])] = g.used[c]
                 /\ ~g.used[c] => g.foot[c + g.size[c]] = g.size[c]
      BY <1>10, <1>14
    <2> QED
      BY <2>2, <2>3, <2>4, <2>5 DEF Tags
  <1>18. Apart(g.top, g.size, g.used, C)
    <2>1. After(tail, g.size[tail]) = e
      BY <1>3, <1>11
    <2>2. After(tail, g.size[tail]) < g.top /\ g.used[After(tail, g.size[tail])]
      BY <1>2, <1>10, <1>16, <2>1
    <2> QED
      BY <1>10, <1>11, <1>14, <2>2 DEF Apart
  <1> DEFINE F == FreeOf(h.used, B) \ {at}
  <1>19. FreeOf(g.used, C) = F \cup {tail}
    BY <1>11, <1>14 DEF FreeOf
  <1>20. Lists(g.bins, g.size, g.next, g.prev, FreeOf(g.used, C))
    <2>1. Lists(k.bins, k.size, k.next, k.prev, F)
      BY <1>4 DEF Seized
    <2>2. F \subseteq Cells \ {tail}
      BY <1>15, Basics DEF FreeOf
    <2>3. \A c \in F : m.size[c] = k.size[c] /\ m.next[c] = k.next[c] /\ m.prev[c] = k.prev[c]
      BY <1>7, <1>8, <2>2
    <2>4. m.bins \in [Bins -> Links] /\ m.bins = k.bins
      BY <1>7 DEF Heap
    <2> HIDE DEF F
    <2>5. Lists(m.bins, m.size, m.next, m.prev, F)
      BY <2>1, <2>3, <2>4, ListsFrame
    <2>6. tail \in Cells \ F
      BY <1>3, <2>2
    <2>7. \A c \in F \cup {tail} : bin_for(m.size[c]) \in Bins
      BY BinFor
    <2>8. Enlists(m, g, tail, bin_for(m.size[tail]))
      BY <1>8, <1>9
    <2>9. Lists(g.bins, g.size, g.next, g.prev, F \cup {tail})
      BY <1>7, <1>9, <2>5, <2>6, <2>7, <2>8, Listed
    <2> QED
      BY <1>19, <2>9
  <1>21. Sound(g, C)
    BY <1>9, <1>15, <1>17, <1>18, <1>20 DEF Sound
  <1>22. UsedOf(g, C) = UsedOf(h, B) \cup {at} /\ at \notin UsedOf(h, B)
    BY <1>1, <1>11, <1>14 DEF UsedOf
  <1>23. \A c \in UsedOf(h, B) : g.size[c] = h.size[c]
    BY <1>14, <1>22 DEF UsedOf
  <1>24. Gives(h, B, g, C, at)
    BY <1>10, <1>11, <1>21, <1>22, <1>23 DEF Gives
  <1> QED
    BY <1>5, <1>11, <1>24 DEF l, tail

LEMMA CarveGives ==
  ASSUME NEW h, NEW B, Sound(h, B), NEW at \in FreeOf(h.used, B),
         NEW want \in Nat, want >= MinPayload, want <= h.size[at]
  PROVE  LET g == carve(unlink(h, at, h.size[at]), at, h.size[at], want)
         IN  \E C : Gives(h, B, g, C, at) /\ g.size[at] >= want
  <1> DEFINE g == carve(unlink(h, at, h.size[at]), at, h.size[at], want)
             C == B \cup {After(at, want)}
  <1>1. CASE h.size[at] >= want + 1 + MinPayload
    <2>1. Gives(h, B, g, C, at) /\ g.size[at] = want
      BY <1>1, SplitGives
    <2>2. Gives(h, B, g, C, at) /\ g.size[at] >= want
      BY <2>1
    <2> HIDE DEF g, C
    <2>3. \E D : Gives(h, B, g, D, at) /\ g.size[at] >= want
      BY <2>2
    <2> QED
      BY <2>3 DEF g
  <1>2. CASE ~(h.size[at] >= want + 1 + MinPayload)
    <2>1. Gives(h, B, g, B, at) /\ g.size[at] >= want
      BY <1>2, WholeGives
    <2> HIDE DEF g
    <2>2. \E D : Gives(h, B, g, D, at) /\ g.size[at] >= want
      BY <2>1
    <2> QED
      BY <2>2 DEF g
  <1> QED
    BY <1>1, <1>2

(* An allocation gives a block that is large enough, or leaves the heap be. *)
Allocates(h, B, x, want) ==
  \/ x = <<h, Null>>
  \/ /\ x = <<x[1], x[2]>> /\ x[2] # Null
     /\ \E C : Gives(h, B, x[1], C, x[2]) /\ x[1].size[x[2]] >= want

LEMMA AllocGives ==
  ASSUME NEW h, NEW B, Sound(h, B), NEW want \in Nat, want >= MinPayload
  PROVE  Allocates(h, B, unlocked_alloc(h, want), want)
  <1>1. CASE Fits(h, want) # {}
    <2> DEFINE found == Fits(h, want)
               x     == First(found)
               at    == Nth(h, x[1])[x[2]]
               g     == carve(unlink(h, at, h.size[at]), at, h.size[at], want)
    <2>1. found \subseteq Nat \X Nat
      <3>1. bin_for(want) \in Nat /\ NumBins \in Nat /\ SearchLimit \in Nat
        BY BinFor, HeapAssumption DEF Bins
      <3>2. (bin_for(want) .. NumBins - 1) \X (0 .. SearchLimit - 1) \subseteq Nat \X Nat
        BY <3>1
      <3> QED
        BY <3>2 DEF Fits
    <2>2. x \in Fits(h, want)
      BY <1>1, <2>1, FirstIs
    <2> HIDE DEF x, found
    <2>3. /\ x[1] \in Bins /\ x[2] \in 0 .. SearchLimit
          /\ at # Null /\ h.size[at] >= want
      <3>1. bin_for(want) \in Nat /\ NumBins \in Nat /\ SearchLimit \in Nat
        BY BinFor, HeapAssumption DEF Bins
      <3> QED
        BY <2>2, <3>1 DEF Fits, Bins
    <2>4. at \in FreeOf(h.used, B)
      <3>1. /\ h \in Heap
            /\ Lists(h.bins, h.size, h.next, h.prev, FreeOf(h.used, B))
        BY DEF Sound
      <3> QED
        BY <2>3, <3>1, NthIsListed
    <2>5. unlocked_alloc(h, want) = <<g, at>>
      BY <1>1 DEF unlocked_alloc, x, found
    <2> HIDE DEF at
    <2>6. \E C : Gives(h, B, g, C, at) /\ g.size[at] >= want
      <3>1. at \in B /\ h.size[at] \in Nat /\ want <= h.size[at]
        BY <2>3, <2>4, Basics DEF FreeOf
      <3> QED
        BY <2>4, <3>1, CarveGives
    <2> HIDE DEF g
    <2> QED
      BY <2>3, <2>5, <2>6 DEF Allocates
  <1>2. CASE Fits(h, want) = {} /\ h.top + 1 + want > Limit + 1
    BY <1>2 DEF unlocked_alloc, Allocates
  <1>3. CASE Fits(h, want) = {} /\ ~(h.top + 1 + want > Limit + 1)
    <2> DEFINE g == FromTail(h, want)
               C == B \cup {h.top}
               top == h.top
    <2>1. unlocked_alloc(h, want) = <<g, top>>
      BY <1>3 DEF unlocked_alloc
    <2>2. h.top + 1 + want <= Limit + 1 /\ top # Null
      BY <1>3, Basics, HeapAssumption DEF Base, Null
    <2>3. Gives(h, B, g, C, top) /\ g.size[top] = want
      BY <2>2, TailGives
    <2> HIDE DEF g, C, top
    <2>4. Gives(h, B, g, C, top) /\ g.size[top] >= want
      BY <2>3
    <2>5. \E D : Gives(h, B, g, D, top) /\ g.size[top] >= want
      BY <2>4
    <2> QED
      BY <2>1, <2>2, <2>5 DEF Allocates
  <1> QED
    BY <1>1, <1>2, <1>3

-----------------------------------------------------------------------------
(* A release: the block joins its free neighbours, which leave their lists.*)
Outside(F, b, e) == {c \in F : c < b \/ c >= e}

(* g is the heap h while the block at `at` is given back: the blocks from  *)
(* b for s cells are to be one.                                            *)
Joined(h, B, at, g, b, s) ==
  /\ g \in Heap /\ g.top = h.top /\ g.live = h.live - h.size[at]
  /\ g.size = h.size /\ g.used = h.used /\ g.prevUsed = h.prevUsed
  /\ g.foot = h.foot
  /\ b \in B /\ s \in Nat /\ After(b, s) \in B \cup {h.top}
  /\ b <= at /\ After(at, h.size[at]) <= After(b, s)
  /\ \A c \in B : b <= c /\ c < After(b, s) => c = at \/ ~h.used[c]
  /\ Lists(g.bins, h.size, g.next, g.prev,
           Outside(FreeOf(h.used, B), b, After(b, s)))

(* A free block next to those joined leaves its list.                      *)
LEMMA Loosen ==
  ASSUME NEW h, NEW B, Sound(h, B), NEW at, NEW g, NEW b, NEW s,
         Joined(h, B, at, g, b, s), NEW n \in FreeOf(h.used, B),
         n < b \/ n >= After(b, s)
  PROVE  LET k == unlink(g, n, h.size[n])
         IN  /\ k \in Heap /\ SameBlocks(g, k)
             /\ Lists(k.bins, h.size, k.next, k.prev,
                      Outside(FreeOf(h.used, B), b, After(b, s)) \ {n})
  <1> DEFINE F == Outside(FreeOf(h.used, B), b, After(b, s))
             k == unlink(g, n, h.size[n])
  <1>1. g \in Heap /\ g.size = h.size /\ Lists(g.bins, g.size, g.next, g.prev, F)
    BY DEF Joined
  <1>2. n \in F /\ n \in Cells
    BY Basics DEF Outside, FreeOf
  <1>3. k \in Heap /\ SameBlocks(g, k) /\ Unlists(g, k, n, bin_for(h.size[n]))
    BY <1>1, <1>2, UnlinkIs, BinFor
  <1> HIDE DEF F, k
  <1>4. \A c \in F : bin_for(g.size[c]) \in Bins
    BY BinFor
  <1>5. Unlists(g, k, n, bin_for(g.size[n]))
    BY <1>1, <1>3
  <1>6. Lists(k.bins, k.size, k.next, k.prev, F \ {n})
    BY <1>1, <1>2, <1>3, <1>4, <1>5, Unlisted
  <1>7. k.size = h.size
    BY <1>1, <1>3 DEF SameBlocks
  <1> QED
    BY <1>3, <1>6, <1>7 DEF F, k

LEMMA AbsorbNextJoins ==
  ASSUME NEW h, NEW B, Sound(h, B), NEW at \in UsedOf(h, B), NEW g,
         Joined(h, B, at, g, at, h.size[at])
  PROVE  LET x == AbsorbNext(g, at, h.size[at])
             e == After(at, x[3])
         IN  /\ x[2] = at /\ Joined(h, B, at, x[1], at, x[3])
             /\ e = h.top \/ h.used[e]
  <1> DEFINE s == h.size[at]
             n == After(at, s)
             k == unlink(g, n, h.size[n])
             t == s + 1 + h.size[n]
             F == FreeOf(h.used, B)
  <1>1. /\ g.top = h.top /\ g.used = h.used /\ g.size = h.size
        /\ at \in B /\ s \in Nat /\ at \in Nat
    BY Basics DEF Joined, UsedOf
  <1>2. CASE n < g.top /\ ~g.used[n]
    <2>1. AbsorbNext(g, at, s) = <<k, at, t>>
      BY <1>1, <1>2 DEF AbsorbNext
    <2>2. n \in B /\ n < h.top /\ ~h.used[n] /\ n \in Nat /\ h.size[n] \in Nat
      BY <1>1, <1>2, Basics
    <2>3. /\ k \in Heap /\ SameBlocks(g, k)
          /\ Lists(k.bins, h.size, k.next, k.prev, Outside(F, at, n) \ {n})
      <3>1. n \in F /\ n >= n
        BY <2>2 DEF FreeOf
      <3> QED
        BY <3>1, Loosen
    <2>4. t \in Nat /\ After(at, t) = After(n, h.size[n]) /\ n < After(at, t)
      BY <1>1, <2>2 DEF After
    <2>5. After(at, t) \in B /\ After(at, t) < h.top /\ h.used[After(at, t)]
      BY <2>2, <2>4, BeforeFree
    <2>6. \A c \in B : at <= c /\ c < After(at, t) => c = at \/ c = n
      <3> SUFFICES ASSUME NEW c \in B, at <= c, c < After(at, t), c # at
                   PROVE  c = n
        OBVIOUS
      <3>1. c \in Nat /\ at < c
        BY <1>1, Basics
      <3>2. n <= c
        BY <1>1, <3>1, Basics
      <3>3. ~(n < c)
        BY <2>2, <2>4, <3>1, Basics
      <3> QED
        BY <2>2, <3>1, <3>2, <3>3
    <2>7. Outside(F, at, n) \ {n} = Outside(F, at, After(at, t))
      <3>1. \A c \in F : c \in B /\ c # at
        BY DEF FreeOf, UsedOf
      <3>2. \A c \in F : c >= After(at, t) => c >= n /\ c # n
        BY <2>2, <2>4, <2>5, <3>1, Basics
      <3>3. \A c \in F : c >= n /\ c # n => c >= After(at, t)
        BY <1>1, <2>2, <2>4, <2>5, <2>6, <3>1, Basics
      <3>4. \A c \in F : c < at => c # n
        BY <1>1, <2>2, <3>1, Basics
      <3> QED
        BY <3>2, <3>3, <3>4 DEF Outside
    <2>8. n <= After(at, t) /\ at <= at
      BY <1>1, <2>2, <2>4, <2>5, Basics
    <2>9. \A c \in B : at <= c /\ c < After(at, t) => c = at \/ ~h.used[c]
      BY <2>2, <2>6
    <2>10. Lists(k.bins, h.size, k.next, k.prev, Outside(F, at, After(at, t)))
      BY <2>3, <2>7
    <2> HIDE DEF k, t
    <2>11. Joined(h, B, at, k, at, t)
      BY <1>1, <2>3, <2>4, <2>5, <2>8, <2>9, <2>10 DEF Joined, SameBlocks
    <2> QED
      BY <2>1, <2>5, <2>11
  <1>3. CASE ~(n < g.top /\ ~g.used[n])
    <2>1. AbsorbNext(g, at, s) = <<g, at, s>>
      BY <1>3 DEF AbsorbNext
    <2>2. n = h.top \/ h.used[n]
      BY <1>1, <1>3, Basics
    <2> QED
      BY <2>1, <2>2
  <1> QED
    BY <1>2, <1>3

LEMMA AbsorbPrevJoins ==
  ASSUME NEW h, NEW B, Sound(h, B), NEW at \in UsedOf(h, B), NEW g, NEW s,
         Joined(h, B, at, g, at, s)
  PROVE  LET y == AbsorbPrev(g, at, s)
         IN  /\ Joined(h, B, at, y[1], y[2], y[3])
             /\ After(y[2], y[3]) = After(at, s)
             /\ h.prevUsed[y[2]]
  <1> DEFINE p == at - 1 - g.foot[at - 1]
             o == g.foot[at - 1]
             k == unlink(g, p, o)
             t == s + 1 + o
             F == FreeOf(h.used, B)
             e == After(at, s)
  <1>1. /\ g \in Heap /\ g.top = h.top /\ g.used = h.used /\ g.size = h.size
        /\ g.prevUsed = h.prevUsed /\ g.foot = h.foot
        /\ at \in B /\ s \in Nat /\ at \in Nat /\ at < h.top
    BY Basics DEF Joined, UsedOf
  <1>2. CASE h.prevUsed[at]
    <2>1. AbsorbPrev(g, at, s) = <<g, at, s>>
      BY <1>1, <1>2 DEF AbsorbPrev
    <2> QED
      BY <1>2, <2>1
  <1>3. CASE ~h.prevUsed[at]
    <2>1. PICK q \in B : After(q, h.size[q]) = at
      BY <1>1, <1>3 DEF Sound, Tiles, Tags
    <2>2. q \in Nat /\ h.size[q] \in Nat /\ Base <= q /\ q < at
      BY <2>1, Basics
    <2>3. ~h.used[q]
      <3>1. h.prevUsed[at] = h.used[q]
        BY <1>1, <2>1 DEF Sound, Tags
      <3> QED
        BY <1>3, <3>1
    <2>4. q + h.size[q] = at - 1
      BY <1>1, <2>1, <2>2 DEF After
    <2>5. o = h.size[q]
      <3>1. h.foot[q + h.size[q]] = h.size[q]
        BY <2>3 DEF Sound, Tags
      <3> QED
        BY <1>1, <2>4, <3>1
    <2>6. p = q
      BY <1>1, <2>2, <2>4, <2>5
    <2>7. AbsorbPrev(g, at, s) = <<k, q, t>>
      BY <1>1, <1>3, <2>2, <2>6 DEF AbsorbPrev
    <2>8. k = unlink(g, q, h.size[q])
      BY <2>5, <2>6
    <2> HIDE DEF k, o, p
    <2>9. /\ k \in Heap /\ SameBlocks(g, k)
          /\ Lists(k.bins, h.size, k.next, k.prev, Outside(F, at, e) \ {q})
      <3>1. q \in F /\ q < at
        BY <2>2, <2>3 DEF FreeOf
      <3> QED
        BY <2>8, <3>1, Loosen
    <2>10. t \in Nat /\ After(q, t) = e
      BY <1>1, <2>2, <2>4, <2>5 DEF After
    <2>11. \A c \in B : c < at => c <= q /\ c \in Nat
      <3> SUFFICES ASSUME NEW c \in B, c < at PROVE c <= q /\ c \in Nat
        OBVIOUS
      <3>1. c \in Nat
        BY Basics
      <3>2. ~(q < c)
        BY <1>1, <2>1, <3>1, Basics
      <3> QED
        BY <2>2, <3>1, <3>2
    <2>12. Outside(F, at, e) \ {q} = Outside(F, q, e)
      <3>1. \A c \in F : c \in B /\ c \in Nat
        BY Basics DEF FreeOf
      <3>2. q < e /\ e \in Nat
        BY <1>1, <2>2 DEF After
      <3>3. \A c \in F : c < at /\ c # q <=> c < q
        BY <1>1, <2>2, <2>11, <3>1
      <3>4. \A c \in F : c >= e => c # q
        BY <2>2, <3>1, <3>2
      <3> QED
        BY <3>3, <3>4 DEF Outside
    <2>13. \A c \in B : q <= c /\ c < e => c = at \/ ~h.used[c]
      <3> SUFFICES ASSUME NEW c \in B, q <= c, c < e PROVE c = at \/ ~h.used[c]
        OBVIOUS
      <3>1. c \in Nat
        BY Basics
      <3>2. CASE c < at
        <4>1. c = q
          BY <2>2, <2>11, <3>1, <3>2
        <4> QED
          BY <2>3, <4>1
      <3>3. CASE at <= c
        BY <3>3 DEF Joined
      <3> QED
        BY <1>1, <3>1, <3>2, <3>3
    <2>14. /\ After(at, s) \in B \cup {h.top} /\ After(at, h.size[at]) <= After(at, s)
           /\ g.live = h.live - h.size[at]
      BY DEF Joined
    <2>15. q <= at
      BY <1>1, <2>2
    <2>16. Lists(k.bins, h.size, k.next, k.prev, Outside(F, q, After(q, t)))
      BY <2>9, <2>10, <2>12
    <2> HIDE DEF t
    <2>17. Joined(h, B, at, k, q, t)
      BY <1>1, <2>9, <2>10, <2>13, <2>14, <2>15, <2>16 DEF Joined, SameBlocks
    <2>18. h.prevUsed[q]
      BY <2>3, BeforeFree
    <2> QED
      BY <2>7, <2>10, <2>17, <2>18
  <1> QED
    BY <1>2, <1>3

(* g is the heap h after it took the block at `at` back.                   *)
TakesBack(h, B, g, C, at) ==
  /\ Sound(g, C)
  /\ UsedOf(g, C) = UsedOf(h, B) \ {at}
  /\ g.live = h.live - h.size[at]
  /\ \A c \in UsedOf(g, C) : g.size[c] = h.size[c]

(* The blocks joined reach the tail.                                       *)
LEMMA TailTakesBack ==
  ASSUME NEW h, NEW B, Sound(h, B), NEW at \in UsedOf(h, B),
         NEW g, NEW b, NEW s, Joined(h, B, at, g, b, s),
         After(b, s) = h.top, h.prevUsed[b]
  PROVE  TakesBack(h, B, [g EXCEPT !.top = b], {c \in B : c < b}, at)
  <1> DEFINE k == [g EXCEPT !.top = b]
             C == {c \in B : c < b}
             top == h.top
  <1>1. /\ g \in Heap /\ g.live = h.live - h.size[at] /\ b \in B
        /\ g.size = h.size /\ g.used = h.used /\ g.prevUsed = h.prevUsed
        /\ g.foot = h.foot
    BY DEF Joined
  <1>2. /\ b \in Base .. Limit + 1 /\ b \in Nat /\ b < top /\ top \in Nat
        /\ top <= Limit + 1 /\ Tiles(top, h.size, B)
        /\ h.size \in [Cells -> 0 .. Limit]
    <2>1. /\ b \in Nat /\ Base <= b /\ b < top /\ top \in Nat /\ top <= Limit + 1
          /\ h.size \in [Cells -> 0 .. Limit]
      BY <1>1, Basics
    <2>2. b \in Base .. Limit + 1
      BY <2>1, HeapAssumption DEF Base
    <2>3. Tiles(top, h.size, B)
      BY DEF Sound
    <2> QED
      BY <2>1, <2>2, <2>3
  <1>3. /\ k \in Heap /\ k.top = b /\ k.live = g.live /\ k.bins = g.bins
        /\ k.size = h.size /\ k.used = h.used /\ k.prevUsed = h.prevUsed
        /\ k.foot = h.foot /\ k.next = g.next /\ k.prev = g.prev
    BY <1>1, <1>2 DEF Heap
  <1> HIDE DEF k, top
  <1>4. Tiles(b, h.size, C)
    <2> DEFINE r == h.size
    <2>1. /\ Tiles(top, r, B) /\ r \in [Cells -> 0 .. Limit]
          /\ \A c \in B : c < b => r[c] = r[c]
      BY <1>2
    <2> HIDE DEF r
    <2>2. Tiles(b, r, C)
      BY <1>1, <1>2, <2>1, CutTiles
    <2> QED
      BY <2>2 DEF r
  <1>5. ASSUME NEW c \in C
        PROVE  /\ c \in B /\ c < top
               /\ After(c, h.size[c]) < b =>
                     h.prevUsed[After(c, h.size[c])] = h.used[c]
               /\ ~h.used[c] => /\ h.foot[c + h.size[c]] = h.size[c]
                                /\ After(c, h.size[c]) < b
                                /\ h.used[After(c, h.size[c])]
    <2> DEFINE f == After(c, h.size[c])
    <2>1. c \in B /\ c < b /\ c \in Nat /\ f <= b /\ f \in Nat /\ c < top
      BY <1>1, <1>2, Basics DEF After
    <2>2. /\ f < top => h.prevUsed[f] = h.used[c]
          /\ ~h.used[c] => /\ h.foot[c + h.size[c]] = h.size[c]
                           /\ f < top /\ h.used[f]
      BY <2>1 DEF Sound, Tags, Apart, top
    <2>3. ~h.used[c] => f # b
      BY <1>2, <2>2
    <2> QED
      BY <1>2, <2>1, <2>2, <2>3
  <1>6. Tags(b, h.size, h.used, h.prevUsed, h.foot, C)
    <2>1. Base \in C => h.prevUsed[Base]
      BY DEF Sound, Tags
    <2> QED
      BY <1>5, <2>1 DEF Tags
  <1>7. Apart(b, h.size, h.used, C)
    BY <1>5 DEF Apart
  <1>8. \A c \in B : c \in Nat /\ c < top
    BY Basics DEF top
  <1>9. FreeOf(h.used, C) = Outside(FreeOf(h.used, B), b, After(b, s))
    <2>1. \A c \in B : c < b <=> c < b \/ c >= top
      BY <1>2, <1>8
    <2> QED
      BY <2>1 DEF FreeOf, Outside, top
  <1>10. Lists(k.bins, k.size, k.next, k.prev, FreeOf(h.used, C))
    BY <1>3, <1>9 DEF Joined
  <1>11. Sound(k, C)
    BY <1>3, <1>4, <1>6, <1>7, <1>10 DEF Sound
  <1>12. UsedOf(k, C) = UsedOf(h, B) \ {at}
    <2>1. \A c \in B : ~(c < b) => c = at \/ ~h.used[c]
      BY <1>2, <1>8 DEF Joined, top
    <2>2. at \in B /\ b <= at
      BY DEF Joined, UsedOf
    <2>3. ~(at < b)
      BY <1>2, <1>8, <2>2
    <2> QED
      BY <1>3, <2>1, <2>2, <2>3 DEF UsedOf
  <1> QED
    BY <1>1, <1>3, <1>11, <1>12 DEF TakesBack, k

(* The blocks joined end at one in use: they become one free block.        *)
Filed(g, b, s) ==
  link([g EXCEPT !.size[b] = s, !.used[b] = FALSE, !.foot[b + s] = s,
                 !.prevUsed[After(b, s)] = FALSE], b, s)

LEMMA ListTakesBack ==
  ASSUME NEW h, NEW B, Sound(h, B), NEW at \in UsedOf(h, B),
         NEW g, NEW b, NEW s, Joined(h, B, at, g, b, s),
         After(b, s) # h.top, h.used[After(b, s)], h.prevUsed[b]
  PROVE  TakesBack(h, B, Filed(g, b, s), {c \in B : c <= b \/ c >= After(b, s)}, at)
  <1> DEFINE e == After(b, s)
             f == b + s
             m == [g EXCEPT !.size[b] = s, !.used[b] = FALSE, !.foot[f] = s,
                            !.prevUsed[e] = FALSE]
             k == link(m, b, s)
             C == {c \in B : c <= b \/ c >= e}
             top == h.top
             F == Outside(FreeOf(h.used, B), b, e)
  <1>1. /\ g \in Heap /\ g.top = top /\ g.live = h.live - h.size[at]
        /\ g.size = h.size /\ g.used = h.used /\ g.prevUsed = h.prevUsed
        /\ g.foot = h.foot
        /\ b \in B /\ b \in Cells /\ s \in Nat /\ at \in B
    BY Basics DEF Joined, UsedOf
  <1>2. e \in B /\ e < top /\ e \in Nat /\ e \in Cells /\ b \in Nat /\ Base <= b
        /\ h.size[at] \in Nat /\ at \in Nat /\ b <= at /\ After(at, h.size[at]) <= e
    <2>1. e \in B \cup {top} /\ b <= at /\ After(at, h.size[at]) <= e
      BY DEF Joined
    <2> QED
      BY <1>1, <2>1, Basics
  <1>3. /\ f \in Cells /\ f \in Nat /\ f < e /\ s \in 0 .. Limit /\ s >= MinPayload
        /\ b < e
    <2>1. top \in Nat /\ top <= Limit + 1 /\ Limit \in Nat
      BY Basics, HeapAssumption
    <2>2. h.size[at] >= MinPayload
      BY <1>1, Basics
    <2> QED
      BY <1>1, <1>2, <2>1, <2>2 DEF After, Base, Cells, MinPayload
  <1> HIDE DEF e, f, top
  <1>4. /\ g.size \in [Cells -> 0 .. Limit]
        /\ g.used \in [Cells -> BOOLEAN] /\ g.prevUsed \in [Cells -> BOOLEAN]
        /\ g.foot \in [Cells -> 0 .. Limit]
    BY <1>1 DEF Heap
  <1>5. /\ m \in Heap /\ m.top = g.top /\ m.live = g.live /\ m.bins = g.bins
        /\ m.next = g.next /\ m.prev = g.prev
        /\ m.size = [g.size EXCEPT ![b] = s]
        /\ m.used = [g.used EXCEPT ![b] = FALSE]
        /\ m.prevUsed = [g.prevUsed EXCEPT ![e] = FALSE]
        /\ m.foot = [g.foot EXCEPT ![f] = s]
    BY <1>1, <1>2, <1>3, <1>4 DEF Heap
  <1>6. k = Filed(g, b, s)
    BY DEF Filed, e, f
  <1> HIDE DEF m
  <1>7. k \in Heap /\ SameBlocks(m, k) /\ Enlists(m, k, b, bin_for(s))
    BY <1>1, <1>5, LinkIs, BinFor
  <1> HIDE DEF k
  <1>8. /\ k.size[b] = s /\ k.used[b] = FALSE /\ k.prevUsed[e] = FALSE
        /\ k.foot[f] = s
        /\ \A c \in Cells \ {b} : k.size[c] = h.size[c] /\ k.used[c] = h.used[c]
        /\ \A c \in Cells \ {e} : k.prevUsed[c] = h.prevUsed[c]
        /\ \A c \in Cells \ {f} : k.foot[c] = h.foot[c]
    <2>1. /\ k.size = [h.size EXCEPT ![b] = s]
          /\ k.used = [h.used EXCEPT ![b] = FALSE]
          /\ k.prevUsed = [h.prevUsed EXCEPT ![e] = FALSE]
          /\ k.foot = [h.foot EXCEPT ![f] = s]
          /\ h.size \in [Cells -> 0 .. Limit]
          /\ h.used \in [Cells -> BOOLEAN] /\ h.prevUsed \in [Cells -> BOOLEAN]
          /\ h.foot \in [Cells -> 0 .. Limit]
      BY <1>1, <1>4, <1>5, <1>7 DEF SameBlocks
    <2> QED
      BY <1>1, <1>2, <1>3, <2>1
  <1>9. k.top = top /\ k.live = h.live - h.size[at]
    BY <1>1, <1>5, <1>7 DEF SameBlocks
  <1>10. Tiles(top, k.size, C)
    <2> DEFINE n == k.size
               r == h.size
    <2>1. /\ top \in Nat /\ top <= Limit + 1 /\ e \in B \cup {top}
          /\ n \in [Cells -> 0 .. Limit] /\ r \in [Cells -> 0 .. Limit]
          /\ Tiles(top, r, B) /\ After(b, n[b]) = e
          /\ \A c \in B \ {b} : n[c] = r[c]
          /\ b \in B /\ b < e
      BY <1>1, <1>2, <1>3, <1>7, <1>8, Basics DEF Heap, Sound, top, e
    <2> HIDE DEF n, r
    <2>2. Tiles(top, n, {c \in B : c <= b \/ c >= e})
      BY <2>1, MergeTiles
    <2> QED
      BY <2>2 DEF n
  <1>11. ASSUME NEW c \in C \ {b}
         PROVE  /\ c \in B /\ k.size[c] = h.size[c] /\ k.used[c] = h.used[c]
                /\ After(c, h.size[c]) < top =>
                      k.prevUsed[After(c, h.size[c])] = h.used[c]
                /\ ~h.used[c] => /\ k.foot[c + h.size[c]] = h.size[c]
                                 /\ After(c, h.size[c]) < top
                                 /\ k.used[After(c, h.size[c])]
                /\ c = Base => k.prevUsed[c]
    <2> DEFINE w == After(c, h.size[c])
    <2>1. c \in B /\ c \in Cells /\ c \in Nat /\ h.size[c] \in Nat /\ w \in Nat
          /\ w \in B \cup {top}
      BY Basics DEF top, After
    <2>2. (c < b /\ w <= b) \/ (c >= e /\ w > e)
      <3>1. c < b \/ c >= e
        BY <1>2, <2>1
      <3>2. c < b => w <= b
        BY <1>1, <2>1, Basics
      <3>3. c < w
        BY <2>1 DEF After
      <3> QED
        BY <1>2, <2>1, <3>1, <3>2, <3>3
    <2>3. w # e /\ c + h.size[c] # f
      BY <1>2, <1>3, <2>1, <2>2 DEF After, e, f
    <2>4. c + h.size[c] \in Cells
      <3>1. w <= top /\ top <= Limit + 1 /\ top \in Nat /\ Base <= c
        BY <2>1, Basics DEF top
      <3> QED
        BY <2>1, <3>1, HeapAssumption DEF After, Cells, Base
    <2>5. /\ w < top => w \in B /\ w \in Cells /\ h.prevUsed[w] = h.used[c]
          /\ ~h.used[c] => /\ h.foot[c + h.size[c]] = h.size[c]
                           /\ w < top /\ h.used[w]
      <3>1. w < top => w \in B /\ w \in Cells
        BY <2>1, Basics DEF top
      <3> QED
        BY <2>1, <3>1 DEF Sound, Tags, Apart, top
    <2>6. ~h.used[c] => w # b
      BY <2>5
    <2>7. c = Base => k.prevUsed[c]
      <3>1. c = Base => h.prevUsed[c] /\ c # e
        BY <1>2, <1>3, <2>1 DEF Sound, Tags
      <3> QED
        BY <1>8, <2>1, <3>1
    <2>8. c # b
      OBVIOUS
    <2>9. w < top => k.prevUsed[w] = h.used[c]
      BY <1>8, <2>3, <2>5
    <2>10. ~h.used[c] => k.foot[c + h.size[c]] = h.size[c] /\ w < top /\ k.used[w]
      BY <1>8, <2>3, <2>4, <2>5, <2>6
    <2> QED
      BY <1>8, <2>1, <2>7, <2>8, <2>9, <2>10
  <1>12. k.prevUsed[b]
    BY <1>1, <1>2, <1>3, <1>8
  <1>13. k.used[e]
    BY <1>2, <1>3, <1>8 DEF e
  <1>14. Tags(top, k.size, k.used, k.prevUsed, k.foot, C)
    <2>1. Base \in C => k.prevUsed[Base]
      BY <1>11, <1>12
    <2>2. /\ k.prevUsed[After(b, k.size[b])] = k.used[b]
          /\ ~k.used[b] => k.foot[b + k.size[b]] = k.size[b]
      BY <1>8 DEF e, f
    <2>3. ASSUME NEW c \in C \ {b}
          PROVE  /\ After(c, k.size[c]) < top => k.prevUsed[After(c, k.size[c])] = k.used[c]
                 /\ ~k.used[c] => k.foot[c + k.size[c]] = k.size[c]
      BY <1>11
    <2> QED
      BY <2>1, <2>2, <2>3 DEF Tags
  <1>15. Apart(top, k.size, k.used, C)
    <2>1. After(b, k.size[b]) < top /\ k.used[After(b, k.size[b])]
      BY <1>2, <1>8, <1>13 DEF e
    <2>2. ASSUME NEW c \in C \ {b}, ~k.used[c]
          PROVE  After(c, k.size[c]) < top /\ k.used[After(c, k.size[c])]
      BY <1>11, <2>2
    <2> QED
      BY <2>1, <2>2 DEF Apart
  <1>16. \A c \in B : c \in Nat /\ c \in Cells
    BY Basics
  <1>17. FreeOf(k.used, C) = F \cup {b}
    <2>1. b \in C /\ ~k.used[b]
      BY <1>1, <1>2, <1>8
    <2>2. \A c \in B : (c <= b \/ c >= e) /\ c # b <=> c < b \/ c >= e
      BY <1>1, <1>2, <1>3, <1>16
    <2>3. \A c \in C \ {b} : k.used[c] = h.used[c]
      BY <1>11
    <2> QED
      BY <2>1, <2>2, <2>3 DEF FreeOf, Outside
  <1>18. Lists(k.bins, k.size, k.next, k.prev, FreeOf(k.used, C))
    <2>1. Lists(g.bins, h.size, g.next, g.prev, F)
      BY DEF Joined, e
    <2>2. F \subseteq Cells \ {b}
      <3>1. ~(b < b) /\ ~(b >= e)
        BY <1>2, <1>3
      <3> QED
        BY <1>16, <3>1 DEF Outside, FreeOf
    <2>3. \A c \in F : m.size[c] = h.size[c] /\ m.next[c] = g.next[c] /\ m.prev[c] = g.prev[c]
      BY <1>1, <1>5, <2>2
    <2>4. m.bins \in [Bins -> Links] /\ m.bins = g.bins
      BY <1>5 DEF Heap
    <2> HIDE DEF F
    <2>5. Lists(m.bins, m.size, m.next, m.prev, F)
      BY <2>1, <2>3, <2>4, ListsFrame
    <2>6. b \in Cells \ F
      BY <1>1, <2>2
    <2>7. \A c \in F \cup {b} : bin_for(m.size[c]) \in Bins
      BY BinFor
    <2>8. Enlists(m, k, b, bin_for(m.size[b]))
      BY <1>1, <1>4, <1>5, <1>7
    <2>9. Lists(k.bins, k.size, k.next, k.prev, F \cup {b})
      BY <1>5, <1>7, <2>5, <2>6, <2>7, <2>8, Listed
    <2> QED
      BY <1>17, <2>9
  <1>19. Sound(k, C)
    BY <1>7, <1>9, <1>10, <1>14, <1>15, <1>18 DEF Sound
  <1>20. UsedOf(k, C) = UsedOf(h, B) \ {at}
    <2>1. \A c \in B : b <= c /\ c < e => c = at \/ ~h.used[c]
      BY DEF Joined, e
    <2>2. b = at \/ ~h.used[b]
      BY <1>1, <1>2, <1>3, <2>1
    <2>3. at < e
      BY <1>2 DEF After
    <2>4. at = b \/ at \notin C
      BY <1>1, <1>2, <2>3
    <2>5. \A c \in B \ C : c = at \/ ~h.used[c]
      <3> SUFFICES ASSUME NEW c \in B, ~(c <= b), ~(c >= e)
                   PROVE  c = at \/ ~h.used[c]
        OBVIOUS
      <3>1. c \in Nat
        BY <1>16
      <3>2. b <= c /\ c < e
        BY <1>2, <3>1
      <3> QED
        BY <2>1, <3>2
    <2> QED
      BY <1>8, <1>11, <2>2, <2>4, <2>5 DEF UsedOf
  <1>21. \A c \in UsedOf(k, C) : k.size[c] = h.size[c]
    BY <1>8, <1>11 DEF UsedOf
  <1>22. TakesBack(h, B, k, C, at)
    BY <1>9, <1>19, <1>20, <1>21 DEF TakesBack
  <1> QED
    BY <1>6, <1>22 DEF e

LEMMA ReleaseTakesBack ==
  ASSUME NEW h, NEW B, Sound(h, B), NEW at \in UsedOf(h, B)
  PROVE  \E C : TakesBack(h, B, unlocked_release(h, at), C, at)
  <1> DEFINE s == h.size[at]
             l == h.live - s
             k == [h EXCEPT !.live = l]
             x == AbsorbNext(k, at, s)
             y == AbsorbPrev(x[1], x[2], x[3])
             e == After(at, s)
  <1>1. /\ h \in Heap /\ at \in B /\ h.used[at] /\ at \in Nat /\ s \in Nat
        /\ h.live \in Int /\ e \in B \cup {h.top} /\ l \in Int
    <2>1. at \in B /\ h.used[at] /\ h \in Heap
      BY DEF UsedOf, Sound
    <2>2. at \in Nat /\ s \in Nat /\ h.live \in Int /\ e \in B \cup {h.top}
      BY <2>1, Basics
    <2> QED
      BY <2>1, <2>2
  <1>2. k = [h EXCEPT !.live = @ - h.size[at]]
    OBVIOUS
  <1> HIDE DEF l
  <1>3. /\ k \in Heap /\ k.top = h.top /\ k.live = l /\ k.bins = h.bins
        /\ k.size = h.size /\ k.used = h.used /\ k.prevUsed = h.prevUsed
        /\ k.foot = h.foot /\ k.next = h.next /\ k.prev = h.prev
    BY <1>1 DEF Heap
  <1> HIDE DEF k
  <1>4. Joined(h, B, at, k, at, s)
    <2>1. \A c \in B : at <= c /\ c < e => c = at
      <3> SUFFICES ASSUME NEW c \in B, at <= c, c < e PROVE c = at
        OBVIOUS
      <3>1. c \in Nat /\ e \in Nat
        BY <1>1, Basics DEF After
      <3>2. ~(at < c)
        BY <1>1, <3>1, Basics
      <3> QED
        BY <1>1, <3>1, <3>2
    <2>2. FreeOf(h.used, B) = Outside(FreeOf(h.used, B), at, e)
      <3>1. \A c \in B : c \in Nat /\ (c < at \/ c = at \/ c >= e)
        BY <1>1, <2>1, Basics
      <3> QED
        BY <1>1, <3>1 DEF FreeOf, Outside
    <2>3. Lists(h.bins, h.size, h.next, h.prev, FreeOf(h.used, B))
      BY DEF Sound
    <2>4. at <= at /\ e <= e
      BY <1>1 DEF After
    <2>5. Lists(k.bins, h.size, k.next, k.prev, Outside(FreeOf(h.used, B), at, e))
      BY <1>3, <2>2, <2>3
    <2> QED
      BY <1>1, <1>3, <2>1, <2>4, <2>5 DEF Joined, l
  <1>5. /\ x[2] = at /\ Joined(h, B, at, x[1], at, x[3])
        /\ After(at, x[3]) = h.top \/ h.used[After(at, x[3])]
    BY <1>4, AbsorbNextJoins
  <1> HIDE DEF x
  <1> DEFINE g == y[1]
             b == y[2]
             t == y[3]
  <1>6. /\ Joined(h, B, at, g, b, t) /\ After(b, t) = After(at, x[3])
        /\ h.prevUsed[b]
    <2>1. y = AbsorbPrev(x[1], at, x[3])
      BY <1>5
    <2> HIDE DEF y
    <2> QED
      BY <1>5, <2>1, AbsorbPrevJoins
  <1>7. g.top = h.top
    BY <1>6 DEF Joined
  <1>8. unlocked_release(h, at) = IF After(b, t) = g.top THEN [g EXCEPT !.top = b]
                                                         ELSE Filed(g, b, t)
    BY <1>2 DEF unlocked_release, Filed, x
  <1> HIDE DEF g, b, t
  <1>9. CASE After(b, t) = h.top
    <2> DEFINE r == [g EXCEPT !.top = b]
               C == {c \in B : c < b}
    <2>1. TakesBack(h, B, r, C, at)
      BY <1>6, <1>9, TailTakesBack
    <2>2. unlocked_release(h, at) = r
      BY <1>7, <1>8, <1>9
    <2> HIDE DEF r, C
    <2> QED
      BY <2>1, <2>2
  <1>10. CASE After(b, t) # h.top
    <2> DEFINE r == Filed(g, b, t)
               C == {c \in B : c <= b \/ c >= After(b, t)}
    <2>1. h.used[After(b, t)]
      BY <1>5, <1>6, <1>10
    <2>2. TakesBack(h, B, r, C, at)
      BY <1>6, <1>10, <2>1, ListTakesBack
    <2>3. unlocked_release(h, at) = r
      BY <1>7, <1>8, <1>10
    <2> HIDE DEF r, C
    <2> QED
      BY <2>2, <2>3
  <1> QED
    BY <1>9, <1>10

-----------------------------------------------------------------------------
(* The cells of the blocks of U, and how many they are.                    *)
Held(size, U) == UNION {Payload(a, size[a]) : a \in U}

LEMMA PayloadCells ==
  ASSUME NEW h, NEW B, Sound(h, B), NEW at \in B
  PROVE  /\ Payload(at, h.size[at]) \subseteq Cells
         /\ IsFiniteSet(Payload(at, h.size[at]))
         /\ Cardinality(Payload(at, h.size[at])) = h.size[at]
         /\ \A c \in B \ {at} :
              Payload(at, h.size[at]) \cap Payload(c, h.size[c]) = {}
  <1> DEFINE s == h.size[at]
  <1>1. /\ at \in Nat /\ s \in Nat /\ Base <= at /\ After(at, s) <= h.top
        /\ h.top \in Nat /\ h.top <= Limit + 1 /\ Limit \in Nat
    BY Basics, HeapAssumption
  <1>2. Payload(at, s) \subseteq Cells
    BY <1>1 DEF Payload, Cells, After, Base
  <1>3. IsFiniteSet(Payload(at, s)) /\ Cardinality(Payload(at, s)) = s
    <2>1. at + 1 \in Int /\ at + s \in Int
      BY <1>1
    <2> DEFINE i == at + 1
               j == at + s
    <2>2. i \in Int /\ j \in Int /\ (IF i > j THEN 0 ELSE j - i + 1) = s
      BY <1>1
    <2>3. Payload(at, s) = i .. j
      BY DEF Payload
    <2> HIDE DEF i, j, s
    <2>4. IsFiniteSet(i .. j) /\ Cardinality(i .. j) = IF i > j THEN 0 ELSE j - i + 1
      BY <2>2, FS_Interval
    <2> QED
      BY <2>2, <2>3, <2>4
  <1>4. ASSUME NEW c \in B \ {at}
        PROVE  Payload(at, s) \cap Payload(c, h.size[c]) = {}
    <2>1. c \in Nat /\ h.size[c] \in Nat /\ (c < at \/ at < c)
      BY <1>1, Basics
    <2>2. /\ c < at => After(c, h.size[c]) <= at
          /\ at < c => After(at, s) <= c
      BY Basics
    <2> QED
      BY <1>1, <2>1, <2>2 DEF Payload, After
  <1> QED
    BY <1>2, <1>3, <1>4

LEMMA HeldIsFinite ==
  ASSUME NEW h, NEW B, Sound(h, B), NEW U, U \subseteq B
  PROVE  /\ IsFiniteSet(Held(h.size, U))
         /\ Cardinality(Held(h.size, U)) \in Nat
  <1>1. \A a \in U : Payload(a, h.size[a]) \subseteq Cells
    BY PayloadCells
  <1>2. Held(h.size, U) \subseteq Cells
    BY <1>1 DEF Held
  <1>3. IsFiniteSet(Cells)
    BY FS_Interval, HeapAssumption DEF Cells
  <1>4. IsFiniteSet(Held(h.size, U))
    BY <1>2, <1>3, FS_Subset
  <1> QED
    BY <1>4, FS_CardinalityType

LEMMA HeldOneMore ==
  ASSUME NEW h, NEW B, Sound(h, B), NEW U, U \subseteq B,
         NEW at \in B, at \notin U
  PROVE  Cardinality(Held(h.size, U \cup {at}))
           = Cardinality(Held(h.size, U)) + h.size[at]
  <1> DEFINE S == Held(h.size, U)
             T == Payload(at, h.size[at])
  <1>1. IsFiniteSet(S) /\ Cardinality(S) \in Nat
    BY HeldIsFinite
  <1>2. IsFiniteSet(T) /\ Cardinality(T) = h.size[at] /\ h.size[at] \in Nat
    BY PayloadCells, Basics
  <1>3. S \cap T = {}
    <2>1. \A a \in U : Payload(at, h.size[at]) \cap Payload(a, h.size[a]) = {}
      BY PayloadCells
    <2> QED
      BY <2>1 DEF Held
  <1>4. Held(h.size, U \cup {at}) = S \cup T
    BY DEF Held
  <1> HIDE DEF S, T
  <1>5. Cardinality(S \cup T) = Cardinality(S) + Cardinality(T) - Cardinality(S \cap T)
    BY <1>1, <1>2, FS_Union
  <1>6. Cardinality(S \cap T) = 0
    BY <1>3, FS_EmptySet
  <1>7. Cardinality(S \cup T) = Cardinality(S) + h.size[at]
    BY <1>1, <1>2, <1>5, <1>6
  <1> QED
    BY <1>4, <1>7 DEF S

LEMMA HeldFrame ==
  ASSUME NEW U, NEW r, NEW s, \A a \in U : r[a] = s[a]
  PROVE  Held(r, U) = Held(s, U)
  BY DEF Held

-----------------------------------------------------------------------------
(* The invariant.  The blocks report finds are sound as a heap, those in   *)
(* use are the guest's, and live() counts their cells.                     *)
BlocksInv == Sound(heap, Blocks)

OwnedInv ==
  /\ DOMAIN owned = UsedOf(heap, Blocks)
  /\ owned = [a \in DOMAIN owned |-> owned[a]]
  /\ \A a \in DOMAIN owned :
       /\ owned[a] \in {CellsFor(n) : n \in Wants}
       /\ owned[a] <= heap.size[a]
  /\ heap.live = Cardinality(GuestCells)

(* Two reallocs under way do not move the same block.                      *)
Resize == [old : Links, want : Wants \cup {0}, fresh : Links,
           step : {"idle", "alloc", "release"}]

ResizesInv ==
  /\ resizes \in [Threads -> Resize]
  /\ \A t \in Threads :
       /\ resizes[t].fresh # Null <=> resizes[t].step = "release"
       /\ resizes[t] # Idle => /\ resizes[t].old \in DOMAIN owned
                               /\ resizes[t].want \in Wants
  /\ \A t, u \in Threads :
       t # u /\ resizes[t] # Idle /\ resizes[u] # Idle
         => resizes[t].old # resizes[u].old

HeapInv == BlocksInv /\ OwnedInv /\ ResizesInv

LEMMA InvariantIsEnough == HeapInv => HeapIsSound
  <1> SUFFICES ASSUME HeapInv PROVE HeapIsSound
    OBVIOUS
  <1> DEFINE h == heap
             B == Blocks
  <1>1. Sound(h, B)
    BY DEF HeapInv, BlocksInv
  <1>2. InUse = UsedOf(h, B) /\ IsFree = FreeOf(h.used, B)
    BY DEF InUse, IsFree, UsedOf, FreeOf
  <1>3. GuestCells = Held(h.size, DOMAIN owned)
    BY DEF GuestCells, Held
  <1> HIDE DEF h, B
  <1>4. DOMAIN owned = UsedOf(h, B) /\ h.live = Cardinality(GuestCells)
    BY DEF HeapInv, OwnedInv, h, B
  <1>5. TypeOK
    <2>1. h.live \in Nat
      <3>1. UsedOf(h, B) \subseteq B
        BY DEF UsedOf
      <3> QED
        BY <1>1, <1>3, <1>4, <3>1, HeldIsFinite
    <2>2. DOMAIN owned \subseteq Cells
      BY <1>1, <1>4, Basics DEF UsedOf
    <2>3. \A t \in Threads :
            /\ resizes[t] = Idle \/ resizes[t].old \in DOMAIN owned
            /\ resizes[t].fresh # Null <=> resizes[t].step = "release"
      BY DEF HeapInv, ResizesInv
    <2>4. h.top \in Base .. Limit + 1
      BY <1>1 DEF Sound, Heap
    <2>5. /\ h.bins \in [0 .. NumBins - 1 -> Cells \cup {Null}]
          /\ h.next \in [Cells -> Cells \cup {Null}]
          /\ h.prev \in [Cells -> Cells \cup {Null}]
      BY <1>1, Basics DEF Bins, Links
    <2>6. /\ h.size \in [Cells -> 0 .. Limit] /\ h.foot \in [Cells -> 0 .. Limit]
          /\ h.used \in [Cells -> BOOLEAN] /\ h.prevUsed \in [Cells -> BOOLEAN]
      BY <1>1, Basics
    <2> QED
      BY <2>1, <2>2, <2>3, <2>4, <2>5, <2>6 DEF TypeOK, h
  <1>6. TagsTellTruth
    <2>1. h.top = Base \/ \E at \in B : After(at, h.size[at]) = h.top
      <3>1. Tiles(h.top, h.size, B)
        BY <1>1 DEF Sound
      <3> QED
        BY <3>1 DEF Tiles
    <2>2. Tags(h.top, h.size, h.used, h.prevUsed, h.foot, B)
      BY <1>1 DEF Sound
    <2> QED
      BY <2>1, <2>2 DEF TagsTellTruth, Tags, h, B
  <1>7. NoFreeNeighbours
    <2>1. Apart(h.top, h.size, h.used, B)
      BY <1>1 DEF Sound
    <2> QED
      BY <1>2, <2>1 DEF NoFreeNeighbours, Apart, FreeOf, h
  <1>8. ListsHoldTheFree
    <2> DEFINE F == FreeOf(h.used, B)
    <2>1. Lists(h.bins, h.size, h.next, h.prev, F)
      BY <1>1 DEF Sound
    <2>2. IsFree = F
      BY <1>2
    <2> HIDE DEF F
    <2> QED
      BY <2>1, <2>2 DEF ListsHoldTheFree, Lists, Bins, h
  <1>9. LiveIsWhatTheGuestHolds
    BY <1>2, <1>4 DEF LiveIsWhatTheGuestHolds, h
  <1> QED
    BY <1>5, <1>6, <1>7, <1>8, <1>9 DEF HeapIsSound

-----------------------------------------------------------------------------
(* The steps.                                                              *)
BlocksNext ==
  \A B : heap' \in Heap /\ Tiles(heap'.top, heap'.size, B) => Blocks' = B

LEMMA NextBlocksAre == BlocksNext
  <1>1. (\A B : heap \in Heap /\ Tiles(heap.top, heap.size, B) => Blocks = B)'
    BY BlocksAre, PTL
  <1> QED
    BY <1>1 DEF BlocksNext

(* A sound heap comes with the invariant's first part.                     *)
LEMMA SoundNext ==
  ASSUME NEW C, Sound(heap', C)
  PROVE  Blocks' = C /\ BlocksInv'
  <1>1. Blocks' = C
    BY NextBlocksAre DEF BlocksNext, Sound
  <1>2. BlocksInv'
    BY <1>1 DEF BlocksInv
  <1> QED
    BY <1>1, <1>2

LEMMA InitInv == Init => HeapInv
  <1> SUFFICES ASSUME Init PROVE HeapInv
    OBVIOUS
  <1>1. /\ heap \in Heap /\ heap.top = Base /\ heap.live = 0
        /\ \A b \in Bins : heap.bins[b] = Null
    BY HeapAssumption DEF Init, Empty, Heap, Bins, Links, Base, Null
  <1>2. Tiles(heap.top, heap.size, {})
    BY <1>1 DEF Tiles
  <1>3. Blocks = {}
    BY <1>1, <1>2, BlocksAre
  <1>4. BlocksInv
    <2>1. Tags(heap.top, heap.size, heap.used, heap.prevUsed, heap.foot, {})
      BY DEF Tags
    <2>2. Apart(heap.top, heap.size, heap.used, {})
      BY DEF Apart
    <2>3. FreeOf(heap.used, {}) = {}
      BY DEF FreeOf
    <2>4. Lists(heap.bins, heap.size, heap.next, heap.prev, {})
      BY <1>1 DEF Lists
    <2> QED
      BY <1>1, <1>2, <1>3, <2>1, <2>2, <2>3, <2>4 DEF BlocksInv, Sound
  <1>5. OwnedInv
    <2>1. DOMAIN owned = {} /\ owned = [a \in DOMAIN owned |-> owned[a]]
      BY DEF Init
    <2>2. GuestCells = {}
      BY <2>1 DEF GuestCells
    <2>3. Cardinality(GuestCells) = 0
      BY <2>2, FS_EmptySet
    <2>4. UsedOf(heap, Blocks) = {}
      BY <1>3 DEF UsedOf
    <2> QED
      BY <1>1, <2>1, <2>3, <2>4 DEF OwnedInv
  <1>6. ResizesInv
    <2>1. Idle \in Resize /\ Idle.fresh = Null /\ Idle.step # "release"
      BY DEF Idle, Resize, Links
    <2> QED
      BY <2>1 DEF Init, ResizesInv
  <1> QED
    BY <1>4, <1>5, <1>6 DEF HeapInv

(* What the guest has, as the allocator knows it.                          *)
GuestLive ==
  {[at |-> a + 1, len |-> heap.size[a], want |-> owned[a]] : a \in DOMAIN owned}

AllocatorStep == Allocator!Next \/ GuestLive' = GuestLive

LEMMA CellsMany == IsFiniteSet(Cells) /\ Cardinality(Cells) = Limit
  <1> DEFINE i == 1
             j == Limit
  <1>1. i \in Int /\ j \in Int /\ (IF i > j THEN 0 ELSE j - i + 1) = j
    BY HeapAssumption
  <1> HIDE DEF i, j
  <1>2. IsFiniteSet(i .. j) /\ Cardinality(i .. j) = IF i > j THEN 0 ELSE j - i + 1
    BY <1>1, FS_Interval
  <1>3. IsFiniteSet(i .. j) /\ Cardinality(i .. j) = j
    BY <1>1, <1>2
  <1> QED
    BY <1>3 DEF Cells, i, j

(* A block more is the guest's: sound, counted, and the allocator's Alloc. *)
LEMMA GivenStep ==
  ASSUME BlocksInv, OwnedInv, NEW n \in Wants, NEW at, at # Null, NEW C,
         Gives(heap, Blocks, heap', C, at), heap'.size[at] >= CellsFor(n),
         Given(at, CellsFor(n))
  PROVE  /\ BlocksInv' /\ OwnedInv' /\ DOMAIN owned' = DOMAIN owned \cup {at}
         /\ Allocator!Next
  <1> DEFINE h == heap
             g == heap'
             B == Blocks
             D == DOMAIN owned
             w == CellsFor(n)
             s == g.size
  <1>1. /\ Sound(h, B) /\ Sound(g, C) /\ at \notin UsedOf(h, B)
        /\ UsedOf(g, C) = UsedOf(h, B) \cup {at}
        /\ g.live = h.live + s[at]
        /\ \A c \in UsedOf(h, B) : s[c] = h.size[c]
    BY DEF Gives, BlocksInv
  <1>2. D = UsedOf(h, B) /\ h.live = Cardinality(Held(h.size, D))
    BY DEF OwnedInv, GuestCells, Held
  <1>3. BlocksInv' /\ Blocks' = C
    BY <1>1, SoundNext
  <1>4. owned' = [b \in D \cup {at} |-> IF b = at THEN w ELSE owned[b]]
    BY DEF Given
  <1>5. DOMAIN owned' = D \cup {at} /\ \A a \in D : a # at
    BY <1>1, <1>2, <1>4
  <1>6. /\ at \in C /\ D \subseteq C /\ at \notin D /\ s[at] \in Nat /\ at \in Nat
        /\ C \subseteq Cells
    BY <1>1, <1>2, Basics DEF UsedOf
  <1>7. owned'[at] = w /\ \A a \in D : owned'[a] = owned[a] /\ s[a] = h.size[a]
    BY <1>1, <1>2, <1>4, <1>5
  <1> HIDE DEF h, g, B, D, w, s
  <1>8. g.live = Cardinality(Held(s, D \cup {at}))
    <2>0. Sound(g, C) /\ D \subseteq C /\ at \in C /\ at \notin D
      BY <1>1, <1>6
    <2>1. Cardinality(Held(g.size, D \cup {at}))
            = Cardinality(Held(g.size, D)) + g.size[at]
      BY <2>0, HeldOneMore
    <2>2. Held(s, D) = Held(h.size, D)
      BY <1>7, HeldFrame
    <2> QED
      BY <1>1, <1>2, <2>1, <2>2 DEF s
  <1>9. OwnedInv'
    <2>1. GuestCells' = Held(s, D \cup {at})
      BY <1>5 DEF GuestCells, Held, s, g
    <2>2. heap'.live = Cardinality(GuestCells')
      BY <1>8, <2>1 DEF g
    <2>3. DOMAIN owned' = UsedOf(heap', Blocks')
      BY <1>1, <1>2, <1>3, <1>5 DEF g
    <2>4. owned' = [a \in DOMAIN owned' |-> owned'[a]]
      BY <1>4
    <2>5. \A a \in DOMAIN owned' :
            owned'[a] \in {CellsFor(m) : m \in Wants} /\ owned'[a] <= heap'.size[a]
      <3>1. /\ owned'[at] \in {CellsFor(m) : m \in Wants}
            /\ owned'[at] <= s[at]
        BY <1>6, <1>7, CellsForIs, HeapAssumption DEF w, s, g
      <3>2. ASSUME NEW a \in D
            PROVE  /\ owned'[a] \in {CellsFor(m) : m \in Wants}
                   /\ owned'[a] <= s[a]
        BY <1>7 DEF OwnedInv, D, h
      <3> QED
        BY <1>5, <3>1, <3>2 DEF s, g
    <2> QED
      BY <2>2, <2>3, <2>4, <2>5 DEF OwnedInv
  <1>10. Allocator!Next
    <2> DEFINE b == [at |-> at + 1, len |-> s[at], want |-> w]
    <2>1. w \in Nat /\ w <= s[at] /\ w >= MinPayload
      BY <1>6, CellsForIs, HeapAssumption DEF w, s, g
    <2>2. Payload(at, s[at]) \subseteq Cells /\ After(at, s[at]) <= g.top
      BY <1>1, <1>6, PayloadCells, Basics DEF s
    <2>3. at + 1 \in Cells /\ s[at] \in w .. Cardinality(Cells)
      <3>1. g.top \in Nat /\ g.top <= Limit + 1 /\ Base <= at
        BY <1>1, <1>6, Basics
      <3> QED
        BY <1>6, <2>1, <2>2, <3>1, CellsMany, HeapAssumption
           DEF After, Cells, Base, MinPayload
    <2>4. Allocator!Extent(b) \subseteq Cells
      <3>1. Allocator!Extent(b) = Payload(at, s[at])
        BY <1>6 DEF Allocator!Extent, Payload
      <3> QED
        BY <2>2, <3>1
    <2>5. \A c \in GuestLive : Allocator!Extent(b) \cap Allocator!Extent(c) = {}
      <3> SUFFICES ASSUME NEW a \in D
                   PROVE  LET c == [at |-> a + 1, len |-> h.size[a], want |-> owned[a]]
                          IN  Allocator!Extent(b) \cap Allocator!Extent(c) = {}
        BY DEF GuestLive, D, h
      <3> DEFINE c == [at |-> a + 1, len |-> h.size[a], want |-> owned[a]]
      <3>1. a \in C \ {at} /\ a \in Nat /\ s[a] \in Nat /\ h.size[a] = s[a]
        BY <1>1, <1>5, <1>6, <1>7, Basics DEF s
      <3>2. Payload(at, s[at]) \cap Payload(a, s[a]) = {}
        BY <1>1, <1>6, <3>1, PayloadCells DEF s
      <3>3. Allocator!Extent(b) = Payload(at, s[at])
        BY <1>6 DEF Allocator!Extent, Payload
      <3>4. Allocator!Extent(c) = Payload(a, s[a])
        BY <3>1 DEF Allocator!Extent, Payload
      <3> QED
        BY <3>2, <3>3, <3>4
    <2>6. GuestLive' = GuestLive \cup {b}
      <3> DEFINE R(a) == [at |-> a + 1, len |-> heap.size[a], want |-> owned[a]]
                 Q(a) == [at |-> a + 1, len |-> s[a], want |-> owned'[a]]
      <3>1. GuestLive' = {Q(a) : a \in D \cup {at}}
        BY <1>5 DEF GuestLive, s, g
      <3>2. \A a \in D : Q(a) = R(a)
        BY <1>7 DEF h
      <3>3. Q(at) = b
        BY <1>7
      <3>4. GuestLive = {R(a) : a \in D}
        BY DEF GuestLive, D
      <3> HIDE DEF Q, R, b
      <3> QED
        BY <3>1, <3>2, <3>3, <3>4
    <2> HIDE DEF b
    <2>0. Allocator!Cardinality(Cells) = Cardinality(Cells)
      BY DEF Allocator!Cardinality, Cardinality
    <2>7. Allocator!Alloc(w)
      <3> DEFINE first == at + 1
                 len   == s[at]
      <3>1. b = [at |-> first, len |-> len, want |-> w]
        BY DEF b
      <3>2. first \in Cells /\ len \in w .. Allocator!Cardinality(Cells)
        BY <2>0, <2>3
      <3> HIDE DEF first, len
      <3> QED
        BY <2>4, <2>5, <2>6, <3>1, <3>2 DEF Allocator!Alloc, GuestLive
    <2> QED
      BY <2>7 DEF Allocator!Next, w
  <1> QED
    BY <1>3, <1>5, <1>9, <1>10 DEF D

(* A block less is the guest's: sound, counted, and the allocator's Free.  *)
LEMMA GivenBackStep ==
  ASSUME BlocksInv, OwnedInv, NEW at \in DOMAIN owned, NEW C,
         TakesBack(heap, Blocks, heap', C, at), GivenBack(at)
  PROVE  /\ BlocksInv' /\ OwnedInv' /\ DOMAIN owned' = DOMAIN owned \ {at}
         /\ Allocator!Next
  <1> DEFINE h == heap
             g == heap'
             B == Blocks
             D == DOMAIN owned
             E == D \ {at}
             s == g.size
             r == h.size
  <1>1. /\ Sound(h, B) /\ Sound(g, C)
        /\ UsedOf(g, C) = UsedOf(h, B) \ {at}
        /\ g.live = h.live - r[at]
        /\ \A c \in UsedOf(g, C) : s[c] = r[c]
    BY DEF TakesBack, BlocksInv
  <1>2. D = UsedOf(h, B) /\ h.live = Cardinality(Held(r, D))
    BY DEF OwnedInv, GuestCells, Held
  <1>3. BlocksInv' /\ Blocks' = C
    BY <1>1, SoundNext
  <1>4. owned' = [a \in E |-> owned[a]]
    BY DEF GivenBack, Restrict
  <1>5. DOMAIN owned' = E /\ \A a \in E : owned'[a] = owned[a] /\ s[a] = r[a]
    BY <1>1, <1>2, <1>4
  <1>6. at \in B /\ E \subseteq B /\ at \notin E /\ E \cup {at} = D
    BY <1>2 DEF UsedOf
  <1> HIDE DEF h, g, B, D, E, s, r
  <1>7. g.live = Cardinality(Held(s, E))
    <2>1. Cardinality(Held(h.size, E \cup {at}))
            = Cardinality(Held(h.size, E)) + h.size[at]
      <3>1. Sound(h, B) /\ E \subseteq B /\ at \in B /\ at \notin E
        BY <1>1, <1>6
      <3> QED
        BY ONLY <3>1, HeldOneMore
    <2>2. Held(s, E) = Held(r, E)
      BY <1>5, HeldFrame
    <2>3. Cardinality(Held(h.size, E)) \in Nat /\ h.size[at] \in Nat
      BY <1>1, <1>6, HeldIsFinite, Basics
    <2>4. g.live = Cardinality(Held(r, E \cup {at})) - r[at]
      BY <1>1, <1>2, <1>6
    <2> QED
      BY <2>1, <2>2, <2>3, <2>4 DEF r
  <1>8. OwnedInv'
    <2>1. GuestCells' = Held(s, E)
      BY <1>5 DEF GuestCells, Held, s, g
    <2>2. heap'.live = Cardinality(GuestCells')
      BY <1>7, <2>1 DEF g
    <2>3. DOMAIN owned' = UsedOf(heap', Blocks')
      BY <1>1, <1>2, <1>3, <1>5 DEF g, E
    <2>4. owned' = [a \in DOMAIN owned' |-> owned'[a]]
      BY <1>4
    <2>5. ASSUME NEW a \in E
          PROVE  /\ owned'[a] \in {CellsFor(m) : m \in Wants}
                 /\ owned'[a] <= s[a]
      BY <1>5 DEF OwnedInv, D, E, h, r
    <2>6. \A a \in DOMAIN owned' :
            owned'[a] \in {CellsFor(m) : m \in Wants} /\ owned'[a] <= heap'.size[a]
      BY <1>5, <2>5 DEF s, g
    <2> QED
      BY <2>2, <2>3, <2>4, <2>6 DEF OwnedInv
  <1>9. Allocator!Next
    <2> DEFINE R(a) == [at |-> a + 1, len |-> heap.size[a], want |-> owned[a]]
               Q(a) == [at |-> a + 1, len |-> s[a], want |-> owned'[a]]
    <2>1. GuestLive' = {Q(a) : a \in E} /\ GuestLive = {R(a) : a \in D}
      BY <1>5 DEF GuestLive, s, g, D
    <2>2. \A a \in E : Q(a) = R(a)
      BY <1>5 DEF r, h
    <2>3. \A a \in E : R(a) # R(at)
      <3> SUFFICES ASSUME NEW a \in E PROVE a + 1 # at + 1
        OBVIOUS
      <3>1. a \in Nat /\ at \in Nat /\ a # at
        BY <1>1, <1>6, Basics
      <3> QED
        BY <3>1
    <2> HIDE DEF R, Q
    <2>4. R(at) \in GuestLive /\ GuestLive' = GuestLive \ {R(at)}
      BY <1>6, <2>1, <2>2, <2>3
    <2>5. \E b \in GuestLive : GuestLive' = GuestLive \ {b}
      BY <2>4
    <2>6. Allocator!Free
      BY <2>5 DEF Allocator!Free, GuestLive
    <2> QED
      BY <2>6 DEF Allocator!Next
  <1> QED
    BY <1>3, <1>5, <1>8, <1>9 DEF D, E

(* An allocation, wherever it comes from.                                  *)
LEMMA AllocStep ==
  ASSUME BlocksInv, OwnedInv, NEW n \in Wants, NEW h, NEW at,
         <<h, at>> = unlocked_alloc(heap, CellsFor(n)),
         heap' = h, Given(at, CellsFor(n))
  PROVE  /\ BlocksInv' /\ OwnedInv' /\ AllocatorStep
         /\ DOMAIN owned \subseteq DOMAIN owned'
         /\ at # Null => at \in DOMAIN owned' /\ at \in Cells
  <1> DEFINE w == CellsFor(n)
             x == unlocked_alloc(heap, w)
  <1>1. Sound(heap, Blocks) /\ w \in Nat /\ w >= MinPayload
    BY CellsForIs, HeapAssumption DEF BlocksInv
  <1> HIDE DEF w
  <1>2. Allocates(heap, Blocks, x, w)
    BY <1>1, AllocGives
  <1>3. x = <<h, at>> /\ x[1] = h /\ x[2] = at
    <2>1. <<h, at>> = x
      BY DEF w
    <2> QED
      BY <2>1
  <1> HIDE DEF x
  <1>4. CASE at = Null
    <2>1. heap' = heap
      BY <1>2, <1>3, <1>4 DEF Allocates
    <2>2. owned' = owned
      BY <1>4 DEF Given
    <2>3. Blocks' = Blocks
      BY <1>1, <2>1, NextBlocksAre DEF BlocksNext, Sound
    <2>4. BlocksInv'
      BY <2>1, <2>3 DEF BlocksInv
    <2>5. OwnedInv'
      BY <2>1, <2>2, <2>3 DEF OwnedInv, GuestCells
    <2>6. GuestLive' = GuestLive
      BY <2>1, <2>2 DEF GuestLive
    <2> QED
      BY <1>4, <2>2, <2>4, <2>5, <2>6 DEF AllocatorStep
  <1>5. CASE at # Null
    <2>1. PICK C : Gives(heap, Blocks, h, C, at) /\ h.size[at] >= w
      <3>1. x # <<heap, Null>>
        BY <1>3, <1>5
      <3> QED
        BY <1>2, <1>3, <3>1 DEF Allocates
    <2>2. /\ BlocksInv' /\ OwnedInv' /\ DOMAIN owned' = DOMAIN owned \cup {at}
          /\ Allocator!Next
      BY <1>5, <2>1, GivenStep DEF w
    <2>3. at \in Cells
      <3>1. Sound(h, C) /\ at \in UsedOf(h, C)
        BY <2>1 DEF Gives
      <3> QED
        BY <3>1, Basics DEF UsedOf
    <2> QED
      BY <2>2, <2>3 DEF AllocatorStep
  <1> QED
    BY <1>4, <1>5

(* A release, wherever it comes from.                                      *)
LEMMA ReleaseStep ==
  ASSUME BlocksInv, OwnedInv, NEW at \in DOMAIN owned,
         heap' = unlocked_release(heap, at), GivenBack(at)
  PROVE  /\ BlocksInv' /\ OwnedInv' /\ AllocatorStep
         /\ DOMAIN owned' = DOMAIN owned \ {at}
  <1>1. at \in UsedOf(heap, Blocks) /\ Sound(heap, Blocks)
    BY DEF OwnedInv, BlocksInv
  <1>2. PICK C : TakesBack(heap, Blocks, heap', C, at)
    BY <1>1, ReleaseTakesBack
  <1>3. /\ BlocksInv' /\ OwnedInv' /\ DOMAIN owned' = DOMAIN owned \ {at}
        /\ Allocator!Next
    BY <1>2, GivenBackStep
  <1> QED
    BY <1>3 DEF AllocatorStep

LEMMA AllocPair ==
  ASSUME NEW h, NEW want
  PROVE  \E g, at : <<g, at>> = unlocked_alloc(h, want)
  <1>1. CASE Fits(h, want) # {}
    BY <1>1 DEF unlocked_alloc
  <1>2. CASE ~(Fits(h, want) # {}) /\ h.top + 1 + want > Limit + 1
    BY <1>2 DEF unlocked_alloc
  <1>3. CASE ~(Fits(h, want) # {}) /\ ~(h.top + 1 + want > Limit + 1)
    BY <1>3 DEF unlocked_alloc
  <1> QED
    BY <1>1, <1>2, <1>3

LEMMA MallocStep ==
  ASSUME HeapInv, NEW n \in Wants, Malloc(n)
  PROVE  HeapInv' /\ AllocatorStep
  <1>1. PICK h, at : <<h, at>> = unlocked_alloc(heap, CellsFor(n))
    BY AllocPair
  <1>2. heap' = h /\ Given(at, CellsFor(n)) /\ resizes' = resizes
    BY <1>1 DEF Malloc
  <1>3. BlocksInv' /\ OwnedInv' /\ AllocatorStep /\ DOMAIN owned \subseteq DOMAIN owned'
    BY <1>1, <1>2, AllocStep DEF HeapInv
  <1>4. ResizesInv'
    BY <1>2, <1>3 DEF HeapInv, ResizesInv
  <1> QED
    BY <1>3, <1>4 DEF HeapInv

LEMMA FreeStep ==
  ASSUME HeapInv, NEW at \in Cells, Release(at)
  PROVE  HeapInv' /\ AllocatorStep
  <1>1. /\ at \in DOMAIN owned /\ at \notin Moving /\ resizes' = resizes
        /\ heap' = unlocked_release(heap, at) /\ GivenBack(at)
    BY DEF Release
  <1>2. BlocksInv' /\ OwnedInv' /\ AllocatorStep /\ DOMAIN owned' = DOMAIN owned \ {at}
    BY <1>1, ReleaseStep DEF HeapInv
  <1>3. \A t \in Threads : resizes[t].old # at
    BY <1>1 DEF Moving
  <1>4. ResizesInv'
    BY <1>1, <1>2, <1>3 DEF HeapInv, ResizesInv
  <1> QED
    BY <1>2, <1>4 DEF HeapInv

LEMMA ResizeLookStep ==
  ASSUME HeapInv, NEW t \in Threads, NEW at \in Cells, NEW n \in Wants,
         ResizeLook(t, at, n)
  PROVE  HeapInv' /\ AllocatorStep
  <1> DEFINE r == [old |-> at, want |-> n, fresh |-> Null, step |-> "alloc"]
  <1>1. /\ at \in DOMAIN owned /\ at \notin Moving /\ heap' = heap /\ owned' = owned
        /\ resizes' = [resizes EXCEPT ![t] = r]
    BY DEF ResizeLook
  <1>2. Blocks' = Blocks
    <2>1. Sound(heap, Blocks)
      BY DEF HeapInv, BlocksInv
    <2> QED
      BY <1>1, <2>1, NextBlocksAre DEF BlocksNext, Sound
  <1>3. BlocksInv' /\ OwnedInv'
    BY <1>1, <1>2 DEF HeapInv, BlocksInv, OwnedInv, GuestCells
  <1>4. GuestLive' = GuestLive
    BY <1>1 DEF GuestLive
  <1>5. \A u \in Threads : resizes[u].old # at
    BY <1>1 DEF Moving
  <1>6. r \in Resize /\ r.fresh = Null /\ r.step = "alloc" /\ r.old = at /\ r.want = n
    BY DEF Resize, Links
  <1> HIDE DEF r
  <1>7. /\ resizes \in [Threads -> Resize] /\ resizes' \in [Threads -> Resize]
        /\ resizes'[t] = r /\ \A u \in Threads \ {t} : resizes'[u] = resizes[u]
    BY <1>1, <1>6 DEF HeapInv, ResizesInv
  <1>8. ResizesInv'
    <2>1. \A u \in Threads :
            /\ resizes'[u].fresh # Null <=> resizes'[u].step = "release"
            /\ resizes'[u] # Idle => /\ resizes'[u].old \in DOMAIN owned'
                                     /\ resizes'[u].want \in Wants
      BY <1>1, <1>6, <1>7 DEF HeapInv, ResizesInv
    <2>2. \A u, v \in Threads :
            u # v /\ resizes'[u] # Idle /\ resizes'[v] # Idle
              => resizes'[u].old # resizes'[v].old
      BY <1>5, <1>6, <1>7 DEF HeapInv, ResizesInv
    <2> QED
      BY <1>7, <2>1, <2>2 DEF ResizesInv
  <1> QED
    BY <1>3, <1>4, <1>8 DEF HeapInv, AllocatorStep

LEMMA ResizeAllocStep ==
  ASSUME HeapInv, NEW t \in Threads, ResizeAlloc(t)
  PROVE  HeapInv' /\ AllocatorStep
  <1> DEFINE n == resizes[t].want
  <1>1. /\ resizes[t].step = "alloc" /\ resizes[t] # Idle /\ n \in Wants
        /\ resizes[t].old \in DOMAIN owned /\ resizes[t] \in Resize
        /\ resizes \in [Threads -> Resize]
    BY DEF ResizeAlloc, HeapInv, ResizesInv, Idle
  <1>2. PICK h, at : <<h, at>> = unlocked_alloc(heap, CellsFor(n))
    BY AllocPair
  <1> DEFINE r == IF at = Null THEN Idle
                  ELSE [resizes[t] EXCEPT !.fresh = at, !.step = "release"]
  <1>3. heap' = h /\ Given(at, CellsFor(n)) /\ resizes' = [resizes EXCEPT ![t] = r]
    <2> DEFINE x == unlocked_alloc(heap, CellsFor(n))
    <2>1. x[1] = h /\ x[2] = at
      <3> HIDE DEF x
      <3>1. x = <<h, at>>
        BY <1>2 DEF x
      <3> QED
        BY <3>1
    <2>2. /\ heap' = x[1] /\ Given(x[2], CellsFor(n))
          /\ resizes' = [resizes EXCEPT ![t] =
               IF x[2] = Null THEN Idle
               ELSE [resizes[t] EXCEPT !.fresh = x[2], !.step = "release"]]
      BY DEF ResizeAlloc
    <2> HIDE DEF x
    <2> QED
      BY <2>1, <2>2
  <1>4. /\ BlocksInv' /\ OwnedInv' /\ AllocatorStep
        /\ DOMAIN owned \subseteq DOMAIN owned'
        /\ at # Null => at \in Cells
    <2>1. PICK m \in Wants : m = n
      BY <1>1
    <2> QED
      BY <1>2, <1>3, <2>1, AllocStep DEF HeapInv
  <1>5. /\ r \in Resize
        /\ r.fresh # Null <=> r.step = "release"
        /\ r # Idle => r.old = resizes[t].old /\ r.want = n
    <2>1. CASE at = Null
      BY <2>1 DEF Idle, Resize, Links
    <2>2. CASE at # Null
      BY <1>1, <1>4, <2>2 DEF Resize, Links
    <2> QED
      BY <2>1, <2>2
  <1> HIDE DEF r, n
  <1>6. /\ resizes' \in [Threads -> Resize]
        /\ resizes'[t] = r /\ \A u \in Threads \ {t} : resizes'[u] = resizes[u]
    BY <1>1, <1>3, <1>5
  <1>7. ResizesInv'
    <2>1. \A u \in Threads :
            /\ resizes'[u].fresh # Null <=> resizes'[u].step = "release"
            /\ resizes'[u] # Idle => /\ resizes'[u].old \in DOMAIN owned'
                                     /\ resizes'[u].want \in Wants
      BY <1>1, <1>4, <1>5, <1>6 DEF HeapInv, ResizesInv
    <2>2. \A u, v \in Threads :
            u # v /\ resizes'[u] # Idle /\ resizes'[v] # Idle
              => resizes'[u].old # resizes'[v].old
      BY <1>1, <1>5, <1>6 DEF HeapInv, ResizesInv
    <2> QED
      BY <1>6, <2>1, <2>2 DEF ResizesInv
  <1> QED
    BY <1>4, <1>7 DEF HeapInv

LEMMA ResizeReleaseStep ==
  ASSUME HeapInv, NEW t \in Threads, ResizeRelease(t)
  PROVE  HeapInv' /\ AllocatorStep
  <1>1. /\ resizes[t].step = "release" /\ resizes[t] # Idle
        /\ resizes[t].old \in DOMAIN owned
        /\ resizes \in [Threads -> Resize]
    BY DEF ResizeRelease, HeapInv, ResizesInv, Idle
  <1>2. PICK at \in DOMAIN owned : at = resizes[t].old
    BY <1>1
  <1>3. /\ heap' = unlocked_release(heap, at) /\ GivenBack(at)
        /\ resizes' = [resizes EXCEPT ![t] = Idle]
    BY <1>2 DEF ResizeRelease
  <1>4. BlocksInv' /\ OwnedInv' /\ AllocatorStep /\ DOMAIN owned' = DOMAIN owned \ {at}
    BY <1>3, ReleaseStep DEF HeapInv
  <1>5. Idle \in Resize /\ Idle.fresh = Null /\ Idle.step # "release"
    BY DEF Idle, Resize, Links
  <1>6. /\ resizes' \in [Threads -> Resize]
        /\ resizes'[t] = Idle /\ \A u \in Threads \ {t} : resizes'[u] = resizes[u]
    BY <1>1, <1>3, <1>5
  <1>7. ResizesInv'
    <2>1. \A u \in Threads \ {t} : resizes[u] # Idle => resizes[u].old # at
      BY <1>1, <1>2 DEF HeapInv, ResizesInv
    <2>2. \A u \in Threads :
            /\ resizes'[u].fresh # Null <=> resizes'[u].step = "release"
            /\ resizes'[u] # Idle => /\ resizes'[u].old \in DOMAIN owned'
                                     /\ resizes'[u].want \in Wants
      BY <1>4, <1>5, <1>6, <2>1 DEF HeapInv, ResizesInv
    <2>3. \A u, v \in Threads :
            u # v /\ resizes'[u] # Idle /\ resizes'[v] # Idle
              => resizes'[u].old # resizes'[v].old
      BY <1>6 DEF HeapInv, ResizesInv
    <2> QED
      BY <1>6, <2>2, <2>3 DEF ResizesInv
  <1> QED
    BY <1>4, <1>7 DEF HeapInv

-----------------------------------------------------------------------------
LEMMA NextInv == HeapInv /\ [Next]_vars => HeapInv' /\ AllocatorStep
  <1> SUFFICES ASSUME HeapInv, [Next]_vars PROVE HeapInv' /\ AllocatorStep
    OBVIOUS
  <1>1. ASSUME NEW n \in Wants, Malloc(n) PROVE HeapInv' /\ AllocatorStep
    BY <1>1, MallocStep
  <1>2. ASSUME NEW at \in Cells, Release(at) PROVE HeapInv' /\ AllocatorStep
    BY <1>2, FreeStep
  <1>3. ASSUME NEW t \in Threads, NEW at \in Cells, NEW n \in Wants,
               ResizeLook(t, at, n)
        PROVE  HeapInv' /\ AllocatorStep
    BY <1>3, ResizeLookStep
  <1>4. ASSUME NEW t \in Threads, ResizeAlloc(t) PROVE HeapInv' /\ AllocatorStep
    BY <1>4, ResizeAllocStep
  <1>5. ASSUME NEW t \in Threads, ResizeRelease(t) PROVE HeapInv' /\ AllocatorStep
    BY <1>5, ResizeReleaseStep
  <1>6. CASE UNCHANGED vars
    <2>1. heap' = heap /\ owned' = owned /\ resizes' = resizes
      BY <1>6 DEF vars
    <2>2. Blocks' = Blocks
      <3>1. Sound(heap, Blocks)
        BY DEF HeapInv, BlocksInv
      <3> QED
        BY <2>1, <3>1, NextBlocksAre DEF BlocksNext, Sound
    <2>3. GuestLive' = GuestLive
      BY <2>1 DEF GuestLive
    <2> QED
      BY <2>1, <2>2, <2>3
         DEF HeapInv, BlocksInv, OwnedInv, ResizesInv, GuestCells, AllocatorStep
  <1> QED
    BY <1>1, <1>2, <1>3, <1>4, <1>5, <1>6 DEF Next

(* Whatever the guest asks for and gives back, from any number of threads, *)
(* the blocks tile the arena and are listed, owned and counted as they     *)
(* should be.                                                              *)
THEOREM Invariant == Spec => []HeapInv
  <1>1. HeapInv /\ [Next]_vars => HeapInv'
    BY NextInv
  <1> QED
    BY <1>1, InitInv, PTL DEF Spec

(* What every release, split and search takes at its word (GuestHeap in    *)
(* thunks_libc.cpp) is so, for an arena, lists and requests of any size.   *)
THEOREM HeapIsSoundHolds == Spec => []HeapIsSound
  BY Invariant, InvariantIsEnough, PTL

(* Each entry point, and each step of a realloc, is to the guest an        *)
(* allocation, a release or nothing: blocks large enough, in the arena and *)
(* apart, whatever threads do between the steps of a realloc.              *)
THEOREM ImplementsAllocatorHolds == Spec => ImplementsAllocator
  <1>1. Init => Allocator!Init
    BY DEF Init, Allocator!Init
  <1>2. HeapInv /\ [Next]_vars => [Allocator!Next]_GuestLive
    BY NextInv DEF AllocatorStep
  <1>3. Spec => Allocator!Init /\ [][Allocator!Next]_GuestLive
    BY <1>1, <1>2, Invariant, PTL DEF Spec
  <1> QED
    BY <1>3, PTL DEF ImplementsAllocator, Allocator!Spec, GuestLive
=============================================================================
