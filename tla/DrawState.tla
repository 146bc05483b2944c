------------------------------ MODULE DrawState ------------------------------
(***************************************************************************)
(* What the GL thunks believe of the driver, and what the driver holds     *)
(* (thunks_gl.cpp 129-165, 697-712, 799-807, 894-1153, 1226-1234,          *)
(* 1316-1382, 1829-1881; overlay.cpp; gl_make_current).                    *)
(*                                                                         *)
(* The thunks keep a copy of the bindings, of the vertex attributes and of *)
(* every buffer's size and indices, so that an argument can be told from   *)
(* an offset and a draw that reads past a buffer can be stopped.  The copy *)
(* of bindings and attributes belongs to the thread, what it copies to the *)
(* driver's context; calls that are dropped change the copy alone.         *)
(*                                                                         *)
(* A GL thunk runs under g_gl_lock (GlOwnership), so it is one step here.  *)
(* Sizes are in vertices and in index units; an index is one or two units. *)
(***************************************************************************)
EXTENDS Integers, Sequences, FiniteSets, FiniteSetsExt

CONSTANTS
  Threads,        \* guest threads that call GL
  VertexBuffers,  \* names the engine binds to GL_ARRAY_BUFFER
  IndexBuffers,   \* names it binds to GL_ELEMENT_ARRAY_BUFFER
  NoBuffer,       \* the name 0
  HudBuffer,      \* the overlay's g_buffer
  Attribs,        \* attribute numbers
  HudAttrib,      \* the number of the overlay's "pos"
  Sizes,          \* sizes of vertex data, in vertices
  IndexLists,     \* index data, in units
  Unit,           \* values of a unit: an index of two is lo + Unit * hi
  Offsets,        \* attribute offsets, in vertices
  Counts,         \* how many indices glDrawElements takes, of one unit each
  Vertices,       \* how many vertices glDrawArrays takes
  MaxDeletes,     \* bound on deletions
  Loaders,        \* threads that make few GL calls
  FewCalls        \* bound on what one of them does, and on what a thread does
                  \* once its copy is not the driver's

ASSUME DrawAssumption ==
  /\ VertexBuffers \cap IndexBuffers = {} /\ HudAttrib \in Attribs
  /\ Loaders \subseteq Threads /\ FewCalls \in Nat
  /\ {NoBuffer, HudBuffer} \cap (VertexBuffers \cup IndexBuffers) = {}
  /\ Sizes \cup Offsets \subseteq Nat /\ Unit \in Nat \ {0}
  /\ IndexLists \subseteq Seq(Nat)
  /\ Counts \cup Vertices \subseteq Nat \ {0} /\ MaxDeletes \in Nat

VARIABLES
  single,   \* Switch: one context; Windows: one for each thread
  owner,    \* g_gl_owner
  bound,    \* Threads -> a context is current on the thread
  mine,     \* Threads -> the copy: [array, element, attrib]
  bytes,    \* g_buffer_bytes: VertexBuffers -> size, 0 if it has no entry
  indices,  \* g_index_data: IndexBuffers -> [known, data, biggest]
  real,     \* Contexts -> the same record as mine, in the driver
  store,    \* the driver's data: buffer -> size or list
  told,     \* the thread's copy is the driver's: see Dropped and DeleteBuffers
  outdated, \* buffers whose data changed without the thunks' knowledge
  deleted,  \* deletions so far (bound)
  calls     \* Threads -> those of its calls that are counted (bound)

vars == <<single, owner, bound, mine, bytes, indices, real, store, told,
          outdated, deleted, calls>>

Buffers == VertexBuffers \cup IndexBuffers
Contexts == IF single THEN {"only"} ELSE Threads
Context(t) == IF single THEN "only" ELSE t

Fresh == [array |-> NoBuffer, element |-> NoBuffer,
          attrib |-> [i \in Attribs |->
                        [on |-> FALSE, buffer |-> NoBuffer, offset |-> 0]]]

Unknown == [known |-> FALSE, data |-> <<>>, biggest |-> <<>>]

Init ==
  /\ single \in BOOLEAN
  /\ owner \in Threads \ Loaders
  /\ bound = [t \in Threads |-> t = owner]
  /\ mine = [t \in Threads |-> Fresh] /\ real = [c \in Contexts |-> Fresh]
  /\ bytes = [b \in VertexBuffers |-> 0]
  /\ indices = [b \in IndexBuffers |-> Unknown]
  /\ store = [b \in Buffers |-> IF b \in VertexBuffers THEN 0 ELSE <<>>]
  /\ told = [t \in Threads |-> TRUE]
  /\ outdated = {}
  /\ deleted = 0 /\ calls = [t \in Threads |-> 0]

(* gl_make_current(true): with one context the driver refuses it to a      *)
(* thread while another has it.                                            *)
Gets(t) == bound[t] \/ (single => \A u \in Threads \ {t} : ~bound[u])

(* ready(), after gl_thunk_enter made the owner's context current.         *)
Ready(t) == owner = t /\ Gets(t)

Enter(t) == bound' = [bound EXCEPT ![t] = @ \/ Ready(t)]

(* The calls of a loader, and those of a thread whose copy has gone wrong. *)
Counted(t) ==
  IF t \in Loaders \/ ~told[t]
  THEN calls[t] < FewCalls /\ calls' = [calls EXCEPT ![t] = @ + 1]
  ELSE UNCHANGED calls

(* Who is left with a copy that says something else than the driver: the   *)
(* caller, if its call was dropped; the others, if they share its context. *)
Dropped(t) ==
  told' = [u \in Threads |->
             told[u] /\ (IF u = t THEN Ready(t) ELSE ~(single /\ Ready(t)))]

(* A call that sets a piece of state: the copy always, the driver if it    *)
(* may be called.                                                          *)
SetBoth(t, Of(_)) ==
  /\ Counted(t) /\ Enter(t) /\ Dropped(t)
  /\ mine' = [mine EXCEPT ![t] = Of(@)]
  /\ real' = IF Ready(t) THEN [real EXCEPT ![Context(t)] = Of(@)] ELSE real
  /\ UNCHANGED <<single, owner, bytes, indices, store, outdated, deleted>>

-----------------------------------------------------------------------------
(* eglMakeCurrent with a context and without, and the claim of a thread    *)
(* that presents.                                                          *)
MakeCurrent(t) ==
  /\ Counted(t) /\ owner' = t
  /\ bound' = [bound EXCEPT ![t] = Gets(t)]
  /\ UNCHANGED <<single, mine, bytes, indices, real, store, told, outdated,
                 deleted>>

Release(t) ==
  /\ Counted(t)
  /\ bound' = [bound EXCEPT ![t] = FALSE]
  /\ UNCHANGED <<single, owner, mine, bytes, indices, real, store, told,
                 outdated, deleted>>

BindArray(t, b) == SetBoth(t, LAMBDA s : [s EXCEPT !.array = b])

BindElement(t, b) == SetBoth(t, LAMBDA s : [s EXCEPT !.element = b])

EnableVertexAttribArray(t, i) ==
  SetBoth(t, LAMBDA s : [s EXCEPT !.attrib[i].on = TRUE])

(* glVertexAttribPointer: an offset if a buffer is bound - in the thread's *)
(* copy -, else a pointer into guest memory.  What reaches the driver is   *)
(* read there by the driver's own binding.                                 *)
VertexAttribPointer(t, i, offset) ==
  SetBoth(t, LAMBDA s : [s EXCEPT !.attrib[i].buffer = s.array,
                                  !.attrib[i].offset = offset])

-----------------------------------------------------------------------------
(* glBufferData, through note_buffer_size: nothing is noted for the name 0,*)
(* and nothing at all is done by a thread that is not ready.               *)
ArrayData(t, size) ==
  LET b == mine[t].array
      c == real[Context(t)].array
  IN
  /\ Ready(t) /\ Counted(t) /\ Enter(t)
  /\ bytes' = IF b \in VertexBuffers THEN [bytes EXCEPT ![b] = size] ELSE bytes
  /\ store' = IF c \in VertexBuffers THEN [store EXCEPT ![c] = size] ELSE store
  /\ outdated' = IF b = c THEN outdated \ {b}
                          ELSE outdated \cup ({b, c} \cap Buffers)
  /\ UNCHANGED <<single, owner, mine, indices, real, told, deleted>>

(* The answers worked out for the old indices are kept.                    *)
ElementData_KeepsBiggest(t, data, given) ==
  LET b == mine[t].element
      c == real[Context(t)].element
      noted == IF given THEN data ELSE [i \in DOMAIN data |-> 0]
  IN
  /\ Ready(t) /\ Counted(t) /\ Enter(t)
  /\ indices' = IF b \in IndexBuffers
                THEN [indices EXCEPT ![b].known = TRUE, ![b].data = noted]
                ELSE indices
  /\ store' = IF c \in IndexBuffers
              THEN [store EXCEPT ![c] = IF given THEN data ELSE <<>>]
              ELSE store
  /\ outdated' = IF b = c /\ given THEN outdated \ {b}
                                   ELSE outdated \cup ({b, c} \cap Buffers)
  /\ UNCHANGED <<single, owner, mine, bytes, real, told, deleted>>

(* The same for indices, which are kept as well as measured.  staged()     *)
(* answers null for data outside the arena: the copy then says 0, what the *)
(* driver holds is anything (the buffer is outdated, its store no matter). *)
ElementData(t, data, given) ==
  LET b == mine[t].element
      c == real[Context(t)].element
      noted == IF given THEN data ELSE [i \in DOMAIN data |-> 0]
  IN
  /\ Ready(t) /\ Counted(t) /\ Enter(t)
  /\ indices' = IF b \in IndexBuffers
                THEN [indices EXCEPT ![b] = [known |-> TRUE, data |-> noted,
                                             biggest |-> <<>>]]
                ELSE indices
  /\ store' = IF c \in IndexBuffers
              THEN [store EXCEPT ![c] = IF given THEN data ELSE <<>>]
              ELSE store
  /\ outdated' = IF b = c /\ given THEN outdated \ {b}
                                   ELSE outdated \cup ({b, c} \cap Buffers)
  /\ UNCHANGED <<single, owner, mine, bytes, real, told, deleted>>

(* glDeleteBuffers: the driver forgets the data and unbinds the name, the  *)
(* thunks keep their copy.                                                 *)
Mentions(s, b) ==
  b \in {s.array, s.element} \cup {s.attrib[i].buffer : i \in Attribs}

Without(s, b) ==
  [s EXCEPT !.array   = IF @ = b THEN NoBuffer ELSE @,
            !.element = IF @ = b THEN NoBuffer ELSE @,
            !.attrib  =
              [i \in Attribs |->
                 [s.attrib[i] EXCEPT !.buffer = IF @ = b THEN NoBuffer ELSE @]]]

DeleteBuffers(t, b) ==
  /\ Ready(t) /\ Counted(t) /\ Enter(t)
  /\ deleted < MaxDeletes /\ deleted' = deleted + 1
  /\ store' = [store EXCEPT ![b] = IF b \in VertexBuffers THEN 0 ELSE <<>>]
  /\ real' = [real EXCEPT ![Context(t)] = Without(@, b)]
  /\ told' = [u \in Threads |-> told[u] /\ ~Mentions(mine[u], b)]
  /\ outdated' = outdated \cup {b}
  /\ UNCHANGED <<single, owner, mine, bytes, indices>>

-----------------------------------------------------------------------------
(* What is read: the index at place k of a range, and the largest of it.   *)
IndexAt(data, offset, width, k) ==
  IF width = 1 THEN data[offset + k + 1]
  ELSE data[offset + 2 * k + 1] + Unit * data[offset + 2 * k + 2]

Largest(data, offset, width, n) ==
  Max({0} \cup {IndexAt(data, offset, width, k) : k \in 0 .. n - 1})

Fits(data, offset, width, n) == offset + width * n <= Len(data)

(* The answer for a range is kept with the buffer.                         *)
Biggest(ib, range) ==
  IF range \in DOMAIN ib.biggest THEN ib.biggest[range]
  ELSE Largest(ib.data, range[1], range[2], range[3])

Remember(ib, range) ==
  [ib EXCEPT !.biggest = [r \in DOMAIN @ \cup {range} |-> Biggest(ib, r)]]

(* The arrays guard_draw turns off: those in a buffer that would be read   *)
(* past the size it was given.  A client array is only reported.           *)
Bounded(a) == a.on /\ a.buffer # NoBuffer

(* Where the array begins in its buffer is forgotten.                      *)
Beyond_NoOffset(s, largest) ==
  {i \in Attribs : LET a == s.attrib[i] IN
     Bounded(a) /\ largest + 1 > bytes[a.buffer]}

Beyond(s, largest) ==
  {i \in Attribs : LET a == s.attrib[i] IN
     Bounded(a) /\ a.offset + largest + 1 > bytes[a.buffer]}

Off(s, set) ==
  [s EXCEPT !.attrib =
     [i \in Attribs |-> [s.attrib[i] EXCEPT !.on = @ /\ i \notin set]]]

(* guard_draw: with an element buffer whose indices it has, and only if    *)
(* the range lies inside them; otherwise the draw goes on as it is.  The   *)
(* driver is called without asking ready().                                *)
GuardDraw(t, n, width, offset) ==
  LET s == mine[t]
      e == s.element
      range == <<offset, width, n>>
      looks == /\ e # NoBuffer /\ indices[e].known
               /\ Fits(indices[e].data, offset, width, n)
      off == IF looks THEN Beyond(s, Biggest(indices[e], range)) ELSE {}
      current == bound[t] \/ Ready(t)
  IN
  /\ Counted(t) /\ Enter(t)
  /\ indices' = IF looks THEN [indices EXCEPT ![e] = Remember(@, range)]
                         ELSE indices
  /\ mine' = [mine EXCEPT ![t] = Off(@, off)]
  /\ real' = IF current THEN [real EXCEPT ![Context(t)] = Off(@, off)]
                        ELSE real
  /\ told' = [u \in Threads |-> told[u] /\ (off = {} \/ (u = t /\ current)
                                            \/ (u # t /\ ~single))]
  /\ UNCHANGED <<single, owner, bytes, store, outdated, deleted>>

(* glDrawElements gives the guard its type and offset; glDrawArrays gives  *)
(* none, which type_bytes takes for the widest.                            *)
DrawElements(t, n, width, offset) ==
  GuardDraw(t, n, width, IF mine[t].element # NoBuffer THEN offset ELSE 0)

DrawArrays(t, n) == GuardDraw(t, n, 2, 0)

-----------------------------------------------------------------------------
(* overlay_draw: its own program, buffer and attribute, then the program   *)
(* and the array buffer the driver said it had.  The viewport is treated   *)
(* like the program.                                                       *)
OverlayDraws(s) ==
  [s EXCEPT !.array = HudBuffer,
            !.attrib[HudAttrib] =
              [on |-> FALSE, buffer |-> HudBuffer, offset |-> 0]]

(* What the overlay bound stays bound.                                     *)
OverlayRestores_Nothing(s, old) == s

OverlayRestores(s, old) == [s EXCEPT !.array = old.array]

(* eglSwapBuffers: the claim, then the overlay if it is shown and could be *)
(* built.                                                                  *)
Swap(t) ==
  /\ Counted(t)
  /\ owner' = t /\ bound' = [bound EXCEPT ![t] = Gets(t)]
  /\ \E shown \in BOOLEAN :
       real' = IF ~(Gets(t) /\ shown) THEN real
               ELSE [real EXCEPT ![Context(t)] =
                                   OverlayRestores(OverlayDraws(@), @)]
  /\ UNCHANGED <<single, mine, bytes, indices, store, told, outdated, deleted>>

Next ==
  \E t \in Threads :
    \/ MakeCurrent(t) \/ Release(t) \/ Swap(t)
    \/ \E b \in VertexBuffers \cup {NoBuffer} : BindArray(t, b)
    \/ \E b \in IndexBuffers \cup {NoBuffer} : BindElement(t, b)
    \/ \E i \in Attribs : EnableVertexAttribArray(t, i)
    \/ \E i \in Attribs, o \in Offsets : VertexAttribPointer(t, i, o)
    \/ \E s \in Sizes : ArrayData(t, s)
    \/ \E d \in IndexLists, given \in BOOLEAN : ElementData(t, d, given)
    \/ \E b \in Buffers : DeleteBuffers(t, b)
    \/ \E n \in Counts : DrawElements(t, n, 1, 0)
    \/ \E n \in Vertices : DrawArrays(t, n)

Spec == Init /\ [][Next]_vars

-----------------------------------------------------------------------------
(* thunks_gl.cpp 690-696: a copy that differs from the driver makes it take*)
(* an offset for a pointer.  As long as none of a thread's calls was       *)
(* dropped, no other thread used its context and no buffer it had in use   *)
(* was deleted, its copy is what the driver has - over any number of       *)
(* frames, and but for the attribute the overlay borrows and leaves off.   *)
SameAttrib(a, b) == a.buffer = b.buffer /\ a.offset = b.offset

CopiesAgree ==
  \A t \in Threads :
    LET m == mine[t]
        r == real[Context(t)]
    IN told[t] =>
         /\ m.array = r.array /\ m.element = r.element
         /\ \A i \in Attribs \ {HudAttrib} : m.attrib[i] = r.attrib[i]
         /\ r.attrib[HudAttrib].on => m.attrib[HudAttrib].on
         /\ \/ r.attrib[HudAttrib].buffer = HudBuffer
            \/ SameAttrib(m.attrib[HudAttrib], r.attrib[HudAttrib])

(* The driver draws indexed, by a thread whose copy is right, from a range *)
(* that lies inside an element buffer whose data was seen.                 *)
DrawsHonestly(t, n) ==
  LET e == real[Context(t)].element IN
  /\ Ready(t) /\ told[t]
  /\ e \in IndexBuffers \ outdated /\ Fits(store[e], 0, 1, n)
  /\ DrawElements(t, n, 1, 0)

ReadsInside(a, largest) == a.offset + largest + 1 <= store[a.buffer]

(* 1032-1042: the arrays of an earlier mesh stay on and point at a buffer  *)
(* that may be too small for this one; no draw that reaches the driver     *)
(* reads past the end of a vertex buffer, whatever was uploaded, drawn and *)
(* remembered before.  Excused: what the guard cannot see (told, outdated) *)
(* and the range it only reports (Fits).                                   *)
DrawsStayInside ==
  [][\A t \in Threads, n \in Counts : DrawsHonestly(t, n) =>
       LET r == real[Context(t)]
           largest == Largest(store[r.element], 0, 1, n)
       IN \A i \in Attribs :
            LET a == real'[Context(t)].attrib[i] IN
            a.on /\ a.buffer \in VertexBuffers \ outdated
              => ReadsInside(a, largest)
    ]_vars

(* 1043-1045: nothing correct is lost: an array such a draw turns off is   *)
(* one it would have read past the end of.                                 *)
NothingCorrectIsLost ==
  [][\A t \in Threads, n \in Counts : DrawsHonestly(t, n) =>
       LET largest == Largest(store[real[Context(t)].element], 0, 1, n) IN
       \A i \in Attribs :
         LET a == mine[t].attrib[i] IN
         a.on /\ ~mine'[t].attrib[i].on /\ a.buffer \notin outdated
           => ~ReadsInside(a, largest)
    ]_vars
=============================================================================
