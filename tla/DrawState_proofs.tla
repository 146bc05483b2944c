--------------------------- MODULE DrawState_proofs ---------------------------
(***************************************************************************)
(* Theorems about DrawState, for any threads, buffers, attributes and data *)
(* and any number of frames: its three properties.                         *)
(*                                                                         *)
(* That a thread's copy agrees with the driver (CopiesAgree) is inductive  *)
(* with the types.  What is said of a draw needs also what the thunks know *)
(* of the data: of a buffer that is not outdated they know its size or its *)
(* indices, and an answer they remember is the answer (Known).             *)
(***************************************************************************)
EXTENDS DrawState, WellFoundedInduction, TLAPS

Arrays   == VertexBuffers \cup {NoBuffer}
Elements == IndexBuffers \cup {NoBuffer}

(* What a copy can say, and what a context: the overlay's buffer is in the *)
(* overlay's attribute of the driver only.                                 *)
Attrib(B) == [on : BOOLEAN, buffer : B, offset : Nat]

State(B) ==
  [array : Arrays, element : Elements, attrib : [Attribs -> Attrib(B)]]

Copies  == State(Arrays)
Bindable == Arrays \cup {HudBuffer}

Drivers == State(Bindable)

BindingTypes ==
  /\ single \in BOOLEAN /\ owner \in Threads
  /\ bound \in [Threads -> BOOLEAN] /\ told \in [Threads -> BOOLEAN]
  /\ mine \in [Threads -> Copies] /\ real \in [Contexts -> Drivers]

DataTypes ==
  /\ bytes \in [VertexBuffers -> Nat]
  /\ indices \in [IndexBuffers ->
                    [known : BOOLEAN, data : Seq(Nat),
                     biggest : {indices[e].biggest : e \in IndexBuffers}]]
  /\ store = [b \in Buffers |-> store[b]]
  /\ \A b \in VertexBuffers : store[b] \in Nat
  /\ \A b \in IndexBuffers : store[b] \in Seq(Nat)
  /\ outdated \subseteq Buffers

TypeOK == BindingTypes /\ DataTypes

SizesKnown == \A b \in VertexBuffers \ outdated : bytes[b] = store[b]

IndicesKnown ==
  \A e \in IndexBuffers \ outdated :
    IF indices[e].known THEN indices[e].data = store[e] ELSE store[e] = <<>>

AnswersRight ==
  \A e \in IndexBuffers : \A r \in DOMAIN indices[e].biggest :
    indices[e].biggest[r] = Largest(indices[e].data, r[1], r[2], r[3])

Known == SizesKnown /\ IndicesKnown /\ AnswersRight

IInv == TypeOK /\ CopiesAgree /\ Known

-----------------------------------------------------------------------------
(* What CopiesAgree asks of a copy and a context.                          *)
Agree(m, r) ==
  /\ m.array = r.array /\ m.element = r.element
  /\ \A i \in Attribs \ {HudAttrib} : m.attrib[i] = r.attrib[i]
  /\ r.attrib[HudAttrib].on => m.attrib[HudAttrib].on
  /\ \/ r.attrib[HudAttrib].buffer = HudBuffer
     \/ SameAttrib(m.attrib[HudAttrib], r.attrib[HudAttrib])

LEMMA AgreeIs ==
  CopiesAgree <=> \A t \in Threads : told[t] => Agree(mine[t], real[Context(t)])
  BY DEF CopiesAgree, Agree

LEMMA ContextsAre ==
  ASSUME single \in BOOLEAN, NEW t \in Threads
  PROVE  /\ Context(t) \in Contexts
         /\ single => \A u \in Threads : Context(u) = Context(t)
         /\ ~single => \A u \in Threads : Context(u) = u
  BY DEF Context, Contexts

LEMMA ReadyIs ==
  ASSUME BindingTypes, NEW t \in Threads
  PROVE  Ready(t) \in BOOLEAN /\ Gets(t) \in BOOLEAN
  BY DEF Ready, Gets

(* A call that does the same to the copy and, if it is made, to the        *)
(* context: whoever it leaves with a copy that differs is no longer told.  *)
LEMMA BothSet ==
  ASSUME BindingTypes, CopiesAgree, NEW t \in Threads,
         NEW m \in Copies, NEW r \in Drivers,
         Agree(mine[t], real[Context(t)]) => Agree(m, r),
         mine' = [mine EXCEPT ![t] = m],
         real' = IF Ready(t) THEN [real EXCEPT ![Context(t)] = r] ELSE real,
         Enter(t), Dropped(t), single' = single, owner' = owner
  PROVE  BindingTypes' /\ CopiesAgree'
  <1>0. single \in BOOLEAN /\ Context(t) \in Contexts /\ Contexts' = Contexts
        /\ \A u \in Threads : Context(u)' = Context(u)
    BY ContextsAre DEF BindingTypes, Contexts, Context
  <1>1. BindingTypes'
    <2>1. mine' \in [Threads -> Copies]
      BY DEF BindingTypes
    <2>2. real' \in [Contexts' -> Drivers]
      BY <1>0 DEF BindingTypes
    <2>3. bound' \in [Threads -> BOOLEAN]
      <3>1. (bound[t] \/ Ready(t)) \in BOOLEAN
        OBVIOUS
      <3> QED
        BY <3>1 DEF BindingTypes, Enter
    <2>4. told' \in [Threads -> BOOLEAN]
      BY DEF Dropped
    <2>5. single' \in BOOLEAN /\ owner' \in Threads
      BY DEF BindingTypes
    <2> QED
      BY <2>1, <2>2, <2>3, <2>4, <2>5 DEF BindingTypes
  <1>2. CopiesAgree'
    <2> SUFFICES ASSUME NEW u \in Threads, told'[u]
                 PROVE  Agree(mine'[u], real'[Context(u)])
      BY <1>0 DEF CopiesAgree, Agree
    <2>1. /\ told[u] /\ (u = t => Ready(t)) /\ (u # t => ~(single /\ Ready(t)))
          /\ Agree(mine[u], real[Context(u)])
      BY AgreeIs DEF Dropped
    <2>2. CASE u = t
      BY <1>0, <2>1, <2>2 DEF BindingTypes
    <2>3. CASE u # t
      <3>1. real'[Context(u)] = real[Context(u)]
        BY <1>0, <2>1, <2>3, ContextsAre DEF BindingTypes
      <3> QED
        BY <2>1, <2>3, <3>1 DEF BindingTypes
    <2> QED
      BY <2>2, <2>3
  <1> QED
    BY <1>1, <1>2

LEMMA BindArrayAgrees ==
  ASSUME BindingTypes, CopiesAgree, NEW t \in Threads, NEW b \in Arrays,
         BindArray(t, b)
  PROVE  BindingTypes' /\ CopiesAgree'
  <1> DEFINE m == [mine[t] EXCEPT !.array = b]
             r == [real[Context(t)] EXCEPT !.array = b]
  <1>0. mine[t] \in Copies /\ real[Context(t)] \in Drivers
    BY ContextsAre DEF BindingTypes
  <1>1. m \in Copies /\ r \in Drivers
    BY <1>0 DEF Copies, Drivers, State, Attrib, Bindable
  <1>2. Agree(mine[t], real[Context(t)]) => Agree(m, r)
    BY <1>0 DEF Copies, Drivers, State, Attrib, Bindable, Agree
  <1>3. /\ mine' = [mine EXCEPT ![t] = m]
        /\ real' = IF Ready(t) THEN [real EXCEPT ![Context(t)] = r] ELSE real
        /\ Enter(t) /\ Dropped(t) /\ single' = single /\ owner' = owner
    BY DEF BindArray, SetBoth
  <1> HIDE DEF m, r
  <1> QED
    BY <1>1, <1>2, <1>3, BothSet

LEMMA BindElementAgrees ==
  ASSUME BindingTypes, CopiesAgree, NEW t \in Threads, NEW b \in Elements,
         BindElement(t, b)
  PROVE  BindingTypes' /\ CopiesAgree'
  <1> DEFINE m == [mine[t] EXCEPT !.element = b]
             r == [real[Context(t)] EXCEPT !.element = b]
  <1>0. mine[t] \in Copies /\ real[Context(t)] \in Drivers
    BY ContextsAre DEF BindingTypes
  <1>1. m \in Copies /\ r \in Drivers
    BY <1>0 DEF Copies, Drivers, State, Attrib, Bindable
  <1>2. Agree(mine[t], real[Context(t)]) => Agree(m, r)
    BY <1>0 DEF Copies, Drivers, State, Attrib, Bindable, Agree
  <1>3. /\ mine' = [mine EXCEPT ![t] = m]
        /\ real' = IF Ready(t) THEN [real EXCEPT ![Context(t)] = r] ELSE real
        /\ Enter(t) /\ Dropped(t) /\ single' = single /\ owner' = owner
    BY DEF BindElement, SetBoth
  <1> HIDE DEF m, r
  <1> QED
    BY <1>1, <1>2, <1>3, BothSet

(* A change of one attribute.                                              *)
SetAttrib(s, i, f) == [s EXCEPT !.attrib = [@ EXCEPT ![i] = f]]

LEMMA AttribSet ==
  ASSUME NEW B, NEW i \in Attribs, NEW s \in State(B), NEW f \in Attrib(B)
  PROVE  /\ SetAttrib(s, i, f) \in State(B)
         /\ SetAttrib(s, i, f).array = s.array
         /\ SetAttrib(s, i, f).element = s.element
         /\ SetAttrib(s, i, f).attrib[i] = f
         /\ \A j \in Attribs \ {i} : SetAttrib(s, i, f).attrib[j] = s.attrib[j]
  BY DEF State, SetAttrib

LEMMA AttribSetAgrees ==
  ASSUME NEW m \in Copies, NEW r \in Drivers, NEW i \in Attribs, NEW x, NEW y,
         Agree(m, r),
         x.array = m.array, x.element = m.element,
         y.array = r.array, y.element = r.element,
         \A j \in Attribs \ {i} : x.attrib[j] = m.attrib[j],
         \A j \in Attribs \ {i} : y.attrib[j] = r.attrib[j],
         i # HudAttrib => x.attrib[i] = y.attrib[i],
         i = HudAttrib =>
           /\ y.attrib[i].on => x.attrib[i].on
           /\ \/ y.attrib[i].buffer = HudBuffer
              \/ SameAttrib(x.attrib[i], y.attrib[i])
  PROVE  Agree(x, y)
  BY DrawAssumption DEF Agree, DrawAssumption

LEMMA EnableAgrees ==
  ASSUME BindingTypes, CopiesAgree, NEW t \in Threads, NEW i \in Attribs,
         EnableVertexAttribArray(t, i)
  PROVE  BindingTypes' /\ CopiesAgree'
  <1> DEFINE c == mine[t]
             d == real[Context(t)]
             m == [c EXCEPT !.attrib[i].on = TRUE]
             r == [d EXCEPT !.attrib[i].on = TRUE]
             f == [c.attrib[i] EXCEPT !.on = TRUE]
             g == [d.attrib[i] EXCEPT !.on = TRUE]
  <1>0. c \in Copies /\ d \in Drivers
    BY ContextsAre DEF BindingTypes
  <1>3. /\ mine' = [mine EXCEPT ![t] = m]
        /\ real' = IF Ready(t) THEN [real EXCEPT ![Context(t)] = r] ELSE real
        /\ Enter(t) /\ Dropped(t) /\ single' = single /\ owner' = owner
    BY DEF EnableVertexAttribArray, SetBoth
  <1>4. /\ m = [c EXCEPT !.attrib = [@ EXCEPT ![i] = f]]
        /\ r = [d EXCEPT !.attrib = [@ EXCEPT ![i] = g]]
    OBVIOUS
  <1> HIDE DEF c, d, m, r
  <1>5. /\ f \in Attrib(Arrays)
        /\ g \in Attrib(Bindable)
        /\ f.on /\ f.buffer = c.attrib[i].buffer
        /\ f.offset = c.attrib[i].offset
        /\ g.on /\ g.buffer = d.attrib[i].buffer
        /\ g.offset = d.attrib[i].offset
    BY <1>0 DEF Copies, Drivers, State, Attrib, Bindable
  <1>6. Agree(c, d) /\ i # HudAttrib => f = g
    BY DEF Agree
  <1>7. Agree(c, d) /\ i = HudAttrib =>
          g.buffer = HudBuffer \/ SameAttrib(f, g)
    BY <1>5 DEF Agree, SameAttrib
  <1> HIDE DEF f, g
  <1>8. /\ m \in Copies /\ m.array = c.array /\ m.element = c.element
        /\ m.attrib[i] = f /\ \A j \in Attribs \ {i} : m.attrib[j] = c.attrib[j]
    <2>1. c \in State(Arrays) /\ f \in Attrib(Arrays) /\ i \in Attribs
      BY <1>0, <1>5 DEF Copies
    <2>2. m = SetAttrib(c, i, f)
      BY ONLY <1>4 DEF SetAttrib
    <2> QED
      BY ONLY <2>1, <2>2, AttribSet DEF Copies
  <1>9. /\ r \in Drivers /\ r.array = d.array /\ r.element = d.element
        /\ r.attrib[i] = g /\ \A j \in Attribs \ {i} : r.attrib[j] = d.attrib[j]
    <2>1. d \in State(Bindable) /\ g \in Attrib(Bindable) /\ i \in Attribs
      BY <1>0, <1>5 DEF Drivers
    <2>2. r = SetAttrib(d, i, g)
      BY ONLY <1>4 DEF SetAttrib
    <2> QED
      BY ONLY <2>1, <2>2, AttribSet DEF Drivers
  <1>10. Agree(c, d) => Agree(m, r)
    BY <1>0, <1>5, <1>6, <1>7, <1>8, <1>9, AttribSetAgrees
  <1> QED
    BY <1>3, <1>8, <1>9, <1>10, BothSet DEF c, d

LEMMA PointerAgrees ==
  ASSUME BindingTypes, CopiesAgree, NEW t \in Threads, NEW i \in Attribs,
         NEW o \in Offsets, VertexAttribPointer(t, i, o)
  PROVE  BindingTypes' /\ CopiesAgree'
  <1> DEFINE c == mine[t]
             d == real[Context(t)]
             m == [c EXCEPT !.attrib[i].buffer = c.array,
                            !.attrib[i].offset = o]
             r == [d EXCEPT !.attrib[i].buffer = d.array,
                            !.attrib[i].offset = o]
             f == [c.attrib[i] EXCEPT !.buffer = c.array, !.offset = o]
             g == [d.attrib[i] EXCEPT !.buffer = d.array, !.offset = o]
  <1>0. c \in Copies /\ d \in Drivers /\ o \in Nat
    BY ContextsAre, DrawAssumption DEF BindingTypes, DrawAssumption
  <1>3. /\ mine' = [mine EXCEPT ![t] = m]
        /\ real' = IF Ready(t) THEN [real EXCEPT ![Context(t)] = r] ELSE real
        /\ Enter(t) /\ Dropped(t) /\ single' = single /\ owner' = owner
    BY DEF VertexAttribPointer, SetBoth
  <1> HIDE DEF c, d
  <1>4. m = [c EXCEPT !.attrib = [@ EXCEPT ![i] = f]]
    BY <1>0 DEF Copies, State, Attrib
  <1>b. r = [d EXCEPT !.attrib = [@ EXCEPT ![i] = g]]
    BY <1>0 DEF Drivers, State, Attrib
  <1> HIDE DEF m, r
  <1>5. /\ f \in Attrib(Arrays)
        /\ f.on = c.attrib[i].on /\ f.buffer = c.array /\ f.offset = o
    BY <1>0 DEF Copies, State, Attrib
  <1>c. /\ g \in Attrib(Bindable)
        /\ g.on = d.attrib[i].on /\ g.buffer = d.array /\ g.offset = o
    BY <1>0 DEF Drivers, State, Attrib, Bindable
  <1>6. Agree(c, d) /\ i # HudAttrib => f = g
    BY DEF Agree
  <1>7. Agree(c, d) /\ i = HudAttrib => SameAttrib(f, g) /\ (g.on => f.on)
    BY <1>5, <1>c DEF Agree, SameAttrib
  <1> HIDE DEF f, g
  <1>8. /\ m \in Copies /\ m.array = c.array /\ m.element = c.element
        /\ m.attrib[i] = f /\ \A j \in Attribs \ {i} : m.attrib[j] = c.attrib[j]
    <2>1. c \in State(Arrays) /\ f \in Attrib(Arrays) /\ i \in Attribs
      BY <1>0, <1>5 DEF Copies
    <2>2. m = SetAttrib(c, i, f)
      BY ONLY <1>4 DEF SetAttrib
    <2> QED
      BY ONLY <2>1, <2>2, AttribSet DEF Copies
  <1>9. /\ r \in Drivers /\ r.array = d.array /\ r.element = d.element
        /\ r.attrib[i] = g /\ \A j \in Attribs \ {i} : r.attrib[j] = d.attrib[j]
    BY <1>0, <1>b, <1>c, AttribSet DEF Drivers, State, Attrib
  <1>10. Agree(c, d) => Agree(m, r)
    BY <1>0, <1>6, <1>7, <1>8, <1>9, AttribSetAgrees
  <1> QED
    BY <1>3, <1>8, <1>9, <1>10, BothSet DEF c, d

(* glDeleteBuffers: the name leaves the driver's bindings; a thread whose  *)
(* copy has it is no longer told, for the others nothing changes.          *)
LEMMA WithoutGives ==
  ASSUME NEW d \in Drivers, NEW b \in Buffers, NEW x, x = Without(d, b)
  PROVE  /\ x \in Drivers
         /\ x.array = IF d.array = b THEN NoBuffer ELSE d.array
         /\ x.element = IF d.element = b THEN NoBuffer ELSE d.element
         /\ \A i \in Attribs :
              /\ x.attrib[i].on = d.attrib[i].on
              /\ x.attrib[i].offset = d.attrib[i].offset
              /\ x.attrib[i].buffer = IF d.attrib[i].buffer = b THEN NoBuffer
                                      ELSE d.attrib[i].buffer
              /\ d.attrib[i].buffer # b => x.attrib[i] = d.attrib[i]
  <1> DEFINE f(i) == [d.attrib[i] EXCEPT
                        !.buffer = IF @ = b THEN NoBuffer ELSE @]
             a == [i \in Attribs |-> f(i)]
  <1>1. x = [d EXCEPT !.array = IF @ = b THEN NoBuffer ELSE @,
                      !.element = IF @ = b THEN NoBuffer ELSE @,
                      !.attrib = a]
    BY DEF Without, Drivers
  <1>2. \A i \in Attribs :
          /\ f(i) \in Attrib(Bindable)
          /\ f(i).on = d.attrib[i].on /\ f(i).offset = d.attrib[i].offset
          /\ f(i).buffer = IF d.attrib[i].buffer = b THEN NoBuffer
                           ELSE d.attrib[i].buffer
          /\ d.attrib[i].buffer # b => f(i) = d.attrib[i]
    BY DEF Drivers, State, Attrib, Bindable, Arrays
  <1> HIDE DEF f
  <1>3. /\ a \in [Attribs -> Attrib(Bindable)]
        /\ \A i \in Attribs : a[i] = f(i)
    BY <1>2
  <1> HIDE DEF a
  <1>4. x \in Drivers /\ x.attrib = a
        /\ x.array = (IF d.array = b THEN NoBuffer ELSE d.array)
        /\ x.element = (IF d.element = b THEN NoBuffer ELSE d.element)
    BY <1>1, <1>3 DEF Drivers, State, Arrays, Elements
  <1> QED
    BY <1>2, <1>3, <1>4

LEMMA DeleteAgrees ==
  ASSUME BindingTypes, CopiesAgree, NEW t \in Threads, NEW b \in Buffers,
         DeleteBuffers(t, b)
  PROVE  BindingTypes' /\ CopiesAgree'
  <1> DEFINE d == real[Context(t)]
             x == Without(d, b)
  <1>0. /\ single \in BOOLEAN /\ Context(t) \in Contexts /\ Contexts' = Contexts
        /\ \A u \in Threads : Context(u)' = Context(u)
        /\ d \in Drivers
    BY ContextsAre DEF BindingTypes, Contexts, Context, DeleteBuffers
  <1>1. /\ mine' = mine /\ real' = [real EXCEPT ![Context(t)] = x]
        /\ told' = [u \in Threads |-> told[u] /\ ~Mentions(mine[u], b)]
        /\ UNCHANGED <<single, owner>> /\ Enter(t)
    BY DEF DeleteBuffers
  <1>2. b # HudBuffer
    BY DrawAssumption DEF DrawAssumption, Buffers
  <1> HIDE DEF d, x
  <1>3. /\ x \in Drivers
        /\ x.array = IF d.array = b THEN NoBuffer ELSE d.array
        /\ x.element = IF d.element = b THEN NoBuffer ELSE d.element
        /\ \A i \in Attribs :
              /\ x.attrib[i].on = d.attrib[i].on
              /\ x.attrib[i].offset = d.attrib[i].offset
              /\ d.attrib[i].buffer # b => x.attrib[i] = d.attrib[i]
    BY <1>0, WithoutGives DEF x
  <1>4. BindingTypes'
    <2>1. bound' \in [Threads -> BOOLEAN]
      <3>1. (bound[t] \/ Ready(t)) \in BOOLEAN
        OBVIOUS
      <3> QED
        BY <1>1, <3>1 DEF BindingTypes, Enter
    <2>2. told' \in [Threads -> BOOLEAN]
      BY <1>1
    <2>3. real' \in [Contexts' -> Drivers]
      BY <1>0, <1>1, <1>3 DEF BindingTypes
    <2> QED
      BY <1>1, <2>1, <2>2, <2>3 DEF BindingTypes
  <1>5. CopiesAgree'
    <2> SUFFICES ASSUME NEW u \in Threads, told'[u]
                 PROVE  Agree(mine[u], real'[Context(u)])
      BY <1>0, <1>1 DEF CopiesAgree, Agree
    <2>1. /\ Agree(mine[u], real[Context(u)]) /\ ~Mentions(mine[u], b)
          /\ Context(u) \in Contexts
      BY <1>0, <1>1, AgreeIs, ContextsAre
    <2>2. CASE Context(u) = Context(t)
      <3>1. real'[Context(u)] = x /\ real[Context(u)] = d
        BY <1>0, <1>1, <2>2 DEF BindingTypes, d
      <3>2. d.array # b /\ d.element # b
        BY <2>1, <3>1 DEF Agree, Mentions
      <3>3. \A i \in Attribs \ {HudAttrib} : d.attrib[i].buffer # b
        BY <2>1, <3>1 DEF Agree, Mentions
      <3>4. d.attrib[HudAttrib].buffer # b
        BY <1>2, <2>1, <3>1, DrawAssumption
           DEF Agree, Mentions, SameAttrib, DrawAssumption
      <3> QED
        BY <1>3, <2>1, <3>1, <3>2, <3>3, <3>4, DrawAssumption
           DEF Agree, DrawAssumption
    <2>3. CASE Context(u) # Context(t)
      BY <1>1, <2>1, <2>3 DEF BindingTypes
    <2> QED
      BY <2>2, <2>3
  <1> QED
    BY <1>4, <1>5

(* The guard turns the same arrays off in the copy and in the context.     *)
LEMMA OffGives ==
  ASSUME NEW B, NEW x, NEW off,
         NEW s \in State(B),
         x = Off(s, off)
  PROVE  /\ x \in State(B)
         /\ x.array = s.array /\ x.element = s.element
         /\ \A i \in Attribs :
              /\ x.attrib[i] \in Attrib(B)
              /\ x.attrib[i].on <=> s.attrib[i].on /\ i \notin off
              /\ x.attrib[i].buffer = s.attrib[i].buffer
              /\ x.attrib[i].offset = s.attrib[i].offset
  <1> USE DEF State, Attrib
  <1> DEFINE T == Attrib(B)
             f(i) == [s.attrib[i] EXCEPT !.on = @ /\ i \notin off]
             a == [i \in Attribs |-> f(i)]
  <1>1. ASSUME NEW i \in Attribs
        PROVE  /\ f(i) \in T
               /\ f(i).on <=> s.attrib[i].on /\ i \notin off
               /\ f(i).buffer = s.attrib[i].buffer
               /\ f(i).offset = s.attrib[i].offset
    <2> DEFINE e == s.attrib[i]
               o == e.on /\ i \notin off
    <2>1. e \in T /\ o \in BOOLEAN
      BY DEF T
    <2> HIDE DEF e, o
    <2>2. /\ [e EXCEPT !.on = o] \in T
          /\ [e EXCEPT !.on = o].on = o
          /\ [e EXCEPT !.on = o].buffer = e.buffer
          /\ [e EXCEPT !.on = o].offset = e.offset
      BY <2>1
    <2>3. f(i) = [e EXCEPT !.on = o]
      BY DEF e, o
    <2> QED
      BY <2>2, <2>3 DEF e, o
  <1>2. x = [s EXCEPT !.attrib = a]
    BY DEF Off
  <1> HIDE DEF f
  <1>3. a \in [Attribs -> T] /\ \A i \in Attribs : a[i] = f(i)
    BY <1>1
  <1> HIDE DEF a
  <1>4. /\ x.array = s.array /\ x.element = s.element /\ x.attrib = a
        /\ x \in [array : Arrays, element : Elements, attrib : [Attribs -> T]]
    BY <1>2, <1>3
  <1> QED
    BY <1>1, <1>3, <1>4

LEMMA CopyOff ==
  ASSUME NEW m \in Copies, NEW off, NEW x, x = Off(m, off)
  PROVE  /\ x \in Copies /\ x.array = m.array /\ x.element = m.element
         /\ \A i \in Attribs :
              /\ x.attrib[i] \in Attrib(Arrays)
              /\ x.attrib[i].on <=> m.attrib[i].on /\ i \notin off
              /\ x.attrib[i].buffer = m.attrib[i].buffer
              /\ x.attrib[i].offset = m.attrib[i].offset
  BY OffGives DEF Copies

LEMMA DriverOff ==
  ASSUME NEW d \in Drivers, NEW off, NEW x, x = Off(d, off)
  PROVE  /\ x \in Drivers /\ x.array = d.array /\ x.element = d.element
         /\ \A i \in Attribs :
              /\ x.attrib[i] \in Attrib(Bindable)
              /\ x.attrib[i].on <=> d.attrib[i].on /\ i \notin off
              /\ x.attrib[i].buffer = d.attrib[i].buffer
              /\ x.attrib[i].offset = d.attrib[i].offset
  BY OffGives DEF Drivers

LEMMA OffAgrees ==
  ASSUME NEW m \in Copies, NEW d \in Drivers, NEW off, Agree(m, d)
  PROVE  Agree(Off(m, off), Off(d, off))
  <1> DEFINE x == Off(m, off)
             y == Off(d, off)
  <1>1. /\ x.array = m.array /\ x.element = m.element
        /\ \A i \in Attribs :
             /\ x.attrib[i] \in Attrib(Arrays)
             /\ x.attrib[i].on <=> m.attrib[i].on /\ i \notin off
             /\ x.attrib[i].buffer = m.attrib[i].buffer
             /\ x.attrib[i].offset = m.attrib[i].offset
    BY CopyOff
  <1>2. /\ y.array = d.array /\ y.element = d.element
        /\ \A i \in Attribs :
             /\ y.attrib[i] \in Attrib(Bindable)
             /\ y.attrib[i].on <=> d.attrib[i].on /\ i \notin off
             /\ y.attrib[i].buffer = d.attrib[i].buffer
             /\ y.attrib[i].offset = d.attrib[i].offset
    BY DriverOff
  <1> HIDE DEF x, y
  <1>3. HudAttrib \in Attribs
    BY DrawAssumption DEF DrawAssumption
  <1>4. x.array = y.array /\ x.element = y.element
    BY <1>1, <1>2 DEF Agree
  <1>8. ASSUME NEW i \in Attribs \ {HudAttrib}
        PROVE  x.attrib[i] = y.attrib[i]
    <2>1. m.attrib[i] = d.attrib[i]
      BY DEF Agree
    <2>3. x.attrib[i].on \in BOOLEAN /\ y.attrib[i].on \in BOOLEAN
      BY <1>1, <1>2 DEF Attrib
    <2>4. x.attrib[i].on <=> y.attrib[i].on
      BY <1>1, <1>2, <2>1
    <2>5. x.attrib[i].on = y.attrib[i].on
      BY <2>3, <2>4
    <2>2. /\ x.attrib[i].buffer = y.attrib[i].buffer
          /\ x.attrib[i].offset = y.attrib[i].offset
      BY <1>1, <1>2, <2>1
    <2> QED
      <3>1. x.attrib[i] \in Attrib(Arrays) /\ y.attrib[i] \in Attrib(Bindable)
        BY <1>1, <1>2
      <3> QED
        BY ONLY <2>2, <2>5, <3>1 DEF Attrib
  <1>5. y.attrib[HudAttrib].on => x.attrib[HudAttrib].on
    BY <1>1, <1>2, <1>3 DEF Agree
  <1>6. \/ y.attrib[HudAttrib].buffer = HudBuffer
        \/ SameAttrib(x.attrib[HudAttrib], y.attrib[HudAttrib])
    BY <1>1, <1>2, <1>3 DEF Agree, SameAttrib
  <1>7. Agree(x, y)
    BY <1>4, <1>5, <1>6, <1>8 DEF Agree
  <1> QED
    BY <1>7 DEF x, y

LEMMA GuardAgrees ==
  ASSUME BindingTypes, CopiesAgree, NEW t \in Threads, NEW n, NEW width,
         NEW offset, GuardDraw(t, n, width, offset)
  PROVE  BindingTypes' /\ CopiesAgree'
  <1> DEFINE current == bound[t] \/ Ready(t)
  <1>1. PICK off :
          /\ mine' = [mine EXCEPT ![t] = Off(@, off)]
          /\ real' = IF current THEN [real EXCEPT ![Context(t)] = Off(@, off)]
                                ELSE real
          /\ told' = [u \in Threads |-> told[u] /\ (off = {} \/ (u = t /\ current)
                                                     \/ (u # t /\ ~single))]
          /\ Enter(t) /\ single' = single /\ owner' = owner
    BY Zenon DEF GuardDraw
  <1> HIDE DEF current
  <1> DEFINE m == Off(mine[t], off)
             d == Off(real[Context(t)], off)
  <1>0. /\ single \in BOOLEAN /\ Context(t) \in Contexts /\ Contexts' = Contexts
        /\ \A u \in Threads : Context(u)' = Context(u)
        /\ mine[t] \in Copies /\ real[Context(t)] \in Drivers
    BY <1>1, ContextsAre DEF BindingTypes, Contexts, Context
  <1>2. /\ mine' = [mine EXCEPT ![t] = m]
        /\ real' = IF current THEN [real EXCEPT ![Context(t)] = d] ELSE real
    BY <1>1
  <1>3. m \in Copies /\ d \in Drivers
    BY <1>0, CopyOff, DriverOff
  <1>4. off = {} => m = mine[t] /\ d = real[Context(t)]
    <2>1. ASSUME NEW s, s \in Copies \/ s \in Drivers
          PROVE  Off(s, {}) = s
      <3>1. PICK B : s \in State(B)
        BY <2>1 DEF Copies, Drivers
      <3>2. DEFINE x == Off(s, {})
      <3>3. /\ x \in State(B) /\ x.array = s.array /\ x.element = s.element
            /\ \A i \in Attribs :
                 /\ x.attrib[i] \in Attrib(B)
                 /\ x.attrib[i].on <=> s.attrib[i].on /\ i \notin {}
                 /\ x.attrib[i].buffer = s.attrib[i].buffer
                 /\ x.attrib[i].offset = s.attrib[i].offset
        BY <3>1, OffGives
      <3> HIDE DEF x
      <3>4. ASSUME NEW i \in Attribs PROVE x.attrib[i] = s.attrib[i]
        <4>1. x.attrib[i] \in Attrib(B) /\ s.attrib[i] \in Attrib(B)
          BY <3>1, <3>3 DEF State
        <4>2. x.attrib[i].on <=> s.attrib[i].on
          BY <3>3
        <4>3. x.attrib[i].on = s.attrib[i].on
          BY <4>1, <4>2 DEF Attrib
        <4> QED
          BY <3>3, <4>1, <4>3 DEF Attrib
      <3>5. x.attrib = s.attrib
        BY <3>1, <3>3, <3>4 DEF State
      <3>6. x = s
        BY <3>1, <3>3, <3>5 DEF State
      <3> QED
        BY <3>6 DEF x
    <2> QED
      BY <1>0, <2>1
  <1>5. Agree(mine[t], real[Context(t)]) => Agree(m, d)
    BY <1>0, OffAgrees
  <1> HIDE DEF m, d
  <1>6. BindingTypes'
    <2>1. bound' \in [Threads -> BOOLEAN]
      <3>1. (bound[t] \/ Ready(t)) \in BOOLEAN
        OBVIOUS
      <3> QED
        BY <1>1, <3>1 DEF BindingTypes, Enter
    <2>2. told' \in [Threads -> BOOLEAN]
      BY <1>1
    <2>3. mine' \in [Threads -> Copies] /\ real' \in [Contexts' -> Drivers]
      BY <1>0, <1>2, <1>3 DEF BindingTypes
    <2> QED
      BY <1>1, <2>1, <2>2, <2>3 DEF BindingTypes
  <1>7. CopiesAgree'
    <2> SUFFICES ASSUME NEW u \in Threads, told'[u]
                 PROVE  Agree(mine'[u], real'[Context(u)])
      BY <1>0 DEF CopiesAgree, Agree
    <2>1. /\ told[u] /\ (off = {} \/ (u = t /\ current) \/ (u # t /\ ~single))
          /\ Agree(mine[u], real[Context(u)]) /\ Context(u) \in Contexts
      BY <1>0, <1>1, AgreeIs, ContextsAre
    <2>2. CASE off = {}
      BY <1>0, <1>2, <1>4, <2>1, <2>2 DEF BindingTypes
    <2>3. CASE u = t /\ current
      BY <1>0, <1>2, <1>5, <2>1, <2>3 DEF BindingTypes
    <2>4. CASE u # t /\ ~single
      <3>1. Context(u) # Context(t)
        BY <1>0, <2>4, ContextsAre
      <3> QED
        BY <1>0, <1>2, <2>1, <2>4, <3>1 DEF BindingTypes
    <2> QED
      BY <2>1, <2>2, <2>3, <2>4
  <1> QED
    BY <1>6, <1>7

LEMMA SwapAgrees ==
  ASSUME BindingTypes, CopiesAgree, NEW t \in Threads, Swap(t)
  PROVE  BindingTypes' /\ CopiesAgree'
  <1> DEFINE d == real[Context(t)]
             x == OverlayRestores(OverlayDraws(d), d)
             off == [on |-> FALSE, buffer |-> HudBuffer, offset |-> 0]
             y == [d EXCEPT !.attrib = [@ EXCEPT ![HudAttrib] = off]]
  <1>0. /\ single \in BOOLEAN /\ Context(t) \in Contexts /\ Contexts' = Contexts
        /\ \A u \in Threads : Context(u)' = Context(u)
        /\ d \in Drivers
    BY ContextsAre DEF BindingTypes, Contexts, Context, Swap
  <1>1. real' = real \/ real' = [real EXCEPT ![Context(t)] = x]
    BY DEF Swap
  <1>2. HudAttrib \in Attribs
    BY DrawAssumption DEF DrawAssumption
  <1>3. x = y
    BY <1>0 DEF OverlayRestores, OverlayDraws, Drivers, State
  <1>4. off \in Attrib(Bindable) /\ off.on = FALSE /\ off.buffer = HudBuffer
    BY DEF Attrib, Bindable
  <1> HIDE DEF d, off
  <1>5. /\ y \in Drivers /\ y.array = d.array /\ y.element = d.element
        /\ y.attrib[HudAttrib] = off
        /\ \A i \in Attribs \ {HudAttrib} : y.attrib[i] = d.attrib[i]
    <2>1. d \in State(Bindable) /\ off \in Attrib(Bindable)
      BY <1>0, <1>4 DEF Drivers
    <2>2. y = SetAttrib(d, HudAttrib, off)
      BY DEF SetAttrib
    <2> HIDE DEF x, y
    <2> QED
      BY ONLY <1>2, <2>1, <2>2, AttribSet DEF Drivers
  <1> HIDE DEF x, y
  <1>6. BindingTypes'
    <2>1. bound' \in [Threads -> BOOLEAN]
      BY ReadyIs DEF Swap, BindingTypes
    <2>2. real' \in [Contexts' -> Drivers]
      BY <1>0, <1>1, <1>3, <1>5 DEF BindingTypes
    <2> QED
      BY <2>1, <2>2 DEF BindingTypes, Swap
  <1>7. CopiesAgree'
    <2> SUFFICES ASSUME NEW u \in Threads, told'[u]
                 PROVE  Agree(mine'[u], real'[Context(u)])
      BY <1>0 DEF CopiesAgree, Agree
    <2>1. Agree(mine[u], real[Context(u)]) /\ mine' = mine
          /\ Context(u) \in Contexts
      BY <1>0, AgreeIs, ContextsAre DEF Swap
    <2>2. CASE real'[Context(u)] = real[Context(u)]
      BY <2>1, <2>2
    <2>3. CASE real'[Context(u)] # real[Context(u)]
      <3>1. Context(u) = Context(t) /\ real'[Context(u)] = y
        BY <1>0, <1>1, <1>3, <2>1, <2>3 DEF BindingTypes
      <3>2. Agree(mine[u], y)
        BY <1>2, <1>4, <1>5, <2>1, <3>1 DEF Agree, d
      <3> QED
        BY <2>1, <3>1, <3>2
    <2> QED
      BY <2>2, <2>3
  <1> QED
    BY <1>6, <1>7

LEMMA DataAgrees ==
  ASSUME BindingTypes, CopiesAgree, NEW t \in Threads,
         \/ MakeCurrent(t) \/ Release(t)
         \/ \E s \in Sizes : ArrayData(t, s)
         \/ \E l \in IndexLists, given \in BOOLEAN : ElementData(t, l, given)
  PROVE  BindingTypes' /\ CopiesAgree'
  <1>1. /\ UNCHANGED <<single, mine, real, told>>
        /\ owner' \in Threads
    BY DEF MakeCurrent, Release, ArrayData, ElementData, BindingTypes
  <1>2. bound' \in [Threads -> BOOLEAN]
    <2>1. \E b \in BOOLEAN : bound' = [bound EXCEPT ![t] = b]
      BY ReadyIs DEF MakeCurrent, Release, ArrayData, ElementData, Enter,
                     BindingTypes
    <2> QED
      BY <2>1 DEF BindingTypes
  <1> QED
    BY <1>1, <1>2 DEF BindingTypes, CopiesAgree, Contexts, Context

LEMMA BindingsHold ==
  BindingTypes /\ CopiesAgree /\ [Next]_vars => BindingTypes' /\ CopiesAgree'
  <1> SUFFICES ASSUME BindingTypes, CopiesAgree, [Next]_vars
               PROVE  BindingTypes' /\ CopiesAgree'
    OBVIOUS
  <1>0. CASE UNCHANGED vars
    BY <1>0 DEF vars, BindingTypes, CopiesAgree, Contexts, Context
  <1>1. ASSUME NEW t \in Threads,
               \/ \E b \in VertexBuffers \cup {NoBuffer} : BindArray(t, b)
               \/ \E b \in IndexBuffers \cup {NoBuffer} : BindElement(t, b)
               \/ \E i \in Attribs : EnableVertexAttribArray(t, i)
               \/ \E i \in Attribs, o \in Offsets : VertexAttribPointer(t, i, o)
        PROVE  BindingTypes' /\ CopiesAgree'
    BY <1>1, BindArrayAgrees, BindElementAgrees, EnableAgrees, PointerAgrees
       DEF Arrays, Elements
  <1>2. ASSUME NEW t \in Threads,
               \/ \E n \in Counts : DrawElements(t, n, 1, 0)
               \/ \E n \in Vertices : DrawArrays(t, n)
        PROVE  BindingTypes' /\ CopiesAgree'
    BY <1>2, GuardAgrees DEF DrawElements, DrawArrays
  <1> QED
    BY <1>0, <1>1, <1>2, DeleteAgrees, SwapAgrees, DataAgrees, Zenon DEF Next

-----------------------------------------------------------------------------
(* What the thunks know of the data.                                       *)
LEMMA LeastNat ==
  ASSUME NEW S, S \subseteq Nat, S # {}
  PROVE  \E i \in S : \A j \in S : i <= j
  <1>1. PICK x \in S : \A y \in S : ~(<<y, x>> \in OpToRel(<, Nat))
    BY WFMin, NatLessThanWellFounded
  <1>2. \A y \in S : ~(y < x)
    BY <1>1 DEF OpToRel
  <1> QED
    BY <1>2

(* The largest of a range of indices is a number: the range has a maximum  *)
(* because each of its beginnings has one.                                 *)
LEMMA LargestIsNat ==
  ASSUME NEW data \in Seq(Nat), NEW n \in Nat, n <= Len(data)
  PROVE  Largest(data, 0, 1, n) \in Nat
  <1> DEFINE At(k) == IndexAt(data, 0, 1, k)
             First(i) == {0} \cup {At(k) : k \in 0 .. i - 1}
             Tops(i) == \E x \in First(i) : \A y \in First(i) : x >= y
             Bad == {i \in 0 .. n : ~Tops(i)}
  <1>1. ASSUME NEW k \in 0 .. n - 1 PROVE At(k) \in Nat
    BY DEF IndexAt
  <1>2. ASSUME NEW i \in 0 .. n PROVE First(i) \subseteq Nat
    <2>1. \A k \in 0 .. i - 1 : k \in 0 .. n - 1
      OBVIOUS
    <2> QED
      BY <1>1, <2>1
  <1>3. Bad = {}
    <2> HIDE DEF Tops
    <2> SUFFICES ASSUME Bad # {} PROVE FALSE
      OBVIOUS
    <2>0. Bad \subseteq Nat
      OBVIOUS
    <2> HIDE DEF Bad
    <2>1. PICK i \in Bad : \A j \in Bad : i <= j
      BY <2>0, LeastNat
    <2>a. i \in 0 .. n /\ ~Tops(i)
      BY <2>1 DEF Bad
    <2>2. i # 0
      <3>1. First(0) = {0}
        OBVIOUS
      <3>2. Tops(0)
        BY <3>1 DEF Tops
      <3> QED
        BY <2>a, <3>2
    <2>3. i - 1 \in 0 .. n /\ i \in 1 .. n
      BY <2>a, <2>2
    <2>4. i - 1 \notin Bad
      BY <2>1, <2>3
    <2>b. Tops(i - 1)
      BY <2>3, <2>4 DEF Bad
    <2>5. PICK x \in First(i - 1) : \A y \in First(i - 1) : x >= y
      BY <2>b DEF Tops
    <2>6. First(i) = First(i - 1) \cup {At(i - 1)}
      <3>1. 0 .. i - 1 = 0 .. (i - 1) - 1 \cup {i - 1}
        BY <2>3
      <3> QED
        BY <3>1
    <2>7. x \in Nat /\ At(i - 1) \in Nat /\ First(i - 1) \subseteq Nat
      BY <1>1, <1>2, <2>3, <2>5
    <2> HIDE DEF First, At
    <2>8. CASE x >= At(i - 1)
      <3>1. \A y \in First(i) : x >= y
        BY <2>5, <2>6, <2>8
      <3> QED
        BY <2>a, <2>5, <2>6, <3>1 DEF Tops
    <2>9. CASE At(i - 1) > x
      <3>1. \A y \in First(i) : At(i - 1) >= y
        BY <2>5, <2>6, <2>7, <2>9
      <3> QED
        BY <2>a, <2>6, <3>1 DEF Tops
    <2> QED
      BY <2>7, <2>8, <2>9
  <1>4. Tops(n)
    <2>1. n \in 0 .. n
      OBVIOUS
    <2> HIDE DEF Tops
    <2> QED
      BY <1>3, <2>1
  <1>5. Largest(data, 0, 1, n) = Max(First(n))
    BY DEF Largest
  <1> HIDE DEF First
  <1>6. Max(First(n)) \in First(n)
    BY <1>4 DEF Max
  <1> QED
    BY <1>2, <1>5, <1>6

LEMMA BuffersAre ==
  /\ VertexBuffers \cap IndexBuffers = {}
  /\ NoBuffer \notin Buffers
  /\ Buffers = VertexBuffers \cup IndexBuffers
  BY DrawAssumption DEF DrawAssumption, Buffers

LEMMA ArrayDataKnown ==
  ASSUME TypeOK, Known, NEW t \in Threads, NEW size \in Sizes,
         ArrayData(t, size)
  PROVE  DataTypes' /\ Known'
  <1> DEFINE b == mine[t].array
             c == real[Context(t)].array
  <1>1. b \in Arrays /\ c \in Arrays /\ size \in Nat
    BY ContextsAre, DrawAssumption
       DEF TypeOK, BindingTypes, Copies, Drivers, State, DrawAssumption
  <1>2. /\ bytes' = IF b \in VertexBuffers THEN [bytes EXCEPT ![b] = size]
                    ELSE bytes
        /\ store' = IF c \in VertexBuffers THEN [store EXCEPT ![c] = size]
                    ELSE store
        /\ outdated' = IF b = c THEN outdated \ {b}
                       ELSE outdated \cup ({b, c} \cap Buffers)
        /\ indices' = indices
    BY DEF ArrayData
  <1> HIDE DEF b, c
  <1>3. DataTypes'
    <2>1. bytes' \in [VertexBuffers -> Nat]
      BY <1>1, <1>2 DEF TypeOK, DataTypes
    <2>2. store' = [x \in Buffers |-> store'[x]]
      BY <1>1, <1>2, BuffersAre DEF TypeOK, DataTypes
    <2>3. /\ \A x \in VertexBuffers : store'[x] \in Nat
          /\ \A x \in IndexBuffers : store'[x] \in Seq(Nat)
      BY <1>1, <1>2, BuffersAre DEF TypeOK, DataTypes
    <2>4. outdated' \subseteq Buffers
      BY <1>2 DEF TypeOK, DataTypes
    <2> QED
      BY <1>2, <2>1, <2>2, <2>3, <2>4 DEF TypeOK, DataTypes
  <1>4. SizesKnown'
    BY <1>1, <1>2, BuffersAre DEF TypeOK, DataTypes, Known, SizesKnown
  <1>5. IndicesKnown'
    <2>1. \A e \in IndexBuffers : store'[e] = store[e]
      BY <1>1, <1>2, BuffersAre DEF TypeOK, DataTypes
    <2>2. \A e \in IndexBuffers : e \notin outdated' => e \notin outdated
      BY <1>1, <1>2, BuffersAre DEF Arrays
    <2> QED
      BY <1>2, <2>1, <2>2 DEF Known, IndicesKnown
  <1>6. AnswersRight'
    BY <1>2 DEF Known, AnswersRight
  <1> QED
    BY <1>3, <1>4, <1>5, <1>6 DEF Known

LEMMA ElementDataKnown ==
  ASSUME TypeOK, Known, NEW t \in Threads, NEW data \in IndexLists,
         NEW given \in BOOLEAN, ElementData(t, data, given)
  PROVE  DataTypes' /\ Known'
  <1> DEFINE b == mine[t].element
             c == real[Context(t)].element
             noted == IF given THEN data ELSE [i \in DOMAIN data |-> 0]
             held == IF given THEN data ELSE <<>>
             ib == [known |-> TRUE, data |-> noted, biggest |-> <<>>]
  <1>1. b \in Elements /\ c \in Elements /\ data \in Seq(Nat)
    BY ContextsAre, DrawAssumption
       DEF TypeOK, BindingTypes, Copies, Drivers, State, DrawAssumption
  <1>2. /\ indices' = IF b \in IndexBuffers THEN [indices EXCEPT ![b] = ib]
                      ELSE indices
        /\ store' = IF c \in IndexBuffers THEN [store EXCEPT ![c] = held]
                    ELSE store
        /\ outdated' = IF b = c /\ given THEN outdated \ {b}
                       ELSE outdated \cup ({b, c} \cap Buffers)
        /\ bytes' = bytes
    BY DEF ElementData
  <1>3. noted \in Seq(Nat) /\ held \in Seq(Nat) /\ (given => noted = held)
    BY <1>1
  <1>4. ib.known = TRUE /\ ib.data = noted /\ ib.biggest = <<>>
        /\ ib \in [known : BOOLEAN, data : Seq(Nat), biggest : {<<>>}]
    BY <1>3
  <1>5. DOMAIN ib.biggest = {}
    BY <1>4
  <1> HIDE DEF b, c, noted, held, ib
  <1>6. DataTypes'
    <2>1. indices' \in [IndexBuffers ->
                          [known : BOOLEAN, data : Seq(Nat),
                           biggest : {indices'[e].biggest : e \in IndexBuffers}]]
      <3>1. ASSUME NEW e \in IndexBuffers
            PROVE  indices'[e] \in [known : BOOLEAN, data : Seq(Nat),
                                    biggest : {indices'[e].biggest}]
        <4>1. CASE e = b
          BY <1>2, <1>4, <4>1 DEF TypeOK, DataTypes
        <4>2. CASE e # b
          BY <1>2, <4>2 DEF TypeOK, DataTypes
        <4> QED
          BY <4>1, <4>2
      <3>2. indices' = [e \in IndexBuffers |-> indices'[e]]
        BY <1>2 DEF TypeOK, DataTypes
      <3> QED
        BY <3>1, <3>2
    <2>2. store' = [x \in Buffers |-> store'[x]]
      BY <1>1, <1>2, BuffersAre DEF TypeOK, DataTypes
    <2>3. /\ \A x \in VertexBuffers : store'[x] \in Nat
          /\ \A x \in IndexBuffers : store'[x] \in Seq(Nat)
      BY <1>1, <1>2, <1>3, BuffersAre DEF TypeOK, DataTypes
    <2>4. outdated' \subseteq Buffers
      BY <1>2 DEF TypeOK, DataTypes
    <2> QED
      BY <1>2, <2>1, <2>2, <2>3, <2>4 DEF TypeOK, DataTypes
  <1>7. SizesKnown'
    <2>1. \A v \in VertexBuffers : store'[v] = store[v]
      BY <1>1, <1>2, BuffersAre DEF TypeOK, DataTypes
    <2>2. \A v \in VertexBuffers : v \notin outdated' => v \notin outdated
      BY <1>1, <1>2, BuffersAre DEF Elements
    <2> QED
      BY <1>2, <2>1, <2>2 DEF Known, SizesKnown
  <1>8. IndicesKnown'
    <2> SUFFICES ASSUME NEW e \in IndexBuffers, e \notin outdated'
                 PROVE  IF indices'[e].known THEN indices'[e].data = store'[e]
                        ELSE store'[e] = <<>>
      BY DEF IndicesKnown
    <2>1. CASE b = c /\ given /\ e = b
      BY <1>2, <1>3, <1>4, <2>1, BuffersAre DEF TypeOK, DataTypes
    <2>2. CASE ~(b = c /\ given /\ e = b)
      <3>1. e # b /\ e # c /\ e \notin outdated
        BY <1>2, <2>2, BuffersAre
      <3>2. indices'[e] = indices[e] /\ store'[e] = store[e]
        BY <1>1, <1>2, <3>1, BuffersAre DEF TypeOK, DataTypes
      <3> QED
        BY <3>1, <3>2 DEF Known, IndicesKnown
    <2> QED
      BY <2>1, <2>2
  <1>9. AnswersRight'
    <2> SUFFICES ASSUME NEW e \in IndexBuffers,
                        NEW r \in DOMAIN indices'[e].biggest
                 PROVE  indices'[e].biggest[r]
                          = Largest(indices'[e].data, r[1], r[2], r[3])
      BY DEF AnswersRight
    <2>1. e # b
      BY <1>2, <1>4, <1>5 DEF TypeOK, DataTypes
    <2>2. indices'[e] = indices[e]
      BY <1>2, <2>1 DEF TypeOK, DataTypes
    <2> QED
      BY <2>2 DEF Known, AnswersRight
  <1> QED
    BY <1>6, <1>7, <1>8, <1>9 DEF Known

LEMMA DeleteKnown ==
  ASSUME TypeOK, Known, NEW t \in Threads, NEW b \in Buffers,
         DeleteBuffers(t, b)
  PROVE  DataTypes' /\ Known'
  <1>1. /\ store' = [store EXCEPT ![b] = IF b \in VertexBuffers THEN 0 ELSE <<>>]
        /\ outdated' = outdated \cup {b} /\ UNCHANGED <<bytes, indices>>
    BY DEF DeleteBuffers
  <1>2. DataTypes'
    <2>1. store' = [x \in Buffers |-> store'[x]]
      BY <1>1, BuffersAre DEF TypeOK, DataTypes
    <2>2. \A x \in VertexBuffers : store'[x] \in Nat
      BY <1>1, BuffersAre DEF TypeOK, DataTypes
    <2>3. \A x \in IndexBuffers : store'[x] \in Seq(Nat)
      BY <1>1, BuffersAre DEF TypeOK, DataTypes
    <2> QED
      BY <1>1, <2>1, <2>2, <2>3 DEF TypeOK, DataTypes
  <1>3. \A x \in Buffers : x \notin outdated' =>
          x \notin outdated /\ store'[x] = store[x]
    BY <1>1 DEF TypeOK, DataTypes
  <1>4. SizesKnown' /\ IndicesKnown' /\ AnswersRight'
    BY <1>1, <1>3, BuffersAre DEF Known, SizesKnown, IndicesKnown, AnswersRight
  <1> QED
    BY <1>2, <1>4 DEF Known

(* The guard remembers an answer for the indices it has.                   *)
LEMMA RememberGives ==
  ASSUME NEW S,
         NEW ib \in [known : BOOLEAN, data : Seq(Nat), biggest : S],
         NEW range, NEW x, x = Remember(ib, range),
         \A r \in DOMAIN ib.biggest :
            ib.biggest[r] = Largest(ib.data, r[1], r[2], r[3])
  PROVE  /\ x \in [known : BOOLEAN, data : Seq(Nat), biggest : {x.biggest}]
         /\ x.known = ib.known /\ x.data = ib.data
         /\ \A r \in DOMAIN x.biggest :
              x.biggest[r] = Largest(x.data, r[1], r[2], r[3])
  <1> DEFINE a == [r \in DOMAIN ib.biggest \cup {range} |-> Biggest(ib, r)]
  <1>1. x = [ib EXCEPT !.biggest = a]
    BY DEF Remember
  <1>2. \A r \in DOMAIN a : a[r] = Largest(ib.data, r[1], r[2], r[3])
    BY DEF Biggest
  <1> HIDE DEF a
  <1>3. x.known = ib.known /\ x.data = ib.data /\ x.biggest = a
    BY <1>1
  <1>4. x \in [known : BOOLEAN, data : Seq(Nat), biggest : {x.biggest}]
    BY <1>1, <1>3
  <1> QED
    BY <1>2, <1>3, <1>4

LEMMA GuardKnown ==
  ASSUME TypeOK, Known, NEW t \in Threads, NEW n, NEW width, NEW offset,
         GuardDraw(t, n, width, offset)
  PROVE  DataTypes' /\ Known'
  <1> DEFINE e == mine[t].element
             x == Remember(indices[e], <<offset, width, n>>)
  <1>1. UNCHANGED <<bytes, store, outdated>>
    BY DEF GuardDraw
  <1>2. /\ e # NoBuffer /\ indices' = [indices EXCEPT ![e] = x]
        \/ indices' = indices
    BY DEF GuardDraw
  <1>3. e \in Elements
    BY DEF TypeOK, BindingTypes, Copies, State
  <1>4. CASE indices' = indices
    BY <1>1, <1>4 DEF TypeOK, DataTypes, Known, SizesKnown, IndicesKnown,
                      AnswersRight
  <1>5. CASE e # NoBuffer /\ indices' = [indices EXCEPT ![e] = x]
    <2>1. e \in IndexBuffers
      BY <1>3, <1>5 DEF Elements
    <2> HIDE DEF e
    <2>2. indices[e] \in [known : BOOLEAN, data : Seq(Nat),
                          biggest : {indices[i].biggest : i \in IndexBuffers}]
      BY <2>1 DEF TypeOK, DataTypes
    <2>3. \A r \in DOMAIN indices[e].biggest :
            indices[e].biggest[r] = Largest(indices[e].data, r[1], r[2], r[3])
      BY <2>1 DEF Known, AnswersRight
    <2>4. /\ x \in [known : BOOLEAN, data : Seq(Nat), biggest : {x.biggest}]
          /\ x.known = indices[e].known /\ x.data = indices[e].data
          /\ \A r \in DOMAIN x.biggest :
               x.biggest[r] = Largest(x.data, r[1], r[2], r[3])
      <3> DEFINE S == {indices[i].biggest : i \in IndexBuffers}
                 ib == indices[e]
                 range == <<offset, width, n>>
      <3>1. /\ ib \in [known : BOOLEAN, data : Seq(Nat), biggest : S]
            /\ x = Remember(ib, range)
            /\ \A r \in DOMAIN ib.biggest :
                 ib.biggest[r] = Largest(ib.data, r[1], r[2], r[3])
        BY <2>2, <2>3
      <3> HIDE DEF S, ib, range, x
      <3>2. /\ x \in [known : BOOLEAN, data : Seq(Nat), biggest : {x.biggest}]
            /\ x.known = ib.known /\ x.data = ib.data
            /\ \A r \in DOMAIN x.biggest :
                 x.biggest[r] = Largest(x.data, r[1], r[2], r[3])
        BY <3>1, RememberGives
      <3> QED
        BY <3>2 DEF ib
    <2> HIDE DEF x
    <2>5. /\ indices' = [i \in IndexBuffers |-> indices'[i]]
          /\ indices'[e] = x
          /\ \A i \in IndexBuffers \ {e} : indices'[i] = indices[i]
      BY <1>5, <2>1 DEF TypeOK, DataTypes
    <2>6. indices' \in [IndexBuffers ->
                          [known : BOOLEAN, data : Seq(Nat),
                           biggest : {indices'[i].biggest : i \in IndexBuffers}]]
      <3>1. ASSUME NEW i \in IndexBuffers
            PROVE  indices'[i] \in [known : BOOLEAN, data : Seq(Nat),
                                    biggest : {indices'[i].biggest}]
        <4>1. CASE i = e
          BY <2>4, <2>5, <4>1
        <4>2. CASE i # e
          BY <2>5, <4>2 DEF TypeOK, DataTypes
        <4> QED
          BY <4>1, <4>2
      <3> QED
        BY <2>5, <3>1
    <2>7. DataTypes'
      BY <1>1, <2>6 DEF TypeOK, DataTypes
    <2>8. SizesKnown' /\ IndicesKnown'
      BY <1>1, <2>4, <2>5 DEF Known, SizesKnown, IndicesKnown
    <2>9. AnswersRight'
      <3> SUFFICES ASSUME NEW i \in IndexBuffers, NEW r \in DOMAIN indices'[i].biggest
                   PROVE  indices'[i].biggest[r]
                            = Largest(indices'[i].data, r[1], r[2], r[3])
        BY DEF AnswersRight
      <3>1. CASE i = e
        BY <2>4, <2>5, <3>1
      <3>2. CASE i # e
        BY <2>5, <3>2 DEF Known, AnswersRight
      <3> QED
        BY <3>1, <3>2
    <2> QED
      BY <2>7, <2>8, <2>9 DEF Known
  <1> QED
    BY <1>2, <1>4, <1>5

LEMMA DataHold == TypeOK /\ Known /\ [Next]_vars => DataTypes' /\ Known'
  <1> SUFFICES ASSUME TypeOK, Known, [Next]_vars PROVE DataTypes' /\ Known'
    OBVIOUS
  <1>0. CASE UNCHANGED <<bytes, indices, store, outdated>>
    BY <1>0 DEF TypeOK, DataTypes, Known, SizesKnown, IndicesKnown, AnswersRight
  <1>1. CASE UNCHANGED vars
    BY <1>0, <1>1 DEF vars
  <1>2. ASSUME NEW t \in Threads,
               \/ MakeCurrent(t) \/ Release(t) \/ Swap(t)
               \/ \E b \in VertexBuffers \cup {NoBuffer} : BindArray(t, b)
               \/ \E b \in IndexBuffers \cup {NoBuffer} : BindElement(t, b)
               \/ \E i \in Attribs : EnableVertexAttribArray(t, i)
               \/ \E i \in Attribs, o \in Offsets : VertexAttribPointer(t, i, o)
        PROVE  DataTypes' /\ Known'
    BY <1>0, <1>2 DEF MakeCurrent, Release, Swap, BindArray, BindElement,
                      EnableVertexAttribArray, VertexAttribPointer, SetBoth
  <1>3. ASSUME NEW t \in Threads,
               \/ \E n \in Counts : DrawElements(t, n, 1, 0)
               \/ \E n \in Vertices : DrawArrays(t, n)
        PROVE  DataTypes' /\ Known'
    BY <1>3, GuardKnown DEF DrawElements, DrawArrays
  <1> QED
    BY <1>1, <1>2, <1>3, ArrayDataKnown, ElementDataKnown, DeleteKnown, Zenon
       DEF Next

LEMMA InitHolds == Init => IInv
  <1> SUFFICES ASSUME Init PROVE IInv
    OBVIOUS
  <1>1. Fresh \in Copies /\ Fresh \in Drivers
    BY DEF Fresh, Copies, Drivers, State, Attrib, Arrays, Elements, Bindable
  <1>2. BindingTypes
    <2>1. single \in BOOLEAN /\ owner \in Threads
      BY DEF Init
    <2>4. told \in [Threads -> BOOLEAN]
      BY DEF Init
    <2>2. bound \in [Threads -> BOOLEAN]
      BY DEF Init
    <2>3. mine \in [Threads -> Copies] /\ real \in [Contexts -> Drivers]
      BY <1>1 DEF Init
    <2> QED
      BY <2>1, <2>2, <2>3, <2>4 DEF BindingTypes
  <1>3. CopiesAgree
    <2>1. \A t \in Threads : mine[t] = Fresh /\ real[Context(t)] = Fresh
      BY <1>2, ContextsAre DEF Init, BindingTypes
    <2> QED
      BY <2>1 DEF CopiesAgree, SameAttrib
  <1>4. \A e \in IndexBuffers : /\ indices[e] = Unknown
                                /\ indices[e].known = FALSE
                                /\ indices[e].biggest = <<>>
    BY DEF Init, Unknown
  <1>5. DataTypes
    <2>1. Unknown \in [known : BOOLEAN, data : Seq(Nat), biggest : {<<>>}]
      BY DEF Unknown
    <2>2. indices \in [IndexBuffers ->
                         [known : BOOLEAN, data : Seq(Nat),
                          biggest : {indices[e].biggest : e \in IndexBuffers}]]
      BY <1>4, <2>1 DEF Init
    <2>3. /\ store = [b \in Buffers |-> store[b]]
          /\ \A b \in VertexBuffers : store[b] \in Nat
          /\ \A b \in IndexBuffers : store[b] \in Seq(Nat)
      BY BuffersAre DEF Init
    <2> QED
      BY <2>2, <2>3 DEF Init, DataTypes
  <1>6. Known
    <2>1. SizesKnown
      BY BuffersAre DEF SizesKnown, Init
    <2>2. IndicesKnown
      BY <1>4, BuffersAre DEF IndicesKnown, Init
    <2>3. AnswersRight
      BY <1>4 DEF AnswersRight
    <2> QED
      BY <2>1, <2>2, <2>3 DEF Known
  <1> QED
    BY <1>2, <1>3, <1>5, <1>6 DEF IInv, TypeOK

(* The invariant the three theorems follow from.                           *)
THEOREM Invariant == Spec => []IInv
  <1>1. Init => IInv
    BY InitHolds
  <1>2. IInv /\ [Next]_vars => IInv'
    BY BindingsHold, DataHold DEF IInv, TypeOK
  <1> QED
    BY <1>1, <1>2, PTL DEF Spec

(* CopiesAgree: as long as none of a thread's calls was dropped and nobody *)
(* else used its context, its copy of the bindings and attributes is what  *)
(* the driver has, but for the attribute the overlay borrows.              *)
THEOREM CopiesAgreeHolds == Spec => []CopiesAgree
  BY Invariant, PTL DEF IInv

-----------------------------------------------------------------------------
(* An honest draw: the guard finds the indices the driver has, and turns   *)
(* off what Beyond says of the largest of them.                            *)
LEMMA HonestDraw ==
  ASSUME IInv, NEW t \in Threads, NEW n \in Counts, DrawsHonestly(t, n),
         NEW e, e = real[Context(t)].element,
         NEW largest, largest = Largest(store[e], 0, 1, n)
  PROVE  /\ largest \in Nat
         /\ Agree(mine[t], real[Context(t)])
         /\ mine'[t] = Off(mine[t], Beyond(mine[t], largest))
         /\ real'[Context(t)]
              = Off(real[Context(t)], Beyond(mine[t], largest))
  <1> DEFINE m == mine[t]
  <1>1. /\ Ready(t) /\ told[t] /\ e \in IndexBuffers \ outdated
        /\ Fits(store[e], 0, 1, n) /\ DrawElements(t, n, 1, 0)
    BY DEF DrawsHonestly
  <1>2. Agree(m, real[Context(t)]) /\ m.element = e
    BY <1>1, AgreeIs DEF IInv, Agree
  <1>3. n \in Nat \ {0} /\ e # NoBuffer /\ store[e] \in Seq(Nat)
    BY <1>1, DrawAssumption
       DEF DrawAssumption, IInv, TypeOK, DataTypes
  <1>4. n <= Len(store[e])
    BY <1>1, <1>3 DEF Fits
  <1>5. indices[e].known /\ indices[e].data = store[e]
    <2>1. store[e] # <<>>
      BY <1>3, <1>4
    <2> QED
      BY <1>1, <2>1 DEF IInv, Known, IndicesKnown
  <1>6. largest \in Nat
    BY <1>3, <1>4, LargestIsNat
  <1>7. Biggest(indices[e], <<0, 1, n>>) = largest
    <2> DEFINE r == <<0, 1, n>>
    <2>1. r[1] = 0 /\ r[2] = 1 /\ r[3] = n
      OBVIOUS
    <2> HIDE DEF r
    <2>2. Largest(indices[e].data, r[1], r[2], r[3]) = largest
      BY <1>5, <2>1
    <2>3. r \in DOMAIN indices[e].biggest =>
            indices[e].biggest[r]
              = Largest(indices[e].data, r[1], r[2], r[3])
      BY <1>1 DEF IInv, Known, AnswersRight
    <2>4. Biggest(indices[e], r) = largest
      BY <2>2, <2>3 DEF Biggest
    <2> QED
      BY <2>4 DEF r
  <1> DEFINE off == Beyond(m, largest)
  <1>8. /\ mine' = [mine EXCEPT ![t] = Off(@, off)]
        /\ real' = [real EXCEPT ![Context(t)] = Off(@, off)]
    <2>1. GuardDraw(t, n, 1, 0)
      BY <1>1, <1>2, <1>3 DEF DrawElements
    <2>2. Fits(indices[e].data, 0, 1, n)
      BY <1>1, <1>5
    <2> QED
      BY <1>1, <1>2, <1>3, <1>5, <1>7, <2>1, <2>2 DEF GuardDraw
  <1>9. mine'[t] = Off(m, off) /\ real'[Context(t)] = Off(real[Context(t)], off)
    BY <1>8, ContextsAre DEF IInv, TypeOK, BindingTypes
  <1> QED
    BY <1>2, <1>6, <1>9

(* DrawsStayInside: however the arrays and buffers of earlier draws were   *)
(* left, a draw whose indices the thunks know reads no vertex buffer past  *)
(* the end of the data last uploaded to it.                                *)
THEOREM DrawsStayInsideHolds == Spec => DrawsStayInside
  <1> DEFINE Inside ==
        \A t \in Threads, n \in Counts : DrawsHonestly(t, n) =>
          LET r == real[Context(t)]
              largest == Largest(store[r.element], 0, 1, n)
          IN \A i \in Attribs :
               LET a == real'[Context(t)].attrib[i] IN
               a.on /\ a.buffer \in VertexBuffers \ outdated
                 => ReadsInside(a, largest)
  <1>1. IInv /\ [Next]_vars => [Inside]_vars
    <2> SUFFICES ASSUME IInv, NEW t \in Threads, NEW n \in Counts,
                        DrawsHonestly(t, n), NEW i \in Attribs,
                        NEW largest,
                        largest = Largest(store[real[Context(t)].element], 0, 1, n),
                        NEW a, a = real'[Context(t)].attrib[i],
                        a.on, a.buffer \in VertexBuffers \ outdated
                 PROVE  ReadsInside(a, largest)
      OBVIOUS
    <2> DEFINE m == mine[t]
               r == real[Context(t)]
               off == Beyond(m, largest)
    <2>1. /\ largest \in Nat /\ Agree(m, r)
          /\ real'[Context(t)] = Off(r, off)
      BY HonestDraw
    <2>2. m \in Copies /\ r \in Drivers
      BY ContextsAre DEF IInv, TypeOK, BindingTypes
    <2> HIDE DEF m, r
    <2>3. /\ r.attrib[i].on /\ i \notin off
          /\ a.buffer = r.attrib[i].buffer /\ a.offset = r.attrib[i].offset
      <3> DEFINE x == real'[Context(t)]
      <3>1. x = Off(r, off) /\ a = x.attrib[i]
        BY <2>1
      <3> HIDE DEF x, off
      <3>2. /\ x.attrib[i].on <=> r.attrib[i].on /\ i \notin off
            /\ x.attrib[i].buffer = r.attrib[i].buffer
            /\ x.attrib[i].offset = r.attrib[i].offset
        BY <2>2, <3>1, DriverOff
      <3> QED
        BY <3>1, <3>2
    <2>4. /\ m.attrib[i].on /\ m.attrib[i].buffer = a.buffer
          /\ m.attrib[i].offset = a.offset
      <3>1. CASE i # HudAttrib
        BY <2>1, <2>3, <3>1 DEF Agree
      <3>2. CASE i = HudAttrib
        <4>1. a.buffer # HudBuffer
          BY DrawAssumption DEF DrawAssumption
        <4> QED
          BY <2>1, <2>3, <3>2, <4>1 DEF Agree, SameAttrib
      <3> QED
        BY <3>1, <3>2
    <2>5. Bounded(m.attrib[i])
      BY <2>4, BuffersAre DEF Bounded
    <2>6. ~(a.offset + largest + 1 > bytes[a.buffer])
      BY <2>3, <2>4, <2>5 DEF Beyond
    <2>7. bytes[a.buffer] = store[a.buffer] /\ bytes[a.buffer] \in Nat
      BY DEF IInv, Known, SizesKnown, TypeOK, DataTypes
    <2>8. a.offset \in Nat
      BY <2>2, <2>4 DEF Copies, State, Attrib
    <2>9. a.offset + largest + 1 <= store[a.buffer]
      BY ONLY <2>1, <2>6, <2>7, <2>8
    <2> QED
      BY <2>9 DEF ReadsInside
  <1> QED
    BY <1>1, Invariant, PTL DEF Spec, DrawsStayInside

(* NothingCorrectIsLost: what the guard turns off for such a draw would    *)
(* have been read past its end.                                            *)
THEOREM NothingCorrectIsLostHolds == Spec => NothingCorrectIsLost
  <1> DEFINE Kept ==
        \A t \in Threads, n \in Counts : DrawsHonestly(t, n) =>
          LET largest == Largest(store[real[Context(t)].element], 0, 1, n) IN
          \A i \in Attribs :
            LET a == mine[t].attrib[i] IN
            a.on /\ ~mine'[t].attrib[i].on /\ a.buffer \notin outdated
              => ~ReadsInside(a, largest)
  <1>1. IInv /\ [Next]_vars => [Kept]_vars
    <2> SUFFICES ASSUME IInv, NEW t \in Threads, NEW n \in Counts,
                        DrawsHonestly(t, n), NEW i \in Attribs,
                        NEW largest,
                        largest = Largest(store[real[Context(t)].element], 0, 1, n),
                        NEW a, a = mine[t].attrib[i],
                        a.on, ~mine'[t].attrib[i].on, a.buffer \notin outdated
                 PROVE  ~ReadsInside(a, largest)
      OBVIOUS
    <2> DEFINE m == mine[t]
               off == Beyond(m, largest)
    <2>1. largest \in Nat /\ mine'[t] = Off(m, off)
      BY HonestDraw
    <2>2. m \in Copies
      BY DEF IInv, TypeOK, BindingTypes
    <2> HIDE DEF m
    <2>3. i \in off
      BY <2>1, <2>2, CopyOff DEF m
    <2>4. Bounded(a) /\ a.offset + largest + 1 > bytes[a.buffer]
      BY <2>3 DEF Beyond, m
    <2>5. a.buffer \in VertexBuffers /\ a.offset \in Nat
      BY <2>2, <2>4 DEF Copies, State, Attrib, Arrays, Bounded, m
    <2>6. bytes[a.buffer] = store[a.buffer] /\ bytes[a.buffer] \in Nat
      BY <2>5 DEF IInv, Known, SizesKnown, TypeOK, DataTypes
    <2> QED
      BY <2>1, <2>4, <2>5, <2>6 DEF ReadsInside
  <1> QED
    BY <1>1, Invariant, PTL DEF Spec, NothingCorrectIsLost
=============================================================================
