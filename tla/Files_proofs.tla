----------------------------- MODULE Files_proofs -----------------------------
(***************************************************************************)
(* Theorems about Files, for any threads, names, saves and crashes and any *)
(* number of files: what the guest holds leads to the file it opened       *)
(* (HandlesMatchTable), and a save that has its name outlives a crash      *)
(* (SaveSurvives).                                                         *)
(*                                                                         *)
(* The first needs to know of every slot who has it: a handle, a thread in *)
(* fopen, or nobody, and that an object on its way is no other's, as long  *)
(* as no two threads met at the bump pointer.  The second needs to know    *)
(* what each name of a save has in every stage of one.                     *)
(*                                                                         *)
(* At the end, about GuestStreams: an open file is a file with one offset  *)
(* (StreamsAreFiles), whatever it holds and is asked.                      *)
(***************************************************************************)
EXTENDS Files, GuestStreams, SequenceTheorems, FiniteSetTheorems,
        WellFoundedInduction, TLAPS

Given == [name : Names, tree : {"saved", "data"}, writing : BOOLEAN]
Entry == [file : Given \cup {Closed}, object : Nat]
Listing == [object : Nat \ {0}, slot : Nat]
Handle == [slot : Nat, object : Nat, file : Given]

Getting == {"object", "alloc", "given"}
Thunk == [at : Getting \cup {"idle", "add", "bytes", "rename"},
          file : Given \cup {Closed}, stdio : BOOLEAN,
          slot : Nat, object : Nat, from : Names, to : Names]

TableTypes ==
  /\ table \in Seq(Entry) /\ objects \in Seq(Listing) /\ held \subseteq Handle
  /\ next \in Nat /\ next <= Room
  /\ pc \in [Threads -> Thunk]
  /\ \A t \in Opening : pc[t].file \in Given

(* The threads that have a slot and no object for it yet.                  *)
Waiting == {t \in Threads : pc[t].at \in Getting}

(* A slot is that of one handle or of one thread in fopen, or it is lost.  *)
SlotsHaveOwners ==
  /\ \A t \in Waiting :
       /\ pc[t].slot \in Slots /\ table[pc[t].slot].file = pc[t].file
       /\ \A h \in held : h.slot # pc[t].slot
  /\ \A t, u \in Waiting : pc[t].slot = pc[u].slot => t = u
  /\ \A h \in held : h.slot \in Slots /\ table[h.slot].file = h.file
  /\ \A g, h \in held : g.slot = h.slot => g = h
  /\ \A i \in InUse :
       \/ \E h \in held : h.slot = i
       \/ \E t \in Waiting : pc[t].slot = i
       \/ next = Room /\ table[i].object = 0

(* The objects that are listed and the slots that know one lead to each    *)
(* other.                                                                  *)
Leads(object, slot) ==
  \E k \in 1 .. Len(objects) : objects[k].object = object /\ objects[k].slot = slot

ObjectsLead ==
  /\ \A k \in 1 .. Len(objects) :
       /\ objects[k].slot \in Slots /\ objects[k].object <= next
       /\ table[objects[k].slot].object = objects[k].object
  /\ \A j, k \in 1 .. Len(objects) : objects[j].object = objects[k].object => j = k
  /\ \A i \in Slots : table[i].object # 0 => Leads(table[i].object, i)
  /\ \A h \in held : h.object # 0 => Leads(h.object, h.slot)

(* An object on its way to its slot is one thread's and is not listed.     *)
ObjectsAreNew ==
  /\ \A t \in Threads : pc[t].at \in {"alloc", "bytes"} => pc[t].object < Room
  /\ \A t \in Threads : pc[t].at \in {"alloc", "given"} => table[pc[t].slot].object = 0
  /\ \A t \in Threads : pc[t].at = "given" =>
       /\ pc[t].object \in 1 .. next
       /\ \A k \in 1 .. Len(objects) : objects[k].object # pc[t].object
  /\ \A t, u \in Threads :
       pc[t].at = "given" /\ pc[u].at = "given" /\ pc[t].object = pc[u].object => t = u

TableInv == TableTypes /\ SlotsHaveOwners /\ ObjectsLead /\ ObjectsAreNew

(* Who has the file of a save open: one thread or handle, while it is being*)
(* written.  Nobody opens a save under its own name or the backup's.       *)
NewOpening == {t \in Opening : pc[t].file.name = New}
NewHeld == {h \in held : h.file.name = New}

SaveIsWritten ==
  /\ \A t \in Opening : pc[t].file.name \notin {Slot, Backup}
  /\ \A h \in held : h.file.name \notin {Slot, Backup}
  /\ \A t, u \in NewOpening : t = u
  /\ \A g, h \in NewHeld : g = h
  /\ NewOpening = {} \/ NewHeld = {}
  /\ stage # "writing" => NewOpening = {} /\ NewHeld = {}

(* One rename at a time, that of the stage, and its destination is free.   *)
SaveIsRenamed ==
  /\ \A t, u \in Threads : pc[t].at = "rename" /\ pc[u].at = "rename" => t = u
  /\ \A t \in Threads : pc[t].at = "rename" =>
       /\ saved[pc[t].to] = Absent
       /\ \/ stage = "written" /\ pc[t].from = Slot /\ pc[t].to = Backup
          \/ stage = "backed" /\ pc[t].from = New /\ pc[t].to = Slot

(* What the names of a save have.                                          *)
SaveIsWhole ==
  /\ saved \in [Names -> Int] /\ saves \in Nat /\ committed \in Nat
  /\ clobbered \in BOOLEAN
  /\ stage \in {"none", "writing", "written", "backed"}
  /\ stage \in {"written", "backed"} => saved[New] = saves /\ saves > 0
  /\ saved[Slot] \in {Absent, committed}
  /\ stage = "backed" => saved[Slot] = Absent \/ clobbered
  /\ committed > 0 /\ ~clobbered /\ saved[Slot] = Absent =>
       saved[Backup] >= committed

SaveInv == SaveIsWritten /\ SaveIsRenamed /\ SaveIsWhole

-----------------------------------------------------------------------------
(* Numbers, sequences and entries.                                         *)
LEMMA LeastNat ==
  ASSUME NEW S, S \subseteq Nat, S # {}
  PROVE  \E i \in S : \A j \in S : i <= j
  <1>1. PICK x \in S : \A y \in S : ~(<<y, x>> \in OpToRel(<, Nat))
    BY WFMin, NatLessThanWellFounded
  <1>2. \A y \in S : ~(y < x)
    BY <1>1 DEF OpToRel
  <1> QED
    BY <1>2

LEMMA ClosedIsNotGiven == Closed \notin Given
  BY DEF Closed, Given

LEMMA SlotsOf ==
  ASSUME table \in Seq(Entry)
  PROVE  Len(table) \in Nat /\ Slots \subseteq Nat
         /\ \A i \in Slots : table[i] \in Entry
  BY ElementOfSeq, LenProperties DEF Slots

(* Another file in a slot, or another object.                              *)
LEMMA NewFile ==
  ASSUME table \in Seq(Entry), NEW i \in Slots, NEW f \in Given \cup {Closed}
  PROVE  LET new == [table EXCEPT ![i].file = f] IN
         /\ new \in Seq(Entry) /\ Len(new) = Len(table)
         /\ new[i] = [file |-> f, object |-> table[i].object]
         /\ \A j \in Slots : j # i => new[j] = table[j]
  <1> DEFINE e == [table[i] EXCEPT !.file = f]
  <1>1. table[i] \in Entry
    BY SlotsOf
  <1>2. e \in Entry /\ e = [file |-> f, object |-> table[i].object]
    BY <1>1 DEF Entry
  <1>3. [table EXCEPT ![i].file = f] = [table EXCEPT ![i] = e]
    OBVIOUS
  <1> HIDE DEF e
  <1> QED
    BY <1>2, <1>3, ExceptSeq DEF Slots

LEMMA NewObject ==
  ASSUME table \in Seq(Entry), NEW i \in Slots, NEW obj \in Nat
  PROVE  LET new == [table EXCEPT ![i].object = obj] IN
         /\ new \in Seq(Entry) /\ Len(new) = Len(table)
         /\ new[i] = [file |-> table[i].file, object |-> obj]
         /\ \A j \in Slots : j # i => new[j] = table[j]
  <1> DEFINE e == [table[i] EXCEPT !.object = obj]
  <1>1. table[i] \in Entry
    BY SlotsOf
  <1>2. e \in Entry /\ e = [file |-> table[i].file, object |-> obj]
    BY <1>1 DEF Entry
  <1>3. [table EXCEPT ![i].object = obj] = [table EXCEPT ![i] = e]
    OBVIOUS
  <1> HIDE DEF e
  <1> QED
    BY <1>2, <1>3, ExceptSeq DEF Slots

(* add_file: the file is in a slot that was closed or is new, and nothing  *)
(* else has changed.                                                       *)
LEMMA add_fileGives ==
  ASSUME table \in Seq(Entry), NEW f \in Given
  PROVE  LET new == add_file(f) IN
         /\ new \in Seq(Entry) /\ Len(new) \in Nat
         /\ 1 .. Len(new) = Slots \cup {SlotOf}
         /\ new[SlotOf].file = f
         /\ \A j \in Slots : j # SlotOf => new[j] = table[j]
         /\ \/ /\ SlotOf \in Slots /\ table[SlotOf].file = Closed
               /\ new[SlotOf].object = table[SlotOf].object
            \/ SlotOf \notin Slots /\ new[SlotOf].object = 0
  <1>1. CASE Free = {}
    <2> DEFINE e == [file |-> f, object |-> 0]
    <2>1. e \in Entry
      BY DEF Entry
    <2>2. SlotOf = Len(table) + 1 /\ add_file(f) = Append(table, e)
      BY <1>1 DEF SlotOf, add_file
    <2>3. Len(table) \in Nat
      BY SlotsOf
    <2>4. 1 .. Len(table) + 1 = (1 .. Len(table)) \cup {Len(table) + 1}
      BY <2>3
    <2>5. Len(table) + 1 \notin 1 .. Len(table)
      BY <2>3
    <2>6. e.file = f /\ e.object = 0
      OBVIOUS
    <2> HIDE DEF e
    <2> QED
      BY <2>1, <2>2, <2>3, <2>4, <2>5, <2>6, AppendProperties DEF Slots
  <1>2. CASE Free # {}
    <2>1. Free \subseteq Nat /\ Free \subseteq Slots
      BY SlotsOf DEF Free
    <2>2. SlotOf \in Free
      BY <1>2, <2>1, LeastNat DEF SlotOf
    <2>3. SlotOf \in Slots /\ table[SlotOf].file = Closed
      BY <2>1, <2>2 DEF Free, InUse
    <2>4. add_file(f) = [table EXCEPT ![SlotOf].file = f]
      BY <1>2 DEF add_file
    <2>5. /\ add_file(f) \in Seq(Entry) /\ Len(add_file(f)) = Len(table)
          /\ add_file(f)[SlotOf] = [file |-> f, object |-> table[SlotOf].object]
          /\ \A j \in Slots : j # SlotOf => add_file(f)[j] = table[j]
      BY <2>3, <2>4, NewFile
    <2> HIDE DEF add_file, SlotOf
    <2> QED
      BY <2>3, <2>5, SlotsOf DEF Slots
  <1> QED
    BY <1>1, <1>2

-----------------------------------------------------------------------------
(* No handle and no thread in fopen has the slot of a file that is closed. *)
LEMMA OwnedIsOpen ==
  ASSUME TableInv, NEW i \in Slots, table[i].file = Closed
  PROVE  /\ \A h \in held : h.slot # i
         /\ \A t \in Waiting : pc[t].slot # i
  <1>1. \A h \in held : h.file # Closed
    BY ClosedIsNotGiven DEF TableInv, TableTypes, Handle
  <1>2. \A t \in Waiting : pc[t].file # Closed
    BY ClosedIsNotGiven DEF TableInv, TableTypes, Waiting, Getting, Opening
  <1> QED
    BY <1>1, <1>2 DEF TableInv, SlotsHaveOwners

LEMMA IdleIsTyped == Idle \in Thunk /\ Idle.at = "idle"
  BY FilesAssumption DEF FilesAssumption, Idle, Thunk

(* A thread goes on, or the region is given out up to next': the slots and *)
(* objects are whose they were.                                            *)
LEMMA PcTable ==
  ASSUME TableInv, UNCHANGED <<table, objects, held>>,
         NEW t \in Threads, NEW f \in Thunk, pc' = [pc EXCEPT ![t] = f],
         next' \in Nat, next <= next', next' <= Room,
         f.at = "add" => f.file \in Given,
         f.at \in Getting =>
           t \in Waiting /\ f.slot = pc[t].slot /\ f.file = pc[t].file,
         t \in Waiting /\ f.at \notin Getting =>
           next = Room /\ table[pc[t].slot].object = 0,
         f.at \in {"alloc", "bytes"} => f.object < Room,
         f.at \in {"alloc", "given"} => table[f.slot].object = 0,
         f.at = "given" => next < f.object /\ f.object <= next'
  PROVE  TableInv'
  <1>1. /\ pc' \in [Threads -> Thunk] /\ pc'[t] = f
        /\ \A u \in Threads \ {t} : pc'[u] = pc[u]
    BY DEF TableInv, TableTypes
  <1>2. Slots' = Slots /\ InUse' = InUse
    BY DEF Slots, InUse
  <1>3. \A u \in Waiting' :
          u \in Waiting /\ pc'[u].slot = pc[u].slot /\ pc'[u].file = pc[u].file
    BY <1>1 DEF Waiting
  <1>4. next \in Nat /\ Room \in Nat
    BY FilesAssumption DEF FilesAssumption, TableInv, TableTypes
  <1>5. TableTypes'
    <2>1. \A u \in Opening' : pc'[u].file \in Given
      <3> SUFFICES ASSUME NEW u \in Opening' PROVE pc'[u].file \in Given
        OBVIOUS
      <3>1. CASE u # t
        BY <1>1, <3>1 DEF Opening, TableInv, TableTypes
      <3>2. CASE u = t /\ f.at \in Getting
        BY <1>1, <3>2 DEF Opening, Waiting, Getting, TableInv, TableTypes
      <3>3. CASE u = t /\ f.at \notin Getting
        BY <1>1, <3>3 DEF Opening, Getting
      <3> QED
        BY <3>1, <3>2, <3>3
    <2> QED
      BY <1>1, <2>1 DEF TableInv, TableTypes
  <1>6. SlotsHaveOwners'
    <2>1. \A i \in InUse' :
            \/ \E h \in held' : h.slot = i
            \/ \E u \in Waiting' : pc'[u].slot = i
            \/ next' = Room /\ table'[i].object = 0
      <3> SUFFICES ASSUME NEW i \in InUse
                   PROVE  \/ \E h \in held : h.slot = i
                          \/ \E u \in Waiting' : pc'[u].slot = i
                          \/ next' = Room /\ table[i].object = 0
        BY <1>2
      <3>1. CASE next = Room
        <4>1. next' = Room
          BY <1>4, <3>1
        <4>2. \A u \in Waiting : u \in Waiting' \/ table[pc[u].slot].object = 0
          BY <1>1 DEF Waiting
        <4> QED
          BY <1>3, <4>1, <4>2 DEF TableInv, SlotsHaveOwners
      <3>2. CASE next # Room
        <4>1. \A u \in Waiting : u \in Waiting'
          BY <1>1, <3>2 DEF Waiting
        <4> QED
          BY <1>3, <3>2, <4>1 DEF TableInv, SlotsHaveOwners
      <3> QED
        BY <3>1, <3>2
    <2> QED
      BY <1>2, <1>3, <2>1 DEF TableInv, SlotsHaveOwners
  <1>7. ObjectsLead'
    <2>1. \A k \in 1 .. Len(objects) : objects[k].object <= next'
      <3> SUFFICES ASSUME NEW k \in 1 .. Len(objects) PROVE objects[k].object <= next'
        OBVIOUS
      <3>1. objects[k] \in Listing
        BY ElementOfSeq DEF TableInv, TableTypes
      <3>2. objects[k].object \in Nat /\ objects[k].object <= next
        BY <3>1 DEF Listing, TableInv, ObjectsLead
      <3> QED
        BY <1>4, <3>2
    <2> QED
      BY <1>2, <2>1 DEF TableInv, ObjectsLead, Leads
  <1>8. ObjectsAreNew'
    <2>1. \A u \in Threads : pc'[u].at \in {"alloc", "bytes"} => pc'[u].object < Room
      BY <1>1 DEF TableInv, ObjectsAreNew
    <2>2. \A u \in Threads :
            pc'[u].at \in {"alloc", "given"} => table'[pc'[u].slot].object = 0
      BY <1>1 DEF TableInv, ObjectsAreNew
    <2>3. ASSUME f.at = "given"
          PROVE  /\ f.object \in 1 .. next'
                 /\ \A k \in 1 .. Len(objects) : objects[k].object # f.object
                 /\ \A u \in Threads : pc[u].at = "given" => pc[u].object # f.object
      <3>1. f.object \in Nat /\ next < f.object /\ f.object <= next'
        BY <2>3 DEF Thunk
      <3>2. f.object \in 1 .. next'
        BY <1>4, <3>1
      <3>3. \A k \in 1 .. Len(objects) : objects[k].object # f.object
        BY <1>4, <3>1 DEF TableInv, ObjectsLead
      <3>4. \A u \in Threads : pc[u].at = "given" => pc[u].object # f.object
        BY <1>4, <3>1 DEF TableInv, ObjectsAreNew
      <3> QED
        BY <3>2, <3>3, <3>4
    <2>4. \A u \in Threads : pc[u].at = "given" => pc[u].object \in 1 .. next'
      BY <1>4 DEF TableInv, ObjectsAreNew
    <2>5. \A u \in Threads : pc'[u].at = "given" =>
            /\ pc'[u].object \in 1 .. next'
            /\ \A k \in 1 .. Len(objects) : objects[k].object # pc'[u].object
      BY <1>1, <2>3, <2>4 DEF TableInv, ObjectsAreNew
    <2>6. \A u, v \in Threads :
            pc'[u].at = "given" /\ pc'[v].at = "given" /\ pc'[u].object = pc'[v].object
            => u = v
      BY <1>1, <2>3 DEF TableInv, ObjectsAreNew
    <2> QED
      BY <2>1, <2>2, <2>5, <2>6 DEF ObjectsAreNew
  <1> QED
    BY <1>5, <1>6, <1>7, <1>8 DEF TableInv

LEMMA AddFileTable ==
  ASSUME TableInv, NEW t \in Threads, AddFile(t)
  PROVE  TableInv'
  <1> DEFINE f == pc[t].file
             s == SlotOf
  <1>1. f \in Given /\ pc[t] \in Thunk /\ pc[t].at = "add"
    BY DEF AddFile, TableInv, TableTypes, Opening
  <1>2. /\ table' \in Seq(Entry) /\ Len(table') \in Nat
        /\ Slots' = Slots \cup {s}
        /\ table'[s].file = f
        /\ \A j \in Slots : j # s => table'[j] = table[j]
        /\ \/ /\ s \in Slots /\ table[s].file = Closed
              /\ table'[s].object = table[s].object
           \/ s \notin Slots /\ table'[s].object = 0
    <2>1. table' = add_file(f)
      BY DEF AddFile
    <2>2. table \in Seq(Entry)
      BY DEF TableInv, TableTypes
    <2> QED
      BY <1>1, <2>1, <2>2, add_fileGives DEF Slots
  <1>3. /\ \A h \in held : h.slot # s /\ h.slot \in Slots
        /\ \A u \in Waiting : pc[u].slot # s /\ pc[u].slot \in Slots
    BY <1>2, OwnedIsOpen DEF TableInv, SlotsHaveOwners
  <1>4. s \in Nat /\ t \notin Waiting
    BY <1>1, <1>2 DEF Slots, Waiting, Getting
  <1> HIDE DEF f, s
  <1>5. objects' = objects /\ next' = next
    BY DEF AddFile, region
  <1>6. InUse' = InUse \cup {s}
    BY <1>1, <1>2, ClosedIsNotGiven DEF InUse
  <1> DEFINE g == IF pc[t].stdio THEN [pc[t] EXCEPT !.at = "object", !.slot = s]
                  ELSE Idle
             new == [slot |-> s, object |-> 0, file |-> f]
  <1>7. /\ pc' = [pc EXCEPT ![t] = g]
        /\ held' = IF pc[t].stdio THEN held ELSE held \cup {new}
    BY DEF AddFile, f, s
  <1>8. /\ new \in Handle /\ new.slot = s /\ new.object = 0 /\ new.file = f
        /\ g \in Thunk
        /\ IF pc[t].stdio THEN g.at = "object" /\ g.slot = s /\ g.file = f
           ELSE g.at = "idle"
    BY <1>1, <1>4, IdleIsTyped DEF Handle, Thunk, Getting, f
  <1> HIDE DEF new, g
  <1>9. /\ pc' \in [Threads -> Thunk] /\ pc'[t] = g
        /\ \A u \in Threads \ {t} : pc'[u] = pc[u]
    BY <1>7, <1>8 DEF TableInv, TableTypes
  <1>10. Waiting' = IF pc[t].stdio THEN Waiting \cup {t} ELSE Waiting
    BY <1>4, <1>8, <1>9 DEF Waiting, Getting
  <1>11. TableTypes'
    BY <1>1, <1>2, <1>5, <1>7, <1>8, <1>9
       DEF TableInv, TableTypes, Opening, Getting
  <1>12. SlotsHaveOwners'
    <2>1. \A u \in Waiting' :
            /\ pc'[u].slot \in Slots' /\ table'[pc'[u].slot].file = pc'[u].file
            /\ \A h \in held' : h.slot # pc'[u].slot
      <3>1. ASSUME NEW u \in Waiting
            PROVE  /\ pc'[u].slot \in Slots' /\ table'[pc'[u].slot].file = pc'[u].file
                   /\ \A h \in held' : h.slot # pc'[u].slot
        <4>1. u \in Threads \ {t}
          BY <1>4, <3>1 DEF Waiting
        <4> QED
          BY <1>2, <1>3, <1>7, <1>8, <1>9, <3>1, <4>1 DEF TableInv, SlotsHaveOwners
      <3>2. pc[t].stdio =>
              /\ pc'[t].slot \in Slots' /\ table'[pc'[t].slot].file = pc'[t].file
              /\ \A h \in held' : h.slot # pc'[t].slot
        BY <1>2, <1>3, <1>7, <1>8, <1>9
      <3> QED
        BY <1>10, <3>1, <3>2
    <2>2. \A u, v \in Waiting' : pc'[u].slot = pc'[v].slot => u = v
      <3>1. \A u \in Waiting : pc'[u] = pc[u]
        BY <1>4, <1>9 DEF Waiting
      <3>2. pc[t].stdio => pc'[t].slot = s
        BY <1>8, <1>9
      <3> QED
        BY <1>3, <1>10, <3>1, <3>2 DEF TableInv, SlotsHaveOwners
    <2>3. \A h \in held' : h.slot \in Slots' /\ table'[h.slot].file = h.file
      BY <1>2, <1>3, <1>7, <1>8 DEF TableInv, SlotsHaveOwners
    <2>4. \A g1, h \in held' : g1.slot = h.slot => g1 = h
      BY <1>3, <1>7, <1>8 DEF TableInv, SlotsHaveOwners
    <2>5. \A i \in InUse' :
            \/ \E h \in held' : h.slot = i
            \/ \E u \in Waiting' : pc'[u].slot = i
            \/ next' = Room /\ table'[i].object = 0
      <3>1. \/ \E h \in held' : h.slot = s
            \/ \E u \in Waiting' : pc'[u].slot = s
        BY <1>7, <1>8, <1>9, <1>10
      <3>2. ASSUME NEW i \in InUse, i # s
            PROVE  \/ \E h \in held' : h.slot = i
                   \/ \E u \in Waiting' : pc'[u].slot = i
                   \/ next' = Room /\ table'[i].object = 0
        <4>1. table'[i] = table[i]
          BY <1>2, <3>2 DEF InUse
        <4>2. \A u \in Waiting : u \in Waiting' /\ pc'[u].slot = pc[u].slot
          BY <1>4, <1>9, <1>10 DEF Waiting
        <4>3. \A h \in held : h \in held'
          BY <1>7
        <4> QED
          BY <1>5, <3>2, <4>1, <4>2, <4>3 DEF TableInv, SlotsHaveOwners
      <3> QED
        BY <1>6, <3>1, <3>2
    <2> QED
      BY <2>1, <2>2, <2>3, <2>4, <2>5 DEF SlotsHaveOwners
  <1>13. ObjectsLead'
    BY <1>2, <1>5, <1>7, <1>8 DEF TableInv, ObjectsLead, Leads
  <1>14. ObjectsAreNew'
    <2>1. g.at \notin {"alloc", "bytes", "given"}
      BY <1>8
    <2>2. \A u \in Threads : pc'[u].at \in {"alloc", "given"} =>
            /\ pc'[u] = pc[u] /\ u \in Waiting
            /\ table'[pc'[u].slot] = table[pc[u].slot]
      BY <1>2, <1>3, <1>9, <2>1 DEF Waiting, Getting
    <2>3. \A u \in Threads : pc'[u].at \in {"alloc", "bytes", "given"} => pc'[u] = pc[u]
      BY <1>9, <2>1
    <2> QED
      BY <1>5, <2>2, <2>3 DEF TableInv, ObjectsAreNew
  <1> QED
    BY <1>11, <1>12, <1>13, <1>14 DEF TableInv

(* A thread in fopen gives the guest a handle to its slot: one with the    *)
(* object that the slot knows, or that it is about to know and to lead to. *)
LEMMA GivenTable ==
  ASSUME TableInv, NEW t \in Waiting, NEW obj \in Nat \ {0}, UNCHANGED next,
         pc' = [pc EXCEPT ![t] = Idle],
         held' = held \cup {[slot |-> pc[t].slot, object |-> obj, file |-> pc[t].file]},
         table' \in Seq(Entry), Slots' = Slots, objects' \in Seq(Listing),
         \A i \in Slots : table'[i].file = table[i].file,
         \A i \in Slots \ {pc[t].slot} : table'[i].object = table[i].object,
         ObjectsLead',
         \A k \in 1 .. Len(objects') :
           \/ k \in 1 .. Len(objects) /\ objects'[k] = objects[k]
           \/ pc[t].at = "given" /\ objects'[k].object = pc[t].object
  PROVE  TableInv'
  <1> DEFINE i == pc[t].slot
             new == [slot |-> i, object |-> obj, file |-> pc[t].file]
  <1>1. /\ pc[t].file \in Given /\ i \in Slots /\ t \in Threads
        /\ table[i].file = pc[t].file /\ \A h \in held : h.slot # i
        /\ \A u \in Waiting : u # t => pc[u].slot # i
    BY DEF TableInv, TableTypes, Opening, SlotsHaveOwners, Waiting, Getting
  <1>2. i \in Nat
    BY <1>1, SlotsOf DEF TableInv, TableTypes
  <1>3. new \in Handle /\ new.slot = i /\ new.object = obj /\ new.file = pc[t].file
    BY <1>1, <1>2 DEF Handle
  <1>4. held' = held \cup {new}
    OBVIOUS
  <1> HIDE DEF new
  <1>5. /\ pc' \in [Threads -> Thunk] /\ pc'[t].at = "idle"
        /\ \A u \in Threads \ {t} : pc'[u] = pc[u]
    BY <1>1, IdleIsTyped DEF TableInv, TableTypes
  <1>6. Waiting' = Waiting \ {t}
    BY <1>5 DEF Waiting, Getting
  <1>7. InUse' = InUse
    BY DEF InUse
  <1>8. TableTypes'
    BY <1>3, <1>4, <1>5 DEF TableInv, TableTypes, Opening, Getting
  <1>9. SlotsHaveOwners'
    <2>1. \A u \in Waiting' :
            /\ pc'[u].slot \in Slots' /\ table'[pc'[u].slot].file = pc'[u].file
            /\ \A h \in held' : h.slot # pc'[u].slot
      <3> SUFFICES ASSUME NEW u \in Waiting, u # t
                   PROVE  /\ pc'[u].slot \in Slots
                          /\ table'[pc'[u].slot].file = pc'[u].file
                          /\ \A h \in held' : h.slot # pc'[u].slot
        BY <1>6
      <3>1. pc'[u] = pc[u]
        BY <1>5 DEF Waiting
      <3> QED
        BY <1>1, <1>3, <1>4, <3>1 DEF TableInv, SlotsHaveOwners
    <2>2. \A u, v \in Waiting' : pc'[u].slot = pc'[v].slot => u = v
      BY <1>5, <1>6 DEF Waiting, TableInv, SlotsHaveOwners
    <2>3. \A h \in held' : h.slot \in Slots' /\ table'[h.slot].file = h.file
      BY <1>1, <1>3, <1>4 DEF TableInv, SlotsHaveOwners
    <2>4. \A g, h \in held' : g.slot = h.slot => g = h
      BY <1>1, <1>3, <1>4 DEF TableInv, SlotsHaveOwners
    <2>5. \A j \in InUse' :
            \/ \E h \in held' : h.slot = j
            \/ \E u \in Waiting' : pc'[u].slot = j
            \/ next' = Room /\ table'[j].object = 0
      <3> SUFFICES ASSUME NEW j \in InUse, j # i
                   PROVE  \/ \E h \in held' : h.slot = j
                          \/ \E u \in Waiting' : pc'[u].slot = j
                          \/ next' = Room /\ table'[j].object = 0
        BY <1>3, <1>4, <1>7
      <3>1. j \in Slots /\ table'[j].object = table[j].object
        BY DEF InUse
      <3>2. \A u \in Waiting : pc[u].slot = j => u \in Waiting' /\ pc'[u].slot = j
        BY <1>5, <1>6 DEF Waiting
      <3> QED
        BY <1>4, <3>1, <3>2 DEF TableInv, SlotsHaveOwners
    <2> QED
      BY <2>1, <2>2, <2>3, <2>4, <2>5 DEF SlotsHaveOwners
  <1>10. ObjectsAreNew'
    <2>1. \A u \in Threads : pc'[u].at # "idle" => u # t /\ pc'[u] = pc[u]
      BY <1>5
    <2>2. ASSUME NEW u \in Threads, pc'[u].at \in {"alloc", "given"}
          PROVE  table'[pc'[u].slot].object = 0
      <3>1. u # t /\ pc'[u] = pc[u] /\ u \in Waiting
        BY <2>1, <2>2 DEF Waiting, Getting
      <3>2. pc[u].slot \in Slots \ {i}
        BY <1>1, <3>1 DEF TableInv, SlotsHaveOwners
      <3> QED
        BY <2>2, <3>1, <3>2 DEF TableInv, ObjectsAreNew
    <2>3. ASSUME NEW u \in Threads, pc'[u].at = "given"
          PROVE  /\ pc'[u].object \in 1 .. next'
                 /\ \A k \in 1 .. Len(objects') : objects'[k].object # pc'[u].object
      <3>1. u # t /\ pc'[u] = pc[u]
        BY <2>1, <2>3
      <3>2. pc[t].at = "given" => pc[t].object # pc[u].object
        BY <1>1, <2>3, <3>1 DEF TableInv, ObjectsAreNew
      <3> QED
        BY <2>3, <3>1, <3>2 DEF TableInv, ObjectsAreNew
    <2> QED
      BY <2>1, <2>2, <2>3 DEF TableInv, ObjectsAreNew
  <1> QED
    BY <1>8, <1>9, <1>10 DEF TableInv

LEMMA FoundObjectTable ==
  ASSUME TableInv, NEW t \in Threads, FoundObject(t)
  PROVE  TableInv'
  <1> DEFINE i == pc[t].slot
             obj == table[i].object
             new == [slot |-> i, object |-> obj, file |-> pc[t].file]
  <1>1. /\ t \in Waiting /\ obj # 0 /\ UNCHANGED <<table, objects, next>>
        /\ pc' = [pc EXCEPT ![t] = Idle] /\ held' = held \cup {new}
    BY DEF FoundObject, Waiting, Getting, region
  <1>2. i \in Slots /\ obj \in Nat
    <2>1. i \in Slots
      BY <1>1 DEF TableInv, SlotsHaveOwners
    <2> QED
      BY <2>1, SlotsOf DEF TableInv, TableTypes, Entry
  <1>3. ObjectsLead'
    <2>1. new.slot = i /\ new.object = obj
      OBVIOUS
    <2>2. Leads(obj, i)
      BY <1>1, <1>2 DEF TableInv, ObjectsLead
    <2> HIDE DEF new, obj
    <2>3. \A h \in held' : h.object # 0 => Leads(h.object, h.slot)
      BY <1>1, <2>1, <2>2 DEF TableInv, ObjectsLead
    <2> QED
      BY <1>1, <2>3 DEF TableInv, ObjectsLead, Slots, Leads
  <1> QED
    BY <1>1, <1>2, <1>3, GivenTable DEF TableInv, TableTypes, Slots

LEMMA ListObjectTable ==
  ASSUME TableInv, NEW t \in Threads, ListObject(t)
  PROVE  TableInv'
  <1> DEFINE i == pc[t].slot
             obj == pc[t].object
             entry == [object |-> obj, slot |-> i]
             new == [slot |-> i, object |-> obj, file |-> pc[t].file]
             n == Len(objects) + 1
  <1>1. /\ t \in Waiting /\ pc[t].at = "given" /\ UNCHANGED next
        /\ pc' = [pc EXCEPT ![t] = Idle] /\ held' = held \cup {new}
        /\ table' = [table EXCEPT ![i].object = obj]
        /\ objects' = Append(objects, entry)
    BY DEF ListObject, Waiting, Getting, region
  <1>2. /\ i \in Slots /\ obj \in 1 .. next /\ table[i].object = 0
        /\ \A k \in 1 .. Len(objects) : objects[k].object # obj
        /\ \A h \in held : h.slot # i
    BY <1>1 DEF TableInv, SlotsHaveOwners, ObjectsAreNew
  <1>3. /\ obj \in Nat \ {0} /\ obj <= next /\ i \in Nat /\ entry \in Listing
        /\ entry.object = obj /\ entry.slot = i
    BY <1>2, SlotsOf DEF TableInv, TableTypes, Listing
  <1>4. /\ table' \in Seq(Entry) /\ Slots' = Slots
        /\ table'[i] = [file |-> table[i].file, object |-> obj]
        /\ \A j \in Slots : j # i => table'[j] = table[j]
    <2> DEFINE t2 == [table EXCEPT ![i].object = obj]
    <2>1. table \in Seq(Entry)
      BY DEF TableInv, TableTypes
    <2> HIDE DEF i, obj
    <2>2. /\ t2 \in Seq(Entry) /\ Len(t2) = Len(table)
          /\ t2[i] = [file |-> table[i].file, object |-> obj]
          /\ \A j \in Slots : j # i => t2[j] = table[j]
      BY <1>2, <1>3, <2>1, NewObject
    <2>3. table' = t2
      BY <1>1
    <2> HIDE DEF t2
    <2> QED
      BY <2>2, <2>3 DEF Slots
  <1>5. /\ objects' \in Seq(Listing) /\ Len(objects) \in Nat
        /\ 1 .. Len(objects') = (1 .. Len(objects)) \cup {n}
        /\ n \notin 1 .. Len(objects) /\ objects'[n] = entry
        /\ \A k \in 1 .. Len(objects) : objects'[k] = objects[k]
    <2>1. objects \in Seq(Listing) /\ Len(objects) \in Nat
      BY LenProperties DEF TableInv, TableTypes
    <2>2. 1 .. Len(objects) + 1 = (1 .. Len(objects)) \cup {Len(objects) + 1}
      BY <2>1
    <2> HIDE DEF entry
    <2>3. /\ objects' \in Seq(Listing) /\ Len(objects') = Len(objects) + 1
          /\ objects'[Len(objects) + 1] = entry
          /\ \A k \in 1 .. Len(objects) : objects'[k] = objects[k]
      BY <1>1, <1>3, <2>1, AppendProperties
    <2>4. n \notin 1 .. Len(objects)
      BY <2>1
    <2> QED
      BY <2>1, <2>2, <2>3, <2>4
  <1> HIDE DEF n
  <1>6. ObjectsLead'
    <2> DEFINE isNew(k) == k = n /\ objects'[k].object = obj /\ objects'[k].slot = i
               leads(o, j) == \E k \in 1 .. Len(objects') :
                                objects'[k].object = o /\ objects'[k].slot = j
    <2>1. \A k \in 1 .. Len(objects') :
            \/ k \in 1 .. Len(objects) /\ objects'[k] = objects[k]
            \/ isNew(k)
      BY <1>3, <1>5
    <2>2. \A k \in 1 .. Len(objects) :
            /\ objects[k].slot \in Slots \ {i} /\ objects[k].object <= next
            /\ table[objects[k].slot].object = objects[k].object
      <3>1. \A k \in 1 .. Len(objects) : objects[k].object # 0
        <4> TAKE k \in 1 .. Len(objects)
        <4>1. objects[k] \in Listing
          BY ElementOfSeq DEF TableInv, TableTypes
        <4> QED
          BY <4>1 DEF Listing
      <3> QED
        BY <1>2, <3>1 DEF TableInv, ObjectsLead
    <2>3. \A k \in 1 .. Len(objects') :
            /\ objects'[k].slot \in Slots' /\ objects'[k].object <= next'
            /\ table'[objects'[k].slot].object = objects'[k].object
      BY <1>1, <1>2, <1>3, <1>4, <2>1, <2>2
    <2>4. \A j, k \in 1 .. Len(objects') : objects'[j].object = objects'[k].object => j = k
      BY <1>2, <2>1 DEF TableInv, ObjectsLead
    <2>5. \A o, j : Leads(o, j) => leads(o, j)
      BY <1>5 DEF Leads
    <2>6. leads(obj, i)
      BY <1>3, <1>5 DEF Leads
    <2>7. \A j \in Slots' : table'[j].object # 0 => leads(table'[j].object, j)
      <3>1. table'[i].object = obj
        BY <1>4
      <3>2. \A j \in Slots \ {i} : table'[j].object # 0 => leads(table'[j].object, j)
        <4> HIDE DEF leads
        <4> SUFFICES ASSUME NEW j \in Slots \ {i}, table'[j].object # 0
                     PROVE  leads(table'[j].object, j)
          OBVIOUS
        <4>1. table'[j].object = table[j].object
          BY <1>4
        <4>2. Leads(table[j].object, j)
          BY <4>1 DEF TableInv, ObjectsLead
        <4> QED
          BY <2>5, <4>1, <4>2
      <3> QED
        BY <1>4, <2>6, <3>1, <3>2
    <2>8. \A h \in held' : h.object # 0 => leads(h.object, h.slot)
      <3>1. new.slot = i /\ new.object = obj
        OBVIOUS
      <3> HIDE DEF new
      <3>2. \A h \in held : h.object # 0 => leads(h.object, h.slot)
        BY <2>5 DEF TableInv, ObjectsLead
      <3> QED
        BY <1>1, <2>6, <3>1, <3>2
    <2> QED
      BY <2>3, <2>4, <2>7, <2>8 DEF ObjectsLead, Leads
  <1>7. /\ \A j \in Slots : table'[j].file = table[j].file
        /\ \A j \in Slots \ {i} : table'[j].object = table[j].object
    BY <1>4
  <1>8. \A k \in 1 .. Len(objects') :
          \/ k \in 1 .. Len(objects) /\ objects'[k] = objects[k]
          \/ pc[t].at = "given" /\ objects'[k].object = pc[t].object
    BY <1>1, <1>3, <1>5
  <1> QED
    BY <1>1, <1>3, <1>4, <1>5, <1>6, <1>7, <1>8, GivenTable

LEMMA LoadNextTable ==
  ASSUME TableInv, NEW t \in Threads, LoadNext(t)
  PROVE  TableInv'
  <1>1. UNCHANGED <<table, objects, held, next>> /\ next < Room
    BY DEF LoadNext, tableVars, region
  <1>2. /\ next \in Nat /\ pc[t] \in Thunk
        /\ next' \in Nat /\ next <= next' /\ next' <= Room
    BY <1>1 DEF TableInv, TableTypes
  <1>3. CASE pc[t].at = "object" /\ table[pc[t].slot].object = 0
    <2> DEFINE f == [pc[t] EXCEPT !.at = "alloc", !.object = next]
    <2>1. pc' = [pc EXCEPT ![t] = f]
      BY <1>3 DEF LoadNext
    <2>2. /\ f \in Thunk /\ f.at = "alloc" /\ f.object = next
          /\ f.slot = pc[t].slot /\ f.file = pc[t].file
      BY <1>2 DEF Thunk, Getting
    <2>3. t \in Waiting /\ f.at \in Getting /\ table[f.slot].object = 0
      BY <1>3, <2>2 DEF Waiting, Getting
    <2>4. /\ f.object < Room /\ f.at # "add" /\ f.at # "given"
      BY <1>1, <2>2
    <2> HIDE DEF f
    <2> QED
      BY <1>1, <1>2, <2>1, <2>2, <2>3, <2>4, PcTable
  <1>4. CASE pc[t].at = "idle"
    <2> DEFINE f == [Idle EXCEPT !.at = "bytes", !.object = next]
    <2>1. pc' = [pc EXCEPT ![t] = f]
      BY <1>4 DEF LoadNext
    <2>2. f \in Thunk /\ f.at = "bytes" /\ f.object = next
      BY <1>2, IdleIsTyped DEF Thunk, Getting, Idle
    <2>3. t \notin Waiting /\ f.at \notin Getting
      BY <1>4, <2>2 DEF Waiting, Getting
    <2>4. /\ f.object < Room /\ f.at \notin {"add", "alloc", "given"}
      BY <1>1, <2>2
    <2> HIDE DEF f
    <2> QED
      BY <1>1, <1>2, <2>1, <2>2, <2>3, <2>4, PcTable
  <1> QED
    BY <1>3, <1>4 DEF LoadNext

LEMMA StoreNextTable ==
  ASSUME TableInv, NEW t \in Threads, StoreNext(t), ~raced'
  PROVE  TableInv'
  <1>1. /\ UNCHANGED <<table, objects, held>> /\ next' = pc[t].object + 1
        /\ pc[t].object = next
    BY DEF StoreNext
  <1>2. next \in Nat /\ Room \in Nat /\ pc[t] \in Thunk
    BY FilesAssumption DEF FilesAssumption, TableInv, TableTypes
  <1>3. pc[t].at \in {"alloc", "bytes"} /\ pc[t].object < Room
    BY DEF StoreNext, TableInv, ObjectsAreNew
  <1>4. next' \in Nat /\ next < next' /\ next <= next' /\ next' <= Room
    BY <1>1, <1>2, <1>3
  <1>5. CASE pc[t].at = "alloc"
    <2> DEFINE f == [pc[t] EXCEPT !.at = "given", !.object = next']
    <2>1. pc' = [pc EXCEPT ![t] = f]
      BY <1>1, <1>5 DEF StoreNext
    <2>2. /\ f \in Thunk /\ f.at = "given" /\ f.object = next'
          /\ f.slot = pc[t].slot /\ f.file = pc[t].file
      BY <1>2, <1>4 DEF Thunk, Getting
    <2>3. t \in Waiting /\ f.at \in Getting /\ table[f.slot].object = 0
      BY <1>5, <2>2 DEF Waiting, Getting, TableInv, ObjectsAreNew
    <2>4. /\ next < f.object /\ f.object <= next'
          /\ f.at \notin {"add", "alloc", "bytes"}
      BY <1>4, <2>2
    <2> HIDE DEF f
    <2> QED
      BY <1>1, <1>4, <2>1, <2>2, <2>3, <2>4, PcTable
  <1>6. CASE pc[t].at = "bytes"
    <2>1. pc' = [pc EXCEPT ![t] = Idle]
      BY <1>6 DEF StoreNext
    <2>2. t \notin Waiting
      BY <1>6 DEF Waiting, Getting
    <2> QED
      BY <1>1, <1>4, <2>1, <2>2, IdleIsTyped, PcTable DEF Getting
  <1> QED
    BY <1>3, <1>5, <1>6

LEMMA NoRoomTable ==
  ASSUME TableInv, NEW t \in Threads, NoRoom(t)
  PROVE  TableInv'
  <1>1. /\ UNCHANGED <<table, objects, held, next>> /\ pc' = [pc EXCEPT ![t] = Idle]
        /\ next >= Room /\ table[pc[t].slot].object = 0
    BY DEF NoRoom, tableVars, region
  <1>2. next \in Nat /\ next = Room
    BY <1>1, FilesAssumption DEF FilesAssumption, TableInv, TableTypes
  <1> QED
    BY <1>1, <1>2, IdleIsTyped, PcTable DEF Getting

(* A handle leads to the slot it was given: an object is listed once.      *)
LEMMA ListedLeads ==
  ASSUME TableInv, NEW h \in held, h.object # 0
  PROVE  Listed(h.object) # {} /\ fd_for_guest_file(h.object) = h.slot
  <1>1. PICK k \in 1 .. Len(objects) :
          objects[k].object = h.object /\ objects[k].slot = h.slot
    BY DEF TableInv, ObjectsLead, Leads
  <1>2. Listed(h.object) = {k}
    BY <1>1 DEF Listed, TableInv, ObjectsLead
  <1>3. k <= k
    BY <1>1
  <1>4. (CHOOSE m \in Listed(h.object) : \A j \in Listed(h.object) : m <= j) = k
    BY <1>2, <1>3
  <1> QED
    BY <1>1, <1>2, <1>4 DEF fd_for_guest_file

(* close and fclose of a handle find the slot it was given.                *)
LEMMA CloseFindsSlot ==
  ASSUME TableInv, NEW h \in held
  PROVE  (IF h.object = 0 THEN h.slot ELSE fd_for_guest_file(h.object)) = h.slot
  BY ListedLeads

LEMMA CloseTable ==
  ASSUME TableInv, NEW h \in held, Close(h)
  PROVE  TableInv'
  <1> DEFINE i == h.slot
  <1>1. /\ table' = [table EXCEPT ![i].file = Closed] /\ held' = held \ {h}
        /\ UNCHANGED <<objects, pc, next>>
    BY CloseFindsSlot DEF Close, drop_file, region
  <1>2. /\ i \in Slots /\ \A g \in held' : g.slot # i
        /\ \A t \in Waiting : pc[t].slot # i
    BY <1>1 DEF TableInv, SlotsHaveOwners
  <1>3. /\ table' \in Seq(Entry) /\ Slots' = Slots
        /\ table'[i] = [file |-> Closed, object |-> table[i].object]
        /\ \A j \in Slots : j # i => table'[j] = table[j]
    <2> DEFINE new == [table EXCEPT ![i].file = Closed]
    <2>1. table \in Seq(Entry)
      BY DEF TableInv, TableTypes
    <2> HIDE DEF i
    <2>2. /\ new \in Seq(Entry) /\ Len(new) = Len(table)
          /\ new[i] = [file |-> Closed, object |-> table[i].object]
          /\ \A j \in Slots : j # i => new[j] = table[j]
      BY <1>2, <2>1, NewFile
    <2>3. table' = new
      BY <1>1
    <2> HIDE DEF new
    <2> QED
      BY <2>2, <2>3 DEF Slots
  <1>4. \A j \in Slots : table'[j].object = table[j].object
    BY <1>3
  <1>5. InUse' = InUse \ {i} /\ Waiting' = Waiting
    BY <1>1, <1>3 DEF InUse, Waiting
  <1>6. TableTypes'
    BY <1>1, <1>3 DEF TableInv, TableTypes, Opening
  <1>7. SlotsHaveOwners'
    <2>1. \A g \in held' : g.slot \in Slots' /\ table'[g.slot].file = g.file
      BY <1>1, <1>2, <1>3 DEF TableInv, SlotsHaveOwners
    <2>2. \A j \in InUse' :
            \/ \E g \in held' : g.slot = j
            \/ \E t \in Waiting' : pc'[t].slot = j
            \/ next' = Room /\ table'[j].object = 0
      BY <1>1, <1>2, <1>4, <1>5 DEF TableInv, SlotsHaveOwners, InUse
    <2>3. \A t \in Waiting' :
            /\ pc'[t].slot \in Slots' /\ table'[pc'[t].slot].file = pc'[t].file
            /\ \A g \in held' : g.slot # pc'[t].slot
      BY <1>1, <1>2, <1>3, <1>5 DEF TableInv, SlotsHaveOwners
    <2> QED
      BY <1>1, <1>5, <2>1, <2>2, <2>3 DEF TableInv, SlotsHaveOwners
  <1>8. ObjectsLead'
    BY <1>1, <1>3, <1>4 DEF TableInv, ObjectsLead, Leads
  <1>9. ObjectsAreNew'
    <2>1. \A t \in Threads : pc[t].at \in {"alloc", "given"} => pc[t].slot \in Slots
      BY DEF TableInv, SlotsHaveOwners, Waiting, Getting
    <2> QED
      BY <1>1, <1>4, <2>1 DEF TableInv, ObjectsAreNew
  <1> QED
    BY <1>6, <1>7, <1>8, <1>9 DEF TableInv

NothingOpen ==
  /\ table = <<>> /\ objects = <<>> /\ held = {} /\ next = 0
  /\ pc = [t \in Threads |-> Idle]

LEMMA EmptyTable == NothingOpen => TableInv
  <1> SUFFICES ASSUME NothingOpen PROVE TableInv
    OBVIOUS
  <1> USE DEF NothingOpen
  <1>1. table \in Seq(Entry) /\ objects \in Seq(Listing)
        /\ Len(objects) = 0 /\ Slots = {} /\ 1 .. Len(objects) = {}
    BY EmptySeq DEF Slots
  <1>2. /\ Opening = {} /\ Waiting = {}
        /\ \A t \in Threads : pc[t].at \notin Getting \cup {"bytes"}
    BY IdleIsTyped DEF Opening, Waiting, Getting
  <1>3. TableTypes
    BY <1>1, <1>2, IdleIsTyped, FilesAssumption DEF FilesAssumption, TableTypes
  <1>4. SlotsHaveOwners
    BY <1>1, <1>2 DEF SlotsHaveOwners, InUse
  <1>5. ObjectsLead
    BY <1>1 DEF ObjectsLead
  <1>6. ObjectsAreNew
    BY <1>2 DEF ObjectsAreNew, Getting
  <1> QED
    BY <1>3, <1>4, <1>5, <1>6 DEF TableInv

(* A thread goes to or from a call that has no slot yet.                   *)
LEMMA CallTable ==
  ASSUME TableInv, UNCHANGED tableVars, NEW t \in Threads, NEW f \in Thunk,
         pc' = [pc EXCEPT ![t] = f], pc[t].at \notin Getting,
         f.at \in {"idle", "add", "rename"},
         f.at = "add" => f.file \in Given
  PROVE  TableInv'
  <1>1. UNCHANGED <<table, objects, held, next>>
    BY DEF tableVars, region
  <1>2. next \in Nat /\ next <= Room /\ next <= next
    BY DEF TableInv, TableTypes
  <1>3. t \notin Waiting /\ f.at \notin Getting
    BY DEF Waiting, Getting
  <1> QED
    BY <1>1, <1>2, <1>3, PcTable DEF Getting

LEMMA to_hostGiven ==
  ASSUME NEW n \in Names, NEW writing \in BOOLEAN
  PROVE  to_host(n, writing) \in Given
  BY DEF to_host, Given

LEMMA HostOpenTable ==
  ASSUME TableInv, UNCHANGED tableVars, NEW t \in Threads, NEW n \in Names,
         NEW mode \in Modes, NEW stdio \in BOOLEAN, HostOpen(t, n, mode, stdio)
  PROVE  TableInv'
  <1> DEFINE file == to_host(n, mode # "r")
             f == [Idle EXCEPT !.at = "add", !.stdio = stdio, !.file = file]
  <1>1. file \in Given
    BY to_hostGiven
  <1>2. /\ pc[t].at = "idle" /\ pc' = [pc EXCEPT ![t] = f]
    BY DEF HostOpen
  <1> HIDE DEF file
  <1>3. f \in Thunk /\ f.at = "add" /\ f.file = file
    BY <1>1, IdleIsTyped DEF Thunk, Idle
  <1> HIDE DEF f
  <1> QED
    BY <1>1, <1>2, <1>3, CallTable DEF Getting

LEMMA StepTable ==
  ASSUME TableInv, [Next]_vars, ~raced'
  PROVE  TableInv'
  <1>1. CASE UNCHANGED vars
    BY <1>1 DEF vars, tableVars, region, TableInv, TableTypes, SlotsHaveOwners,
                ObjectsLead, ObjectsAreNew, Leads, Waiting, Opening, InUse, Slots
  <1>2. ASSUME NEW t \in Threads, NEW n \in Names, NEW mode \in Modes,
               NEW stdio \in BOOLEAN, Open(t, n, mode, stdio)
        PROVE  TableInv'
    BY <1>2, HostOpenTable DEF Open
  <1>3. ASSUME NEW t \in Threads, NEW n \in Names, t_remove(t, n)
        PROVE  TableInv'
    <2>1. UNCHANGED <<table, objects, held, next>> /\ UNCHANGED pc
      BY <1>3, Zenon DEF t_remove, tableVars, region
    <2>2. TableTypes'
      BY <2>1 DEF TableInv, TableTypes, Opening
    <2>3. SlotsHaveOwners'
      BY <2>1 DEF TableInv, SlotsHaveOwners, InUse, Slots, Waiting
    <2>4. ObjectsLead'
      BY <2>1 DEF TableInv, ObjectsLead, Leads, Slots
    <2>5. ObjectsAreNew'
      BY <2>1 DEF TableInv, ObjectsAreNew
    <2> QED
      BY <2>2, <2>3, <2>4, <2>5 DEF TableInv
  <1>4. ASSUME NEW t \in Threads, WriteSave(t)
        PROVE  TableInv'
    BY <1>4, HostOpenTable, FilesAssumption
       DEF FilesAssumption, WriteSave, Modes
  <1>5. ASSUME NEW t \in Threads, Renames(t)
        PROVE  TableInv'
    <2>1. PICK from \in Names, to \in Names : t_rename(t, from, to)
      BY <1>5, FilesAssumption DEF FilesAssumption, Renames
    <2> DEFINE f == [Idle EXCEPT !.at = "rename", !.from = from, !.to = to]
    <2>2. f \in Thunk /\ f.at = "rename"
      BY IdleIsTyped DEF Thunk, Idle
    <2>3. UNCHANGED tableVars /\ pc[t].at = "idle" /\ pc' = [pc EXCEPT ![t] = f]
      BY <2>1 DEF t_rename
    <2> HIDE DEF f
    <2> QED
      BY <2>2, <2>3, CallTable DEF Getting
  <1>6. ASSUME NEW t \in Threads, HostRename(t)
        PROVE  TableInv'
    <2>1. UNCHANGED tableVars /\ pc[t].at = "rename" /\ pc' = [pc EXCEPT ![t] = Idle]
      BY <1>6 DEF HostRename
    <2> QED
      BY <2>1, CallTable, IdleIsTyped DEF Getting
  <1>7. CASE Crash
    <2>1. NothingOpen'
      BY <1>7 DEF Crash, NothingOpen
    <2> QED
      BY <2>1, EmptyTable, PTL
  <1> QED
    BY <1>1, <1>2, <1>3, <1>4, <1>5, <1>6, <1>7, AddFileTable, FoundObjectTable,
       LoadNextTable, StoreNextTable, ListObjectTable, NoRoomTable, CloseTable
       DEF Next

(* Once two threads were in the bump pointer at once, they were.           *)
LEMMA RacedStays ==
  ASSUME [Next]_vars, raced
  PROVE  raced'
  <1>1. ASSUME UNCHANGED region PROVE raced'
    BY <1>1 DEF region
  <1>2. ASSUME NEW t \in Threads, NEW n \in Names, NEW mode \in Modes,
               NEW stdio \in BOOLEAN, Open(t, n, mode, stdio)
        PROVE  raced'
    BY <1>1, <1>2 DEF Open, tableVars
  <1>3. ASSUME NEW t \in Threads, NEW n \in Names, t_remove(t, n) PROVE raced'
    BY <1>1, <1>3 DEF t_remove, tableVars
  <1>4. ASSUME NEW t \in Threads, AddFile(t) \/ FoundObject(t) \/ ListObject(t)
        PROVE  raced'
    BY <1>1, <1>4 DEF AddFile, FoundObject, ListObject
  <1>5. ASSUME NEW t \in Threads, NoRoom(t) \/ LoadNext(t) PROVE raced'
    BY <1>1, <1>5 DEF NoRoom, LoadNext, tableVars
  <1>6. ASSUME NEW t \in Threads, StoreNext(t) PROVE raced'
    BY <1>6 DEF StoreNext
  <1>7. ASSUME NEW t \in Threads, WriteSave(t) \/ Renames(t) \/ HostRename(t)
        PROVE  raced'
    BY <1>1, <1>7 DEF WriteSave, Renames, t_rename, HostRename, tableVars
  <1>8. ASSUME NEW h \in held, Close(h) PROVE raced'
    BY <1>1, <1>8 DEF Close
  <1>9. CASE Crash
    BY <1>9 DEF Crash
  <1>10. CASE UNCHANGED vars
    BY <1>1, <1>10 DEF vars, tableVars
  <1> QED
    BY <1>2, <1>3, <1>4, <1>5, <1>6, <1>7, <1>8, <1>9, <1>10 DEF Next

LEMMA UpToN ==
  ASSUME NEW n \in Nat
  PROVE  IsFiniteSet(1 .. n) /\ Cardinality(1 .. n) = n
  <1>1. /\ IsFiniteSet(1 .. n)
        /\ Cardinality(1 .. n) = IF 1 > n THEN 0 ELSE n - 1 + 1
    BY FS_Interval
  <1> QED
    BY <1>1

(* Objects lead to different slots: there are no more of them.             *)
LEMMA NoMoreObjects ==
  ASSUME TableInv
  PROVE  Len(objects) <= Len(table)
  <1>1. Len(objects) \in Nat /\ Len(table) \in Nat
    BY LenProperties DEF TableInv, TableTypes
  <1> DEFINE slots == [k \in 1 .. Len(objects) |-> objects[k].slot]
  <1>2. slots \in [1 .. Len(objects) -> Slots]
    BY DEF TableInv, ObjectsLead
  <1>3. \A j, k \in 1 .. Len(objects) : slots[j] = slots[k] => j = k
    BY DEF TableInv, ObjectsLead
  <1> HIDE DEF slots
  <1>4. slots \in Injection(1 .. Len(objects), Slots)
    BY <1>2, <1>3 DEF Injection, IsInjective
  <1>5. IsFiniteSet(Slots) /\ Cardinality(Slots) = Len(table)
    BY <1>1, UpToN DEF Slots
  <1>6. Cardinality(1 .. Len(objects)) = Len(objects)
    BY <1>1, UpToN
  <1> QED
    BY <1>4, <1>5, <1>6, FS_Injection

LEMMA TableMatches ==
  ASSUME TableInv
  PROVE  HandlesLead /\ ObjectsAreReused
  <1>1. Waiting = Opening \ Adding
    BY DEF Waiting, Getting, Opening, Adding
  <1>2. HandlesLead
    BY <1>1, ListedLeads DEF TableInv, SlotsHaveOwners, HandlesLead
  <1>3. ObjectsAreReused
    BY NoMoreObjects DEF TableInv, ObjectsLead, ObjectsAreReused
  <1> QED
    BY <1>2, <1>3

-----------------------------------------------------------------------------
(* Saves.                                                                  *)
LEMMA ThreeNames ==
  /\ New \in Names /\ Slot \in Names /\ Backup \in Names
  /\ New # Slot /\ New # Backup /\ Slot # Backup
  <1>1. \A a, b : IsFiniteSet({a, b}) /\ Cardinality({a, b}) <= 2
    <2> TAKE a, b
    <2>1. IsFiniteSet({a}) /\ Cardinality({a}) = 1
      BY FS_Singleton
    <2>2. {a, b} = {a} \cup {b}
      OBVIOUS
    <2> QED
      BY <2>1, <2>2, FS_AddElement
  <1>2. Cardinality({New, Slot, Backup}) = 3
    BY FilesAssumption DEF FilesAssumption
  <1>3. New = Slot => {New, Slot, Backup} = {New, Backup}
    OBVIOUS
  <1>4. New = Backup => {New, Slot, Backup} = {New, Slot}
    OBVIOUS
  <1>5. Slot = Backup => {New, Slot, Backup} = {New, Slot}
    OBVIOUS
  <1>6. ASSUME NEW a, NEW b, {New, Slot, Backup} = {a, b}
        PROVE  FALSE
    <2>1. Cardinality({a, b}) = 3
      BY <1>2, <1>6
    <2>2. Cardinality({a, b}) <= 2
      BY <1>1
    <2> QED
      BY <2>1, <2>2
  <1> QED
    BY <1>3, <1>4, <1>5, <1>6, FilesAssumption DEF FilesAssumption

(* A step that leaves the names of a save and its stage alone.             *)
LEMMA SaveIsLeft ==
  ASSUME SaveInv, UNCHANGED saveVars, saved' \in [Names -> Int],
         \A n \in {New, Slot, Backup} : saved'[n] = saved[n],
         SaveIsWritten',
         \A t \in Threads : pc'[t].at = "rename" => pc'[t] = pc[t]
  PROVE  SaveInv'
  <1>1. SaveIsRenamed'
    <2>1. \A t \in Threads : pc'[t].at = "rename" => pc[t].at = "rename"
      OBVIOUS
    <2> QED
      BY <2>1, ThreeNames DEF SaveInv, SaveIsRenamed, saveVars
  <1>2. SaveIsWhole'
    BY ThreeNames DEF SaveInv, SaveIsWhole, saveVars
  <1> QED
    BY <1>1, <1>2 DEF SaveInv

(* A thread begins to open a file: of a save, only the engine, and only    *)
(* when nothing of one is open.                                            *)
LEMMA HostOpenSave ==
  ASSUME TableInv, SaveInv, UNCHANGED tableVars, NEW t \in Threads,
         NEW n \in Names, NEW mode \in Modes, NEW stdio \in BOOLEAN,
         HostOpen(t, n, mode, stdio)
  PROVE  /\ saved' \in [Names -> Int]
         /\ \A m \in Names \ {n} : saved'[m] = saved[m]
         /\ Opening' = Opening \cup {t} /\ t \notin Opening
         /\ pc'[t].file.name = n /\ pc'[t].at = "add"
         /\ \A u \in Threads \ {t} : pc'[u] = pc[u]
  <1> DEFINE file == to_host(n, mode # "r")
             f == [Idle EXCEPT !.at = "add", !.stdio = stdio, !.file = file]
  <1>1. file.name = n
    BY DEF to_host
  <1>2. /\ pc[t].at = "idle" /\ pc' = [pc EXCEPT ![t] = f]
        /\ saved' = IF file.writing THEN [saved EXCEPT ![n] = Torn] ELSE saved
    BY DEF HostOpen
  <1> HIDE DEF file
  <1>3. f.at = "add" /\ f.file = file
    BY DEF Idle
  <1> HIDE DEF f
  <1>4. /\ pc'[t] = f /\ \A u \in Threads \ {t} : pc'[u] = pc[u]
    BY <1>2 DEF TableInv, TableTypes
  <1>5. Opening' = Opening \cup {t} /\ t \notin Opening
    BY <1>2, <1>3, <1>4 DEF Opening
  <1>6. /\ saved' \in [Names -> Int]
        /\ \A m \in Names \ {n} : saved'[m] = saved[m]
    BY <1>2 DEF SaveInv, SaveIsWhole, Torn
  <1> QED
    BY <1>1, <1>3, <1>4, <1>5, <1>6

LEMMA OpenSave ==
  ASSUME TableInv, SaveInv, NEW t \in Threads, NEW n \in Names,
         NEW mode \in Modes, NEW stdio \in BOOLEAN, Open(t, n, mode, stdio)
  PROVE  SaveInv'
  <1>1. /\ saved' \in [Names -> Int]
        /\ \A m \in Names \ {n} : saved'[m] = saved[m]
        /\ Opening' = Opening \cup {t} /\ t \notin Opening
        /\ pc'[t].file.name = n /\ pc'[t].at = "add"
        /\ \A u \in Threads \ {t} : pc'[u] = pc[u]
    BY HostOpenSave DEF Open
  <1>2. n \notin {New, Slot, Backup} /\ UNCHANGED <<tableVars, saveVars>>
    BY DEF Open
  <1>3. NewOpening' = NewOpening /\ NewHeld' = NewHeld
    BY <1>1, <1>2 DEF NewOpening, NewHeld, tableVars, Opening
  <1>4. SaveIsWritten'
    BY <1>1, <1>2, <1>3
       DEF SaveInv, SaveIsWritten, tableVars, saveVars, NewOpening, NewHeld,
           Opening
  <1> QED
    BY <1>1, <1>2, <1>4, SaveIsLeft, ThreeNames

LEMMA WriteSaveSave ==
  ASSUME TableInv, SaveInv, NEW t \in Threads, WriteSave(t)
  PROVE  SaveInv'
  <1>1. /\ saved' \in [Names -> Int]
        /\ \A m \in Names \ {New} : saved'[m] = saved[m]
        /\ Opening' = Opening \cup {t} /\ t \notin Opening
        /\ pc'[t].file.name = New /\ pc'[t].at = "add"
        /\ \A u \in Threads \ {t} : pc'[u] = pc[u]
    BY HostOpenSave, ThreeNames DEF WriteSave, Modes
  <1>2. /\ stage = "none" /\ stage' = "writing"
        /\ UNCHANGED <<tableVars, saves, committed, clobbered>>
    BY DEF WriteSave
  <1>3. NewOpening' = {t} /\ NewHeld' = {}
    BY <1>1, <1>2
       DEF NewOpening, NewHeld, SaveInv, SaveIsWritten, tableVars, Opening
  <1>4. SaveIsWritten'
    BY <1>1, <1>2, <1>3, ThreeNames DEF SaveInv, SaveIsWritten, tableVars, Opening
  <1>5. \A u \in Threads : pc'[u].at # "rename"
    BY <1>1, <1>2 DEF SaveInv, SaveIsRenamed
  <1>6. SaveIsWhole'
    BY <1>1, <1>2, ThreeNames DEF SaveInv, SaveIsWhole
  <1> QED
    BY <1>4, <1>5, <1>6 DEF SaveInv, SaveIsRenamed

LEMMA t_removeSave ==
  ASSUME TableInv, SaveInv, NEW t \in Threads, NEW n \in Names, t_remove(t, n)
  PROVE  SaveInv'
  <1>1. /\ UNCHANGED <<tableVars, pc, saveVars>>
        /\ n \notin {New, Slot, Backup} /\ saved' = [saved EXCEPT ![n] = Absent]
    BY DEF t_remove
  <1>2. SaveIsWritten'
    BY <1>1 DEF SaveInv, SaveIsWritten, NewOpening, NewHeld, Opening, tableVars,
                saveVars
  <1>3. /\ saved' \in [Names -> Int]
        /\ \A m \in {New, Slot, Backup} : saved'[m] = saved[m]
    BY <1>1, ThreeNames DEF SaveInv, SaveIsWhole, Absent
  <1> QED
    BY <1>1, <1>2, <1>3, SaveIsLeft

(* The file of a thread goes on to a handle, if the thread lets go of it.  *)
LEMMA FileGoesOn ==
  ASSUME TableInv, SaveInv, NEW t \in Opening, NEW h, h.file = pc[t].file,
         UNCHANGED <<saved, saveVars>>,
         \A u \in Threads \ {t} : pc'[u] = pc[u],
         pc'[t].at # "rename",
         \/ /\ pc'[t].at \in {"add"} \cup Getting /\ pc'[t].file = pc[t].file
            /\ held' = held
         \/ pc'[t].at = "idle" /\ held' = held \cup {h}
  PROVE  SaveInv'
  <1>1. \A u \in Opening' : u \in Opening /\ pc'[u].file = pc[u].file
    BY DEF Opening, Getting
  <1>2. \A u \in NewOpening' : u \in NewOpening
    BY <1>1 DEF NewOpening
  <1>3. CASE held' = held
    <2>1. NewHeld' = NewHeld
      BY <1>3 DEF NewHeld
    <2> QED
      BY <1>1, <1>2, <1>3, <2>1, SaveIsLeft
         DEF SaveInv, SaveIsWritten, SaveIsWhole, saveVars
  <1>4. CASE pc'[t].at = "idle" /\ held' = held \cup {h}
    <2>1. t \notin Opening'
      BY <1>4 DEF Opening
    <2>2. CASE h.file.name = New
      <3>1. t \in NewOpening /\ NewHeld = {}
        BY <2>2 DEF NewOpening, SaveInv, SaveIsWritten
      <3>2. NewOpening' = {} /\ NewHeld' = {h}
        BY <1>2, <1>4, <2>1, <2>2, <3>1
           DEF SaveInv, SaveIsWritten, NewOpening, NewHeld
      <3>3. SaveIsWritten'
        BY <1>1, <1>4, <3>1, <3>2 DEF SaveInv, SaveIsWritten, saveVars
      <3> QED
        BY <3>3, SaveIsLeft DEF SaveInv, SaveIsWhole, saveVars
    <2>3. CASE h.file.name # New
      <3>1. NewHeld' = NewHeld
        BY <1>4, <2>3 DEF NewHeld
      <3>2. SaveIsWritten'
        BY <1>1, <1>2, <1>4, <3>1 DEF SaveInv, SaveIsWritten, saveVars
      <3> QED
        BY <3>2, SaveIsLeft DEF SaveInv, SaveIsWhole, saveVars
    <2> QED
      BY <2>2, <2>3
  <1> QED
    BY <1>3, <1>4

LEMMA AddFileSave ==
  ASSUME TableInv, SaveInv, NEW t \in Threads, AddFile(t)
  PROVE  SaveInv'
  <1> DEFINE h == [slot |-> SlotOf, object |-> 0, file |-> pc[t].file]
  <1>1. h.file = pc[t].file
    OBVIOUS
  <1>2. /\ t \in Opening /\ UNCHANGED <<saved, saveVars>>
        /\ \/ /\ pc' = [pc EXCEPT ![t].at = "object", ![t].slot = SlotOf]
              /\ UNCHANGED held
           \/ pc' = [pc EXCEPT ![t] = Idle] /\ held' = held \cup {h}
    BY DEF AddFile, Opening
  <1> HIDE DEF h
  <1>3. /\ \A u \in Threads \ {t} : pc'[u] = pc[u]
        /\ pc'[t].at # "rename"
        /\ \/ /\ pc'[t].at \in {"add"} \cup Getting /\ pc'[t].file = pc[t].file
              /\ held' = held
           \/ pc'[t].at = "idle" /\ held' = held \cup {h}
    <2>1. CASE pc' = [pc EXCEPT ![t].at = "object", ![t].slot = SlotOf] /\ UNCHANGED held
      <3>1. pc' = [pc EXCEPT ![t] = [pc[t] EXCEPT !.at = "object", !.slot = SlotOf]]
        BY <2>1
      <3>2. pc[t] \in Thunk /\ t \in DOMAIN pc
        BY DEF TableInv, TableTypes
      <3> QED
        BY <2>1, <3>1, <3>2 DEF Thunk, Getting, TableInv, TableTypes
    <2>2. CASE pc' = [pc EXCEPT ![t] = Idle] /\ held' = held \cup {h}
      BY <2>2, IdleIsTyped DEF TableInv, TableTypes
    <2> QED
      BY <1>2, <2>1, <2>2
  <1> QED
    BY <1>1, <1>2, <1>3, FileGoesOn

LEMMA GivenSave ==
  ASSUME TableInv, SaveInv, NEW t \in Opening, UNCHANGED <<saved, saveVars>>,
         pc' = [pc EXCEPT ![t] = Idle],
         \E h : h.file = pc[t].file /\ held' = held \cup {h}
  PROVE  SaveInv'
  <1>1. PICK h : h.file = pc[t].file /\ held' = held \cup {h}
    OBVIOUS
  <1>2. pc'[t].at = "idle" /\ \A u \in Threads \ {t} : pc'[u] = pc[u]
    BY IdleIsTyped DEF TableInv, TableTypes, Opening
  <1> QED
    BY <1>1, <1>2, FileGoesOn

LEMMA FoundObjectSave ==
  ASSUME TableInv, SaveInv, NEW t \in Threads, FoundObject(t)
  PROVE  SaveInv'
  <1>1. t \in Opening /\ UNCHANGED <<saved, saveVars>> /\ pc' = [pc EXCEPT ![t] = Idle]
    BY DEF FoundObject, Opening
  <1>2. \E h : h.file = pc[t].file /\ held' = held \cup {h}
    BY DEF FoundObject
  <1> QED
    BY <1>1, <1>2, GivenSave

LEMMA ListObjectSave ==
  ASSUME TableInv, SaveInv, NEW t \in Threads, ListObject(t)
  PROVE  SaveInv'
  <1>1. t \in Opening /\ UNCHANGED <<saved, saveVars>> /\ pc' = [pc EXCEPT ![t] = Idle]
    BY DEF ListObject, Opening
  <1>2. \E h : h.file = pc[t].file /\ held' = held \cup {h}
    BY DEF ListObject
  <1> QED
    BY <1>1, <1>2, GivenSave

(* The bump pointer: a thread in fopen keeps its file, another has none.   *)
LEMMA BumpSave ==
  ASSUME TableInv, SaveInv, NEW t \in Threads, LoadNext(t) \/ StoreNext(t)
  PROVE  SaveInv'
  <1>1. UNCHANGED <<saved, saveVars>> /\ held' = held
    BY DEF LoadNext, StoreNext, tableVars
  <1>2. pc[t] \in Thunk /\ \A u \in Threads \ {t} : pc'[u] = pc[u]
    BY DEF LoadNext, StoreNext, TableInv, TableTypes
  <1>3. CASE pc[t].at \in {"object", "alloc"}
    <2>1. PICK at \in {"alloc", "given"}, object \in Nat :
            pc' = [pc EXCEPT ![t].at = at, ![t].object = object]
      <3>1. next \in Nat /\ pc[t].object + 1 \in Nat
        BY <1>2 DEF Thunk, TableInv, TableTypes
      <3> QED
        BY <1>3, <3>1 DEF LoadNext, StoreNext
    <2>2. pc' = [pc EXCEPT ![t] = [pc[t] EXCEPT !.at = at, !.object = object]]
      BY <2>1
    <2>3. pc'[t].at = at /\ pc'[t].file = pc[t].file
      BY <1>2, <2>2 DEF Thunk, TableInv, TableTypes
    <2>4. t \in Opening /\ pc'[t].at \in {"add"} \cup Getting /\ pc'[t].at # "rename"
      BY <1>3, <2>3 DEF Opening, Getting
    <2>5. \E h : h.file = pc[t].file
      <3>1. [file |-> pc[t].file].file = pc[t].file
        OBVIOUS
      <3> QED
        BY <3>1
    <2> QED
      BY <1>1, <1>2, <2>3, <2>4, <2>5, FileGoesOn
  <1>4. CASE pc[t].at \notin {"object", "alloc"}
    <2>1. /\ pc[t].at \in {"idle", "bytes"}
          /\ \/ \E next0 : pc' = [pc EXCEPT ![t] = [Idle EXCEPT !.at = "bytes",
                                                               !.object = next0]]
             \/ pc' = [pc EXCEPT ![t] = Idle]
      BY <1>4 DEF LoadNext, StoreNext
    <2>2. pc'[t].at \in {"idle", "bytes"}
      <3>1. pc \in [Threads -> Thunk] /\ Idle.at = "idle"
        BY IdleIsTyped DEF TableInv, TableTypes
      <3>2. \A o : [Idle EXCEPT !.at = "bytes", !.object = o].at = "bytes"
        BY DEF Idle
      <3>3. ASSUME NEW v, pc' = [pc EXCEPT ![t] = v] PROVE pc'[t] = v
        BY <3>1, <3>3
      <3> QED
        BY <2>1, <3>1, <3>2, <3>3
    <2>3. Opening' = Opening /\ t \notin Opening
      BY <1>2, <2>1, <2>2 DEF Opening
    <2>4. NewOpening' = NewOpening /\ NewHeld' = NewHeld
      BY <1>1, <1>2, <2>3 DEF NewOpening, NewHeld, Opening
    <2>5. SaveIsWritten'
      BY <1>1, <1>2, <2>3, <2>4 DEF SaveInv, SaveIsWritten, saveVars, Opening
    <2>6. \A u \in Threads : pc'[u].at = "rename" => pc'[u] = pc[u]
      BY <1>2, <2>2
    <2> QED
      BY <1>1, <2>5, <2>6, SaveIsLeft DEF SaveInv, SaveIsWhole
  <1> QED
    BY <1>3, <1>4

LEMMA NoRoomSave ==
  ASSUME TableInv, SaveInv, NEW t \in Threads, NoRoom(t)
  PROVE  SaveInv'
  <1>1. /\ t \in Opening /\ pc' = [pc EXCEPT ![t] = Idle]
        /\ stage' = IF pc[t].file.name = New THEN "none" ELSE stage
        /\ UNCHANGED <<saved, tableVars, saves, committed, clobbered>>
    BY DEF NoRoom, Opening
  <1>2. pc'[t].at = "idle" /\ \A u \in Threads \ {t} : pc'[u] = pc[u]
    BY <1>1, IdleIsTyped DEF TableInv, TableTypes
  <1>3. Opening' = Opening \ {t}
    BY <1>2 DEF Opening
  <1>4. NewOpening' = NewOpening \ {t} /\ NewHeld' = NewHeld
    BY <1>1, <1>2, <1>3 DEF NewOpening, NewHeld, Opening, tableVars
  <1>5. pc[t].file.name = New =>
          stage = "writing" /\ NewOpening' = {} /\ NewHeld' = {}
    BY <1>1, <1>4 DEF NewOpening, SaveInv, SaveIsWritten
  <1>6. SaveIsWritten'
    BY <1>1, <1>2, <1>3, <1>4, <1>5
       DEF SaveInv, SaveIsWritten, tableVars, Opening
  <1>7. SaveIsRenamed'
    BY <1>1, <1>2, <1>5 DEF SaveInv, SaveIsRenamed
  <1>8. SaveIsWhole'
    BY <1>1, <1>5 DEF SaveInv, SaveIsWhole
  <1> QED
    BY <1>6, <1>7, <1>8 DEF SaveInv

LEMMA CloseSave ==
  ASSUME TableInv, SaveInv, NEW h \in held, Close(h), ~raced
  PROVE  SaveInv'
  <1> DEFINE whole == IF h.file.name = New THEN saves + 1 ELSE 1
  <1>1. /\ held' = held \ {h} /\ UNCHANGED <<pc, committed, clobbered>>
        /\ saved' = IF h.file.writing THEN [saved EXCEPT ![h.file.name] = whole]
                    ELSE saved
        /\ IF h.file.writing /\ h.file.name = New
           THEN saves' = saves + 1 /\ stage' = "written"
           ELSE UNCHANGED <<saves, stage>>
    <2>1. table[h.slot].file = h.file
      BY DEF TableInv, SlotsHaveOwners
    <2> QED
      BY <2>1, CloseFindsSlot DEF Close
  <1>2. NewOpening' = NewOpening /\ NewHeld' = NewHeld \ {h} /\ Opening' = Opening
    BY <1>1 DEF NewOpening, NewHeld, Opening
  <1>3. CASE h.file.writing /\ h.file.name = New
    <2>1. /\ saves' = saves + 1 /\ stage' = "written"
          /\ saved' = [saved EXCEPT ![New] = saves + 1]
      BY <1>1, <1>3
    <2>2. h \in NewHeld /\ stage = "writing" /\ NewOpening = {}
      BY <1>3 DEF NewHeld, SaveInv, SaveIsWritten
    <2>3. NewHeld' = {}
      BY <1>2, <2>2 DEF SaveInv, SaveIsWritten
    <2>4. SaveIsWritten'
      BY <1>1, <1>2, <2>2, <2>3 DEF SaveInv, SaveIsWritten, Opening
    <2>5. \A t \in Threads : pc'[t].at # "rename"
      BY <1>1, <2>2 DEF SaveInv, SaveIsRenamed
    <2>6. SaveIsWhole'
      <3>1. saves' \in Nat /\ saves' > 0 /\ saves' \in Int
        BY <2>1 DEF SaveInv, SaveIsWhole
      <3>2. /\ saved' \in [Names -> Int] /\ saved'[New] = saves'
            /\ saved'[Slot] = saved[Slot] /\ saved'[Backup] = saved[Backup]
        BY <2>1, <3>1, ThreeNames DEF SaveInv, SaveIsWhole
      <3> QED
        BY <1>1, <2>1, <3>1, <3>2 DEF SaveInv, SaveIsWhole
    <2> QED
      BY <2>4, <2>5, <2>6 DEF SaveInv, SaveIsRenamed
  <1>4. CASE ~(h.file.writing /\ h.file.name = New)
    <2>1. /\ UNCHANGED saveVars /\ h.file.name \notin {Slot, Backup}
          /\ \/ saved' = saved
             \/ /\ h.file.name # New
                /\ saved' = [saved EXCEPT ![h.file.name] = 1]
      BY <1>1, <1>4 DEF saveVars, SaveInv, SaveIsWritten
    <2>2. /\ saved' \in [Names -> Int]
          /\ \A n \in {New, Slot, Backup} : saved'[n] = saved[n]
      BY <2>1, ThreeNames DEF SaveInv, SaveIsWhole
    <2>3. SaveIsWritten'
      BY <1>1, <1>2, <2>1 DEF SaveInv, SaveIsWritten, saveVars, Opening
    <2> QED
      BY <1>1, <2>1, <2>2, <2>3, SaveIsLeft
  <1> QED
    BY <1>3, <1>4

(* Renaming touches nothing that is open.                                  *)
LEMMA RenamesOpenNothing ==
  ASSUME SaveInv, UNCHANGED held, Opening' = Opening,
         \A t \in Opening : pc'[t] = pc[t],
         stage' = "writing" => stage = "writing",
         stage # "writing"
  PROVE  SaveIsWritten'
  <1>1. NewOpening' = NewOpening /\ NewHeld' = NewHeld
    BY DEF NewOpening, NewHeld
  <1> QED
    BY <1>1 DEF SaveInv, SaveIsWritten

LEMMA RenamesSave ==
  ASSUME TableInv, SaveInv, NEW t \in Threads, Renames(t)
  PROVE  SaveInv'
  <1>1. PICK from \in Names, to \in Names :
          /\ t_rename(t, from, to)
          /\ \/ stage = "written" /\ from = Slot /\ to = Backup
             \/ stage = "backed" /\ from = New /\ to = Slot
    BY ThreeNames DEF Renames
  <1> DEFINE f == [Idle EXCEPT !.at = "rename", !.from = from, !.to = to]
  <1>2. f.at = "rename" /\ f.from = from /\ f.to = to
    BY DEF Idle
  <1>3. /\ pc[t].at = "idle" /\ \A u \in Threads : pc[u].at # "rename"
        /\ pc' = [pc EXCEPT ![t] = f]
        /\ saved' = [saved EXCEPT ![to] = Absent]
        /\ clobbered' = (clobbered \/ (saved[from] = Absent /\ saved[to] # Absent))
        /\ UNCHANGED <<held, stage, saves, committed>>
    BY <1>1 DEF t_rename, tableVars
  <1> HIDE DEF f
  <1>4. pc'[t] = f /\ \A u \in Threads \ {t} : pc'[u] = pc[u]
    BY <1>3 DEF TableInv, TableTypes
  <1>5. Opening' = Opening /\ t \notin Opening
    BY <1>2, <1>3, <1>4 DEF Opening
  <1>6. SaveIsWritten'
    BY <1>1, <1>3, <1>4, <1>5, RenamesOpenNothing DEF Opening
  <1>7. /\ saved' \in [Names -> Int] /\ saved'[to] = Absent
        /\ \A n \in Names \ {to} : saved'[n] = saved[n]
    BY <1>3 DEF SaveInv, SaveIsWhole, Absent
  <1>8. SaveIsRenamed'
    BY <1>1, <1>2, <1>3, <1>4, <1>7 DEF SaveIsRenamed
  <1>9. SaveIsWhole'
    <2>1. clobbered' \in BOOLEAN
      <3>1. clobbered \in BOOLEAN
        BY DEF SaveInv, SaveIsWhole
      <3> QED
        BY <1>3, <3>1
    <2>2. /\ saved'[Slot] \in {Absent, committed'}
          /\ stage' = "backed" => saved'[Slot] = Absent \/ clobbered'
          /\ stage' \in {"written", "backed"} => saved'[New] = saves' /\ saves' > 0
      BY <1>1, <1>3, <1>7, ThreeNames DEF SaveInv, SaveIsWhole
    <2>3. ASSUME committed' > 0, ~clobbered', saved'[Slot] = Absent
          PROVE  saved'[Backup] >= committed'
      <3>1. /\ committed > 0 /\ ~clobbered
            /\ saved[from] # Absent \/ saved[to] = Absent
        BY <1>3, <2>3
      <3>2. saved[Slot] = Absent => saved[Backup] >= committed
        BY <3>1 DEF SaveInv, SaveIsWhole
      <3>3. CASE from = Slot /\ to = Backup
        <4>1. saved[Slot] = Absent /\ saved[Backup] = Absent
          BY <1>7, <2>3, <3>1, <3>3, ThreeNames
        <4>2. committed \in Nat
          BY DEF SaveInv, SaveIsWhole
        <4> QED
          BY <3>1, <3>2, <4>1, <4>2 DEF Absent
      <3>4. CASE stage = "backed" /\ to = Slot
        <4>1. saved[Slot] = Absent /\ saved'[Backup] = saved[Backup]
          BY <1>7, <3>1, <3>4, ThreeNames DEF SaveInv, SaveIsWhole
        <4> QED
          BY <1>3, <3>2, <4>1
      <3> QED
        BY <1>1, <3>3, <3>4
    <2> QED
      BY <1>3, <1>7, <2>1, <2>2, <2>3 DEF SaveInv, SaveIsWhole
  <1> QED
    BY <1>6, <1>8, <1>9 DEF SaveInv

LEMMA HostRenameSave ==
  ASSUME TableInv, SaveInv, NEW t \in Threads, HostRename(t)
  PROVE  SaveInv'
  <1>1. PICK refused \in BOOLEAN :
          /\ pc[t].at = "rename" /\ pc' = [pc EXCEPT ![t] = Idle]
          /\ saved' = IF refused THEN saved ELSE Moved(pc[t].from, pc[t].to)
          /\ IF stage = "written"
             THEN /\ stage' = "backed" /\ clobbered' = (clobbered \/ refused)
                  /\ UNCHANGED committed
             ELSE /\ stage' = "none" /\ clobbered' = (clobbered /\ refused)
                  /\ committed' = IF refused THEN committed ELSE saves
          /\ UNCHANGED <<held, saves>>
    BY DEF HostRename, tableVars
  <1>2. /\ saved[pc[t].to] = Absent
        /\ \/ stage = "written" /\ pc[t].from = Slot /\ pc[t].to = Backup
           \/ stage = "backed" /\ pc[t].from = New /\ pc[t].to = Slot
        /\ \A u \in Threads \ {t} : pc[u].at # "rename"
    BY <1>1 DEF SaveInv, SaveIsRenamed
  <1>3. pc'[t].at = "idle" /\ \A u \in Threads \ {t} : pc'[u] = pc[u]
    BY <1>1, IdleIsTyped DEF TableInv, TableTypes
  <1>4. Opening' = Opening /\ t \notin Opening
    BY <1>1, <1>3 DEF Opening
  <1>5. SaveIsWritten'
    BY <1>1, <1>2, <1>3, <1>4, RenamesOpenNothing DEF Opening
  <1>6. \A u \in Threads : pc'[u].at # "rename"
    BY <1>2, <1>3
  <1>7. /\ saved \in [Names -> Int] /\ saves \in Nat /\ committed \in Nat
        /\ saved[New] = saves /\ saves > 0 /\ saved[Slot] \in {Absent, committed}
        /\ clobbered \in BOOLEAN
    BY <1>2 DEF SaveInv, SaveIsWhole
  <1>8. CASE stage = "written"
    <2>1. pc[t].from = Slot /\ pc[t].to = Backup /\ saved[Backup] = Absent
      BY <1>2, <1>8
    <2>2. stage' = "backed" /\ committed' = committed /\ saves' = saves
      BY <1>1, <1>8
    <2>3. CASE refused
      <3>1. saved' = saved /\ clobbered' = TRUE
        BY <1>1, <1>8, <2>3
      <3>2. SaveIsWhole'
        BY <1>7, <2>2, <3>1 DEF SaveIsWhole
      <3> QED
        BY <1>5, <1>6, <3>2 DEF SaveInv, SaveIsRenamed
    <2>4. CASE ~refused
      <3>1. /\ saved' \in [Names -> Int] /\ saved'[New] = saved[New]
            /\ saved'[Slot] = Absent /\ saved'[Backup] = saved[Slot]
        BY <1>1, <1>7, <2>1, <2>4, ThreeNames DEF Moved, Absent
      <3>2. clobbered' = clobbered
        BY <1>1, <1>7, <1>8, <2>4
      <3>3. committed > 0 /\ ~clobbered => saved[Slot] >= committed
        <4>1. committed > 0 /\ ~clobbered => saved[Slot] # Absent
          BY <1>7, <2>1 DEF SaveInv, SaveIsWhole, Absent
        <4> QED
          BY <1>7, <4>1
      <3>4. SaveIsWhole'
        BY <1>7, <2>2, <3>1, <3>2, <3>3 DEF SaveIsWhole
      <3> QED
        BY <1>5, <1>6, <3>4 DEF SaveInv, SaveIsRenamed
    <2> QED
      BY <2>3, <2>4
  <1>9. CASE stage = "backed"
    <2>1. pc[t].from = New /\ pc[t].to = Slot /\ saved[Slot] = Absent
      BY <1>2, <1>9
    <2>2. stage' = "none" /\ saves' = saves
      BY <1>1, <1>9
    <2>3. CASE refused
      <3>1. saved' = saved /\ clobbered' = clobbered /\ committed' = committed
        BY <1>1, <1>7, <1>9, <2>3
      <3>2. SaveIsWhole'
        BY <1>7, <2>2, <3>1 DEF SaveInv, SaveIsWhole
      <3> QED
        BY <1>5, <1>6, <3>2 DEF SaveInv, SaveIsRenamed
    <2>4. CASE ~refused
      <3>1. saved[New] # Absent
        BY <1>7 DEF Absent
      <3>2. /\ saved' \in [Names -> Int] /\ saved'[Slot] = saves
        BY <1>1, <1>7, <2>1, <2>4, <3>1, ThreeNames DEF Moved, Absent
      <3>3. committed' = saves /\ clobbered' \in BOOLEAN
        BY <1>1, <1>7, <1>9, <2>4
      <3>4. saves # 0
        BY <1>7
      <3>5. SaveIsWhole'
        BY <1>7, <2>2, <3>2, <3>3, <3>4 DEF SaveIsWhole, Absent
      <3> QED
        BY <1>5, <1>6, <3>5 DEF SaveInv, SaveIsRenamed
    <2> QED
      BY <2>3, <2>4
  <1> QED
    BY <1>2, <1>8, <1>9

(* A crash closes everything and leaves the names what they have.          *)
LEMMA NothingOpenSave ==
  ASSUME SaveInv, NothingOpen', stage' = "none",
         UNCHANGED <<saved, saves, committed, clobbered>>
  PROVE  SaveInv'
  <1>1. \A t \in Threads : pc'[t].at = "idle"
    BY IdleIsTyped DEF NothingOpen
  <1>2. Opening' = {} /\ held' = {}
    BY <1>1 DEF Opening, NothingOpen
  <1>3. SaveIsWritten'
    BY <1>2 DEF SaveIsWritten, NewOpening, NewHeld
  <1>4. SaveIsWhole'
    BY DEF SaveInv, SaveIsWhole
  <1> QED
    BY <1>1, <1>3, <1>4 DEF SaveInv, SaveIsRenamed

LEMMA InitSave == Init => SaveInv
  <1> SUFFICES ASSUME Init PROVE SaveInv
    OBVIOUS
  <1>1. \A t \in Threads : pc[t].at = "idle"
    BY IdleIsTyped DEF Init
  <1>2. Opening = {} /\ held = {}
    BY <1>1 DEF Opening, Init
  <1>3. SaveIsWritten
    BY <1>2 DEF SaveIsWritten, NewOpening, NewHeld
  <1>4. SaveIsWhole
    <2>1. /\ saved = [n \in Names |-> Absent] /\ saves = 0 /\ committed = 0
          /\ clobbered = FALSE /\ stage = "none"
      BY DEF Init
    <2>2. saved \in [Names -> Int] /\ saved[Slot] = 0
      BY <2>1, ThreeNames DEF Absent
    <2>3. clobbered \in BOOLEAN
      BY <2>1
    <2>4. committed \in Nat /\ ~(committed > 0) /\ saves \in Nat
      BY <2>1
    <2>5. stage = "none"
      BY <2>1
    <2> QED
      BY <2>2, <2>3, <2>4, <2>5 DEF SaveIsWhole, Absent
  <1> QED
    BY <1>1, <1>3, <1>4 DEF SaveInv, SaveIsRenamed

LEMMA StepSave ==
  ASSUME TableInv, SaveInv, [Next]_vars, ~raced
  PROVE  SaveInv'
  <1>1. CASE UNCHANGED vars
    BY <1>1 DEF vars, tableVars, saveVars, SaveInv, SaveIsWritten, SaveIsRenamed,
                SaveIsWhole, NewOpening, NewHeld, Opening
  <1>2. CASE Crash
    <2>1. NothingOpen' /\ stage' = "none"
      BY <1>2 DEF Crash, NothingOpen
    <2>2. UNCHANGED <<saved, saves, committed, clobbered>>
      BY <1>2 DEF Crash
    <2> QED
      BY <2>1, <2>2, NothingOpenSave
  <1> QED
    BY <1>1, <1>2, OpenSave, t_removeSave, AddFileSave, FoundObjectSave,
       BumpSave, ListObjectSave, NoRoomSave, WriteSaveSave, RenamesSave,
       HostRenameSave, CloseSave
       DEF Next

LEMMA SaveIsThere == SaveInv => SaveSurvives
  <1> SUFFICES ASSUME SaveInv, committed > 0, ~clobbered
               PROVE  saved[Slot] >= committed \/ saved[Backup] >= committed
    BY DEF SaveSurvives
  <1> QED
    BY DEF SaveInv, SaveIsWhole

-----------------------------------------------------------------------------
(* thunks_fs.cpp: whichever threads open and close files of the guest at   *)
(* once, a descriptor or FILE leads to the file it was given for, and each *)
(* object is that of one slot, so there are never more than slots; until   *)
(* two threads are between the load and the store of the bump pointer.     *)
THEOREM HandlesMatchTableHolds == Spec => []HandlesMatchTable
  <1>1. Init => raced \/ TableInv
    BY EmptyTable DEF Init, NothingOpen
  <1>2. (raced \/ TableInv) /\ [Next]_vars => (raced \/ TableInv)'
    BY StepTable, RacedStays
  <1>3. raced \/ TableInv => HandlesMatchTable
    BY TableMatches DEF HandlesMatchTable
  <1> QED
    BY <1>1, <1>2, <1>3, PTL DEF Spec

(* thunks_fs.cpp 381-385: wherever a crash ends the program, and however   *)
(* often, the save that was last given its name is whole, under its name   *)
(* or the backup's, or a later one is; but for a rename that moved nothing *)
(* and for two files that were given one FILE object.                      *)
THEOREM SaveSurvivesHolds == Spec => []SaveSurvives
  <1> DEFINE Inv == raced \/ (TableInv /\ SaveInv)
  <1>1. Init => Inv
    BY EmptyTable, InitSave DEF Init, NothingOpen
  <1>2. Inv /\ [Next]_vars => Inv'
    BY StepTable, StepSave, RacedStays
  <1>3. Inv => SaveSurvives
    BY SaveIsThere DEF SaveSurvives
  <1> QED
    BY <1>1, <1>2, <1>3, PTL DEF Spec

-----------------------------------------------------------------------------
(***************************************************************************)
(* Open files, for any file, any calls and any number of them: a stream is *)
(* a file with one offset.  What the stream keeps besides (a byte that was *)
(* put back, and the byte the caller may put back) is what stands at that  *)
(* offset or before it.                                                    *)
(***************************************************************************)
StreamSet ==
  [bytes : Seq(Nat), pos : Nat, back : Seq(Nat), eof : BOOLEAN,
   last : {"none", "read", "write"}, defined : BOOLEAN, reads : BOOLEAN,
   writes : BOOLEAN, append : BOOLEAN]

Suits(f, how) ==
  /\ how.reads = f.reads /\ how.writes = f.writes /\ how.append = f.append

(* The byte put back is the one that is there to read.                     *)
BackIs(f) ==
  \/ f.back = <<>>
  \/ f.reads /\ f.pos < Len(f.bytes) /\ f.back = <<f.bytes[f.pos + 1]>>

(* What the caller may put back is the byte before the offset.             *)
HandIs(f, got) ==
  \/ got = -1
  \/ /\ f.reads /\ f.back = <<>> /\ f.pos \in 1 .. Len(f.bytes)
     /\ got = f.bytes[f.pos]

Simulates(f, how, got) ==
  f \in StreamSet /\ Suits(f, how) /\ BackIs(f) /\ HandIs(f, got)

(* The answer of a thunk is that of the file, and its stream the file.     *)
Agrees(how, r, e, got) ==
  /\ Simulates(r.f, how, got)
  /\ e = [out |-> r.out, ret |-> r.ret, file |-> FileOf(r.f)]

-----------------------------------------------------------------------------
(* Lesser and greater.                                                     *)
LEMMA MinOfTwo ==
  ASSUME NEW a \in Int, NEW b \in Int
  PROVE  /\ Min({a, b}) = IF a <= b THEN a ELSE b
         /\ Max({a, b}) = IF a <= b THEN b ELSE a
  <1>1. \A x \in {a, b} : (\A y \in {a, b} : x <= y) <=>
                            x = IF a <= b THEN a ELSE b
    OBVIOUS
  <1>2. \A x \in {a, b} : (\A y \in {a, b} : x >= y) <=>
                            x = IF a <= b THEN b ELSE a
    OBVIOUS
  <1>3. Min({a, b}) = IF a <= b THEN a ELSE b
    BY <1>1 DEF Min
  <1>4. Max({a, b}) = IF a <= b THEN b ELSE a
    BY <1>2 DEF Max
  <1> QED BY <1>3, <1>4

LEMMA MinOfSome ==
  ASSUME NEW S \in SUBSET Nat, S # {}
  PROVE  Min(S) \in S /\ \A x \in S : Min(S) <= x
  <1>1. \E x \in S : \A y \in S : x <= y
    BY LeastNat
  <1> QED BY <1>1 DEF Min

LEMMA Clamped ==
  ASSUME NEW buf \in Nat, NEW n \in Nat
  PROVE  clamp(buf, n) \in Nat /\ clamp(buf, n) <= n
  <1>1. SpaceSize \in Nat
    BY StringsAssumption DEF StringsAssumption
  <1>2. CASE buf >= SpaceSize
    BY <1>1, <1>2 DEF clamp
  <1>3. CASE ~(buf >= SpaceSize)
    <2>1. SpaceSize - buf \in Nat
      BY <1>1, <1>3
    <2>2. Min({n, SpaceSize - buf})
            = IF n <= SpaceSize - buf THEN n ELSE SpaceSize - buf
      BY <2>1, MinOfTwo
    <2> QED BY <1>3, <2>1, <2>2 DEF clamp
  <1> QED BY <1>2, <1>3

LEMMA Part ==
  ASSUME NEW s \in Seq(Nat), NEW m \in Nat, NEW n \in Nat, n <= Len(s)
  PROVE  /\ SubSeq(s, m + 1, n) \in Seq(Nat)
         /\ Len(SubSeq(s, m + 1, n)) = IF m < n THEN n - m ELSE 0
         /\ \A i \in 1 .. n - m : SubSeq(s, m + 1, n)[i] = s[m + i]
  <1>1. \A i \in m + 1 .. n : s[i] \in Nat
    OBVIOUS
  <1>2. /\ SubSeq(s, m + 1, n) \in Seq(Nat)
        /\ Len(SubSeq(s, m + 1, n)) = IF m + 1 <= n THEN n - (m + 1) + 1 ELSE 0
        /\ \A i \in 1 .. n - (m + 1) + 1 :
             SubSeq(s, m + 1, n)[i] = s[m + 1 + i - 1]
    <2>1. m + 1 \in Int /\ n \in Int
      OBVIOUS
    <2> QED BY <1>1, <2>1, SubSeqProperties
  <1>3. n - (m + 1) + 1 = n - m
    OBVIOUS
  <1>4. \A i \in 1 .. n - m : m + 1 + i - 1 = m + i
    OBVIOUS
  <1> QED BY <1>2, <1>3, <1>4

LEMMA Joined ==
  ASSUME NEW s \in Seq(Nat), NEW t \in Seq(Nat)
  PROVE  /\ s \o t \in Seq(Nat)
         /\ Len(s \o t) = Len(s) + Len(t)
         /\ \A i \in 1 .. Len(s) + Len(t) :
              (s \o t)[i] = IF i <= Len(s) THEN s[i] ELSE t[i - Len(s)]
  BY ConcatProperties

LEMMA MinIs ==
  ASSUME NEW S \in SUBSET Int, NEW x \in S, \A y \in S : x <= y
  PROVE  Min(S) = x
  <1>1. \A z \in S : (\A y \in S : z <= y) => z = x
    OBVIOUS
  <1> QED BY <1>1 DEF Min

-----------------------------------------------------------------------------
(* A file is what its fields are.                                          *)
FileSet == [bytes : Seq(Nat), pos : Nat, short : BOOLEAN]

LEMMA SameFile ==
  ASSUME NEW f \in FileSet, NEW g \in FileSet, f.bytes = g.bytes,
         f.pos = g.pos, f.short = g.short
  PROVE  f = g
  BY DEF FileSet

LEMMA FileIs ==
  ASSUME NEW f \in StreamSet
  PROVE  /\ FileOf(f) \in FileSet /\ FileOf(f).bytes = f.bytes
         /\ FileOf(f).pos = f.pos /\ FileOf(f).short = f.eof
  BY DEF FileOf, FileSet, StreamSet
-----------------------------------------------------------------------------
(* Reading.                                                                *)
LEMMA StreamIs ==
  ASSUME NEW f \in StreamSet
  PROVE  /\ f.bytes \in Seq(Nat) /\ f.pos \in Nat /\ f.back \in Seq(Nat)
         /\ f.eof \in BOOLEAN /\ f.reads \in BOOLEAN /\ f.writes \in BOOLEAN
         /\ f.append \in BOOLEAN /\ f.defined \in BOOLEAN
         /\ f.last \in {"none", "read", "write"}
         /\ Len(f.bytes) \in Nat
  <1> USE DEF StreamSet
  <1> QED OBVIOUS

LEMMA RestIs ==
  ASSUME NEW f \in StreamSet, BackIs(f)
  PROVE  /\ Rest(f) \in Seq(Nat)
         /\ Len(Rest(f)) = IF f.pos < Len(f.bytes) THEN Len(f.bytes) - f.pos
                           ELSE 0
         /\ \A i \in 1 .. Len(f.bytes) - f.pos :
              Rest(f)[i] = f.bytes[f.pos + i]
  <1> DEFINE bytes == f.bytes
             pos == f.pos
             len == Len(bytes)
  <1>1. bytes \in Seq(Nat) /\ pos \in Nat /\ len \in Nat
    BY StreamIs
  <1>2. CASE f.back = <<>>
    <2> DEFINE rest == SubSeq(bytes, pos + 1, len)
    <2>1. /\ rest \in Seq(Nat)
          /\ Len(rest) = IF pos < len THEN len - pos ELSE 0
          /\ \A i \in 1 .. len - pos : rest[i] = bytes[pos + i]
      <3> HIDE DEF bytes, pos
      <3>1. len <= Len(bytes)
        BY <1>1
      <3> QED BY <1>1, <3>1, Part
    <2>2. Rest(f) = rest
      <3>1. Rest(f) = <<>> \o SubSeq(bytes, pos + 1 + Len(<<>>), len)
        BY <1>2 DEF Rest
      <3>2. pos + 1 + Len(<<>>) = pos + 1
        BY <1>1
      <3>3. <<>> \o rest = rest
        <4> HIDE DEF rest
        <4> QED BY <2>1, ConcatEmptySeq
      <3> QED BY <3>1, <3>2, <3>3
    <2> QED BY <2>1, <2>2
  <1>3. CASE pos < len /\ f.back = <<bytes[pos + 1]>>
    <2> DEFINE back == <<bytes[pos + 1]>>
               rest == SubSeq(bytes, pos + 1 + 1, len)
    <2>1. bytes[pos + 1] \in Nat
      BY <1>1, <1>3
    <2>2. back \in Seq(Nat) /\ Len(back) = 1 /\ back[1] = bytes[pos + 1]
      BY <2>1
    <2>3. /\ rest \in Seq(Nat)
          /\ Len(rest) = IF pos + 1 < len THEN len - (pos + 1) ELSE 0
          /\ \A i \in 1 .. len - (pos + 1) : rest[i] = bytes[pos + 1 + i]
      <3> DEFINE m == pos + 1
      <3>1. m \in Nat /\ len <= Len(bytes)
        BY <1>1
      <3> HIDE DEF bytes, m
      <3>2. /\ SubSeq(bytes, m + 1, len) \in Seq(Nat)
            /\ Len(SubSeq(bytes, m + 1, len)) = IF m < len THEN len - m ELSE 0
            /\ \A i \in 1 .. len - m :
                 SubSeq(bytes, m + 1, len)[i] = bytes[m + i]
        BY <1>1, <3>1, Part
      <3> QED BY <3>2 DEF m
    <2>4. Rest(f) = back \o rest
      BY <1>3, <2>2 DEF Rest
    <2> HIDE DEF back, rest, bytes, pos
    <2>5. /\ back \o rest \in Seq(Nat)
          /\ Len(back \o rest) = Len(back) + Len(rest)
          /\ \A i \in 1 .. Len(back) + Len(rest) :
               (back \o rest)[i] = IF i <= Len(back) THEN back[i]
                                   ELSE rest[i - Len(back)]
      BY <2>2, <2>3, Joined
    <2>6. Len(rest) = len - pos - 1
      BY <1>1, <1>3, <2>3
    <2>7. ASSUME NEW i \in 1 .. len - pos
          PROVE  (back \o rest)[i] = bytes[pos + i]
      <3>1. CASE i = 1
        BY <1>1, <2>2, <2>5, <2>6, <3>1
      <3>2. CASE i # 1
        <4>1. i - 1 \in 1 .. len - (pos + 1) /\ i \in 1 .. 1 + (len - pos - 1)
          BY <1>1, <3>2
        <4>2. (back \o rest)[i] = rest[i - 1]
          <5>1. i \in 1 .. Len(back) + Len(rest) /\ ~(i <= Len(back))
            BY <1>1, <2>2, <2>6, <3>2, <4>1
          <5>2. (back \o rest)[i] = rest[i - Len(back)]
            BY <2>5, <5>1
          <5> QED BY <2>2, <5>2
        <4>3. pos + 1 + (i - 1) = pos + i
          BY <1>1
        <4> QED BY <2>3, <4>1, <4>2, <4>3
      <3> QED BY <3>1, <3>2
    <2>8. Len(back \o rest) = len - pos
      BY <1>1, <2>2, <2>5, <2>6
    <2> QED BY <1>3, <2>4, <2>5, <2>7, <2>8 DEF bytes, pos
  <1> QED BY <1>2, <1>3 DEF BackIs

(* What a read of n bytes gives is what a file has ahead.                  *)
LEMMA AheadIs ==
  ASSUME NEW f \in StreamSet, NEW how, Suits(f, how), BackIs(f),
         NEW n \in Nat
  PROVE  /\ Ahead(FileOf(f), how, n)
              = IF f.reads THEN SubSeq(Rest(f), 1, Min({n, Len(Rest(f))}))
                ELSE <<>>
         /\ Ahead(FileOf(f), how, n) \in Seq(Nat)
         /\ Len(Ahead(FileOf(f), how, n)) <= n
         /\ Ahead(FileOf(f), how, n) # <<>> =>
              f.reads /\ f.pos + Len(Ahead(FileOf(f), how, n)) <= Len(f.bytes)
         /\ \A i \in 1 .. Len(Ahead(FileOf(f), how, n)) :
              Ahead(FileOf(f), how, n)[i] = f.bytes[f.pos + i]
         /\ (f.reads /\ n > 0 /\ f.pos < Len(f.bytes)) =>
              Ahead(FileOf(f), how, n) # <<>>
  <1> DEFINE bytes == f.bytes
             pos == f.pos
             len == Len(bytes)
             rest == Rest(f)
             text == Ahead(FileOf(f), how, n)
             k == IF pos + n <= len THEN pos + n ELSE len
             m == IF n <= Len(rest) THEN n ELSE Len(rest)
  <1>1. bytes \in Seq(Nat) /\ pos \in Nat /\ len \in Nat
    BY StreamIs
  <1>2. text = IF f.reads THEN SubSeq(bytes, pos + 1, k) ELSE <<>>
    <2>1. FileOf(f).bytes = bytes /\ FileOf(f).pos = pos
      BY DEF FileOf
    <2>2. Min({pos + n, len}) = k
      BY <1>1, MinOfTwo
    <2> QED BY <2>1, <2>2 DEF Ahead, Suits
  <1>3. /\ rest \in Seq(Nat) /\ Len(rest) \in Nat
        /\ Len(rest) = IF pos < len THEN len - pos ELSE 0
        /\ \A i \in 1 .. len - pos : rest[i] = bytes[pos + i]
    BY RestIs
  <1>4. m \in Nat /\ m <= Len(rest) /\ m <= n
    BY <1>3
  <1>5. k \in Nat /\ k <= len
    BY <1>1
  <1>6. m = IF pos < k THEN k - pos ELSE 0
    <2> HIDE DEF bytes, pos, len, rest
    <2>1. CASE pos + n <= len
      BY <1>1, <1>3, <2>1
    <2>2. CASE ~(pos + n <= len)
      BY <1>1, <1>3, <2>2
    <2> QED BY <2>1, <2>2
  <1> HIDE DEF k, m, text, bytes, pos, rest
  <1>7. /\ SubSeq(bytes, pos + 1, k) \in Seq(Nat)
        /\ Len(SubSeq(bytes, pos + 1, k)) = m
        /\ \A i \in 1 .. k - pos : SubSeq(bytes, pos + 1, k)[i] = bytes[pos + i]
    BY <1>1, <1>5, <1>6, Part
  <1>8. /\ SubSeq(rest, 1, m) \in Seq(Nat)
        /\ Len(SubSeq(rest, 1, m)) = m
        /\ \A i \in 1 .. m : SubSeq(rest, 1, m)[i] = rest[i]
    <2>1. /\ SubSeq(rest, 0 + 1, m) \in Seq(Nat)
          /\ Len(SubSeq(rest, 0 + 1, m)) = IF 0 < m THEN m - 0 ELSE 0
          /\ \A i \in 1 .. m - 0 : SubSeq(rest, 0 + 1, m)[i] = rest[0 + i]
      <3>1. 0 \in Nat
        OBVIOUS
      <3> QED BY ONLY <1>3, <1>4, <3>1, Part
    <2>2. 0 + 1 = 1 /\ m - 0 = m /\ (IF 0 < m THEN m - 0 ELSE 0) = m
      BY <1>4
    <2>3. \A i \in 1 .. m : 0 + i = i
      OBVIOUS
    <2> QED BY <2>1, <2>2, <2>3
  <1>9. \A i \in 1 .. m : i \in 1 .. k - pos /\ i \in 1 .. len - pos
    BY <1>1, <1>4, <1>5, <1>6
  <1>10. SubSeq(bytes, pos + 1, k) = SubSeq(rest, 1, m)
    <2> DEFINE s == SubSeq(bytes, pos + 1, k)
               t == SubSeq(rest, 1, m)
    <2>1. s \in Seq(Nat) /\ t \in Seq(Nat) /\ Len(s) = Len(t)
      BY <1>7, <1>8
    <2>2. \A i \in 1 .. Len(s) : s[i] = t[i]
      BY <1>3, <1>7, <1>8, <1>9
    <2> HIDE DEF s, t
    <2>3. s = t
      BY <2>1, <2>2, SeqEqual
    <2> QED BY <2>3 DEF s, t
  <1>11. Min({n, Len(rest)}) = m
    BY <1>3, MinOfTwo DEF m
  <1>12. text = IF f.reads THEN SubSeq(rest, 1, Min({n, Len(rest)})) ELSE <<>>
    BY <1>2, <1>10, <1>11
  <1>13. CASE ~f.reads
    <2>1. text = <<>>
      BY <1>2, <1>13
    <2> QED BY <1>12, <1>13, <2>1 DEF text, rest
  <1>14. CASE f.reads
    <2>1. text \in Seq(Nat) /\ Len(text) = m /\ text = SubSeq(bytes, pos + 1, k)
      BY <1>2, <1>7, <1>14
    <2>2. \A i \in 1 .. Len(text) : text[i] = bytes[pos + i]
      BY <1>7, <1>9, <2>1
    <2>3. text # <<>> => pos + Len(text) <= len
      BY <1>1, <1>5, <1>6, <2>1
    <2>4. (n > 0 /\ pos < len) => text # <<>>
      <3> SUFFICES ASSUME n > 0, pos < len PROVE Len(text) # 0
        BY <2>1
      <3>1. pos < k
        BY <1>1 DEF k
      <3> QED BY <1>1, <1>5, <1>6, <2>1, <3>1
    <2> QED BY <1>4, <1>12, <1>14, <2>1, <2>2, <2>3, <2>4
            DEF text, rest, bytes, pos
  <1> QED BY <1>13, <1>14

(* A read of the host's FILE takes what the file has ahead.                *)
LEMMA ReadIs ==
  ASSUME NEW f \in StreamSet, NEW how, Suits(f, how), BackIs(f),
         NEW n \in Nat \ {0}
  PROVE  LET r == Fread(f, n)
             a == Ahead(FileOf(f), how, n)
         IN /\ r = [out |-> a, ret |-> Len(a), f |-> r.f]
            /\ Simulates(r.f, how, -1)
            /\ r.f.back = <<>> /\ r.f.bytes = f.bytes
            /\ r.f.pos = f.pos + Len(a) /\ r.f.reads = f.reads
            /\ \A out, ret : Takes(FileOf(f), how, a, n, out, ret)
                               = [out |-> out, ret |-> ret,
                                  file |-> FileOf(r.f)]
  <1> DEFINE a == Ahead(FileOf(f), how, n)
             at == f.pos + Len(a)
             back == IF a = <<>> THEN f.back ELSE <<>>
             eof == f.eof \/ (f.reads /\ Len(a) < n)
             defined == f.defined /\ f.last # "write"
             g == [f EXCEPT !.pos = at, !.last = "read", !.back = back,
                            !.eof = eof, !.defined = defined]
  <1>1. /\ a = IF f.reads THEN SubSeq(Rest(f), 1, Min({n, Len(Rest(f))}))
               ELSE <<>>
        /\ a \in Seq(Nat)
        /\ (f.reads /\ f.pos < Len(f.bytes)) => a # <<>>
    <2>1. n \in Nat /\ n > 0
      OBVIOUS
    <2> QED BY <2>1, AheadIs
  <1> HIDE DEF a
  <1>2. Fread(f, n) = [out |-> a, ret |-> Len(a), f |-> g]
    BY <1>1 DEF Fread
  <1>3. back = <<>>
    <2>1. CASE f.back = <<>>
      BY <2>1
    <2>2. CASE f.back # <<>>
      BY <1>1, <2>2 DEF BackIs
    <2> QED BY <2>1, <2>2
  <1>4. /\ at \in Nat /\ back \in Seq(Nat) /\ eof \in BOOLEAN
        /\ defined \in BOOLEAN
    <2>1. Len(a) \in Nat
      BY <1>1
    <2> QED BY <1>3, <2>1, StreamIs
  <1> HIDE DEF at, back, eof, defined
  <1>5. /\ g \in StreamSet /\ g.back = <<>> /\ g.bytes = f.bytes
        /\ g.pos = at /\ g.reads = f.reads /\ g.writes = f.writes
        /\ g.append = f.append /\ g.eof = eof
    <2>1. g \in StreamSet
      BY <1>4 DEF StreamSet
    <2> QED BY <1>3, <1>4, <2>1 DEF StreamSet
  <1> HIDE DEF g
  <1>6. Simulates(g, how, -1)
    BY <1>5 DEF Simulates, Suits, BackIs, HandIs
  <1>7. ASSUME NEW out, NEW ret
        PROVE  Takes(FileOf(f), how, a, n, out, ret)
                 = [out |-> out, ret |-> ret, file |-> FileOf(g)]
    <2> DEFINE file == FileOf(f)
    <2>1. /\ file \in FileSet /\ file.bytes = f.bytes
          /\ file.pos = f.pos /\ file.short = f.eof
      BY FileIs
    <2> HIDE DEF file
    <2>2. [file EXCEPT !.pos = @ + Len(a),
                       !.short = @ \/ (how.reads /\ Len(a) < n)] = FileOf(g)
      <3>1. /\ file.pos + Len(a) = at
            /\ (file.short \/ (how.reads /\ Len(a) < n)) = eof
        BY <2>1 DEF Suits, at, eof
      <3> DEFINE h == [file EXCEPT !.pos = at, !.short = eof]
      <3>2. /\ h \in FileSet
            /\ h.bytes = file.bytes /\ h.pos = at /\ h.short = eof
        <4>1. h \in FileSet
          BY <1>4, <2>1 DEF FileSet
        <4> QED BY <2>1, <4>1 DEF FileSet
      <3>3. [file EXCEPT !.pos = @ + Len(a),
                         !.short = @ \/ (how.reads /\ Len(a) < n)] = h
        BY <3>1
      <3>4. /\ FileOf(g) \in FileSet /\ FileOf(g).bytes = g.bytes
            /\ FileOf(g).pos = g.pos /\ FileOf(g).short = g.eof
        BY <1>5, FileIs
      <3> HIDE DEF h
      <3>5. h = FileOf(g)
        BY <1>5, <2>1, <3>2, <3>4, SameFile
      <3> QED BY <3>3, <3>5
    <2> QED BY <2>2 DEF Takes, file
  <1> QED BY <1>2, <1>3, <1>5, <1>6, <1>7 DEF a, at

(* Where there is nothing to write, or no right to, nothing changes.       *)
LEMMA WriteIs ==
  ASSUME NEW f \in StreamSet, NEW how, Suits(f, how), BackIs(f),
         NEW text \in Seq(Nat)
  PROVE  LET w == Fwrite(f, text)
         IN /\ w = [out |-> <<>>, f |-> w.f,
                    ret |-> IF f.writes THEN Len(text) ELSE 0]
            /\ Simulates(w.f, how, -1)
            /\ \A ret : Puts(FileOf(f), how, text, ret)
                          = [out |-> <<>>, ret |-> ret, file |-> FileOf(w.f)]
  <1> DEFINE at == IF f.append THEN Len(f.bytes) ELSE f.pos
             size == Max({Len(f.bytes), at + Len(text)})
             to == Overlaid(f.bytes, at, text)
             defined == f.defined /\ f.last # "read"
             none == <<>>
             g == [f EXCEPT !.bytes = to, !.pos = at + Len(text),
                            !.last = "write", !.back = none,
                            !.defined = defined]
  <1>1. /\ f.bytes \in Seq(Nat) /\ f.pos \in Nat /\ Len(f.bytes) \in Nat
        /\ f.writes \in BOOLEAN
    BY StreamIs
  <1>2. CASE ~f.writes \/ text = <<>>
    <2>1. Fwrite(f, text) = [out |-> <<>>, ret |-> 0, f |-> f]
      BY <1>2 DEF Fwrite
    <2>2. (IF f.writes THEN Len(text) ELSE 0) = 0
      BY <1>1, <1>2
    <2>3. \A ret : Puts(FileOf(f), how, text, ret)
                     = [out |-> <<>>, ret |-> ret, file |-> FileOf(f)]
      BY <1>2 DEF Puts, Says, Suits
    <2> QED BY <2>1, <2>2, <2>3 DEF Simulates, HandIs
  <1>3. CASE ~(~f.writes \/ text = <<>>)
    <2>1. at \in Nat /\ Len(text) \in Nat /\ size \in Nat
      <3>1. at \in Nat /\ Len(text) \in Nat
        BY <1>1
      <3> DEFINE end == at + Len(text)
                 len == Len(f.bytes)
      <3>2. end \in Nat /\ len \in Nat
        BY <1>1, <3>1
      <3> HIDE DEF end, len, at
      <3>3. Max({len, end}) \in Nat
        <4>1. end \in Int /\ len \in Int
          BY <3>2
        <4>2. Max({len, end}) = IF len <= end THEN end ELSE len
          BY <4>1, MinOfTwo
        <4> QED BY <3>2, <4>2
      <3> QED BY <3>1, <3>3 DEF end, len
    <2>2. ASSUME NEW i \in 1 .. size
          PROVE  i \in at + 1 .. at + Len(text) <=> i - at \in DOMAIN text
      <3> HIDE DEF at, size
      <3>1. DOMAIN text = 1 .. Len(text)
        OBVIOUS
      <3> QED BY <2>1, <3>1
    <2>3. to = [i \in 1 .. size |->
                  IF i \in at + 1 .. at + Len(text) THEN text[i - at]
                  ELSE IF i <= Len(f.bytes) THEN f.bytes[i] ELSE 0]
      <3> HIDE DEF at
      <3> QED BY <2>2 DEF Overlaid
    <2>4. Fwrite(f, text) = [out |-> <<>>, ret |-> Len(text), f |-> g]
      <3> HIDE DEF to
      <3> QED BY <1>3, <2>3 DEF Fwrite
    <2>5. to \in Seq(Nat)
      <3>1. ASSUME NEW i \in 1 .. size
            PROVE  (IF i \in at + 1 .. at + Len(text) THEN text[i - at]
                    ELSE IF i <= Len(f.bytes) THEN f.bytes[i] ELSE 0) \in Nat
        <4> HIDE DEF at, size
        <4>1. CASE i - at \in DOMAIN text
          BY <2>2, <4>1
        <4>2. CASE i - at \notin DOMAIN text
          BY <1>1, <2>2, <4>2
        <4> QED BY <4>1, <4>2
      <3>2. to \in [1 .. size -> Nat]
        <4> HIDE DEF at, size, to
        <4> QED BY <2>3, <3>1
      <3> HIDE DEF at, size, to
      <3> QED BY <2>1, <3>2
    <2> HIDE DEF to, size
    <2>6. /\ g \in StreamSet /\ g.back = <<>> /\ g.bytes = to
          /\ g.pos = at + Len(text) /\ g.reads = f.reads
          /\ g.writes = f.writes /\ g.append = f.append /\ g.eof = f.eof
      <3> DEFINE end == at + Len(text)
      <3>1. /\ end \in Nat /\ defined \in BOOLEAN /\ none \in Seq(Nat)
            /\ none = <<>>
        BY <2>1, StreamIs
      <3> HIDE DEF at, defined, none, end
      <3>2. g \in StreamSet
        <4>1. [f EXCEPT !.bytes = to, !.pos = end, !.last = "write",
                        !.back = none, !.defined = defined] \in StreamSet
          BY <2>5, <3>1 DEF StreamSet
        <4> QED BY <4>1 DEF end
      <3>3. /\ g.back = none /\ g.bytes = to
            /\ g.pos = end /\ g.reads = f.reads
            /\ g.writes = f.writes /\ g.append = f.append /\ g.eof = f.eof
        BY <3>2 DEF StreamSet, end
      <3> QED BY <3>1, <3>2, <3>3 DEF end
    <2> HIDE DEF g
    <2>7. Simulates(g, how, -1)
      BY <2>6 DEF Simulates, Suits, BackIs, HandIs
    <2>8. ASSUME NEW ret
          PROVE  Puts(FileOf(f), how, text, ret)
                   = [out |-> <<>>, ret |-> ret, file |-> FileOf(g)]
      <3> DEFINE file == FileOf(f)
                 end == at + Len(text)
                 h == [file EXCEPT !.bytes = to, !.pos = end]
      <3>1. /\ file \in FileSet /\ file.bytes = f.bytes
            /\ file.pos = f.pos /\ file.short = f.eof
        BY FileIs
      <3>2. /\ how.writes
            /\ (IF how.append THEN Len(f.bytes) ELSE f.pos) = at
        BY <1>3 DEF Suits
      <3>3. /\ FileOf(g) \in FileSet /\ FileOf(g).bytes = g.bytes
            /\ FileOf(g).pos = g.pos /\ FileOf(g).short = g.eof
        BY <2>6, FileIs
      <3>4. end \in Nat
        BY <2>1
      <3> HIDE DEF at, file
      <3>5. Puts(file, how, text, ret)
              = Says([file EXCEPT !.bytes = Overlaid(@, at, text),
                                  !.pos = at + Len(text)], ret)
        BY <1>3, <3>1, <3>2 DEF Puts
      <3>6. [file EXCEPT !.bytes = Overlaid(@, at, text),
                         !.pos = at + Len(text)] = h
        BY <3>1 DEF to
      <3> HIDE DEF end
      <3>7. /\ h \in FileSet
            /\ h.bytes = to /\ h.pos = end /\ h.short = file.short
        <4>1. h \in FileSet
          BY <2>5, <3>1, <3>4 DEF FileSet
        <4> QED BY <3>1, <4>1 DEF FileSet
      <3> HIDE DEF h
      <3>8. h = FileOf(g)
        BY <2>6, <3>1, <3>3, <3>7, SameFile DEF end
      <3> QED BY <3>5, <3>6, <3>8 DEF Says, file
    <2> QED BY <1>3, <2>4, <2>7, <2>8
  <1> QED BY <1>2, <1>3

LEMMA SeekIs ==
  ASSUME NEW f \in StreamSet, NEW how, Suits(f, how), BackIs(f),
         NEW c, c.off \in Int, c.whence \in Whences
  PROVE  LET to == Target(FileOf(f), c)
             s == Fseek(f, c.off, c.whence)
         IN /\ to \in Int
            /\ s = [out |-> <<>>, ret |-> IF to < 0 THEN -1 ELSE 0,
                    f |-> s.f]
            /\ to < 0 => s.f = f
            /\ to >= 0 => /\ Simulates(s.f, how, -1)
                          /\ s.f.pos = to /\ s.f.bytes = f.bytes
                          /\ s.f.eof = FALSE
                          /\ \A ret : Moves(FileOf(f), to, ret)
                                = [out |-> <<>>, ret |-> ret,
                                   file |-> FileOf(s.f)]
  <1> DEFINE to == Target(FileOf(f), c)
             s == Fseek(f, c.off, c.whence)
             g == [f EXCEPT !.pos = to, !.back = <<>>, !.eof = FALSE,
                            !.last = "none"]
  <1>1. f.pos \in Nat /\ Len(f.bytes) \in Nat
    BY StreamIs
  <1>2. to \in Int
    <2>1. FileOf(f).pos = f.pos /\ FileOf(f).bytes = f.bytes
      BY FileIs
    <2>2. CASE c.whence = "SET"
      BY <2>2 DEF Target
    <2>3. CASE c.whence = "CUR"
      BY <1>1, <2>1, <2>3 DEF Target
    <2>4. CASE c.whence = "END"
      BY <1>1, <2>1, <2>4 DEF Target
    <2> QED BY <2>2, <2>3, <2>4 DEF Whences
  <1>3. s = IF to < 0 THEN [out |-> <<>>, ret |-> -1, f |-> f]
            ELSE [out |-> <<>>, ret |-> 0, f |-> g]
    BY FileIs DEF Fseek, Target
  <1> HIDE DEF to, s
  <1>4. CASE to < 0
    <2>1. s = [out |-> <<>>, ret |-> -1, f |-> f] /\ ~(to >= 0)
      BY <1>2, <1>3, <1>4
    <2>2. s.f = f /\ s = [out |-> <<>>, ret |-> IF to < 0 THEN -1 ELSE 0,
                           f |-> s.f]
      BY <1>4, <2>1
    <2> QED BY <1>2, <2>1, <2>2 DEF to, s
  <1>5. CASE ~(to < 0)
    <2>1. to \in Nat /\ s = [out |-> <<>>, ret |-> 0, f |-> g]
      BY <1>2, <1>3, <1>5
    <2>2. /\ g \in StreamSet /\ g.back = <<>> /\ g.bytes = f.bytes
          /\ g.pos = to /\ g.reads = f.reads /\ g.writes = f.writes
          /\ g.append = f.append /\ g.eof = FALSE
      <3>1. to \in Nat /\ <<>> \in Seq(Nat)
        BY <2>1
      <3>2. g \in StreamSet
        BY <3>1 DEF StreamSet
      <3> QED BY <3>1, <3>2 DEF StreamSet
    <2> HIDE DEF g
    <2>3. Simulates(g, how, -1)
      BY <2>2 DEF Simulates, Suits, BackIs, HandIs
    <2>4. \A ret : Moves(FileOf(f), to, ret)
                     = [out |-> <<>>, ret |-> ret, file |-> FileOf(g)]
      <3> DEFINE file == FileOf(f)
                 no == FALSE
                 h == [file EXCEPT !.pos = to, !.short = no]
      <3>1. /\ file \in FileSet /\ file.bytes = f.bytes
            /\ FileOf(g) \in FileSet /\ FileOf(g).bytes = g.bytes
            /\ FileOf(g).pos = g.pos /\ FileOf(g).short = g.eof
        BY <2>2, FileIs
      <3>2. no \in BOOLEAN
        OBVIOUS
      <3> HIDE DEF file, no
      <3>3. /\ h \in FileSet
            /\ h.bytes = file.bytes /\ h.pos = to /\ h.short = no
        <4>1. h \in FileSet
          BY <2>1, <3>1, <3>2 DEF FileSet
        <4> QED BY <3>1, <4>1 DEF FileSet
      <3> HIDE DEF h
      <3>4. h = FileOf(g)
        BY <2>2, <3>1, <3>3, SameFile DEF no
      <3> QED BY <3>4 DEF Moves, Says, h, file, no
    <2>5. s.f = g /\ s = [out |-> <<>>, ret |-> IF to < 0 THEN -1 ELSE 0,
                           f |-> s.f]
      BY <1>5, <2>1
    <2> QED BY <1>2, <1>5, <2>2, <2>3, <2>4, <2>5 DEF to, s
  <1> QED BY <1>4, <1>5

-----------------------------------------------------------------------------
(* The calls, one by one.                                                  *)
LEMMA Kept ==
  ASSUME NEW f, NEW how, NEW got, Simulates(f, how, got)
  PROVE  /\ f \in StreamSet /\ Suits(f, how) /\ BackIs(f)
         /\ Simulates(f, how, -1)
  BY DEF Simulates, HandIs

LEMMA NothingTaken ==
  ASSUME NEW f \in StreamSet, NEW how, NEW n \in Nat, NEW out, NEW ret,
         n = 0 \/ ~how.reads
  PROVE  Takes(FileOf(f), how, <<>>, n, out, ret)
           = [out |-> out, ret |-> ret, file |-> FileOf(f)]
  <1> DEFINE file == FileOf(f)
  <1>1. file \in FileSet
    BY FileIs
  <1> HIDE DEF file
  <1>2. /\ file.pos + Len(<<>>) = file.pos
        /\ (file.short \/ (how.reads /\ Len(<<>>) < n)) = file.short
    BY <1>1 DEF FileSet
  <1>3. [file EXCEPT !.pos = file.pos, !.short = file.short] = file
    BY <1>1 DEF FileSet
  <1>4. Takes(file, how, <<>>, n, out, ret)
          = [out |-> out, ret |-> ret,
             file |-> [file EXCEPT !.pos = file.pos, !.short = file.short]]
    BY <1>2 DEF Takes
  <1> QED BY <1>3, <1>4 DEF file

LEMMA AheadOfNone ==
  ASSUME NEW f \in StreamSet, NEW how, Suits(f, how), BackIs(f)
  PROVE  /\ Ahead(FileOf(f), how, 0) = <<>>
         /\ \A out, ret : Takes(FileOf(f), how, <<>>, 0, out, ret)
                            = [out |-> out, ret |-> ret, file |-> FileOf(f)]
  <1>1. Ahead(FileOf(f), how, 0) = <<>>
    <2>1. /\ Ahead(FileOf(f), how, 0) \in Seq(Nat)
          /\ Len(Ahead(FileOf(f), how, 0)) <= 0
      BY AheadIs
    <2> QED BY <2>1
  <1>2. ASSUME NEW out, NEW ret
        PROVE  Takes(FileOf(f), how, <<>>, 0, out, ret)
                 = [out |-> out, ret |-> ret, file |-> FileOf(f)]
    BY NothingTaken
  <1> QED BY <1>1, <1>2

LEMMA Reads ==
  ASSUME NEW f, NEW how, NEW got, Simulates(f, how, got), NEW n \in Nat
  PROVE  LET a == Ahead(FileOf(f), how, n)
         IN Agrees(how, IF n = 0 THEN Answer0(f, 0) ELSE Fread(f, n),
                   Takes(FileOf(f), how, a, n, a, Len(a)), -1)
  <1> DEFINE a == Ahead(FileOf(f), how, n)
  <1>1. CASE n = 0
    <2>1. a = <<>>
      BY <1>1, Kept, AheadOfNone
    <2>2. Takes(FileOf(f), how, <<>>, 0, <<>>, 0)
            = [out |-> <<>>, ret |-> 0, file |-> FileOf(f)]
      BY Kept, AheadOfNone
    <2>3. Takes(FileOf(f), how, a, n, a, Len(a))
            = [out |-> <<>>, ret |-> 0, file |-> FileOf(f)]
      <3> HIDE DEF a
      <3> QED BY <1>1, <2>1, <2>2
    <2> HIDE DEF a
    <2> QED BY <1>1, <2>3, Kept DEF Agrees, Answer0, a
  <1>2. CASE n # 0
    <2> DEFINE r == Fread(f, n)
    <2>1. /\ r = [out |-> a, ret |-> Len(a), f |-> r.f]
          /\ Simulates(r.f, how, -1)
          /\ \A out, ret : Takes(FileOf(f), how, a, n, out, ret)
                             = [out |-> out, ret |-> ret,
                                file |-> FileOf(r.f)]
      <3>1. n \in Nat \ {0}
        BY <1>2
      <3> QED BY <3>1, Kept, ReadIs
    <2> HIDE DEF a, r
    <2>2. r.out = a /\ r.ret = Len(a)
      BY <2>1
    <2>3. Takes(FileOf(f), how, a, n, a, Len(a))
            = [out |-> a, ret |-> Len(a), file |-> FileOf(r.f)]
      BY <2>1
    <2> QED BY <1>2, <2>1, <2>2, <2>3 DEF Agrees, r, a
  <1> QED BY <1>1, <1>2

(* What the file can do.                                                   *)
Known(c) ==
  \/ c.fn = "read" /\ c.buf \in Nat /\ c.n \in Nat
  \/ c.fn = "write" /\ c.buf \in Nat /\ c.text \in Seq(Nat)
  \/ c.fn \in {"lseek", "fseek"} /\ c.off \in Int /\ c.whence \in Whences
  \/ c.fn = "fread" /\ c.buf \in Nat /\ c.size \in Nat /\ c.count \in Nat
  \/ c.fn = "fwrite" /\ c.buf \in Nat /\ c.text \in Seq(Nat) /\ c.count \in Nat
  \/ c.fn = "fgets" /\ c.buf \in Nat /\ c.n \in Nat
  \/ c.fn = "fputs" /\ c.text \in Seq(Nat)
  \/ c.fn = "fputc" /\ c.byte \in Nat
  \/ c.fn \in {"fstat", "ftell", "feof", "fflush", "fgetc", "ungetc"}

(* What the stream is to remember of a call.                               *)
Served(f, how, got, c) ==
  LET r == OnStream(f, c, got)
  IN Agrees(how, r, FileCall(FileOf(f), how, c, got),
            IF c.fn = "fgetc" THEN r.ret ELSE -1)

LEMMA ServedRead ==
  ASSUME NEW f, NEW how, NEW got, Simulates(f, how, got), NEW c, Known(c),
         c.fn = "read"
  PROVE  Served(f, how, got, c)
  <1> DEFINE n == clamp(c.buf, c.n)
             a == Ahead(FileOf(f), how, n)
  <1>1. n \in Nat
    BY Clamped DEF Known
  <1>2. OnStream(f, c, got) = IF n = 0 THEN Answer0(f, 0) ELSE Fread(f, n)
    BY DEF OnStream, t_read
  <1>3. FileCall(FileOf(f), how, c, got)
          = Takes(FileOf(f), how, a, n, a, Len(a))
    BY DEF FileCall
  <1> HIDE DEF n
  <1>4. Agrees(how, IF n = 0 THEN Answer0(f, 0) ELSE Fread(f, n),
               Takes(FileOf(f), how, a, n, a, Len(a)), -1)
    BY <1>1, Reads
  <1> HIDE DEF a
  <1> QED BY <1>2, <1>3, <1>4 DEF Served

LEMMA ServedFread ==
  ASSUME NEW f, NEW how, NEW got, Simulates(f, how, got), NEW c, Known(c),
         c.fn = "fread"
  PROVE  Served(f, how, got, c)
  <1> DEFINE n == clamp(c.buf, c.size * c.count)
             a == Ahead(FileOf(f), how, n)
             r == Fread(f, n)
             e == FileCall(FileOf(f), how, c, got)
  <1>1. c.buf \in Nat /\ c.size \in Nat /\ c.count \in Nat
    BY DEF Known
  <1>2. n \in Nat /\ n <= c.size * c.count
    <2> DEFINE m == c.size * c.count
    <2>1. m \in Nat
      BY <1>1
    <2> HIDE DEF m
    <2>2. clamp(c.buf, m) \in Nat /\ clamp(c.buf, m) <= m
      BY <1>1, <2>1, Clamped
    <2> QED BY <2>2 DEF m
  <1>3. OnStream(f, c, got) = IF n = 0 \/ c.size = 0 THEN Answer0(f, 0)
                              ELSE [r EXCEPT !.ret = r.ret \div c.size]
    BY DEF OnStream, t_fread
  <1>4. e = IF c.size = 0 THEN Says(FileOf(f), 0)
            ELSE Takes(FileOf(f), how, a, n, a, Len(a) \div c.size)
    BY DEF FileCall
  <1> HIDE DEF n, e, r
  <1>5. CASE c.size = 0
    <2>1. OnStream(f, c, got) = Answer0(f, 0) /\ e = Says(FileOf(f), 0)
      BY <1>3, <1>4, <1>5
    <2> QED BY <2>1, Kept DEF Served, Agrees, Answer0, Says, e
  <1>6. CASE c.size # 0 /\ n = 0
    <2>1. OnStream(f, c, got) = Answer0(f, 0)
      BY <1>3, <1>6
    <2>2. a = <<>> /\ Len(a) \div c.size = 0
      <3>1. a = <<>>
        BY <1>6, Kept, AheadOfNone
      <3> HIDE DEF a
      <3>2. Len(a) = 0 /\ c.size > 0
        BY <1>1, <1>6, <3>1
      <3> QED BY <1>1, <3>1, <3>2
    <2>3. Takes(FileOf(f), how, <<>>, 0, <<>>, 0)
            = [out |-> <<>>, ret |-> 0, file |-> FileOf(f)]
      BY Kept, AheadOfNone
    <2> HIDE DEF a
    <2>4. e = [out |-> <<>>, ret |-> 0, file |-> FileOf(f)]
      BY <1>4, <1>6, <2>2, <2>3
    <2> QED BY <2>1, <2>4, Kept DEF Served, Agrees, Answer0, e
  <1>7. CASE c.size # 0 /\ n # 0
    <2>1. /\ r = [out |-> a, ret |-> Len(a), f |-> r.f]
          /\ Simulates(r.f, how, -1)
          /\ \A out, ret : Takes(FileOf(f), how, a, n, out, ret)
                             = [out |-> out, ret |-> ret,
                                file |-> FileOf(r.f)]
      <3>1. n \in Nat \ {0}
        BY <1>2, <1>7
      <3> QED BY <3>1, Kept, ReadIs DEF r
    <2> DEFINE q == Len(a) \div c.size
               x == [r EXCEPT !.ret = q]
    <2> HIDE DEF a
    <2>2. x.out = a /\ x.ret = q /\ x.f = r.f /\ r.ret = Len(a)
      <3> HIDE DEF q
      <3>1. x = [out |-> a, ret |-> q, f |-> r.f]
        BY <2>1
      <3> HIDE DEF x
      <3> QED BY <2>1, <3>1
    <2>3. OnStream(f, c, got) = x
      BY <1>3, <1>7, <2>2
    <2>4. e = [out |-> a, ret |-> q, file |-> FileOf(r.f)]
      BY <1>4, <1>7, <2>1
    <2> HIDE DEF q, x
    <2> QED BY <1>7, <2>1, <2>2, <2>3, <2>4 DEF Served, Agrees, e
  <1> QED BY <1>5, <1>6, <1>7

LEMMA ServedFgetc ==
  ASSUME NEW f, NEW how, NEW got, Simulates(f, how, got), NEW c, Known(c),
         c.fn = "fgetc"
  PROVE  Served(f, how, got, c)
  <1> DEFINE a == Ahead(FileOf(f), how, 1)
             r == Fread(f, 1)
             byte == IF a = <<>> THEN -1 ELSE a[1]
             e == FileCall(FileOf(f), how, c, got)
  <1>1. /\ r = [out |-> a, ret |-> Len(a), f |-> r.f]
        /\ Simulates(r.f, how, -1)
        /\ r.f.back = <<>> /\ r.f.bytes = f.bytes
        /\ r.f.pos = f.pos + Len(a) /\ r.f.reads = f.reads
        /\ \A out, ret : Takes(FileOf(f), how, a, 1, out, ret)
                           = [out |-> out, ret |-> ret,
                              file |-> FileOf(r.f)]
    <2>1. 1 \in Nat \ {0}
      OBVIOUS
    <2> QED BY <2>1, Kept, ReadIs
  <1>2. /\ a \in Seq(Nat) /\ Len(a) <= 1
        /\ a # <<>> => f.reads /\ f.pos + Len(a) <= Len(f.bytes)
        /\ \A i \in 1 .. Len(a) : a[i] = f.bytes[f.pos + i]
    <2> DEFINE n == 1
               b == Ahead(FileOf(f), how, n)
    <2>1. n \in Nat
      OBVIOUS
    <2> HIDE DEF n
    <2>2. /\ b \in Seq(Nat) /\ Len(b) <= n
          /\ b # <<>> => f.reads /\ f.pos + Len(b) <= Len(f.bytes)
          /\ \A i \in 1 .. Len(b) : b[i] = f.bytes[f.pos + i]
      BY <2>1, Kept, AheadIs
    <2> QED BY <2>2 DEF n
  <1>3. f.pos \in Nat /\ Len(f.bytes) \in Nat
    BY Kept, StreamIs
  <1>4. e = Takes(FileOf(f), how, a, 1, <<>>, byte)
    BY DEF FileCall
  <1>5. OnStream(f, c, got)
          = Answer0(r.f, IF r.out = <<>> THEN -1 ELSE r.out[1])
    BY DEF OnStream, t_fgetc
  <1> HIDE DEF a, r, e
  <1>6. OnStream(f, c, got) = Answer0(r.f, byte)
    <2>1. r.out = a
      BY <1>1
    <2> QED BY <1>5, <2>1
  <1>7. HandIs(r.f, byte)
    <2>1. CASE a = <<>>
      BY <2>1 DEF HandIs
    <2>2. CASE a # <<>>
      <3>1. Len(a) = 1
        <4> DEFINE len == Len(a)
        <4>1. len \in Nat /\ len # 0 /\ len <= 1
          BY <1>2, <2>2
        <4> HIDE DEF len
        <4>2. len = 1
          BY <4>1
        <4> QED BY <4>2 DEF len
      <3>2. a[1] = f.bytes[f.pos + 1]
        BY <1>2, <3>1
      <3>3. r.f.pos \in 1 .. Len(r.f.bytes) /\ r.f.pos = f.pos + 1
        BY <1>1, <1>2, <1>3, <2>2, <3>1
      <3> QED BY <1>1, <1>2, <2>2, <3>2, <3>3 DEF HandIs
    <2> QED BY <2>1, <2>2
  <1> HIDE DEF byte
  <1>8. e = [out |-> <<>>, ret |-> byte, file |-> FileOf(r.f)]
    BY <1>1, <1>4
  <1>9. Simulates(r.f, how, byte)
    BY <1>1, <1>7 DEF Simulates
  <1> QED BY <1>6, <1>8, <1>9 DEF Served, Agrees, Answer0, e

LEMMA Written ==
  ASSUME NEW f, NEW how, NEW got, Simulates(f, how, got),
         NEW text \in Seq(Nat), NEW ret, NEW r,
         r = [out |-> <<>>, ret |-> ret, f |-> Fwrite(f, text).f]
  PROVE  Agrees(how, r, Puts(FileOf(f), how, text, ret), -1)
  <1> DEFINE w == Fwrite(f, text)
  <1>1. /\ Simulates(w.f, how, -1)
        /\ \A n : Puts(FileOf(f), how, text, n)
                    = [out |-> <<>>, ret |-> n, file |-> FileOf(w.f)]
    BY Kept, WriteIs
  <1>2. r.out = <<>> /\ r.ret = ret /\ r.f = w.f
    <2> HIDE DEF w
    <2>1. r = [out |-> <<>>, ret |-> ret, f |-> w.f]
      BY DEF w
    <2> QED BY <2>1
  <1> HIDE DEF w
  <1>3. Puts(FileOf(f), how, text, ret)
          = [out |-> <<>>, ret |-> ret, file |-> FileOf(w.f)]
    BY <1>1
  <1> QED BY <1>1, <1>2, <1>3 DEF Agrees

LEMMA FirstPart ==
  ASSUME NEW text \in Seq(Nat), NEW n \in Nat, n <= Len(text)
  PROVE  /\ SubSeq(text, 1, n) \in Seq(Nat) /\ Len(SubSeq(text, 1, n)) = n
         /\ \A i \in 1 .. n : SubSeq(text, 1, n)[i] = text[i]
  <1> DEFINE m == 0
  <1>1. /\ m \in Nat /\ m + 1 = 1 /\ (IF m < n THEN n - m ELSE 0) = n
        /\ n - m = n /\ \A i \in 1 .. n : m + i = i
    OBVIOUS
  <1> HIDE DEF m
  <1>2. /\ SubSeq(text, m + 1, n) \in Seq(Nat)
        /\ Len(SubSeq(text, m + 1, n)) = IF m < n THEN n - m ELSE 0
        /\ \A i \in 1 .. n - m : SubSeq(text, m + 1, n)[i] = text[m + i]
    BY <1>1, Part
  <1> QED BY <1>1, <1>2

LEMMA FirstBytes ==
  ASSUME NEW text \in Seq(Nat), NEW n \in Nat, n <= Len(text)
  PROVE  SubSeq(text, 1, n) \in Seq(Nat) /\ Len(SubSeq(text, 1, n)) = n
  BY FirstPart

(* Writing nothing leaves the stream alone.                                *)
LEMMA NothingWritten ==
  ASSUME NEW f, NEW text \in Seq(Nat), Len(text) = 0
  PROVE  Fwrite(f, text) = [out |-> <<>>, ret |-> 0, f |-> f]
  <1>1. text = <<>>
    OBVIOUS
  <1> QED BY <1>1 DEF Fwrite

LEMMA ServedWrite ==
  ASSUME NEW f, NEW how, NEW got, Simulates(f, how, got), NEW c, Known(c),
         c.fn = "write"
  PROVE  Served(f, how, got, c)
  <1> DEFINE n == clamp(c.buf, Len(c.text))
             text == SubSeq(c.text, 1, n)
             w == Fwrite(f, text)
             ret == IF how.writes THEN n ELSE 0
             r == OnStream(f, c, got)
             e == FileCall(FileOf(f), how, c, got)
  <1>1. c.buf \in Nat /\ c.text \in Seq(Nat) /\ Len(c.text) \in Nat
    BY DEF Known
  <1>2. n \in Nat /\ n <= Len(c.text)
    BY <1>1, Clamped
  <1>3. r = IF n = 0 THEN Answer0(f, 0) ELSE w
    BY DEF OnStream, t_write
  <1>4. e = Puts(FileOf(f), how, text, ret)
    BY DEF FileCall
  <1> HIDE DEF n, r, e
  <1>5. text \in Seq(Nat) /\ Len(text) = n
    BY <1>1, <1>2, FirstBytes
  <1> HIDE DEF text
  <1>6. w = [out |-> <<>>, f |-> w.f, ret |-> IF f.writes THEN n ELSE 0]
    <2>1. w = [out |-> <<>>, f |-> w.f,
               ret |-> IF f.writes THEN Len(text) ELSE 0]
      BY <1>5, Kept, WriteIs
    <2> QED BY <1>5, <2>1
  <1>7. how.writes = f.writes
    BY Kept DEF Suits
  <1>8. r = [out |-> <<>>, ret |-> ret, f |-> w.f]
    <2>1. CASE n = 0
      <3>1. w = [out |-> <<>>, ret |-> 0, f |-> f]
        BY <1>5, <2>1, NothingWritten
      <3>2. ret = 0
        BY <2>1
      <3> HIDE DEF w, ret
      <3> QED BY <1>3, <2>1, <3>1, <3>2 DEF Answer0
    <2>2. CASE n # 0
      <3> HIDE DEF w
      <3> QED BY <1>3, <1>6, <1>7, <2>2
    <2> QED BY <2>1, <2>2
  <1> HIDE DEF ret
  <1>9. Agrees(how, r, Puts(FileOf(f), how, text, ret), -1)
    BY <1>5, <1>8, Written
  <1> QED BY <1>4, <1>9 DEF Served, r, e

LEMMA ServedFwrite ==
  ASSUME NEW f, NEW how, NEW got, Simulates(f, how, got), NEW c, Known(c),
         c.fn = "fwrite"
  PROVE  Served(f, how, got, c)
  <1> DEFINE n == clamp(c.buf, Len(c.text))
             text == SubSeq(c.text, 1, n)
             r == OnStream(f, c, got)
             e == FileCall(FileOf(f), how, c, got)
  <1>1. c.buf \in Nat /\ c.text \in Seq(Nat) /\ Len(c.text) \in Nat
    BY DEF Known
  <1>2. n \in Nat /\ n <= Len(c.text)
    BY <1>1, Clamped
  <1>3. r = IF n = 0 THEN Answer0(f, c.count)
            ELSE Answer0(Fwrite(f, text).f, c.count)
    BY DEF OnStream, t_fwrite
  <1>4. e = Puts(FileOf(f), how, text, c.count)
    BY DEF FileCall
  <1> HIDE DEF n, r, e
  <1>5. text \in Seq(Nat) /\ Len(text) = n
    BY <1>1, <1>2, FirstBytes
  <1> HIDE DEF text
  <1>6. r = [out |-> <<>>, ret |-> c.count, f |-> Fwrite(f, text).f]
    <2>1. CASE n = 0
      <3>1. Fwrite(f, text) = [out |-> <<>>, ret |-> 0, f |-> f]
        BY <1>5, <2>1, NothingWritten
      <3> QED BY <1>3, <2>1, <3>1 DEF Answer0
    <2>2. CASE n # 0
      BY <1>3, <2>2 DEF Answer0
    <2> QED BY <2>1, <2>2
  <1>7. Agrees(how, r, Puts(FileOf(f), how, text, c.count), -1)
    BY <1>5, <1>6, Written
  <1> QED BY <1>4, <1>7 DEF Served, r, e

LEMMA ServedPuts ==
  ASSUME NEW f, NEW how, NEW got, Simulates(f, how, got), NEW c, Known(c),
         c.fn \in {"fputs", "fputc"}
  PROVE  Served(f, how, got, c)
  <1> DEFINE r == OnStream(f, c, got)
             e == FileCall(FileOf(f), how, c, got)
  <1>1. CASE c.fn = "fputs"
    <2>1. /\ r = Answer0(Fwrite(f, c.text).f, 0)
          /\ e = Puts(FileOf(f), how, c.text, 0)
          /\ c.text \in Seq(Nat)
      BY <1>1 DEF OnStream, FileCall, Known, t_fputs
    <2> HIDE DEF r, e
    <2>2. Agrees(how, r, Puts(FileOf(f), how, c.text, 0), -1)
      BY <2>1, Written DEF Answer0
    <2> QED BY <1>1, <2>1, <2>2 DEF Served, r, e
  <1>2. CASE c.fn = "fputc"
    <2> DEFINE text == <<c.byte>>
    <2>1. /\ r = Answer0(Fwrite(f, text).f, c.byte)
          /\ e = Puts(FileOf(f), how, text, c.byte)
          /\ text \in Seq(Nat)
      BY <1>2 DEF OnStream, FileCall, Known, t_fputc
    <2> HIDE DEF r, e, text
    <2>2. Agrees(how, r, Puts(FileOf(f), how, text, c.byte), -1)
      BY <2>1, Written DEF Answer0
    <2> QED BY <1>2, <2>1, <2>2 DEF Served, r, e
  <1> QED BY <1>1, <1>2

LEMMA ServedSeek ==
  ASSUME NEW f, NEW how, NEW got, Simulates(f, how, got), NEW c, Known(c),
         c.fn \in {"lseek", "fseek"}
  PROVE  Served(f, how, got, c)
  <1> DEFINE r == OnStream(f, c, got)
             e == FileCall(FileOf(f), how, c, got)
             to == Target(FileOf(f), c)
             s == Fseek(f, c.off, c.whence)
  <1>1. c.off \in Int /\ c.whence \in Whences
    BY DEF Known
  <1>2. /\ to \in Int
        /\ s = [out |-> <<>>, ret |-> IF to < 0 THEN -1 ELSE 0, f |-> s.f]
        /\ to < 0 => s.f = f
        /\ to >= 0 => /\ Simulates(s.f, how, -1)
                      /\ s.f.pos = to /\ s.f.bytes = f.bytes
                      /\ \A ret : Moves(FileOf(f), to, ret)
                            = [out |-> <<>>, ret |-> ret, file |-> FileOf(s.f)]
    BY <1>1, Kept, SeekIs
  <1>4. FileOf(f).pos = f.pos
    BY DEF FileOf
  <1>5. /\ c.fn = "lseek" => r = Answer0(s.f, s.f.pos)
        /\ c.fn = "fseek" => r = s
    BY DEF OnStream, t_lseek, t_fseek, Ftell
  <1>6. /\ c.fn = "lseek" => e = IF to < 0 THEN Says(FileOf(f), f.pos)
                                 ELSE Moves(FileOf(f), to, to)
        /\ c.fn = "fseek" => e = IF to < 0 THEN Says(FileOf(f), -1)
                                 ELSE Moves(FileOf(f), to, 0)
    BY <1>4 DEF FileCall
  <1> HIDE DEF to, s, r, e
  <1>7. Simulates(s.f, how, -1)
    BY <1>2, Kept
  <1>8. CASE c.fn = "lseek"
    <2>1. e = [out |-> <<>>, ret |-> s.f.pos, file |-> FileOf(s.f)]
      <3>1. CASE to < 0
        BY <1>2, <1>6, <1>8, <3>1 DEF Says
      <3>2. CASE ~(to < 0)
        BY <1>2, <1>6, <1>8, <3>2
      <3> QED BY <3>1, <3>2
    <2>2. r = [out |-> <<>>, ret |-> s.f.pos, f |-> s.f]
      BY <1>5, <1>8 DEF Answer0
    <2> QED BY <1>7, <1>8, <2>1, <2>2 DEF Served, Agrees, r, e
  <1>9. CASE c.fn = "fseek"
    <2> DEFINE ret == IF to < 0 THEN -1 ELSE 0
    <2>1. e = [out |-> <<>>, ret |-> ret, file |-> FileOf(s.f)]
      <3>1. CASE to < 0
        BY <1>2, <1>6, <1>9, <3>1 DEF Says
      <3>2. CASE ~(to < 0)
        BY <1>2, <1>6, <1>9, <3>2
      <3> QED BY <3>1, <3>2
    <2>2. r = [out |-> <<>>, ret |-> ret, f |-> s.f]
      BY <1>2, <1>5, <1>9
    <2> HIDE DEF ret
    <2> QED BY <1>7, <1>9, <2>1, <2>2 DEF Served, Agrees, r, e
  <1> QED BY <1>8, <1>9

(* Asking for the size goes to the end and comes back.                     *)
LEMMA ServedFstat ==
  ASSUME NEW f, NEW how, NEW got, Simulates(f, how, got), NEW c, Known(c),
         c.fn = "fstat"
  PROVE  Served(f, how, got, c)
  <1> DEFINE end == [off |-> 0, whence |-> "END"]
             s == Fseek(f, end.off, end.whence)
             len == Len(f.bytes)
             back == [off |-> f.pos, whence |-> "SET"]
             t == Fseek(s.f, back.off, back.whence)
             u == Fseek(f, back.off, back.whence)
             r == OnStream(f, c, got)
             e == FileCall(FileOf(f), how, c, got)
  <1>1. f.pos \in Nat /\ len \in Nat
    BY Kept, StreamIs
  <1>2. /\ FileOf(f).pos = f.pos /\ FileOf(f).bytes = f.bytes
        /\ FileOf(f) \in FileSet
    BY Kept, FileIs
  <1>3. end.off \in Int /\ end.whence \in Whences
    BY DEF Whences
  <1>4. Target(FileOf(f), end) = len
    BY <1>1, <1>2 DEF Target
  <1>5. back.off \in Int /\ back.whence \in Whences
    BY <1>1 DEF Whences
  <1>6. /\ r = Answer0(t.f, s.f.pos)
        /\ e = Moves(FileOf(f), f.pos, len)
    BY <1>2 DEF OnStream, t_fstat, Ftell, FileCall
  <1>7. Target(FileOf(s.f), back) = f.pos /\ Target(FileOf(f), back) = f.pos
    BY <1>1 DEF Target
  <1> HIDE DEF end, back, s, t, u, r, e, len
  <1>8. Simulates(s.f, how, -1) /\ s.f.pos = len /\ s.f.bytes = f.bytes
    <2>1. len >= 0
      BY <1>1
    <2> QED BY <1>3, <1>4, <2>1, Kept, SeekIs DEF s
  <1>9. Simulates(t.f, how, -1) /\ t.f.pos = f.pos /\ t.f.bytes = f.bytes
        /\ t.f.eof = FALSE
    <2>1. f.pos >= 0
      BY <1>1
    <2>2. s.f \in StreamSet /\ Suits(s.f, how) /\ BackIs(s.f)
      BY <1>8, Kept
    <2>3. /\ Simulates(t.f, how, -1) /\ t.f.pos = f.pos
          /\ t.f.bytes = s.f.bytes /\ t.f.eof = FALSE
      BY <1>5, <1>7, <2>1, <2>2, SeekIs DEF t
    <2> QED BY <1>8, <2>3
  <1>10. Moves(FileOf(f), f.pos, len)
           = [out |-> <<>>, ret |-> len, file |-> FileOf(t.f)]
    <2>1. /\ u.f.pos = f.pos /\ u.f.bytes = f.bytes /\ u.f.eof = FALSE
          /\ \A ret : Moves(FileOf(f), f.pos, ret)
                = [out |-> <<>>, ret |-> ret, file |-> FileOf(u.f)]
      <3>1. f.pos >= 0
        BY <1>1
      <3> DEFINE to == Target(FileOf(f), back)
      <3>2. to = f.pos /\ to >= 0
        BY <1>7, <3>1
      <3>3. f \in StreamSet /\ Suits(f, how) /\ BackIs(f)
        BY Kept
      <3>4. to >= 0 => /\ u.f.pos = to /\ u.f.bytes = f.bytes
                       /\ u.f.eof = FALSE
                       /\ \A ret : Moves(FileOf(f), to, ret)
                            = [out |-> <<>>, ret |-> ret, file |-> FileOf(u.f)]
        BY <1>5, <3>3, SeekIs DEF u
      <3> HIDE DEF to
      <3> QED BY <3>2, <3>4
    <2>2. FileOf(u.f) = FileOf(t.f)
      BY <1>9, <2>1 DEF FileOf
    <2> QED BY <2>1, <2>2
  <1> QED BY <1>6, <1>8, <1>9, <1>10
          DEF Served, Agrees, Answer0, r, e

(* ftell, feof and fflush move nothing.                                    *)
LEMMA ServedStill ==
  ASSUME NEW f, NEW how, NEW got, Simulates(f, how, got), NEW c, Known(c),
         c.fn \in {"ftell", "feof", "fflush"}
  PROVE  Served(f, how, got, c)
  <1> DEFINE r == OnStream(f, c, got)
             e == FileCall(FileOf(f), how, c, got)
             g == IF c.fn = "fflush" /\ f.last = "write"
                  THEN [f EXCEPT !.last = "none"] ELSE f
  <1>1. r.f = g /\ r.out = <<>> /\ e = Says(FileOf(f), r.ret)
    BY DEF OnStream, FileCall, t_ftell, t_feof, t_fflush, Answer0, Says,
           FileOf, Ftell
  <1>2. Simulates(g, how, -1) /\ FileOf(g) = FileOf(f)
    <2>1. CASE g = f
      BY <2>1, Kept
    <2>2. CASE g = [f EXCEPT !.last = "none"]
      <3> DEFINE none == "none"
                 h == [f EXCEPT !.last = none]
      <3>1. none \in {"none", "read", "write"} /\ f \in StreamSet /\ g = h
        BY <2>2, Kept
      <3> HIDE DEF none, g
      <3>2. h \in StreamSet
        BY <3>1 DEF StreamSet
      <3>3. /\ h.bytes = f.bytes /\ h.pos = f.pos /\ h.back = f.back
            /\ h.eof = f.eof /\ h.reads = f.reads /\ h.writes = f.writes
            /\ h.append = f.append
        BY <3>1 DEF StreamSet
      <3> HIDE DEF h
      <3>4. Suits(f, how) /\ BackIs(f)
        BY Kept
      <3>5. Simulates(h, how, -1)
        BY <3>2, <3>3, <3>4 DEF Simulates, Suits, BackIs, HandIs
      <3>6. FileOf(h) = FileOf(f)
        BY <3>3 DEF FileOf
      <3> QED BY <3>1, <3>5, <3>6
    <2> QED BY <2>1, <2>2
  <1> HIDE DEF r, e, g
  <1>3. e = [out |-> r.out, ret |-> r.ret, file |-> FileOf(r.f)]
    BY <1>1, <1>2 DEF Says
  <1> QED BY <1>1, <1>2, <1>3 DEF Served, Agrees, r, e

(* The byte that is put back is the one the file has there.                *)
LEMMA ServedUngetc ==
  ASSUME NEW f, NEW how, NEW got, Simulates(f, how, got), NEW c, Known(c),
         c.fn = "ungetc"
  PROVE  Served(f, how, got, c)
  <1> DEFINE r == OnStream(f, c, got)
             e == FileCall(FileOf(f), how, c, got)
  <1>1. /\ r = t_ungetc(f, got)
        /\ e = IF got = -1 THEN Says(FileOf(f), -1)
               ELSE Moves(FileOf(f), f.pos - 1, got)
    BY DEF OnStream, FileCall, FileOf
  <1> HIDE DEF r, e
  <1>2. CASE got = -1
    <2>1. r = Answer0(f, -1) /\ e = Says(FileOf(f), -1)
      BY <1>1, <1>2 DEF t_ungetc
    <2> QED BY <2>1, Kept DEF Served, Agrees, Answer0, Says, r, e
  <1>3. CASE got # -1
    <2> DEFINE to == f.pos - 1
               back == <<got>>
               eof == FALSE
               last == "read"
               h == [f EXCEPT !.back = back, !.pos = to, !.eof = eof,
                              !.last = last]
    <2>1. /\ f.reads /\ f.back = <<>> /\ f.pos \in 1 .. Len(f.bytes)
          /\ got = f.bytes[f.pos]
      BY <1>3 DEF Simulates, HandIs
    <2>2. f \in StreamSet /\ f.bytes \in Seq(Nat)
      BY Kept, StreamIs
    <2>3. to \in Nat /\ to + 1 = f.pos /\ to < Len(f.bytes)
      BY <2>1, <2>2
    <2>4. got \in Nat
      BY <2>1, <2>2
    <2>5. back \in Seq(Nat) /\ eof \in BOOLEAN
          /\ last \in {"none", "read", "write"}
      BY <2>4
    <2>6. r = Answer0(h, got) /\ e = Moves(FileOf(f), to, got)
      <3>1. f.pos # 0
        BY <2>1
      <3> QED BY <1>1, <1>3, <2>1, <3>1 DEF t_ungetc
    <2>7. back = <<f.bytes[to + 1]>> /\ eof = FALSE
      BY <2>1, <2>3
    <2> HIDE DEF to, back, eof, last
    <2>8. h \in StreamSet
      BY <2>2, <2>3, <2>5 DEF StreamSet
    <2>9. /\ h.bytes = f.bytes /\ h.pos = to /\ h.back = back /\ h.eof = eof
          /\ h.reads = f.reads /\ h.writes = f.writes /\ h.append = f.append
      BY <2>2 DEF StreamSet
    <2> HIDE DEF h
    <2>10. Simulates(h, how, -1)
      <3>1. Suits(f, how)
        BY Kept
      <3> QED BY <2>1, <2>3, <2>7, <2>8, <2>9, <3>1
              DEF Simulates, Suits, BackIs, HandIs
    <2>11. Moves(FileOf(f), to, got)
             = [out |-> <<>>, ret |-> got, file |-> FileOf(h)]
      <3> DEFINE file == FileOf(f)
                 k == [file EXCEPT !.pos = to, !.short = eof]
      <3>1. /\ file \in FileSet /\ file.bytes = f.bytes
            /\ FileOf(h) \in FileSet /\ FileOf(h).bytes = h.bytes
            /\ FileOf(h).pos = h.pos /\ FileOf(h).short = h.eof
        BY <2>2, <2>8, FileIs
      <3> HIDE DEF file
      <3>2. k \in FileSet
        BY <2>3, <2>5, <3>1 DEF FileSet
      <3>3. k.bytes = file.bytes /\ k.pos = to /\ k.short = eof
        BY <3>1 DEF FileSet
      <3> HIDE DEF k
      <3>4. k = FileOf(h)
        BY <2>9, <3>1, <3>2, <3>3, SameFile
      <3> QED BY <2>7, <3>4 DEF Moves, Says, k, file
    <2> QED BY <2>6, <2>10, <2>11, Kept DEF Served, Agrees, Answer0, r, e
  <1> QED BY <1>2, <1>3

-----------------------------------------------------------------------------
(* Lines.                                                                  *)
LEMMA LeastNewline ==
  ASSUME NEW text \in Seq(Nat), Newlines(text) # {}
  PROVE  /\ Min(Newlines(text)) \in Newlines(text)
         /\ \A i \in Newlines(text) : Min(Newlines(text)) <= i
         /\ Newlines(text) \subseteq 1 .. Len(text)
  <1>1. Newlines(text) \subseteq 1 .. Len(text)
    BY DEF Newlines
  <1> QED BY <1>1, MinOfSome

(* What std::fgets takes is the line a reader of the file would take.      *)
LEMMA LineIs ==
  ASSUME NEW f \in StreamSet, NEW how, Suits(f, how), BackIs(f),
         f.reads, NEW n \in Nat \ {0}
  PROVE  LET text == Ahead(FileOf(f), how, n)
             want == Min({n} \cup Newlines(Rest(f)))
         IN /\ want \in Nat \ {0}
            /\ Ahead(FileOf(f), how, want) = Line(text)
            /\ want = IF Newlines(text) = {} THEN n ELSE Len(Line(text))
            /\ Newlines(text) # {} => Line(text) # <<>>
  <1> DEFINE rest == Rest(f)
             text == Ahead(FileOf(f), how, n)
             ends == Newlines(rest)
             want == Min({n} \cup ends)
             m == IF n <= Len(rest) THEN n ELSE Len(rest)
  <1>1. rest \in Seq(Nat) /\ Len(rest) \in Nat
    BY RestIs
  <1>2. ASSUME NEW k \in Nat
        PROVE  Ahead(FileOf(f), how, k)
                 = SubSeq(rest, 1, IF k <= Len(rest) THEN k ELSE Len(rest))
    <2>1. Ahead(FileOf(f), how, k)
            = IF f.reads THEN SubSeq(Rest(f), 1, Min({k, Len(Rest(f))}))
              ELSE <<>>
      BY AheadIs
    <2>2. Min({k, Len(rest)}) = IF k <= Len(rest) THEN k ELSE Len(rest)
      BY <1>1, MinOfTwo
    <2> QED BY <2>1, <2>2
  <1> HIDE DEF rest
  <1>3. m \in Nat /\ m <= Len(rest) /\ m <= n
    BY <1>1
  <1>4. text = SubSeq(rest, 1, m)
    BY <1>2
  <1> HIDE DEF text, m
  <1>5. /\ text \in Seq(Nat) /\ Len(text) = m
        /\ \A i \in 1 .. m : text[i] = rest[i]
    BY <1>1, <1>3, <1>4, FirstPart
  <1>6. ends \subseteq 1 .. Len(rest)
    BY <1>1 DEF Newlines
  <1>7. Newlines(text) = {i \in ends : i <= m}
    <2>1. \A i : i \in Newlines(text) <=> i \in 1 .. m /\ text[i] = Newline
      BY <1>5 DEF Newlines
    <2>2. \A i : i \in ends <=> i \in 1 .. Len(rest) /\ rest[i] = Newline
      BY <1>1 DEF Newlines
    <2>3. \A i : i \in 1 .. m <=> i \in 1 .. Len(rest) /\ i <= m
      BY <1>1, <1>3
    <2> HIDE DEF ends
    <2> QED BY <1>5, <2>1, <2>2, <2>3
  <1> HIDE DEF ends
  <1>8. CASE Newlines(text) = {}
    <2>1. \A i \in ends : n <= i
      BY <1>1, <1>6, <1>7, <1>8 DEF m
    <2>2. want = n
      <3> DEFINE S == {n} \cup ends
      <3>1. n \in S /\ S \subseteq Int /\ \A y \in S : n <= y
        BY <1>6, <2>1
      <3> HIDE DEF S
      <3>2. Min(S) = n
        BY <3>1, MinIs
      <3> QED BY <3>2 DEF S
    <2>3. Line(text) = text
      BY <1>8 DEF Line
    <2> HIDE DEF want
    <2>4. want \in Nat \ {0} /\ Ahead(FileOf(f), how, want) = Line(text)
      BY <2>2, <2>3 DEF text
    <2> QED BY <1>8, <2>2, <2>4 DEF text, want, ends, rest
  <1>9. CASE Newlines(text) # {}
    <2> DEFINE p == Min(Newlines(text))
    <2>1. /\ p \in Newlines(text) /\ \A i \in Newlines(text) : p <= i
      BY <1>5, <1>9, LeastNewline
    <2> HIDE DEF p
    <2>2. p \in ends /\ p <= m /\ p \in Nat /\ p > 0 /\ p <= n /\ p <= Len(rest)
      <3>1. p \in ends /\ p <= m
        BY <1>7, <2>1
      <3>2. p \in 1 .. Len(rest)
        BY <1>6, <3>1
      <3> QED BY <1>1, <1>3, <3>1, <3>2
    <2>3. want = p
      <3> DEFINE S == {n} \cup ends
      <3>1. p \in S /\ S \subseteq Int
        BY <1>6, <2>2
      <3>2. ASSUME NEW y \in S PROVE p <= y
        <4>1. CASE y = n
          BY <2>2, <4>1
        <4>2. CASE y \in ends /\ y <= m
          BY <1>7, <2>1, <4>2
        <4>3. CASE y \in ends /\ ~(y <= m)
          BY <1>3, <1>6, <2>2, <4>3
        <4> QED BY <4>1, <4>2, <4>3
      <3> HIDE DEF S
      <3>3. Min(S) = p
        BY <3>1, <3>2, MinIs
      <3> QED BY <3>3 DEF S
    <2>4. Line(text) = SubSeq(text, 1, p)
      BY <1>9 DEF Line, p
    <2>5. Ahead(FileOf(f), how, p) = SubSeq(rest, 1, p)
      BY <1>2, <2>2
    <2>6. SubSeq(rest, 1, p) = SubSeq(text, 1, p)
      <3>1. /\ SubSeq(rest, 1, p) \in Seq(Nat) /\ Len(SubSeq(rest, 1, p)) = p
            /\ \A i \in 1 .. p : SubSeq(rest, 1, p)[i] = rest[i]
        BY <1>1, <2>2, FirstPart
      <3>2. /\ SubSeq(text, 1, p) \in Seq(Nat) /\ Len(SubSeq(text, 1, p)) = p
            /\ \A i \in 1 .. p : SubSeq(text, 1, p)[i] = text[i]
        BY <1>5, <2>2, FirstPart
      <3>3. \A i \in 1 .. p : i \in 1 .. m
        BY <1>3, <2>2
      <3> DEFINE s == SubSeq(rest, 1, p)
                 t == SubSeq(text, 1, p)
      <3>4. \A i \in 1 .. Len(s) : s[i] = t[i]
        BY <1>5, <3>1, <3>2, <3>3
      <3>5. s \in Seq(Nat) /\ t \in Seq(Nat) /\ Len(s) = Len(t)
        BY <3>1, <3>2
      <3> HIDE DEF s, t
      <3>6. s = t
        BY <3>4, <3>5, SeqEqual
      <3> QED BY <3>6 DEF s, t
    <2>7. Len(Line(text)) = p /\ Line(text) # <<>>
      <3>1. /\ Line(text) \in Seq(Nat) /\ Len(Line(text)) = p
        BY <1>5, <2>2, <2>4, FirstBytes
      <3> QED BY <2>2, <3>1
    <2> HIDE DEF want
    <2>8. want \in Nat \ {0} /\ Ahead(FileOf(f), how, want) = Line(text)
      BY <2>2, <2>3, <2>4, <2>5, <2>6
    <2> QED BY <1>9, <2>3, <2>7, <2>8 DEF text, want, ends, rest
  <1> QED BY <1>8, <1>9

LEMMA ServedFgets ==
  ASSUME NEW f, NEW how, NEW got, Simulates(f, how, got), NEW c, Known(c),
         c.fn = "fgets"
  PROVE  Served(f, how, got, c)
  <1> DEFINE size == clamp(c.buf, c.n)
             n == size - 1
             want == Min({n} \cup Newlines(Rest(f)))
             q == Fread(f, want)
             file == FileOf(f)
             text == Ahead(file, how, n)
             line == Line(text)
             r == OnStream(f, c, got)
             e == FileCall(file, how, c, got)
  <1>1. /\ r = IF size < 2 \/ ~f.reads THEN Answer0(f, 0)
               ELSE IF q.out = <<>> THEN Answer0(q.f, 0)
               ELSE [q EXCEPT !.out = CString(@), !.ret = c.buf]
    <2> HIDE DEF size
    <2> QED BY DEF OnStream, t_fgets, Newlines, size
  <1>2. e = IF n < 1 THEN Says(file, 0)
            ELSE IF line = <<>> THEN Takes(file, how, <<>>, n, <<>>, 0)
            ELSE Takes(file, how, line,
                       IF Newlines(text) = {} THEN n ELSE Len(line),
                       CString(line), c.buf)
    BY DEF FileCall
  <1>3. size \in Nat
    BY Clamped DEF Known
  <1>4. f \in StreamSet /\ Suits(f, how) /\ BackIs(f) /\ Simulates(f, how, -1)
    BY Kept
  <1> HIDE DEF r, e, size
  <1>5. CASE size < 2
    <2>1. r = Answer0(f, 0) /\ e = Says(file, 0)
      <3>1. n < 1
        BY <1>3, <1>5
      <3> HIDE DEF n
      <3> QED BY <1>1, <1>2, <1>5, <3>1
    <2> QED BY <1>4, <2>1 DEF Served, Agrees, Answer0, Says, r, e
  <1>6. CASE ~(size < 2) /\ ~f.reads
    <2>1. n \in Nat /\ ~(n < 1)
      BY <1>3, <1>6
    <2> HIDE DEF n
    <2>2. text = <<>>
      BY <1>4, <1>6, <2>1, AheadIs
    <2>3. line = <<>>
      <3> HIDE DEF text
      <3>1. Newlines(text) = {}
        BY <2>2 DEF Newlines
      <3> QED BY <2>2, <3>1 DEF Line
    <2>4. Takes(file, how, <<>>, n, <<>>, 0)
            = [out |-> <<>>, ret |-> 0, file |-> FileOf(f)]
      <3>1. ~how.reads
        BY <1>4, <1>6 DEF Suits
      <3> QED BY <1>4, <2>1, <3>1, NothingTaken
    <2> HIDE DEF line, text
    <2>5. r = Answer0(f, 0)
          /\ e = [out |-> <<>>, ret |-> 0, file |-> FileOf(f)]
      <3>1. e = Takes(file, how, <<>>, n, <<>>, 0)
        BY <1>2, <2>1, <2>3
      <3> QED BY <1>1, <1>6, <2>4, <3>1
    <2> QED BY <1>4, <2>5 DEF Served, Agrees, Answer0, r, e
  <1>7. CASE ~(size < 2) /\ f.reads
    <2>1. n \in Nat \ {0} /\ ~(n < 1)
      BY <1>3, <1>7
    <2> HIDE DEF n
    <2>2. /\ want \in Nat \ {0} /\ Ahead(file, how, want) = line
          /\ want = IF Newlines(text) = {} THEN n ELSE Len(line)
          /\ Newlines(text) # {} => line # <<>>
      BY <1>4, <1>7, <2>1, LineIs
    <2> HIDE DEF want
    <2>3. /\ q = [out |-> line, ret |-> Len(line), f |-> q.f]
          /\ Simulates(q.f, how, -1)
          /\ \A out, ret : Takes(file, how, line, want, out, ret)
                             = [out |-> out, ret |-> ret,
                                file |-> FileOf(q.f)]
      <3> DEFINE a == Ahead(file, how, want)
      <3>1. /\ q = [out |-> a, ret |-> Len(a), f |-> q.f]
            /\ Simulates(q.f, how, -1)
            /\ \A out, ret : Takes(file, how, a, want, out, ret)
                               = [out |-> out, ret |-> ret,
                                  file |-> FileOf(q.f)]
        BY <1>4, <2>2, ReadIs
      <3>2. a = line
        BY <2>2
      <3> HIDE DEF a, line, q
      <3> QED BY <3>1, <3>2
    <2> HIDE DEF line, text, q
    <2>4. q.out = line
      BY <2>3
    <2>5. CASE line = <<>>
      <3>1. r = Answer0(q.f, 0)
        BY <1>1, <1>7, <2>4, <2>5
      <3>2. want = n
        BY <2>2, <2>5
      <3>3. e = Takes(file, how, line, want, <<>>, 0)
        BY <1>2, <2>1, <2>5, <3>2
      <3>4. e = [out |-> <<>>, ret |-> 0, file |-> FileOf(q.f)]
        BY <2>3, <3>3
      <3> QED BY <2>3, <3>1, <3>4, <1>7 DEF Served, Agrees, Answer0, r, e
    <2>6. CASE line # <<>>
      <3> DEFINE s == CString(line)
                 x == [q EXCEPT !.out = s, !.ret = c.buf]
      <3>1. r = [q EXCEPT !.out = CString(@), !.ret = c.buf]
        BY <1>1, <1>7, <2>4, <2>6
      <3> HIDE DEF s
      <3>2. x.out = s /\ x.ret = c.buf /\ x.f = q.f
        BY <2>3
      <3>3. r = x
        BY <2>4, <3>1 DEF s
      <3>4. e = Takes(file, how, line, want, s, c.buf)
        BY <1>2, <2>1, <2>2, <2>6 DEF s
      <3>5. e = [out |-> s, ret |-> c.buf, file |-> FileOf(q.f)]
        BY <2>3, <3>4
      <3> HIDE DEF x
      <3>6. r.out = s /\ r.ret = c.buf /\ r.f = q.f
        BY <3>2, <3>3
      <3> QED BY <2>3, <3>5, <3>6 DEF Served, Agrees, r, e
    <2> QED BY <2>5, <2>6
  <1> QED BY <1>5, <1>6, <1>7

LEMMA ServedAlways ==
  ASSUME NEW f, NEW how, NEW got, Simulates(f, how, got), NEW c, Known(c)
  PROVE  Served(f, how, got, c)
  <1>1. c.fn \in {"read", "write", "lseek", "fseek", "fread", "fwrite",
                  "fgets", "fputs", "fputc", "fstat", "ftell", "feof",
                  "fflush", "fgetc", "ungetc"}
    BY DEF Known
  <1>2. CASE c.fn = "read"
    BY <1>2, ServedRead
  <1>3. CASE c.fn = "write"
    BY <1>3, ServedWrite
  <1>4. CASE c.fn \in {"lseek", "fseek"}
    BY <1>4, ServedSeek
  <1>5. CASE c.fn = "fread"
    BY <1>5, ServedFread
  <1>6. CASE c.fn = "fwrite"
    BY <1>6, ServedFwrite
  <1>7. CASE c.fn = "fgets"
    BY <1>7, ServedFgets
  <1>8. CASE c.fn \in {"fputs", "fputc"}
    BY <1>8, ServedPuts
  <1>9. CASE c.fn = "fstat"
    BY <1>9, ServedFstat
  <1>10. CASE c.fn \in {"ftell", "feof", "fflush"}
    BY <1>10, ServedStill
  <1>11. CASE c.fn = "fgetc"
    BY <1>11, ServedFgetc
  <1>12. CASE c.fn = "ungetc"
    BY <1>12, ServedUngetc
  <1> QED BY <1>1, <1>2, <1>3, <1>4, <1>5, <1>6, <1>7, <1>8, <1>9, <1>10,
             <1>11, <1>12

-----------------------------------------------------------------------------
(* Opening.                                                                *)
OpensAsFile(how, mode) ==
  /\ Simulates(Fopen(Disk, mode), how, -1)
  /\ FileOf(Fopen(Disk, mode)) = [bytes |-> IF how.keeps THEN Disk ELSE <<>>,
                                  pos |-> 0, short |-> FALSE]

LEMMA OpenedByMode ==
  ASSUME NEW mode \in {"rb", "r+b", "w+b", "wb", "ab"}, NEW how,
         /\ how.reads = (mode \in {"rb", "r+b", "w+b"})
         /\ how.writes = (mode # "rb")
         /\ how.append = (mode = "ab")
         /\ how.keeps = (mode \notin {"wb", "w+b"})
  PROVE  OpensAsFile(how, mode)
  <1> DEFINE f == Fopen(Disk, mode)
             bytes == IF mode \in {"wb", "w+b"} THEN <<>> ELSE Disk
             reads == mode \in {"rb", "r+b", "w+b"}
             writes == mode # "rb"
             append == mode = "ab"
             none == <<>>
  <1>1. bytes \in Seq(Nat) /\ none \in Seq(Nat)
    BY StreamAssumption DEF StreamAssumption
  <1>2. reads \in BOOLEAN /\ writes \in BOOLEAN /\ append \in BOOLEAN
    OBVIOUS
  <1>3. f = [bytes |-> bytes, pos |-> 0, back |-> none, eof |-> FALSE,
             last |-> "none", defined |-> TRUE, reads |-> reads,
             writes |-> writes, append |-> append]
    BY DEF Fopen
  <1>4. how.reads = reads /\ how.writes = writes /\ how.append = append
    OBVIOUS
  <1>5. bytes = IF how.keeps THEN Disk ELSE <<>>
    OBVIOUS
  <1>6. none = <<>>
    OBVIOUS
  <1> HIDE DEF f, bytes, reads, writes, append, none
  <1>7. f \in StreamSet
    BY <1>1, <1>2, <1>3 DEF StreamSet
  <1>8. /\ f.bytes = bytes /\ f.pos = 0 /\ f.back = none /\ f.eof = FALSE
        /\ f.reads = reads /\ f.writes = writes /\ f.append = append
    BY <1>3
  <1>9. Simulates(f, how, -1)
    BY <1>4, <1>6, <1>7, <1>8 DEF Simulates, Suits, BackIs, HandIs
  <1>10. FileOf(f) = [bytes |-> IF how.keeps THEN Disk ELSE <<>>,
                      pos |-> 0, short |-> FALSE]
    BY <1>5, <1>8 DEF FileOf
  <1> QED BY <1>9, <1>10 DEF OpensAsFile, f

LEMMA OpenedByFlags ==
  ASSUME NEW flags \in PosixFlags
  PROVE  OpensAsFile(ByFlags(flags), OpenMode(flags))
  <1> DEFINE how == ByFlags(flags)
             mode == OpenMode(flags)
             Same(m) ==
               /\ mode = m
               /\ how.reads = (m \in {"rb", "r+b", "w+b"})
               /\ how.writes = (m # "rb")
               /\ how.append = (m = "ab")
               /\ how.keeps = (m \notin {"wb", "w+b"})
  <1>1. CASE flags = {}
    <2>1. Same("rb")
      BY <1>1 DEF OpenMode, ByFlags
    <2> HIDE DEF how, mode
    <2> QED BY <2>1, OpenedByMode DEF how, mode
  <1>2. CASE flags = {"RDWR"}
    <2>1. Same("r+b")
      BY <1>2 DEF OpenMode, ByFlags
    <2> HIDE DEF how, mode
    <2> QED BY <2>1, OpenedByMode DEF how, mode
  <1>3. CASE flags = {"WRONLY", "CREAT", "TRUNC"}
    <2>1. Same("wb")
      BY <1>3 DEF OpenMode, ByFlags
    <2> HIDE DEF how, mode
    <2> QED BY <2>1, OpenedByMode DEF how, mode
  <1>4. CASE flags = {"WRONLY", "CREAT", "APPEND"}
    <2>1. Same("ab")
      BY <1>4 DEF OpenMode, ByFlags
    <2> HIDE DEF how, mode
    <2> QED BY <2>1, OpenedByMode DEF how, mode
  <1> QED BY <1>1, <1>2, <1>3, <1>4 DEF PosixFlags

LEMMA OpenedByName ==
  ASSUME NEW mode \in {"rb", "r+b", "w+b", "ab"}
  PROVE  OpensAsFile(ByMode(mode), mode)
  <1> DEFINE how == ByMode(mode)
  <1>1. /\ how.reads = (mode \in {"rb", "r+b", "w+b"})
        /\ how.writes = (mode # "rb")
        /\ how.append = (mode = "ab")
        /\ how.keeps = (mode \notin {"wb", "w+b"})
    BY DEF ByMode
  <1> HIDE DEF how
  <1> QED BY <1>1, OpenedByMode DEF how

-----------------------------------------------------------------------------
(* The session.                                                            *)
IsSession(s) ==
  /\ s.fn = "file"
  /\ DOMAIN s = {"fn", "how", "calls", "done", "f", "got", "asked", "gave"}
  /\ s.calls \subseteq OnDescriptor \cup OnFile
  /\ Simulates(s.f, s.how, s.got)

SessionIs == call.fn = "file" => IsSession(call)

LEMMA SessionOpens ==
  ASSUME NEW how, NEW mode, NEW calls, OpensAsFile(how, mode),
         calls \subseteq OnDescriptor \cup OnFile, NEW s,
         s = OpenedAs(how, mode, calls)
  PROVE  IsSession(s) /\ Opens(s)
  <1> DEFINE f == Fopen(Disk, mode)
  <1>1. /\ Simulates(f, how, -1)
        /\ FileOf(f) = [bytes |-> IF how.keeps THEN Disk ELSE <<>>,
                        pos |-> 0, short |-> FALSE]
    BY DEF OpensAsFile
  <1> HIDE DEF f
  <1>2. s = [fn |-> "file", how |-> how, calls |-> calls, done |-> 0,
             f |-> f, got |-> -1, asked |-> [fn |-> "open"],
             gave |-> [out |-> <<>>, ret |-> 0]]
    BY DEF OpenedAs, f
  <1>3. /\ s.fn = "file" /\ s.how = how /\ s.calls = calls
        /\ s.done = 0 /\ s.f = f
        /\ s.got = -1 /\ s.asked = [fn |-> "open"]
        /\ s.gave = [out |-> <<>>, ret |-> 0]
    BY <1>2
  <1>4. IsSession(s)
    BY <1>1, <1>2, <1>3 DEF IsSession
  <1>5. Opens(s)
    BY <1>1, <1>3 DEF Opens
  <1> QED BY <1>4, <1>5

LEMMA SessionGoesOn ==
  ASSUME NEW s, IsSession(s), NEW c \in s.calls, NEW t,
         t = AfterStreamCall(s, c)
  PROVE  t.fn = "file" /\ IsSession(t) /\ Answers(s, t)
  <1> DEFINE r == OnStream(s.f, c, s.got)
             got == IF c.fn = "fgetc" THEN r.ret ELSE -1
             gave == [out |-> r.out, ret |-> r.ret]
             e == FileCall(FileOf(s.f), s.how, c, s.got)
  <1>1. Simulates(s.f, s.how, s.got) /\ Known(c)
    BY StreamAssumption DEF IsSession, StreamAssumption, Known
  <1>2. Agrees(s.how, r, e, got)
    BY <1>1, ServedAlways DEF Served
  <1>3. t = [s EXCEPT !.done = @ + 1, !.f = r.f, !.asked = c, !.got = got,
                      !.gave = gave]
    BY DEF AfterStreamCall
  <1> HIDE DEF r, got, e
  <1>4. gave.out = r.out /\ gave.ret = r.ret
    OBVIOUS
  <1> HIDE DEF gave
  <1>5. DOMAIN t = DOMAIN s
    BY <1>3
  <1>6. /\ t.fn = "file" /\ t.how = s.how /\ t.calls = s.calls
        /\ t.f = r.f /\ t.got = got /\ t.asked = c /\ t.gave = gave
    BY <1>3 DEF IsSession
  <1>7. IsSession(t)
    BY <1>2, <1>5, <1>6 DEF IsSession, Agrees
  <1>8. Answers(s, t)
    BY <1>2, <1>4, <1>6 DEF Answers, Agrees, e
  <1> QED BY <1>6, <1>7, <1>8

AsFile ==
  call'.fn = "file" =>
    \/ call.fn # "file" /\ Opens(call')
    \/ call.fn = "file" /\ (call'.f.defined => Answers(call, call'))

LEMMA SessionStep ==
  ASSUME SessionIs, Stream
  PROVE  SessionIs' /\ AsFile
  <1>1. CASE call = NoCall /\
             \E flags \in PosixFlags :
                Called(OpenedAs(ByFlags(flags), OpenMode(flags), OnDescriptor))
    <2>1. PICK flags \in PosixFlags :
            call' = OpenedAs(ByFlags(flags), OpenMode(flags), OnDescriptor)
      BY <1>1 DEF Called
    <2>2. IsSession(call') /\ Opens(call')
      BY <2>1, OpenedByFlags, SessionOpens
    <2>3. call.fn # "file"
      BY <1>1 DEF NoCall
    <2> QED BY <2>2, <2>3 DEF SessionIs, AsFile
  <1>2. CASE call = NoCall /\
             \E mode \in {"rb", "r+b", "w+b", "ab"} :
                Called(OpenedAs(ByMode(mode), mode, OnFile))
    <2>1. PICK mode \in {"rb", "r+b", "w+b", "ab"} :
            call' = OpenedAs(ByMode(mode), mode, OnFile)
      BY <1>2 DEF Called
    <2>2. IsSession(call') /\ Opens(call')
      BY <2>1, OpenedByName, SessionOpens
    <2>3. call.fn # "file"
      BY <1>2 DEF NoCall
    <2> QED BY <2>2, <2>3 DEF SessionIs, AsFile
  <1>3. CASE call.fn = "file" /\
             \E c \in call.calls : Called(AfterStreamCall(call, c))
    <2>1. PICK c \in call.calls : call' = AfterStreamCall(call, c)
      BY <1>3 DEF Called
    <2>2. call'.fn = "file" /\ IsSession(call') /\ Answers(call, call')
      BY <1>3, <2>1, SessionGoesOn DEF SessionIs
    <2> QED BY <1>3, <2>2 DEF SessionIs, AsFile
  <1> QED BY <1>1, <1>2, <1>3 DEF Stream

(* An open file is a file with one offset: whatever the file, the calls    *)
(* and their number, every call on it gives and leaves what it would on a  *)
(* file of bytes.  It rests on the byte that was put back being the one    *)
(* that stands at the offset.                                              *)
(* (thunks_fs.cpp, t_open to t_fputc)                                      *)
THEOREM OpenFileIsAFile == StreamSpec => StreamsAreFiles
  <1>1. call = NoCall => SessionIs
    BY DEF SessionIs, NoCall
  <1>2. SessionIs /\ [Stream \/ call'.fn # "file"]_call
          => SessionIs' /\ [AsFile]_call
    <2> SUFFICES ASSUME SessionIs, [Stream \/ call'.fn # "file"]_call
                 PROVE  SessionIs' /\ [AsFile]_call
      OBVIOUS
    <2>1. CASE Stream
      BY <2>1, SessionStep
    <2>2. CASE call'.fn # "file"
      BY <2>2 DEF SessionIs, AsFile
    <2>3. CASE UNCHANGED call
      BY <2>3 DEF SessionIs
    <2> QED BY <2>1, <2>2, <2>3
  <1>3. StreamSpec => [][AsFile]_call
    BY <1>1, <1>2, PTL DEF StreamSpec
  <1> QED BY <1>3 DEF StreamsAreFiles, AsFile
====
