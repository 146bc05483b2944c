-------------------------------- MODULE Files --------------------------------
(***************************************************************************)
(* The files of the guest (thunks_fs.cpp): the table of descriptors and the*)
(* FILE objects made for them, the tree the game writes to over the tree it*)
(* only reads, and a save that is given its name by remove and rename.     *)
(*                                                                         *)
(* One action is one critical section, one call of the host, or one access *)
(* to the bump pointer of the glue's region, which no lock guards.  Two    *)
(* threads that are between its load and its store get the same memory;    *)
(* `raced' says that it happened, and what follows is modelled on.         *)
(*                                                                         *)
(* The engine saves as lines 381-385 tell: it writes a file under another  *)
(* name, then renames the old save to the backup and the new file to the   *)
(* save.  A crash ends the program between any two steps; the trees stay.  *)
(***************************************************************************)
EXTENDS Integers, Sequences, FiniteSets

CONSTANTS
  Threads,    \* guest threads
  Names,      \* paths, without their prefix
  Data,       \* those of the extracted tree
  New, Slot, Backup, \* of a save: new_game.sav, sg00.sav, last_savegame_backup.sav
  Room,       \* objects the glue's region has room for
  MaxOpen,    \* bound on the slots that are open at once
  MaxSaves,   \* bound on the saves
  MaxCrashes  \* bound on the crashes

ASSUME FilesAssumption ==
  /\ Data \subseteq Names \ {New, Slot, Backup}
  /\ {New, Slot, Backup} \subseteq Names /\ Cardinality({New, Slot, Backup}) = 3
  /\ {Room, MaxOpen, MaxSaves, MaxCrashes} \subseteq Nat

Absent == 0
Torn   == -1  \* opened for writing and not closed; 1, 2, ... are whole

VARIABLES
  saved,     \* Names -> what the save tree has under the name
  table,     \* g_files: the file in each slot and the object made for the slot
  objects,   \* g_guest_files: FILE objects and their slots, as listed
  next,      \* how many objects of the glue's region are given out
  raced,     \* whether one was given out twice, in this run or an earlier one
  held,      \* what the guest has open: slot, object or 0, and the file it asked for
  pc,        \* Threads -> where a thunk is
  stage,     \* how far a save is: "none", "writing", "written", "backed"
  saves,     \* saves that were written
  committed, \* the save that was last given its name
  clobbered, \* since then a rename removed its destination and moved nothing,
             \* or the host refused to move the save to the backup
  crashes

region    == <<next, raced>>
tableVars == <<table, objects, held, region>>
saveVars  == <<stage, saves, committed, clobbered>>
vars == <<saved, tableVars, pc, saveVars, crashes>>

Closed == [name |-> New, tree |-> "none", writing |-> FALSE]

Idle == [at |-> "idle", file |-> Closed, stdio |-> FALSE, slot |-> 0,
         object |-> 0, from |-> New, to |-> New]

Slots == 1 .. Len(table)

Init ==
  /\ saved = [n \in Names |-> Absent]
  /\ table = <<>> /\ objects = <<>> /\ held = {}
  /\ next = 0 /\ raced = FALSE
  /\ pc = [t \in Threads |-> Idle]
  /\ stage = "none" /\ saves = 0 /\ committed = 0 /\ clobbered = FALSE
  /\ crashes = 0

-----------------------------------------------------------------------------
(* Opening and closing.                                                    *)

Modes == {"r", "r+", "w", "a"}

(* to_host: what is written goes to the save tree; what is read comes from *)
(* there if it is there, and else from the extracted one.                  *)
to_host(n, writing) ==
  [name |-> n, writing |-> writing,
   tree |-> IF writing \/ saved[n] # Absent THEN "saved" ELSE "data"]

IsThere(file) == IF file.tree = "saved" THEN saved[file.name] # Absent
                 ELSE file.name \in Data

Opening == {t \in Threads : pc[t].at \in {"add", "object", "alloc", "given"}}
Adding  == {t \in Threads : pc[t].at = "add"}
InUse   == {i \in Slots : table[i].file # Closed}

(* The host's fopen, in open (stdio FALSE) or fopen: "r" and "r+" need the *)
(* file, the others make one.                                              *)
HostOpen(t, n, mode, stdio) ==
  LET file == to_host(n, mode # "r") IN
  /\ pc[t].at = "idle" /\ Cardinality(InUse) + Cardinality(Adding) < MaxOpen
  /\ mode \in {"r", "r+"} => IsThere(file)
  /\ saved' = IF file.writing THEN [saved EXCEPT ![n] = Torn] ELSE saved
  /\ pc' = [pc EXCEPT ![t] = [Idle EXCEPT !.at = "add", !.stdio = stdio, !.file = file]]

(* Nobody opens a file that he knows is being written, or writes or        *)
(* removes one that is open.                                               *)
Alone(n, writing) ==
  \A file \in {h.file : h \in held} \cup {pc[t].file : t \in Opening} :
    file.name = n => ~writing /\ ~file.writing

(* Names that are no part of a save.                                       *)
Open(t, n, mode, stdio) ==
  /\ n \notin {New, Slot, Backup} /\ Alone(n, mode # "r")
  /\ HostOpen(t, n, mode, stdio)
  /\ UNCHANGED <<tableVars, saveVars, crashes>>

t_remove(t, n) ==
  /\ n \notin {New, Slot, Backup} /\ Alone(n, TRUE)
  /\ pc[t].at = "idle" /\ saved[n] # Absent
  /\ saved' = [saved EXCEPT ![n] = Absent]
  /\ UNCHANGED <<tableVars, pc, saveVars, crashes>>

(* Mutant of Free: a slot is free that has no object, not one with no file.*)
FreeByObject == {i \in Slots : table[i].object = 0}

Free == Slots \ InUse
SlotOf == IF Free = {} THEN Len(table) + 1 ELSE CHOOSE i \in Free : \A j \in Free : i <= j

(* add_file: the first slot that is free, which keeps its object.          *)
add_file(file) ==
  IF Free = {} THEN Append(table, [file |-> file, object |-> 0])
  ELSE [table EXCEPT ![SlotOf].file = file]

AddFile(t) ==
  /\ pc[t].at = "add"
  /\ table' = add_file(pc[t].file)
  /\ IF pc[t].stdio
     THEN /\ pc' = [pc EXCEPT ![t].at = "object", ![t].slot = SlotOf]
          /\ UNCHANGED held
     ELSE /\ pc' = [pc EXCEPT ![t] = Idle]
          /\ held' = held \cup {[slot |-> SlotOf, object |-> 0,
                                 file |-> pc[t].file]}
  /\ UNCHANGED <<saved, objects, region, saveVars, crashes>>

(* The rest of fopen.  The object of the slot is there:                    *)
FoundObject(t) ==
  LET i == pc[t].slot IN
  /\ pc[t].at = "object" /\ pc' = [pc EXCEPT ![t] = Idle]
  /\ table[i].object # 0
  /\ held' = held \cup {[slot |-> i, object |-> table[i].object, file |-> pc[t].file]}
  /\ UNCHANGED <<saved, table, objects, region, saveVars, crashes>>

(* or alloc_bytes makes one: it loads the bump pointer and, a step later,  *)
(* stores it.  The strings and arrays of JNI come from there too.          *)
LoadNext(t) ==
  /\ \/ /\ pc[t].at = "object" /\ table[pc[t].slot].object = 0
        /\ pc' = [pc EXCEPT ![t].at = "alloc", ![t].object = next]
     \/ /\ pc[t].at = "idle"
        /\ pc' = [pc EXCEPT ![t] = [Idle EXCEPT !.at = "bytes", !.object = next]]
  /\ next < Room
  /\ UNCHANGED <<saved, tableVars, saveVars, crashes>>

StoreNext(t) ==
  LET object == pc[t].object + 1 IN
  /\ \/ /\ pc[t].at = "alloc"
        /\ pc' = [pc EXCEPT ![t].at = "given", ![t].object = object]
     \/ pc[t].at = "bytes" /\ pc' = [pc EXCEPT ![t] = Idle]
  /\ next' = object /\ raced' = (raced \/ next # pc[t].object)
  /\ UNCHANGED <<saved, table, objects, held, saveVars, crashes>>

(* set_guest_file, and the FILE is listed and given to the guest.  Only    *)
(* this thread looks at the object of the slot, so this is one step.       *)
ListObject(t) ==
  LET i == pc[t].slot
      object == pc[t].object IN
  /\ pc[t].at = "given" /\ pc' = [pc EXCEPT ![t] = Idle]
  /\ table' = [table EXCEPT ![i].object = object]
  /\ objects' = Append(objects, [object |-> object, slot |-> i])
  /\ held' = held \cup {[slot |-> i, object |-> object, file |-> pc[t].file]}
  /\ UNCHANGED <<saved, region, saveVars, crashes>>

(* No room: the guest is told the file would not open.  It stays open.     *)
NoRoom(t) ==
  /\ pc[t].at = "object" /\ pc' = [pc EXCEPT ![t] = Idle]
  /\ table[pc[t].slot].object = 0 /\ next >= Room
  /\ stage' = IF pc[t].file.name = New THEN "none" ELSE stage
  /\ UNCHANGED <<saved, tableVars, saves, committed, clobbered, crashes>>

(* Mutant of drop_file: it forgets the object of the slot.                 *)
drop_fileObject(i) == [table EXCEPT ![i] = [file |-> Closed, object |-> 0]]

(* drop_file: the object outlives the file.                                *)
drop_file(i) == [table EXCEPT ![i].file = Closed]

(* fd_for_guest_file: the first entry that was listed for the object.      *)
Listed(object) == {k \in 1 .. Len(objects) : objects[k].object = object}
fd_for_guest_file(object) ==
  objects[CHOOSE k \in Listed(object) : \A j \in Listed(object) : k <= j].slot

(* close or fclose: a FILE leads to its slot by way of its object, and the *)
(* file that is there is closed.  What was written is whole, unless two    *)
(* files shared an object and what was meant for one went to the other.    *)
Close(h) ==
  LET i == IF h.object = 0 THEN h.slot ELSE fd_for_guest_file(h.object)
      file == table[i].file
      whole == IF file.name = New THEN saves + 1 ELSE 1
      saving == h.file.writing /\ h.file.name = New IN
  /\ table' = drop_file(i) /\ held' = held \ {h}
  /\ IF file.writing
     THEN \E data \in {whole} \cup (IF raced THEN {Torn} ELSE {}) :
            saved' = [saved EXCEPT ![file.name] = data]
     ELSE UNCHANGED saved
  /\ IF saving THEN saves' = saves + 1 /\ stage' = "written"
     ELSE UNCHANGED <<saves, stage>>
  /\ UNCHANGED <<objects, region, pc, committed, clobbered, crashes>>

-----------------------------------------------------------------------------
(* A save.                                                                 *)

WriteSave(t) ==
  /\ stage = "none" /\ saves < MaxSaves
  /\ stage' = "writing" /\ HostOpen(t, New, "w", TRUE)
  /\ UNCHANGED <<tableVars, saves, committed, clobbered, crashes>>

(* rename, the first of its calls: the destination is removed.             *)
t_rename(t, from, to) ==
  /\ pc[t].at = "idle" /\ \A u \in Threads : pc[u].at # "rename"
  /\ saved' = [saved EXCEPT ![to] = Absent]
  /\ clobbered' = (clobbered \/ (saved[from] = Absent /\ saved[to] # Absent))
  /\ pc' = [pc EXCEPT ![t] = [Idle EXCEPT !.at = "rename", !.from = from, !.to = to]]
  /\ UNCHANGED <<tableVars, stage, saves, committed, crashes>>

Renames(t) ==
  \/ stage = "written" /\ t_rename(t, Slot, Backup)
  \/ stage = "backed" /\ t_rename(t, New, Slot)

(* Mutant of Moved: rename answers "success, did nothing", as it once did. *)
MovedNot(from, to) == saved

Moved(from, to) ==
  IF saved[from] = Absent THEN saved
  ELSE [saved EXCEPT ![to] = saved[from], ![from] = Absent]

(* The second call of rename, with which the save goes on.  The host may   *)
(* refuse to move what is there.                                           *)
HostRename(t) ==
  \E refused \in BOOLEAN :
    /\ pc[t].at = "rename" /\ pc' = [pc EXCEPT ![t] = Idle]
    /\ refused => saved[pc[t].from] # Absent
    /\ saved' = IF refused THEN saved ELSE Moved(pc[t].from, pc[t].to)
    /\ IF stage = "written"
       THEN /\ stage' = "backed" /\ clobbered' = (clobbered \/ refused)
            /\ UNCHANGED committed
       ELSE /\ stage' = "none" /\ clobbered' = (clobbered /\ refused)
            /\ committed' = IF refused THEN committed ELSE saves
    /\ UNCHANGED <<tableVars, saves, crashes>>

(* What was open is gone, what was being written is torn.                  *)
Crash ==
  /\ crashes < MaxCrashes /\ crashes' = crashes + 1
  /\ table' = <<>> /\ objects' = <<>> /\ held' = {}
  /\ next' = 0 /\ UNCHANGED raced
  /\ pc' = [t \in Threads |-> Idle] /\ stage' = "none"
  /\ UNCHANGED <<saved, saves, committed, clobbered>>

Next ==
  \/ \E t \in Threads :
       \/ \E n \in Names, mode \in Modes, stdio \in BOOLEAN : Open(t, n, mode, stdio)
       \/ \E n \in Names : t_remove(t, n)
       \/ AddFile(t) \/ FoundObject(t) \/ NoRoom(t)
       \/ LoadNext(t) \/ StoreNext(t) \/ ListObject(t)
       \/ WriteSave(t) \/ Renames(t) \/ HostRename(t)
  \/ \E h \in held : Close(h)
  \/ Crash

Spec == Init /\ [][Next]_vars

-----------------------------------------------------------------------------
(* Properties.                                                             *)

(* What the guest holds leads to the file it opened: no two files share a  *)
(* slot or an object while threads open, close and reuse slots, and a slot *)
(* that is open is held, is being given its object, or was lost when there *)
(* was no room for one.                                                    *)
HandlesLead ==
  /\ \A h \in held :
       /\ h.slot \in Slots /\ table[h.slot].file = h.file
       /\ h.object # 0 => Listed(h.object) # {} /\ fd_for_guest_file(h.object) = h.slot
  /\ \A g, h \in held : g.slot = h.slot => g = h
  /\ \A i \in InUse :
       \/ \E h \in held : h.slot = i
       \/ \E t \in Opening \ Adding : pc[t].slot = i
       \/ next = Room /\ table[i].object = 0

(* "Reused when the descriptor is: otherwise every open leaks 84 bytes of  *)
(* the glue region" (lines 85-87): each object is that of one slot, which  *)
(* still knows it, so there are never more objects than slots.             *)
ObjectsAreReused ==
  /\ \A k \in 1 .. Len(objects) :
       objects[k].slot \in Slots /\ table[objects[k].slot].object = objects[k].object
  /\ Len(objects) <= Len(table)

(* Both: a handle leads to its file, and no slot or object is lost.  Until *)
(* two threads are in the bump pointer at once, that is: after that, two   *)
(* files can have one FILE object, and both are read from the first.       *)
HandlesMatchTable == raced \/ (HandlesLead /\ ObjectsAreReused)

(* Once a save was given its name, wherever a crash ends the program, that *)
(* save or a later one is whole, under its name or the backup's.  Except   *)
(* from a rename that moves nothing until the save it is a part of is done:*)
(* after a crash between the renames of one save, the next one removes the *)
(* backup, the only save there is; after the host refused the backup its   *)
(* name, the save is removed to make way for the next.  And except when    *)
(* two files shared an object, and one was written in place of the other.  *)
SaveSurvives ==
  committed > 0 /\ ~clobbered /\ ~raced =>
    \E n \in {Slot, Backup} : saved[n] >= committed
=============================================================================
