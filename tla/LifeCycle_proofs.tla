-------------------------- MODULE LifeCycle_proofs --------------------------
(***************************************************************************)
(* Theorems about LifeCycle and the guest threads in it, for any number of *)
(* threads, commands and slots; further down, about the Java that the      *)
(* engine finds when it runs; and last, about the loading of its image.    *)
(* The three share nothing but this module.                                *)
(*                                                                         *)
(* Each of LifeCycle's three invariants has a part of its own that makes   *)
(* it inductive: Fits says what a thread between the limit and make_thread *)
(* still knows of the number of threads, Told where the commands stand in  *)
(* every stage of main, Accounted in which list each running thread is     *)
(* and which of main's helpers a stage may still have.                     *)
(***************************************************************************)
EXTENDS LifeCycle, Jni, FiniteSetTheorems, SequenceTheorems,
        WellFoundedInduction, TLAPS

Places == {"none", "slice", "make thread", "make callback", "start thread",
           "enter", "after", "finished", "wait", "asleep"}

(* Main before it sends commands; on its way from the watch loop to the    *)
(* joins; from the end of the joins on.                                    *)
Before == {"loading", "constructors", "constructor", "constructed",
           "spawning", "awaiting"}
Listing == {"joining", "joining again"}
Cleared == {"joined", "clock stopped"} \cup Torn
Stages == Before \cup Listing \cup Cleared
            \cup {"commands", "command", "watching", "delivering", "stopping"}

ThreadTypes ==
  /\ count \in 0 .. MaxIds
  /\ pc \in [Ids -> Places] /\ mine \in [Ids -> Ids \cup {NoOne}]
  /\ hosts \subseteq Ids /\ taken \subseteq Ids /\ late \subseteq Ids
  /\ owner \in Ids \cup {NoOne}
  /\ fatal \in BOOLEAN /\ listed \in BOOLEAN /\ raced \in BOOLEAN
  /\ \A t \in Ids : pc[t] = "start thread" => mine[t] \in Ids

MainTypes ==
  /\ stage \in Stages
  /\ helpers \subseteq {"clock", "watchdog", "stall watch"}
  /\ engine \in Ids \cup {NoOne}
  /\ handler \in BOOLEAN /\ tardy \in BOOLEAN /\ early \in BOOLEAN
  /\ sent \in Nat /\ got \subseteq Nat

TypeOK == ThreadTypes /\ MainTypes

Unloaded == stage = "loading" => \A t \in Ids : pc[t] = "none"

(* Without a race one thread at most is about to make another, and it has  *)
(* seen room that nobody else takes.                                       *)
Fits ==
  /\ RoomUnlessRaced
  /\ ~raced => /\ \A t, u \in Making : t = u
               /\ \A t \in Ids :
                    /\ pc[t] = "make thread" => count < SpawnLimit
                    /\ pc[t] = "make callback" => count < MaxThreads

Told ==
  /\ stage \in Before => sent = 0 /\ got = {}
  /\ stage \in Before \ {"awaiting"} => engine = NoOne
  /\ (stage \notin Before /\ engine # NoOne /\ ~tardy) =>
       handler /\ got = 1 .. sent

(* A thread that runs is in the list or in the one join_all waits for.     *)
(* Once a list was taken, the next holds only what was started later.      *)
Lists ==
  /\ \A t \in Ids \ {0} :
       pc[t] \notin {"none", "finished"} => t \in hosts \cup taken
  /\ taken # {} => stage \in Listing
  /\ listed => hosts \subseteq late
  /\ stage \in Listing \cup Cleared => early \/ listed
  /\ early => stage \in Torn
  /\ stage = "joining again" => early \/ taken \subseteq late

(* The helper threads of a stage.                                          *)
Helpers ==
  /\ "stall watch" \in helpers => stage \in {"watching", "delivering"}
  /\ "clock" \in helpers =>
       early \/ stage \notin {"clock stopped"} \cup Torn
  /\ "watchdog" \in helpers => early \/ stage \notin Torn

Accounted == Lists /\ Helpers

(* The sizes of the code as it stands: sixteen of each, unless --threads   *)
(* says otherwise.                                                         *)
SizesAgree ==
  0 < MaxThreads /\ SpawnLimit <= MaxThreads /\ MaxThreads <= StackSlots

IInv == TypeOK /\ Unloaded /\ Told /\ Accounted

-----------------------------------------------------------------------------
LEMMA IdsAre ==
  /\ 0 \in Ids /\ NoOne \notin Ids /\ NoOne = MaxIds
  /\ \A n \in Nat : n < MaxIds => n \in Ids
  /\ Ids \subseteq Nat
  BY ThreadsAssumption DEF ThreadsAssumption, Ids, NoOne

LEMMA InitHolds == Init => IInv /\ (SizesAgree => Fits)
  <1> SUFFICES ASSUME Init PROVE IInv /\ (SizesAgree => Fits)
    OBVIOUS
  <1> USE DEF Init, NoThreads
  <1>1. ThreadTypes
    <2>1. count \in 0 .. MaxIds
      BY ThreadsAssumption DEF ThreadsAssumption
    <2>2. pc \in [Ids -> Places]
      BY DEF Places
    <2>3. \A t \in Ids : pc[t] # "start thread"
      OBVIOUS
    <2>4. mine \in [Ids -> Ids \cup {NoOne}]
      OBVIOUS
    <2>5. /\ owner \in Ids \cup {NoOne}
          /\ fatal \in BOOLEAN /\ listed \in BOOLEAN /\ raced \in BOOLEAN
      OBVIOUS
    <2> QED
      BY <2>1, <2>2, <2>3, <2>4, <2>5 DEF ThreadTypes
  <1>2. MainTypes
    BY DEF MainTypes, Stages, Before
  <1>3. Unloaded /\ Told /\ Accounted
    BY DEF Unloaded, Told, Accounted, Lists, Helpers, Before, Listing,
           Cleared, Torn
  <1>4. SizesAgree => Fits
    BY ThreadsAssumption DEF SizesAgree, Fits, RoomUnlessRaced, Making
  <1> QED
    BY <1>1, <1>2, <1>3, <1>4 DEF IInv, TypeOK

-----------------------------------------------------------------------------
(* Types.                                                                  *)
LEMMA CreateTyped ==
  ASSUME ThreadTypes, NEW t \in Ids, Create(t)
  PROVE  ThreadTypes'
  <1> USE DEF ThreadTypes, Places, Goto
  <1>1. CASE Spawn(t) \/ SpawnCall(t)
    BY <1>1 DEF Spawn, SpawnCall, LookForRoom
  <1>2. CASE Make(t)
    <2>0. count \in 0 .. MaxIds /\ count < MaxIds /\ MaxIds \in Nat
      BY <1>2, ThreadsAssumption DEF ThreadsAssumption, Make
    <2>1. count \in Ids /\ count + 1 \in 0 .. MaxIds
      BY ONLY <2>0 DEF Ids
    <2>2. pc' \in [Ids -> Places] /\ mine' \in [Ids -> Ids \cup {NoOne}]
      BY <1>2, <2>1 DEF Make
    <2>3. ASSUME NEW u \in Ids, pc'[u] = "start thread"
          PROVE  mine'[u] \in Ids
      BY <1>2, <2>1, <2>3 DEF Make
    <2> QED
      BY <1>2, <2>1, <2>2, <2>3 DEF Make
  <1>3. CASE MakeFails(t)
    BY <1>3 DEF MakeFails, Making
  <1>4. CASE Start(t)
    BY <1>4 DEF Start
  <1> QED
    BY <1>1, <1>2, <1>3, <1>4 DEF Create

LEMMA GuestTyped ==
  ASSUME ThreadTypes, NEW t \in Ids, InGuest(t) \/ HostThread(t)
  PROVE  ThreadTypes'
  <1>1. CASE Create(t)
    BY <1>1, CreateTyped
  <1>2. CASE Fatal(t) \/ Lock(t) \/ Unlock(t) \/ CondWait(t) \/ Signal(t)
    <2>1. CASE Fatal(t)
      <3>1. pc' \in [Ids -> Places]
        BY <2>1 DEF ThreadTypes, Places, Fatal, Goto
      <3>2. \A u \in Ids : pc'[u] = "start thread" => mine'[u] \in Ids
        BY <2>1 DEF ThreadTypes, Fatal, Goto
      <3> QED
        BY <2>1, <3>1, <3>2 DEF ThreadTypes, Fatal
    <2>2. CASE Lock(t)
      <3>1. \/ pc' = pc
            \/ pc' = [pc EXCEPT ![t] = "slice"]
            \/ pc' = [pc EXCEPT ![t] = "wait"]
        BY <2>2 DEF Lock, Goto
      <3>2. mine' = mine /\ owner' \in Ids \cup {NoOne}
        BY <2>2 DEF Lock, ThreadTypes
      <3>3. pc' \in [Ids -> Places]
        BY <3>1 DEF ThreadTypes, Places
      <3>4. \A u \in Ids : pc'[u] = "start thread" => mine'[u] \in Ids
        BY <3>1, <3>2 DEF ThreadTypes
      <3> QED
        BY <2>2, <3>2, <3>3, <3>4 DEF ThreadTypes, Lock
    <2>3. CASE Unlock(t)
      BY <2>3 DEF ThreadTypes, Places, Unlock, Goto
    <2>4. CASE CondWait(t)
      BY <2>4 DEF ThreadTypes, Places, CondWait, Goto
    <2>5. CASE Signal(t)
      BY <2>5 DEF ThreadTypes, Places, Signal, Goto
    <2> QED
      BY <1>2, <2>1, <2>2, <2>3, <2>4, <2>5
  <1>3. CASE HostThread(t)
    BY <1>3 DEF ThreadTypes, Places, HostThread, Enter, EndSlice, Resume,
                Finish, Goto
  <1> QED
    BY <1>1, <1>2, <1>3 DEF InGuest

LEMMA StepTypesThreads ==
  ASSUME ThreadTypes, [Next]_vars
  PROVE  ThreadTypes'
  <1>1. CASE UNCHANGED threads
    BY <1>1 DEF ThreadTypes, threads
  <1>2. CASE Loaded
    <2>1. count' \in 0 .. MaxIds
      BY <1>2, ThreadsAssumption DEF ThreadsAssumption, Loaded, EnvStart
    <2>2. pc' \in [Ids -> Places]
      BY <1>2 DEF ThreadTypes, Places, Loaded, EnvStart, Goto
    <2>3. \A t \in Ids : pc'[t] = "start thread" => mine'[t] \in Ids
      BY <1>2 DEF ThreadTypes, Loaded, EnvStart, Goto
    <2> QED
      BY <1>2, <2>1, <2>2, <2>3 DEF ThreadTypes, Loaded, EnvStart
  <1>3. CASE SpawnMain
    BY <1>1, <1>3, CreateTyped, IdsAre DEF SpawnMain, Create, threads
  <1>4. CASE LeaveWatch \/ JoinAll
    BY <1>4 DEF ThreadTypes, LeaveWatch, JoinAll, StopAll, TakeList, Join,
                Joined, threads
  <1>5. ASSUME NEW t \in Ids, InGuest(t) \/ HostThread(t)
        PROVE  ThreadTypes'
    BY <1>5, GuestTyped
  <1> QED
    BY <1>1, <1>2, <1>3, <1>4, <1>5
       DEF Next, MainStep, LoadFails, Constructor, Constructed, SkipMain,
           HostSide, Await, SendAppCmd, StartupSent, Deliver, CallReturns,
           StopClock, StopWatchdog, Exit, Register, vars

LEMMA StepTypesMain ==
  ASSUME ThreadTypes, MainTypes, [Next]_vars
  PROVE  MainTypes'
  <1> USE DEF MainTypes, Main, Stage, Ends, startup
  <1> USE DEF Stages, Before, Listing, Cleared, Torn
  <1>1. CASE UNCHANGED life
    BY <1>1 DEF life
  <1>2. CASE LoadFails \/ Loaded \/ Constructor \/ Constructed \/ SkipMain
    BY <1>2 DEF LoadFails, Loaded, Constructor, Constructed, SkipMain
  <1>3. CASE HostSide \/ Deliver \/ CallReturns
    BY <1>3 DEF HostSide, Deliver, CallReturns
  <1>4. CASE SpawnMain
    <2>1. engine' = engine \/ (pc[0] = "start thread" /\ engine' = mine[0])
      BY <1>4 DEF SpawnMain, Start
    <2>2. engine' \in Ids \cup {NoOne}
      BY <2>1, IdsAre DEF ThreadTypes
    <2>3. stage' \in {"spawning", "awaiting"}
      BY <1>4 DEF SpawnMain
    <2> QED
      BY <1>4, <2>2, <2>3 DEF SpawnMain
  <1>5. CASE Await
    <2>0. tardy' = ~handler
      BY <1>5 DEF Await
    <2>1. tardy' \in BOOLEAN
      BY ONLY <2>0
    <2> QED
      BY <1>5, <2>1 DEF Await
  <1>6. CASE SendAppCmd
    <2>0. sent \in Nat /\ sent' = sent + 1
      BY <1>6 DEF SendAppCmd
    <2>1. sent' \in Nat
      BY ONLY <2>0
    <2>2. got' \subseteq Nat
      BY <1>6, <2>1 DEF SendAppCmd
    <2> QED
      BY <1>6, <2>1, <2>2 DEF SendAppCmd
  <1>7. CASE StartupSent \/ LeaveWatch \/ JoinAll
    BY <1>7 DEF StartupSent, LeaveWatch, JoinAll
  <1>8. CASE StopClock \/ StopWatchdog \/ Exit
    BY <1>8 DEF StopClock, StopWatchdog, Exit
  <1>9. ASSUME NEW t \in Ids, Register(t)
        PROVE  MainTypes'
    BY <1>9 DEF Register
  <1> QED
    BY <1>1, <1>2, <1>3, <1>4, <1>5, <1>6, <1>7, <1>8, <1>9
       DEF Next, MainStep, vars, life

-----------------------------------------------------------------------------
(* No thread runs before EnvStart: a thread that is not there takes no     *)
(* step.                                                                   *)
LEMMA OnlyThreadsMove ==
  ASSUME ThreadTypes, NEW t \in Ids, InGuest(t) \/ HostThread(t)
  PROVE  pc[t] # "none"
  <1>1. CASE Create(t)
    BY <1>1 DEF Create, Spawn, SpawnCall, LookForRoom, Make, MakeFails,
                Making, Start
  <1>2. CASE Fatal(t) \/ Lock(t) \/ Unlock(t) \/ CondWait(t) \/ Signal(t)
    BY <1>2 DEF Fatal, Lock, Unlock, CondWait, Signal
  <1>3. CASE HostThread(t)
    BY <1>3 DEF HostThread, Enter, EndSlice, Resume, Finish
  <1> QED
    BY <1>1, <1>2, <1>3 DEF InGuest

LEMMA StepUnloaded ==
  ASSUME TypeOK, Unloaded, [Next]_vars
  PROVE  Unloaded'
  <1> SUFFICES ASSUME stage' = "loading"
               PROVE  \A t \in Ids : pc'[t] = "none"
    BY DEF Unloaded
  <1>1. ~MainStep
    BY DEF MainStep, Main, Stage, LoadFails, Loaded, Constructor,
           Constructed, SkipMain, HostSide, SpawnMain, Await, SendAppCmd,
           StartupSent, Deliver, CallReturns, LeaveWatch, JoinAll, StopClock,
           StopWatchdog, Exit, TypeOK, MainTypes
  <1>2. stage = "loading"
    BY <1>1 DEF Next, Register, vars, life
  <1>3. \A t \in Ids : ~(InGuest(t) \/ HostThread(t))
    BY <1>2, OnlyThreadsMove DEF TypeOK, Unloaded
  <1> QED
    BY <1>1, <1>2, <1>3 DEF Next, Register, vars, threads, Unloaded

-----------------------------------------------------------------------------
(* The commands.                                                           *)
LEMMA StepTold ==
  ASSUME TypeOK, Told, [Next]_vars
  PROVE  Told'
  <1> USE DEF Told, Before, Main, Stage, startup
  <1>1. CASE UNCHANGED <<stage, engine, startup>>
    BY <1>1
  <1>2. CASE LoadFails \/ Loaded \/ Constructor \/ Constructed \/ SkipMain
    BY <1>2 DEF LoadFails, Loaded, Constructor, Constructed, SkipMain
  <1>3. CASE HostSide \/ SpawnMain
    BY <1>3 DEF HostSide, SpawnMain
  <1>4. CASE Await
    <2>1. got' = 1 .. sent'
      BY <1>4 DEF Await
    <2> QED
      BY <1>4, <2>1 DEF Await
  <1>5. CASE SendAppCmd
    <2>0. sent \in Nat
      BY DEF TypeOK, MainTypes
    <2>1. 1 .. sent + 1 = (1 .. sent) \cup {sent + 1}
      BY ONLY <2>0
    <2> QED
      BY <1>5, <2>1 DEF SendAppCmd
  <1>6. CASE StartupSent \/ Deliver \/ CallReturns
    BY <1>6 DEF StartupSent, Deliver, CallReturns
  <1>7. CASE LeaveWatch \/ JoinAll
    BY <1>7 DEF LeaveWatch, JoinAll
  <1>8. CASE StopClock \/ StopWatchdog \/ Exit
    BY <1>8 DEF StopClock, StopWatchdog, Exit
  <1>9. ASSUME NEW t \in Ids, Register(t)
        PROVE  Told'
    BY <1>9 DEF Register
  <1> QED
    BY <1>1, <1>2, <1>3, <1>4, <1>5, <1>6, <1>7, <1>8, <1>9
       DEF Next, MainStep, vars, life

-----------------------------------------------------------------------------
(* Who still runs.                                                         *)
Listed(t) == pc[t] \notin {"none", "finished"} => t \in hosts \cup taken

LEMMA GuestListed ==
  ASSUME ThreadTypes, NEW t \in Ids, InGuest(t) \/ HostThread(t),
         \A u \in Ids \ {0} : Listed(u)
  PROVE  /\ \A u \in Ids \ {0} : Listed(u)'
         /\ taken' = taken /\ listed' = listed
         /\ late \subseteq late'
         /\ listed /\ hosts \subseteq late => hosts' \subseteq late'
  <1> USE DEF ThreadTypes, Listed, Goto
  <1>1. CASE Create(t)
    BY <1>1 DEF Create, Spawn, SpawnCall, LookForRoom, Make, MakeFails,
                Making, Start
  <1>2. CASE Fatal(t) \/ Lock(t) \/ Unlock(t) \/ CondWait(t) \/ Signal(t)
    BY <1>2 DEF Fatal, Lock, Unlock, CondWait, Signal
  <1>3. CASE HostThread(t)
    BY <1>3 DEF HostThread, Enter, EndSlice, Resume, Finish
  <1> QED
    BY <1>1, <1>2, <1>3 DEF InGuest

LEMMA SpawnMainIsCreate ==
  SpawnMain => Create(0) \/ UNCHANGED threads
  BY DEF SpawnMain, Create

LEMMA MainKeepsLists ==
  ASSUME Lists, UNCHANGED threads,
         stage \notin Listing, stage' \notin Listing,
         stage' \in Cleared => early' \/ stage \in Cleared,
         early => early', early' => stage' \in Torn
  PROVE  Lists'
  BY DEF Lists, threads, Listing

LEMMA StepLists ==
  ASSUME TypeOK, Unloaded, Lists, [Next]_vars
  PROVE  Lists'
  <1> USE DEF Lists, Listing, Cleared, Torn, Stage, startup
  <1>1. CASE UNCHANGED vars
    BY <1>1 DEF vars, threads, life
  <1>2. ASSUME NEW t \in Ids, InGuest(t) \/ HostThread(t), UNCHANGED life
        PROVE  Lists'
    BY <1>2, GuestListed DEF TypeOK, Listed, life
  <1>3. ASSUME NEW t \in Ids, Register(t)
        PROVE  Lists'
    BY <1>3 DEF Register, threads
  <1>4. CASE LoadFails \/ SkipMain \/ (Constructed /\ fatal)
    <2>1. /\ UNCHANGED threads /\ early'
          /\ stage \in {"loading", "constructors", "constructed"}
          /\ stage' \in {"gone", "torn"}
      BY <1>4 DEF Main, LoadFails, SkipMain, Constructed
    <2> QED
      BY <2>1, MainKeepsLists
  <1>5. CASE Constructor \/ HostSide \/ (Constructed /\ ~fatal)
    <2>1. /\ UNCHANGED <<threads, early>>
          /\ stage \in {"constructors", "constructed"}
          /\ stage' \in {"constructor", "spawning", "constructors"}
      BY <1>5 DEF Main, Constructor, HostSide, Constructed
    <2> QED
      BY <2>1, MainKeepsLists
  <1>6. CASE Loaded
    BY <1>6 DEF Main, Loaded, EnvStart, Goto, Unloaded, TypeOK, ThreadTypes
  <1>7. CASE SpawnMain
    <2>1. /\ \A u \in Ids \ {0} : Listed(u)'
          /\ taken' = taken /\ listed' = listed
          /\ listed /\ hosts \subseteq late => hosts' \subseteq late'
      BY <1>7, SpawnMainIsCreate, GuestListed, IdsAre
         DEF TypeOK, Listed, InGuest, threads
    <2>2. stage = "spawning" /\ stage' \in {"spawning", "awaiting"}
          /\ UNCHANGED <<helpers, early>>
      BY <1>7 DEF SpawnMain
    <2> QED
      BY <2>1, <2>2 DEF Listed
  <1>8. CASE Await \/ SendAppCmd \/ StartupSent \/ Deliver \/ CallReturns
    <2>1. /\ UNCHANGED <<threads, early>>
          /\ stage \in {"awaiting", "commands", "watching", "constructor",
                        "command", "delivering"}
          /\ stage' \in {"commands", "command", "watching", "delivering",
                         "constructed"}
      BY <1>8 DEF Main, Await, SendAppCmd, StartupSent, Deliver, CallReturns
    <2> QED
      BY <2>1, MainKeepsLists
  <1>9. CASE LeaveWatch
    BY <1>9 DEF Main, LeaveWatch, StopAll
  <1>10. CASE JoinAll
    <2>1. CASE Stage("stopping", "joining") /\ TakeList
      BY <1>10, <2>1 DEF JoinAll, TakeList
    <2>2. CASE Stage("torn", "joining again") /\ TakeList
      BY <1>10, <2>2 DEF JoinAll, TakeList
    <2>3. CASE Join /\ UNCHANGED stage
      BY <1>10, <2>3 DEF JoinAll, Join
    <2>4. CASE /\ Stage("joining", "joined") \/ Stage("joining again", "gone")
               /\ Joined
      BY <1>10, <2>4 DEF JoinAll, Joined, threads
    <2> QED
      BY <1>10, <2>1, <2>2, <2>3, <2>4 DEF JoinAll
  <1>11. CASE StopClock \/ StopWatchdog \/ Exit
    <2>1. /\ UNCHANGED <<threads, early>>
          /\ stage \in {"joined", "clock stopped", "gone"}
          /\ \/ stage' = "clock stopped" /\ stage = "joined"
             \/ stage' = "torn" /\ stage = "clock stopped"
             \/ stage' \in {"exited", "terminated"} /\ stage = "gone"
      BY <1>11 DEF StopClock, StopWatchdog, Exit
    <2> QED
      BY <2>1, MainKeepsLists
  <1> QED
    BY <1>1, <1>2, <1>3, <1>4, <1>5, <1>6, <1>7, <1>8, <1>9, <1>10, <1>11
       DEF Next, MainStep

LEMMA StepHelpers ==
  ASSUME TypeOK, Helpers, [Next]_vars
  PROVE  Helpers'
  <1> USE DEF Helpers, Torn, Main, Stage, Ends
  <1>1. CASE UNCHANGED life
    BY <1>1 DEF life
  <1>2. CASE LoadFails \/ Loaded \/ Constructor \/ Constructed \/ SkipMain
    BY <1>2 DEF LoadFails, Loaded, Constructor, Constructed, SkipMain
  <1>3. CASE HostSide \/ SpawnMain \/ Await \/ SendAppCmd \/ StartupSent
    BY <1>3 DEF HostSide, SpawnMain, Await, SendAppCmd, StartupSent
  <1>4. CASE Deliver \/ CallReturns \/ LeaveWatch \/ Exit
    BY <1>4 DEF Deliver, CallReturns, LeaveWatch, Exit
  <1>5. CASE JoinAll
    BY <1>5 DEF JoinAll
  <1>6. CASE StopClock
    BY <1>6 DEF StopClock
  <1>7. CASE StopWatchdog
    BY <1>7 DEF StopWatchdog
  <1>8. ASSUME NEW t \in Ids, Register(t)
        PROVE  Helpers'
    BY <1>8 DEF Register
  <1> QED
    BY <1>1, <1>2, <1>3, <1>4, <1>5, <1>6, <1>7, <1>8
       DEF Next, MainStep, vars

-----------------------------------------------------------------------------
(* The number of threads.                                                  *)
LEMMA GuestFits ==
  ASSUME ThreadTypes, Fits, SizesAgree,
         NEW t \in Ids, InGuest(t) \/ HostThread(t)
  PROVE  Fits'
  <1> USE ThreadsAssumption
      DEF ThreadTypes, Fits, RoomUnlessRaced, Making, Goto
  <1>1. CASE Spawn(t) \/ SpawnCall(t)
    <2>1. CASE Spawn(t)
      BY <2>1 DEF Spawn, LookForRoom
    <2>2. CASE SpawnCall(t)
      BY <2>2 DEF SpawnCall, LookForRoom
    <2> QED
      BY <1>1, <2>1, <2>2
  <1>2. CASE Make(t)
    <2>1. CASE raced
      BY <1>2, <2>1 DEF Make
    <2>2. CASE ~raced
      <3>0. /\ count < SpawnLimit \/ count < MaxThreads
            /\ count' = count + 1 /\ count \in 0 .. MaxIds
        BY <1>2, <2>2 DEF Make
      <3>1. count' <= StackSlots /\ count' <= MaxThreads
        BY ONLY <3>0, SizesAgree, ThreadsAssumption
           DEF SizesAgree, ThreadsAssumption
      <3>2. \A u \in Ids : pc'[u] \notin {"make thread", "make callback"}
        BY <1>2, <2>2 DEF Make
      <3> QED
        BY <1>2, <2>2, <3>1, <3>2 DEF Make
    <2> QED
      BY <2>1, <2>2
  <1>3. CASE MakeFails(t)
    BY <1>3 DEF MakeFails
  <1>4. CASE Start(t)
    BY <1>4 DEF Start
  <1>5. CASE Fatal(t) \/ Lock(t) \/ Unlock(t) \/ CondWait(t) \/ Signal(t)
    <2>1. CASE Fatal(t) \/ Unlock(t)
      BY <2>1 DEF Fatal, Unlock
    <2>3. CASE CondWait(t)
      BY <2>3 DEF CondWait
    <2>4. CASE Signal(t)
      BY <2>4 DEF Signal
    <2>2. CASE Lock(t)
      <3>1. \/ pc' = pc
            \/ pc' = [pc EXCEPT ![t] = "slice"]
            \/ pc' = [pc EXCEPT ![t] = "wait"]
        BY <2>2 DEF Lock
      <3>2. UNCHANGED <<count, raced>>
        BY <2>2 DEF Lock
      <3>3. Making' \subseteq Making /\ \A u \in Making' : pc'[u] = pc[u]
        BY <3>1
      <3> QED
        BY <3>2, <3>3
    <2> QED
      BY <1>5, <2>1, <2>2, <2>3, <2>4
  <1>6. CASE HostThread(t)
    <2>1. CASE Enter(t)
      BY <2>1 DEF Enter
    <2>2. CASE EndSlice(t)
      BY <2>2 DEF EndSlice
    <2>3. CASE Resume(t)
      BY <2>3 DEF Resume
    <2>4. CASE Finish(t)
      BY <2>4 DEF Finish
    <2> QED
      BY <1>6, <2>1, <2>2, <2>3, <2>4 DEF HostThread
  <1> QED
    BY <1>1, <1>2, <1>3, <1>4, <1>5, <1>6 DEF InGuest, Create

LEMMA StepFits ==
  ASSUME TypeOK, Unloaded, Fits, SizesAgree, [Next]_vars
  PROVE  Fits'
  <1>1. CASE UNCHANGED <<count, pc, raced>>
    BY <1>1 DEF Fits, RoomUnlessRaced, Making
  <1>2. CASE Loaded
    <2>1. count' = 1 /\ 1 <= MaxThreads /\ 1 <= StackSlots
      BY <1>2, ThreadsAssumption
         DEF ThreadsAssumption, SizesAgree, Loaded, EnvStart
    <2>2. \A t \in Ids : pc'[t] \in {"none", "slice"}
      BY <1>2 DEF Loaded, Main, Stage, EnvStart, Goto, Unloaded, TypeOK,
                  ThreadTypes
    <2> QED
      BY <2>1, <2>2 DEF Fits, RoomUnlessRaced, Making
  <1>3. CASE SpawnMain
    BY <1>1, <1>3, SpawnMainIsCreate, GuestFits, IdsAre
       DEF TypeOK, InGuest, threads
  <1>4. CASE LeaveWatch \/ JoinAll
    BY <1>1, <1>4 DEF LeaveWatch, JoinAll, StopAll, TakeList, Join, Joined,
                      threads
  <1>5. ASSUME NEW t \in Ids, InGuest(t) \/ HostThread(t)
        PROVE  Fits'
    BY <1>5, GuestFits DEF TypeOK
  <1> QED
    BY <1>1, <1>2, <1>3, <1>4, <1>5
       DEF Next, MainStep, LoadFails, Constructor, Constructed, SkipMain,
           HostSide, Await, SendAppCmd, StartupSent, Deliver, CallReturns,
           StopClock, StopWatchdog, Exit, Register, vars, threads

-----------------------------------------------------------------------------
(* The parts hold together in every state of the program.                  *)
LEMMA StepInvariant ==
  ASSUME IInv, [Next]_vars
  PROVE  IInv'
  BY StepTypesThreads, StepTypesMain, StepUnloaded, StepTold, StepLists,
     StepHelpers
     DEF IInv, TypeOK, Accounted

LEMMA NobodyIsLeft == IInv => NobodyOutlivesTheArena
  <1> SUFFICES ASSUME IInv, ~early, late = {}, stage \in Torn
               PROVE  /\ "stall watch" \notin helpers
                      /\ \A t \in Made \ {0} : pc[t] \in {"none", "finished"}
                      /\ stage \in Gone => helpers = {}
    BY DEF NobodyOutlivesTheArena, Torn, Gone
  <1>1. helpers = {}
    BY DEF IInv, TypeOK, MainTypes, Accounted, Helpers, Torn
  <1>2. hosts = {} /\ taken = {}
    BY DEF IInv, Accounted, Lists, Torn, Cleared, Listing
  <1>3. Made \subseteq Ids
    <2>1. count \in 0 .. MaxIds /\ MaxIds \in Nat
      BY ThreadsAssumption DEF ThreadsAssumption, IInv, TypeOK, ThreadTypes
    <2> QED
      BY ONLY <2>1 DEF Made, Ids
  <1>4. \A t \in Made \ {0} : pc[t] \in {"none", "finished"}
    BY <1>2, <1>3 DEF IInv, Accounted, Lists
  <1> QED
    BY <1>1, <1>4

-----------------------------------------------------------------------------
(* Wherever main is in run(), the stage says which commands were sent, who *)
(* may still run and which host threads are left.                          *)
THEOREM Invariant == Spec => []IInv
  BY InitHolds, StepInvariant, PTL DEF Spec

(* android_glue.cpp 164-165: the engine is sent every command main is done *)
(* with, however many there are and whatever the other threads do, if main *)
(* saw the handler before it stopped waiting (main.cpp: the 200 looks).    *)
THEOREM EngineIsToldHolds == Spec => []EngineIsTold
  <1>1. IInv => EngineIsTold
    BY DEF IInv, TypeOK, MainTypes, Told, Before, EngineIsTold
  <1> QED
    BY <1>1, Invariant, PTL

(* main.cpp 636-637: with any number of guest threads, after the joins of  *)
(* run() nobody is left who uses what is being torn down, unless a thread  *)
(* was started after join_all took its list.                               *)
THEOREM NobodyOutlivesTheArenaHolds == Spec => []NobodyOutlivesTheArena
  BY Invariant, NobodyIsLeft, PTL

(* env.cpp 122: for all sizes that agree as the code's do, the stacks and  *)
(* the monitor have room for every thread, unless two threads look at the  *)
(* limit at once.                                                          *)
THEOREM RoomUnlessRacedHolds ==
  ASSUME SizesAgree
  PROVE  Spec => []RoomUnlessRaced
  <1>1. Init => IInv /\ Fits
    BY InitHolds
  <1>2. IInv /\ Fits /\ [Next]_vars => IInv' /\ Fits'
    BY StepInvariant, StepFits DEF IInv
  <1>3. Fits => RoomUnlessRaced
    BY DEF Fits
  <1> QED
    BY <1>1, <1>2, <1>3, PTL DEF Spec

-----------------------------------------------------------------------------
(***************************************************************************)
(* Java, for any calls of any session, however long, any answers and a     *)
(* region of any size: what the engine was told stays true.  The invariant *)
(* says of every map Java keeps which call of the session put an entry in, *)
(* and of the region that what lies below `next` is never written again.   *)
(***************************************************************************)
JavaShape(j) ==
  /\ j = [members |-> j.members, strings |-> j.strings, arrays |-> j.arrays,
          made |-> j.made, copies |-> j.copies, mem |-> j.mem,
          bump |-> j.bump]
  /\ j.bump = [next |-> j.bump.next, limit |-> GlueBase + GlueSize]
  /\ j.bump.next \in Nat /\ j.bump.next >= GlueBase
  /\ j.members \in Seq([name : STRING, string : BOOLEAN])
  /\ j.strings \in Seq(Seq(STRING)) /\ j.arrays \in Seq(Seq(Int))

SessionShape(s) ==
  /\ s = [fn |-> "java", calls |-> s.calls, got |-> s.got, java |-> s.java]
  /\ s.calls \in Seq(JavaCalls)
  /\ s.got = [k \in 1 .. Len(s.calls) |-> s.got[k]]
  /\ JavaShape(s.java)

(* A member is one the engine asked for, under its number.                 *)
MembersAsked(s) ==
  \A n \in DOMAIN s.java.members :
    \E m \in CallsTo(s, Asks) : /\ s.got[m][2] = n
                                /\ s.calls[m].name = s.java.members[n].name

(* Strings and the calls that made them, one to one.                       *)
StringsMade(s) ==
  /\ \A i \in Makers(s) :
       \E n \in DOMAIN s.java.strings : /\ s.got[i] = <<"object", n>>
                                        /\ s.java.strings[n] = TextOf(s, i)
  /\ \A n \in DOMAIN s.java.strings :
       \E i \in Makers(s) : s.got[i] = <<"object", n>>
  /\ StringsDiffer(s)

ReadBy(s, i, m, n) ==
  /\ s.got[i] = <<"array", n>>
  /\ s.got[m][2] = s.calls[i].token[2]
  /\ s.calls[m].name \in DOMAIN Capabilities
  /\ s.java.arrays[n] = Capabilities[s.calls[m].name]

ArraysRead(s) ==
  \A n \in DOMAIN s.java.arrays :
    \E i \in Given(s, "array"), m \in CallsTo(s, Asks) : ReadBy(s, i, m, n)

ArraysMade(j) ==
  \A name \in DOMAIN j.made :
    \E n \in DOMAIN j.arrays : j.made[name] = <<"array", n>>

NameIn(j, token) == j.members[token[2]].name

ArraysAnswered(s) ==
  \A k \in Given(s, "array") :
    /\ HasMember(s.java, s.calls[k].token)
    /\ NameIn(s.java, s.calls[k].token) \in DOMAIN s.java.made
    /\ s.got[k] = s.java.made[NameIn(s.java, s.calls[k].token)]

(* A copy at an address lies in the region's used part.                    *)
Holds(j, addr, what, stride, bytes) ==
  /\ addr \in Nat /\ GlueBase <= addr
  /\ addr + bytes <= j.bump.next
  /\ Shows(j.mem, addr, what, stride)

TextKept(j, t) ==
  \E n \in DOMAIN j.strings :
    /\ t = <<"object", n>>
    /\ Holds(j, j.copies[t], Append(j.strings[n], ""), 1,
             Len(j.strings[n]) + 1)

WordsKept(j, t) ==
  \E n \in DOMAIN j.arrays :
    /\ t = <<"array", n>>
    /\ Holds(j, j.copies[t], j.arrays[n], 4, 4 * Len(j.arrays[n]) + 4)

CopiesKept(j) ==
  /\ \A t \in DOMAIN j.copies : TextKept(j, t) \/ WordsKept(j, t)
  /\ \A t, u \in DOMAIN j.copies : j.copies[t] = j.copies[u] => t = u

PointerSlots == {"GetStringUTFChars", "GetArrayElements"}
KindOf(slot) == IF slot = "GetStringUTFChars" THEN "object" ELSE "array"

(* Why a call for a pointer was answered with v.                           *)
IsCopy(j, c, v) == /\ c.token \in DOMAIN j.copies /\ v = j.copies[c.token]
                   /\ c.token[1] = KindOf(c.slot)

PointersKept(s) ==
  \A k \in Pointed(s, PointerSlots) : IsCopy(s.java, s.calls[k], s.got[k])

SessionInv(s) ==
  /\ SessionShape(s)
  /\ MembersAsked(s) /\ StringsMade(s)
  /\ ArraysRead(s) /\ ArraysMade(s.java) /\ ArraysAnswered(s)
  /\ CopiesKept(s.java) /\ PointersKept(s) /\ OnlyFullRefuses(s)

-----------------------------------------------------------------------------
(* What Java told the engine is true in every state with the invariant.    *)
LEMMA WordIsKept ==
  ASSUME NEW s, SessionInv(s)
  PROVE  /\ StringsDiffer(s) /\ StringsShow(s) /\ ArraysShow(s)
         /\ PointersDiffer(s) /\ ArraysStay(s) /\ OnlyFullRefuses(s)
  <1>1. StringsDiffer(s) /\ OnlyFullRefuses(s)
    BY DEF SessionInv, StringsMade
  <1>2. StringsShow(s)
    <2> SUFFICES ASSUME NEW k \in Pointed(s, {"GetStringUTFChars"})
                 PROVE  \E i \in Makers(s) :
                          /\ s.got[i] = s.calls[k].token
                          /\ Shows(s.java.mem, s.got[k],
                                   Append(TextOf(s, i), ""), 1)
      BY DEF StringsShow
    <2> DEFINE t == s.calls[k].token
    <2>1. k \in Pointed(s, PointerSlots)
           /\ s.calls[k].slot = "GetStringUTFChars"
      BY DEF Pointed, CallsTo, PointerSlots
    <2>2. t \in DOMAIN s.java.copies /\ s.got[k] = s.java.copies[t]
           /\ t[1] = "object"
      BY <2>1 DEF SessionInv, PointersKept, IsCopy, KindOf
    <2>3. TextKept(s.java, t)
      <3>1. TextKept(s.java, t) \/ WordsKept(s.java, t)
        BY <2>2 DEF SessionInv, CopiesKept
      <3>2. ~\E n : t = <<"array", n>>
        BY <2>2
      <3>3. ~WordsKept(s.java, t)
        BY <3>2 DEF WordsKept
      <3> QED BY <3>1, <3>3
    <2>4. PICK n \in DOMAIN s.java.strings :
             /\ t = <<"object", n>>
             /\ Shows(s.java.mem, s.java.copies[t],
                      Append(s.java.strings[n], ""), 1)
      BY <2>3 DEF TextKept, Holds
    <2>5. PICK i \in Makers(s) : s.got[i] = <<"object", n>>
      BY DEF SessionInv, StringsMade
    <2>6. s.java.strings[n] = TextOf(s, i)
      <3>1. PICK m \in DOMAIN s.java.strings :
              s.got[i] = <<"object", m>> /\ s.java.strings[m] = TextOf(s, i)
        BY DEF SessionInv, StringsMade
      <3>2. m = n
        BY <3>1, <2>5
      <3> QED BY <3>1, <3>2
    <2> QED BY <2>2, <2>4, <2>5, <2>6
  <1>3. ArraysShow(s)
    <2> SUFFICES ASSUME NEW k \in Pointed(s, {"GetArrayElements"})
                 PROVE  \E i \in Given(s, "array"), m \in CallsTo(s, Asks) :
                          /\ s.got[i] = s.calls[k].token
                          /\ s.got[m][2] = s.calls[i].token[2]
                          /\ s.calls[m].name \in DOMAIN Capabilities
                          /\ Shows(s.java.mem, s.got[k],
                                   Capabilities[s.calls[m].name], 4)
      BY DEF ArraysShow
    <2> DEFINE t == s.calls[k].token
    <2>1. k \in Pointed(s, PointerSlots)
           /\ s.calls[k].slot = "GetArrayElements"
      BY DEF Pointed, CallsTo, PointerSlots
    <2>2. t \in DOMAIN s.java.copies /\ s.got[k] = s.java.copies[t]
           /\ t[1] = "array"
      BY <2>1 DEF SessionInv, PointersKept, IsCopy, KindOf
    <2>3. WordsKept(s.java, t)
      <3>1. TextKept(s.java, t) \/ WordsKept(s.java, t)
        BY <2>2 DEF SessionInv, CopiesKept
      <3>2. ~\E n : t = <<"object", n>>
        BY <2>2
      <3>3. ~TextKept(s.java, t)
        BY <3>2 DEF TextKept
      <3> QED BY <3>1, <3>3
    <2>4. PICK n \in DOMAIN s.java.arrays :
             /\ t = <<"array", n>>
             /\ Shows(s.java.mem, s.java.copies[t], s.java.arrays[n], 4)
      BY <2>3 DEF WordsKept, Holds
    <2>5. PICK i \in Given(s, "array"), m \in CallsTo(s, Asks) :
            ReadBy(s, i, m, n)
      BY DEF SessionInv, ArraysRead
    <2> QED BY <2>2, <2>4, <2>5 DEF ReadBy
  <1>4. PointersDiffer(s)
    <2> SUFFICES ASSUME NEW k \in Pointed(s, PointerSlots),
                        NEW l \in Pointed(s, PointerSlots)
                 PROVE  (s.got[k] = s.got[l])
                          <=> (s.calls[k].token = s.calls[l].token)
      BY DEF PointersDiffer, PointerSlots
    <2>1. IsCopy(s.java, s.calls[k], s.got[k])
           /\ IsCopy(s.java, s.calls[l], s.got[l])
      BY DEF SessionInv, PointersKept
    <2> QED BY <2>1 DEF IsCopy, SessionInv, CopiesKept
  <1>5. ArraysStay(s)
    BY DEF ArraysStay, SessionInv, ArraysAnswered
  <1> QED BY <1>1, <1>2, <1>3, <1>4, <1>5

-----------------------------------------------------------------------------
(* What a call may do to Java.                                             *)
JavaOf(members, strings, arrays, made, copies, mem, bump) ==
  [members |-> members, strings |-> strings, arrays |-> arrays,
   made |-> made, copies |-> copies, mem |-> mem, bump |-> bump]

(* A record is one of the set of records that has this one only.           *)
LEMMA OnlyJava ==
  ASSUME NEW a, NEW b, NEW c, NEW d, NEW e, NEW f, NEW g,
         NEW k \in [members : {a}, strings : {b}, arrays : {c}, made : {d},
                    copies : {e}, mem : {f}, bump : {g}]
  PROVE  k = JavaOf(a, b, c, d, e, f, g)
  BY DEF JavaOf

SetMembers(j, x) == [j EXCEPT !.members = x]
SetStrings(j, x) == [j EXCEPT !.strings = x]
SetArrays(j, x, y) == [j EXCEPT !.arrays = x, !.made = y]
SetCopies(j, x, y, z) == [j EXCEPT !.bump = x, !.mem = y, !.copies = z]

LEMMA FieldsSet ==
  ASSUME NEW j, JavaShape(j), NEW x, NEW y, NEW z
  PROVE  /\ SetMembers(j, x)
              = JavaOf(x, j.strings, j.arrays, j.made, j.copies, j.mem, j.bump)
         /\ SetStrings(j, x)
              = JavaOf(j.members, x, j.arrays, j.made, j.copies, j.mem, j.bump)
         /\ SetArrays(j, x, y)
              = JavaOf(j.members, j.strings, x, y, j.copies, j.mem, j.bump)
         /\ SetCopies(j, x, y, z)
              = JavaOf(j.members, j.strings, j.arrays, j.made, z, y, x)
  <1>0. j = [members |-> j.members, strings |-> j.strings,
             arrays |-> j.arrays, made |-> j.made, copies |-> j.copies,
             mem |-> j.mem, bump |-> j.bump]
    BY DEF JavaShape
  <1>1. SetMembers(j, x)
          = JavaOf(x, j.strings, j.arrays, j.made, j.copies, j.mem, j.bump)
    <2> DEFINE k == [j EXCEPT !.members = x]
    <2>1. k \in [members : {x}, strings : {j.strings}, arrays : {j.arrays},
             made : {j.made}, copies : {j.copies}, mem : {j.mem},
             bump : {j.bump}]
      BY ONLY <1>0
    <2> HIDE DEF k
    <2>2. k = JavaOf(x, j.strings, j.arrays, j.made, j.copies, j.mem, j.bump)
      BY ONLY <2>1, OnlyJava
    <2> QED BY <2>2 DEF k, SetMembers
  <1>2. SetStrings(j, x)
          = JavaOf(j.members, x, j.arrays, j.made, j.copies, j.mem, j.bump)
    <2> DEFINE k == [j EXCEPT !.strings = x]
    <2>1. k \in [members : {j.members}, strings : {x}, arrays : {j.arrays},
             made : {j.made}, copies : {j.copies}, mem : {j.mem},
             bump : {j.bump}]
      BY ONLY <1>0
    <2> HIDE DEF k
    <2>2. k = JavaOf(j.members, x, j.arrays, j.made, j.copies, j.mem, j.bump)
      BY ONLY <2>1, OnlyJava
    <2> QED BY <2>2 DEF k, SetStrings
  <1>3. SetArrays(j, x, y)
          = JavaOf(j.members, j.strings, x, y, j.copies, j.mem, j.bump)
    <2> DEFINE k == [j EXCEPT !.arrays = x, !.made = y]
    <2>1. k \in [members : {j.members}, strings : {j.strings}, arrays : {x},
             made : {y}, copies : {j.copies}, mem : {j.mem}, bump : {j.bump}]
      BY ONLY <1>0
    <2> HIDE DEF k
    <2>2. k = JavaOf(j.members, j.strings, x, y, j.copies, j.mem, j.bump)
      BY ONLY <2>1, OnlyJava
    <2> QED BY <2>2 DEF k, SetArrays
  <1>4. SetCopies(j, x, y, z)
          = JavaOf(j.members, j.strings, j.arrays, j.made, z, y, x)
    <2> DEFINE k == [j EXCEPT !.bump = x, !.mem = y, !.copies = z]
    <2>1. k \in [members : {j.members}, strings : {j.strings},
               arrays : {j.arrays},
             made : {j.made}, copies : {z}, mem : {y}, bump : {x}]
      BY ONLY <1>0
    <2> HIDE DEF k
    <2>2. k = JavaOf(j.members, j.strings, j.arrays, j.made, z, y, x)
      BY ONLY <2>1, OnlyJava
    <2> QED BY <2>2 DEF k, SetCopies
  <1> QED BY <1>1, <1>2, <1>3, <1>4

MemberNamed(c) == [name |-> c.name, string |-> c.string]

NewMember(j, c, k, v) ==
  /\ c.slot \in Asks /\ c.name \in STRING /\ c.string \in BOOLEAN
  /\ k = JavaOf(Append(j.members, MemberNamed(c)), j.strings, j.arrays,
                j.made, j.copies, j.mem, j.bump)
  /\ v[2] = Len(j.members) + 1

NewString(j, c, k, v, text) ==
  /\ \/ c.slot = "NewStringUTF" /\ text = c.text
     \/ c.slot = "CallObjectMethod" /\ text = DataRoot
  /\ text \in Seq(STRING)
  /\ k = JavaOf(j.members, Append(j.strings, text), j.arrays, j.made,
                j.copies, j.mem, j.bump)
  /\ v = <<"object", Len(j.strings) + 1>>

NewArray(j, c, k, v) ==
  /\ c.slot = "CallObjectMethod" /\ HasMember(j, c.token)
  /\ NameIn(j, c.token) \in DOMAIN Capabilities \ DOMAIN j.made
  /\ k = JavaOf(j.members, j.strings,
                Append(j.arrays, Capabilities[NameIn(j, c.token)]),
                Entered(j.made, NameIn(j, c.token), v),
                j.copies, j.mem, j.bump)
  /\ v = <<"array", Len(j.arrays) + 1>>

(* Room at v for so many bytes, and what is put there.                     *)
CopyFits(j, k, v, token, what, stride, bytes) ==
  /\ v \in Nat /\ v >= j.bump.next
  /\ k = JavaOf(j.members, j.strings, j.arrays, j.made,
                Entered(j.copies, token, v), k.mem,
                [next |-> v + bytes, limit |-> j.bump.limit])
  /\ Shows(k.mem, v, what, stride)
  /\ \A a \in DOMAIN j.mem :
       a < v => a \in DOMAIN k.mem /\ k.mem[a] = j.mem[a]

TextCopied(j, c, k, v, n) ==
  /\ c.slot = "GetStringUTFChars"
  /\ n \in DOMAIN j.strings /\ c.token = <<"object", n>>
  /\ CopyFits(j, k, v, c.token, Append(j.strings[n], ""), 1,
          Len(j.strings[n]) + 1)

WordsCopied(j, c, k, v, n) ==
  /\ c.slot = "GetArrayElements"
  /\ n \in DOMAIN j.arrays /\ c.token = <<"array", n>>
  /\ CopyFits(j, k, v, c.token, j.arrays[n], 4, 4 * Len(j.arrays[n]) + 4)

NewCopy(j, c, k, v) ==
  /\ c.token \notin DOMAIN j.copies
  /\ \E n : TextCopied(j, c, k, v, n) \/ WordsCopied(j, c, k, v, n)

(* A call that leaves Java as it is, and what it may answer.               *)
AnswersOld(j, c, v) ==
  \/ v = Null
  \/ /\ HasMember(j, c.token) /\ NameIn(j, c.token) \in DOMAIN j.made
     /\ v = j.made[NameIn(j, c.token)]

NoRoomForText(j, c) ==
  \A n \in DOMAIN j.strings :
    c.token = <<"object", n>> => Full(j.bump, Len(j.strings[n]) + 1)

Nothing(j, c, k, v) ==
  /\ k = j /\ c.slot \notin Asks \cup {"NewStringUTF"}
  /\ c.slot = "CallObjectMethod" => AnswersOld(j, c, v)
  /\ c.slot \in PointerSlots => v = 0 \/ IsCopy(j, c, v)
  /\ c.slot = "GetStringUTFChars" /\ v = 0 => NoRoomForText(j, c)

Outcome(j, c, k, v) ==
  \/ Nothing(j, c, k, v)
  \/ NewMember(j, c, k, v)
  \/ \E text : NewString(j, c, k, v, text)
  \/ NewArray(j, c, k, v)
  \/ NewCopy(j, c, k, v)

(* The region grows only where there is room.                              *)
LEMMA RoomFound ==
  ASSUME NEW b, NEW limit \in Nat, b = [next |-> b.next, limit |-> limit],
         b.next \in Nat \ {0}, NEW bytes \in Nat
  PROVE  \/ BumpAlloc(b, bytes, 4).addr = 0 /\ Full(b, bytes)
         \/ /\ BumpAlloc(b, bytes, 4).addr \in Nat \ {0}
            /\ BumpAlloc(b, bytes, 4).addr >= b.next
            /\ BumpAlloc(b, bytes, 4).left
                 = [next |-> BumpAlloc(b, bytes, 4).addr + bytes,
                    limit |-> limit]
  <1> DEFINE addr == Aligned(b.next, 4)
  <1>1. addr \in Nat \ {0} /\ addr >= b.next
    BY DEF Aligned
  <1> HIDE DEF addr
  <1>2. CASE addr + bytes > b.limit
    BY <1>1, <1>2 DEF BumpAlloc, Full, addr
  <1>3. CASE ~(addr + bytes > b.limit)
    <2>1. BumpAlloc(b, bytes, 4)
            = [addr |-> addr, left |-> [b EXCEPT !.next = addr + bytes]]
      BY <1>3 DEF BumpAlloc, addr
    <2>2. [b EXCEPT !.next = addr + bytes]
            = [next |-> addr + bytes, limit |-> limit]
      <3> DEFINE e == addr + bytes
      <3> HIDE DEF e
      <3>1. [b EXCEPT !.next = e] = [next |-> e, limit |-> limit]
        OBVIOUS
      <3> QED BY <3>1 DEF e
    <2>3. /\ BumpAlloc(b, bytes, 4).addr = addr
          /\ BumpAlloc(b, bytes, 4).left
               = [next |-> addr + bytes, limit |-> limit]
      BY <2>1, <2>2
    <2> QED BY <1>1, <2>3
  <1> QED BY <1>2, <1>3

(* The words put in the region show what they are a copy of, and leave     *)
(* what lies before them.                                                  *)
PutAt(addr, what, stride) ==
  [a \in {addr + stride * (i - 1) : i \in DOMAIN what} |->
     what[(a - addr) \div stride + 1]]

CopyShown(mem, addr, what, stride) ==
  /\ Shows(Written(mem, PutAt(addr, what, stride)), addr, what, stride)
  /\ \A a \in DOMAIN mem :
       a < addr =>
         /\ a \in DOMAIN Written(mem, PutAt(addr, what, stride))
         /\ Written(mem, PutAt(addr, what, stride))[a] = mem[a]

LEMMA CopyShows ==
  ASSUME NEW mem, NEW addr \in Nat, NEW S, NEW what \in Seq(S),
         NEW stride \in {1, 4}
  PROVE  CopyShown(mem, addr, what, stride)
  <1> DEFINE put == PutAt(addr, what, stride)
             new == Written(mem, put)
  <1>1. \A i \in DOMAIN what : /\ addr + stride * (i - 1) \in DOMAIN put
                               /\ put[addr + stride * (i - 1)] = what[i]
    <2> SUFFICES ASSUME NEW i \in DOMAIN what
                 PROVE  /\ addr + stride * (i - 1) \in DOMAIN put
                        /\ put[addr + stride * (i - 1)] = what[i]
      OBVIOUS
    <2> DEFINE a == addr + stride * (i - 1)
    <2>1. i \in Nat
      OBVIOUS
    <2>2. (a - addr) \div stride + 1 = i
      <3>1. ASSUME stride = 1 PROVE (a - addr) \div stride + 1 = i
        BY <2>1, <3>1
      <3>2. ASSUME stride = 4 PROVE (a - addr) \div stride + 1 = i
        BY <2>1, <3>2
      <3>3. stride = 1 \/ stride = 4
        OBVIOUS
      <3> HIDE DEF a
      <3> QED BY ONLY <3>1, <3>2, <3>3
    <2>3. a \in DOMAIN put
      BY DEF PutAt
    <2> HIDE DEF a
    <2>4. put[a] = what[(a - addr) \div stride + 1]
      BY <2>3 DEF PutAt
    <2> QED BY <2>2, <2>3, <2>4 DEF a
  <1>2. \A a \in DOMAIN put : a >= addr
    <2>1. \A i \in DOMAIN what : addr + stride * (i - 1) >= addr
      <3>1. \A i \in DOMAIN what : i \in Nat /\ i >= 1
        OBVIOUS
      <3>2. CASE stride = 1
        BY <3>1, <3>2
      <3>3. CASE stride = 4
        BY <3>1, <3>3
      <3> QED BY <3>2, <3>3
    <2> QED BY <2>1 DEF PutAt
  <1>3. \A a \in DOMAIN put : a \in DOMAIN new /\ new[a] = put[a]
    <2> HIDE DEF put
    <2> QED BY DEF Written
  <1>4. \A a \in DOMAIN mem \ DOMAIN put : a \in DOMAIN new /\ new[a] = mem[a]
    <2> HIDE DEF put
    <2> QED BY DEF Written
  <1>5. Shows(new, addr, what, stride)
    <2> HIDE DEF put, new
    <2> QED BY <1>1, <1>3 DEF Shows
  <1>6. \A a \in DOMAIN mem : a < addr => a \notin DOMAIN put
    <2>1. \A a \in DOMAIN put : a \in Int
      <3>1. \A i \in DOMAIN what : addr + stride * (i - 1) \in Int
        OBVIOUS
      <3> QED BY <3>1 DEF PutAt
    <2> HIDE DEF put
    <2> QED BY <1>2, <2>1
  <1>7. \A a \in DOMAIN mem : a < addr => a \in DOMAIN new /\ new[a] = mem[a]
    <2> HIDE DEF put, new
    <2> QED BY <1>4, <1>6
  <1> QED BY <1>5, <1>7 DEF CopyShown

-----------------------------------------------------------------------------
(* A copy is the one there is, or there is no room for it, or it is made.  *)
CopyOutcome(j, r, token, what, bytes, stride) ==
  \/ /\ token \in DOMAIN j.copies
     /\ r.java = j /\ r.value = j.copies[token]
  \/ /\ token \notin DOMAIN j.copies
     /\ r.java = j /\ r.value = 0 /\ Full(j.bump, bytes)
  \/ /\ token \notin DOMAIN j.copies
     /\ CopyFits(j, r.java, r.value, token, what, stride, bytes)

LEMMA CopyMade ==
  ASSUME NEW j, JavaShape(j), NEW token, NEW S, NEW what \in Seq(S),
         NEW bytes \in Nat, NEW stride \in {1, 4}
  PROVE  CopyOutcome(j, Materialised(j, token, what, bytes, stride), token,
                     what, bytes, stride)
  <1> DEFINE r == Materialised(j, token, what, bytes, stride)
             b == BumpAlloc(j.bump, bytes, 4)
             put == PutAt(b.addr, what, stride)
             k == [j EXCEPT !.bump = b.left, !.mem = Written(@, put),
                            !.copies = Entered(@, token, b.addr)]
  <1> SUFFICES CopyOutcome(j, r, token, what, bytes, stride)
    OBVIOUS
  <1>1. r = IF token \in DOMAIN j.copies THEN Answer(j, j.copies[token])
            ELSE IF b.addr = 0 THEN Answer(j, 0) ELSE Answer(k, b.addr)
    BY DEF Materialised, PutAt
  <1>2. \A x, v : Answer(x, v).java = x /\ Answer(x, v).value = v
    BY DEF Answer
  <1>3. \/ b.addr = 0 /\ Full(j.bump, bytes)
        \/ /\ b.addr \in Nat \ {0} /\ b.addr >= j.bump.next
           /\ b.left = [next |-> b.addr + bytes, limit |-> j.bump.limit]
    <2>1. /\ GlueBase + GlueSize \in Nat /\ j.bump.next \in Nat \ {0}
          /\ j.bump.limit = GlueBase + GlueSize
          /\ j.bump = [next |-> j.bump.next, limit |-> GlueBase + GlueSize]
      BY JniAssumption DEF JavaShape, JniAssumption
    <2> QED BY ONLY <2>1, RoomFound, bytes \in Nat
  <1> DEFINE mem == Written(j.mem, put)
             copies == Entered(j.copies, token, b.addr)
  <1>4. k = JavaOf(j.members, j.strings, j.arrays, j.made, copies, mem, b.left)
    <2> HIDE DEF b, put
    <2> DEFINE left == b.left
    <2>1. k = SetCopies(j, left, mem, copies)
      BY DEF SetCopies
    <2> HIDE DEF k, mem, copies, left
    <2>2. k = JavaOf(j.members, j.strings, j.arrays, j.made, copies, mem, left)
      BY <2>1, FieldsSet
    <2> QED BY <2>2 DEF left
  <1>5. CASE token \in DOMAIN j.copies
    <2> HIDE DEF r, b, k
    <2>1. r.java = j /\ r.value = j.copies[token]
      BY <1>1, <1>2, <1>5
    <2> QED BY <1>5, <2>1 DEF CopyOutcome
  <1>6. CASE token \notin DOMAIN j.copies /\ b.addr = 0
    <2> HIDE DEF r, b, k
    <2>1. r.java = j /\ r.value = 0 /\ Full(j.bump, bytes)
      BY <1>1, <1>2, <1>3, <1>6
    <2> QED BY <1>6, <2>1 DEF CopyOutcome
  <1>7. CASE token \notin DOMAIN j.copies /\ b.addr # 0
    <2> HIDE DEF r, b, k
    <2>1. r.java = k /\ r.value = b.addr
      BY <1>1, <1>2, <1>7
    <2>2. b.addr \in Nat
      BY <1>3, <1>7
    <2>3. /\ Shows(mem, b.addr, what, stride)
          /\ \A a \in DOMAIN j.mem :
               a < b.addr => a \in DOMAIN mem /\ mem[a] = j.mem[a]
      <3> DEFINE addr == b.addr
      <3> HIDE DEF addr
      <3>1. CopyShown(j.mem, addr, what, stride)
        <4>1. addr \in Nat
          BY <2>2 DEF addr
        <4> QED BY ONLY <4>1, what \in Seq(S), stride \in {1, 4}, CopyShows
      <3> QED BY <3>1 DEF addr, CopyShown
    <2> HIDE DEF mem, copies
    <2>4. k.mem = mem
      BY <1>4 DEF JavaOf
    <2>5. k = JavaOf(j.members, j.strings, j.arrays, j.made,
                     Entered(j.copies, token, b.addr), k.mem,
                     [next |-> b.addr + bytes, limit |-> j.bump.limit])
      BY <1>3, <1>4, <1>7, <2>4 DEF copies
    <2>6. CopyFits(j, k, b.addr, token, what, stride, bytes)
      BY <1>3, <1>7, <2>2, <2>3, <2>4, <2>5 DEF CopyFits
    <2>7. CopyFits(j, r.java, r.value, token, what, stride, bytes)
      BY <2>1, <2>6
    <2> QED BY <1>7, <2>7 DEF CopyOutcome
  <1> QED BY <1>5, <1>6, <1>7

(* Each call leaves Java in one of those ways.                             *)
LEMMA AskedForMember ==
  ASSUME NEW j, JavaShape(j), NEW c \in JavaCalls, c.slot \in Asks
  PROVE  LET r == jni_dispatch(j, c) IN NewMember(j, c, r.java, r.value)
  <1> DEFINE r == jni_dispatch(j, c)
  <1>1. c.name \in STRING /\ c.string \in BOOLEAN
    BY SessionAssumption DEF SessionAssumption, Asks, Reads
  <1>2. \E kind : r = add_member(j, c.name, c.string, kind)
    BY DEF jni_dispatch, Asks
  <1>3. PICK kind : r = add_member(j, c.name, c.string, kind)
    BY <1>2
  <1> DEFINE members == Append(j.members, MemberNamed(c))
  <1>4. /\ r.java = SetMembers(j, members)
        /\ r.value = <<kind, Len(j.members) + 1>>
    BY <1>3 DEF add_member, Answer, MemberNamed, SetMembers
  <1> HIDE DEF r, members
  <1>5. r.java = JavaOf(members, j.strings, j.arrays, j.made, j.copies, j.mem,
                        j.bump)
    BY <1>4, FieldsSet
  <1>6. r.value[2] = Len(j.members) + 1
    BY <1>4
  <1>7. NewMember(j, c, r.java, r.value)
    BY <1>1, <1>5, <1>6 DEF NewMember, members
  <1> QED BY <1>7 DEF r

LEMMA StringIsMade ==
  ASSUME NEW j, JavaShape(j), NEW text
  PROVE  /\ make_string(j, text).java
              = JavaOf(j.members, Append(j.strings, text), j.arrays, j.made,
                       j.copies, j.mem, j.bump)
         /\ make_string(j, text).value = <<"object", Len(j.strings) + 1>>
  <1> DEFINE strings == Append(j.strings, text)
  <1>1. /\ make_string(j, text).java = SetStrings(j, strings)
        /\ make_string(j, text).value = <<"object", Len(j.strings) + 1>>
    BY DEF make_string, Answer, SetStrings
  <1> HIDE DEF strings
  <1>2. SetStrings(j, strings)
          = JavaOf(j.members, strings, j.arrays, j.made, j.copies, j.mem,
                   j.bump)
    BY FieldsSet
  <1> QED BY <1>1, <1>2 DEF strings

LEMMA MadeByEngine ==
  ASSUME NEW j, JavaShape(j), NEW c \in JavaCalls, c.slot = "NewStringUTF"
  PROVE  LET r == jni_dispatch(j, c)
         IN NewString(j, c, r.java, r.value, c.text)
  <1>1. c.text \in Seq(STRING)
    BY SessionAssumption DEF SessionAssumption, Asks, Reads
  <1>2. jni_dispatch(j, c) = make_string(j, c.text)
    BY DEF jni_dispatch, NewStringUTF
  <1> QED BY <1>1, <1>2, StringIsMade DEF NewString

LEMMA FieldRead ==
  ASSUME NEW j, JavaShape(j), NEW c \in JavaCalls,
         c.slot = "CallObjectMethod"
  PROVE  LET r == jni_dispatch(j, c)
         IN Outcome(j, c, r.java, r.value)
  <1> DEFINE r == jni_dispatch(j, c)
             name == NameIn(j, c.token)
             token == <<"array", Len(j.arrays) + 1>>
             arrays == Append(j.arrays, Capabilities[name])
             made == Entered(j.made, name, token)
  <1> SUFFICES Outcome(j, c, r.java, r.value)
    OBVIOUS
  <1>1. r = CallObjectMethod(j, c.token)
    BY DEF jni_dispatch
  <1> HIDE DEF r, name, token, arrays, made
  <1>2. \A x, v : Answer(x, v).java = x /\ Answer(x, v).value = v
    BY DEF Answer
  <1>3. ASSUME r.java = j, AnswersOld(j, c, r.value)
        PROVE  Outcome(j, c, r.java, r.value)
    BY <1>3 DEF Outcome, Nothing, Asks, PointerSlots
  <1>4. CASE ~HasMember(j, c.token)
    <2>1. r = Answer(j, Null)
      BY <1>1, <1>4 DEF CallObjectMethod
    <2> QED BY <1>2, <1>3, <2>1 DEF AnswersOld
  <1>5. CASE HasMember(j, c.token) /\ name \in DOMAIN Capabilities
    <2>1. r = gamepad_field(j, name)
      BY <1>1, <1>5 DEF CallObjectMethod, NameIn, name
    <2>2. CASE name \in DOMAIN j.made
      <3>1. r = Answer(j, j.made[name])
        BY <2>1, <2>2 DEF gamepad_field
      <3>2. r.java = j /\ r.value = j.made[name]
        BY <1>2, <3>1
      <3> QED BY <1>3, <1>5, <2>2, <3>2 DEF AnswersOld, name
    <2>3. CASE name \notin DOMAIN j.made
      <3>1. r = Answer([j EXCEPT !.arrays = arrays, !.made = made], token)
        BY <2>1, <2>3 DEF gamepad_field, arrays, made, token
      <3>2. r.value = token
             /\ r.java = SetArrays(j, arrays, made)
        BY <1>2, <3>1 DEF SetArrays
      <3>3. r.java = JavaOf(j.members, j.strings, arrays, made, j.copies,
                            j.mem, j.bump)
        BY <3>2, FieldsSet
      <3>4. NewArray(j, c, r.java, r.value)
        BY <1>5, <2>3, <3>2, <3>3 DEF NewArray, arrays, made, token, name
      <3> QED BY <3>4 DEF Outcome
    <2> QED BY <2>2, <2>3
  <1>6. CASE HasMember(j, c.token) /\ name \notin DOMAIN Capabilities
    <2>1. \/ r = make_string(j, DataRoot)
          \/ r = Answer(j, Null)
      BY <1>1, <1>6 DEF CallObjectMethod, NameIn, name
    <2>2. CASE r = Answer(j, Null)
      BY <1>2, <1>3, <2>2 DEF AnswersOld
    <2>3. CASE r = make_string(j, DataRoot)
      <3>1. NewString(j, c, r.java, r.value, DataRoot)
        BY <2>3, StringIsMade, JniAssumption DEF NewString, JniAssumption
      <3> QED BY <3>1 DEF Outcome
    <2> QED BY <2>1, <2>2, <2>3
  <1> QED BY <1>4, <1>5, <1>6

LEMMA AppendAny ==
  ASSUME NEW S, NEW s \in Seq(S), NEW e
  PROVE  Append(s, e) \in Seq(S \cup {e})
  <1>1. s \in Seq(S \cup {e})
    OBVIOUS
  <1> QED BY <1>1, AppendProperties

LEMMA ZeroIsNoCopy ==
  ASSUME NEW j, CopiesKept(j), NEW t \in DOMAIN j.copies
  PROVE  j.copies[t] # 0
  <1>1. TextKept(j, t) \/ WordsKept(j, t)
    BY DEF CopiesKept
  <1>2. j.copies[t] \in Nat /\ GlueBase <= j.copies[t]
    BY <1>1 DEF TextKept, WordsKept, Holds
  <1> QED BY <1>2, JniAssumption DEF JniAssumption

LEMMA TextPointed ==
  ASSUME NEW j, JavaShape(j), CopiesKept(j), NEW c \in JavaCalls,
         c.slot = "GetStringUTFChars"
  PROVE  LET r == jni_dispatch(j, c)
         IN Outcome(j, c, r.java, r.value)
  <1> DEFINE r == jni_dispatch(j, c)
             n == c.token[2]
             text == j.strings[n]
  <1> SUFFICES Outcome(j, c, r.java, r.value)
    OBVIOUS
  <1>1. r = GetStringUTFChars(j, c.token)
    BY DEF jni_dispatch
  <1>2. c.token \in JavaTokens
    BY SessionAssumption DEF SessionAssumption, Asks, Reads
  <1>3. \A x, v : Answer(x, v).java = x /\ Answer(x, v).value = v
    BY DEF Answer
  <1>4. CASE string_for(j, c.token) = <<>>
    <2> HIDE DEF r, n, text
    <2>1. r = Answer(j, 0)
      BY <1>1, <1>4 DEF GetStringUTFChars
    <2>2. \A m \in DOMAIN j.strings : c.token # <<"object", m>>
      <3> SUFFICES ASSUME NEW m \in DOMAIN j.strings,
                          c.token = <<"object", m>>
                   PROVE  FALSE
        OBVIOUS
      <3>1. string_for(j, c.token) = <<j.strings[m]>>
        BY DEF string_for, Null
      <3> QED BY <3>1, <1>4
    <2>3. r.java = j /\ r.value = 0
      BY <1>3, <2>1
    <2>4. NoRoomForText(j, c)
      BY <2>2 DEF NoRoomForText
    <2> QED BY <2>3, <2>4 DEF Outcome, Nothing, Asks
  <1>5. CASE string_for(j, c.token) # <<>>
    <2>1. /\ c.token # Null /\ c.token[1] = "object"
          /\ n \in DOMAIN j.strings
          /\ string_for(j, c.token) = <<text>>
      BY <1>5 DEF string_for
    <2>2. c.token = <<"object", n>>
      BY <1>2, <2>1 DEF JavaTokens
    <2> HIDE DEF n
    <2>3. text \in Seq(STRING) /\ Len(text) \in Nat
      BY <2>1 DEF JavaShape
    <2> HIDE DEF r, text
    <2> DEFINE what == Append(text, "")
               bytes == Len(text) + 1
    <2> DEFINE chars == STRING \cup {""}
    <2>4. what \in Seq(chars) /\ bytes \in Nat
      <3>1. what \in Seq(chars)
        BY ONLY <2>3, AppendAny
      <3>2. bytes \in Nat
        BY <2>3
      <3> QED BY ONLY <3>1, <3>2
    <2>5. r = Materialised(j, c.token, what, bytes, 1)
      <3> DEFINE found == string_for(j, c.token)
      <3>1. found = <<text>>
        BY <2>1
      <3>2. found # <<>> /\ found[1] = text
        BY <3>1
      <3> QED BY ONLY <1>1, <3>2 DEF GetStringUTFChars
    <2> HIDE DEF what, bytes, chars
    <2>6. \/ /\ c.token \in DOMAIN j.copies
             /\ r.java = j /\ r.value = j.copies[c.token]
          \/ /\ c.token \notin DOMAIN j.copies
             /\ r.java = j /\ r.value = 0 /\ Full(j.bump, bytes)
          \/ /\ c.token \notin DOMAIN j.copies
             /\ CopyFits(j, r.java, r.value, c.token, what, 1, bytes)
      <3>1. CopyOutcome(j, Materialised(j, c.token, what, bytes, 1), c.token,
                        what, bytes, 1)
        BY ONLY <2>4, JavaShape(j), CopyMade
      <3> QED BY <2>5, <3>1 DEF CopyOutcome
    <2>7. \A m : c.token = <<"object", m>> => m = n
      BY <2>2
    <2>8. CASE c.token \in DOMAIN j.copies
      <3>1. r.java = j /\ IsCopy(j, c, r.value)
        BY <2>1, <2>6, <2>8 DEF IsCopy, KindOf
      <3>2. r.value = 0 => NoRoomForText(j, c)
        <4>1. r.value = j.copies[c.token]
          BY <2>6, <2>8
        <4> QED BY <4>1, <2>8, ZeroIsNoCopy
      <3> QED BY <3>1, <3>2 DEF Outcome, Nothing, Asks
    <2>9. CASE r.java = j /\ r.value = 0 /\ Full(j.bump, bytes)
      <3>1. NoRoomForText(j, c)
        BY <2>7, <2>9 DEF NoRoomForText, bytes, text
      <3> QED BY <2>9, <3>1 DEF Outcome, Nothing, Asks
    <2>10. CASE /\ c.token \notin DOMAIN j.copies
                /\ CopyFits(j, r.java, r.value, c.token, what, 1, bytes)
      <3>1. TextCopied(j, c, r.java, r.value, n)
        BY <2>1, <2>2, <2>10 DEF TextCopied, what, bytes, text
      <3> QED BY <2>10, <3>1 DEF Outcome, NewCopy
    <2> QED BY <2>6, <2>8, <2>9, <2>10
  <1> QED BY <1>4, <1>5

LEMMA WordsPointed ==
  ASSUME NEW j, JavaShape(j), NEW c \in JavaCalls,
         c.slot = "GetArrayElements"
  PROVE  LET r == jni_dispatch(j, c)
         IN Outcome(j, c, r.java, r.value)
  <1> DEFINE r == jni_dispatch(j, c)
             n == c.token[2]
             what == j.arrays[n]
  <1> SUFFICES Outcome(j, c, r.java, r.value)
    OBVIOUS
  <1>1. r = GetArrayElements(j, c.token)
    BY DEF jni_dispatch
  <1>2. c.token \in JavaTokens
    BY SessionAssumption DEF SessionAssumption, Asks, Reads
  <1>3. \A x, v : Answer(x, v).java = x /\ Answer(x, v).value = v
    BY DEF Answer
  <1>4. CASE array_for(j, c.token) = <<>>
    <2> HIDE DEF r, n, what
    <2>1. r = Answer(j, 0)
      BY <1>1, <1>4 DEF GetArrayElements
    <2>2. r.java = j /\ r.value = 0
      BY <1>3, <2>1
    <2> QED BY <2>2 DEF Outcome, Nothing, Asks
  <1>5. CASE array_for(j, c.token) # <<>>
    <2>1. /\ c.token # Null /\ c.token[1] = "array"
          /\ n \in DOMAIN j.arrays
          /\ array_for(j, c.token) = <<what>>
      BY <1>5 DEF array_for
    <2>2. c.token = <<"array", n>>
      BY <1>2, <2>1 DEF JavaTokens
    <2> HIDE DEF n
    <2>3. what \in Seq(Int) /\ Len(what) \in Nat
      BY <2>1 DEF JavaShape
    <2> HIDE DEF r, what
    <2> DEFINE bytes == 4 * Len(what) + 4
    <2>4. bytes \in Nat
      BY <2>3
    <2>5. r = Materialised(j, c.token, what, bytes, 4)
      BY <1>1, <2>1 DEF GetArrayElements
    <2> HIDE DEF bytes
    <2>6. \/ /\ c.token \in DOMAIN j.copies
             /\ r.java = j /\ r.value = j.copies[c.token]
          \/ /\ c.token \notin DOMAIN j.copies
             /\ r.java = j /\ r.value = 0 /\ Full(j.bump, bytes)
          \/ /\ c.token \notin DOMAIN j.copies
             /\ CopyFits(j, r.java, r.value, c.token, what, 4, bytes)
      <3>1. CopyOutcome(j, Materialised(j, c.token, what, bytes, 4), c.token,
                        what, bytes, 4)
        BY ONLY <2>3, <2>4, JavaShape(j), CopyMade
      <3> QED BY <2>5, <3>1 DEF CopyOutcome
    <2>7. CASE c.token \in DOMAIN j.copies
      <3>1. r.java = j /\ IsCopy(j, c, r.value)
        BY <2>1, <2>6, <2>7 DEF IsCopy, KindOf
      <3> QED BY <3>1 DEF Outcome, Nothing, Asks
    <2>8. CASE r.java = j /\ r.value = 0
      BY <2>8 DEF Outcome, Nothing, Asks
    <2>9. CASE /\ c.token \notin DOMAIN j.copies
               /\ CopyFits(j, r.java, r.value, c.token, what, 4, bytes)
      <3>1. WordsCopied(j, c, r.java, r.value, n)
        BY <2>1, <2>2, <2>9 DEF WordsCopied, what, bytes
      <3> QED BY <2>9, <3>1 DEF Outcome, NewCopy
    <2> QED BY <2>6, <2>7, <2>8, <2>9
  <1> QED BY <1>4, <1>5

LEMMA Dispatched ==
  ASSUME NEW j, JavaShape(j), CopiesKept(j), NEW c \in JavaCalls
  PROVE  LET r == jni_dispatch(j, c)
         IN Outcome(j, c, r.java, r.value)
  <1> DEFINE r == jni_dispatch(j, c)
  <1> SUFFICES Outcome(j, c, r.java, r.value)
    OBVIOUS
  <1>1. \/ c.slot \in Asks \/ c.slot = "NewStringUTF"
        \/ c.slot = "CallObjectMethod" \/ c.slot = "GetStringUTFChars"
        \/ c.slot = "GetArrayElements"
        \/ c.slot \in {"CallIntMethod", "GetStringUTFLength",
                       "GetArrayLength", "GetArrayRegion"}
    BY SessionAssumption DEF SessionAssumption, Reads
  <1>2. CASE c.slot \in Asks
    BY <1>2, AskedForMember DEF Outcome
  <1>3. CASE c.slot = "NewStringUTF"
    BY <1>3, MadeByEngine DEF Outcome
  <1>4. CASE c.slot = "CallObjectMethod"
    BY <1>4, FieldRead
  <1>5. CASE c.slot = "GetStringUTFChars"
    BY <1>5, TextPointed
  <1>6. CASE c.slot = "GetArrayElements"
    BY <1>6, WordsPointed
  <1>7. CASE c.slot \in {"CallIntMethod", "GetStringUTFLength",
                         "GetArrayLength", "GetArrayRegion"}
    <2>1. \E v : r = Answer(j, v)
      <3>1. CASE c.slot = "CallIntMethod"
        BY <3>1 DEF jni_dispatch, CallIntMethod
      <3>2. CASE c.slot = "GetStringUTFLength"
        BY <3>2 DEF jni_dispatch, GetStringUTFLength
      <3>3. CASE c.slot = "GetArrayLength"
        BY <3>3 DEF jni_dispatch, GetArrayLength
      <3>4. CASE c.slot = "GetArrayRegion"
        BY <3>4 DEF jni_dispatch, GetArrayRegion
      <3> QED BY <1>7, <3>1, <3>2, <3>3, <3>4
    <2> HIDE DEF r
    <2>2. r.java = j
      BY <2>1 DEF Answer
    <2>3. Nothing(j, c, r.java, r.value)
      BY <1>7, <2>2 DEF Nothing, Asks, PointerSlots
    <2> QED BY <2>3 DEF Outcome
  <1> QED BY <1>1, <1>2, <1>3, <1>4, <1>5, <1>6, <1>7

-----------------------------------------------------------------------------
(* A session and the one a call later: t is s and its n-th call c, which   *)
(* was answered with v.                                                    *)
Follows(s, t, c, v, n) ==
  /\ n \in Nat /\ DOMAIN t.calls = DOMAIN s.calls \cup {n}
  /\ \A k \in DOMAIN s.calls :
       /\ k \in Nat /\ k < n
       /\ t.calls[k] = s.calls[k] /\ t.got[k] = s.got[k]
  /\ t.calls[n] = c /\ t.got[n] = v

Later(s, t, c, v, n) ==
  /\ SessionInv(s) /\ c \in JavaCalls /\ Follows(s, t, c, v, n)
  /\ Outcome(s.java, c, t.java, v)

LEMMA CallsLater ==
  ASSUME NEW s, NEW t, NEW c, NEW v, NEW n, Follows(s, t, c, v, n), NEW slots
  PROVE  /\ CallsTo(s, slots) \subseteq DOMAIN s.calls
         /\ n \notin CallsTo(s, slots)
         /\ \A k : k \in CallsTo(t, slots)
                     <=> \/ k \in CallsTo(s, slots)
                         \/ k = n /\ c.slot \in slots
  <1>1. CallsTo(s, slots) \subseteq DOMAIN s.calls
    BY DEF CallsTo
  <1>2. n \notin DOMAIN s.calls
    BY DEF Follows
  <1>3. \A k : k \in CallsTo(t, slots)
                 <=> \/ k \in CallsTo(s, slots)
                     \/ k = n /\ c.slot \in slots
    BY <1>2 DEF CallsTo, Follows
  <1>4. n \notin CallsTo(s, slots)
    BY <1>1, <1>2
  <1> QED BY <1>1, <1>3, <1>4

LEMMA GivenLater ==
  ASSUME NEW s, NEW t, NEW c, NEW v, NEW n, Follows(s, t, c, v, n), NEW kind
  PROVE  /\ n \notin Given(s, kind) /\ Given(s, kind) \subseteq DOMAIN s.calls
         /\ \A k : k \in Given(t, kind)
                     <=> \/ k \in Given(s, kind)
                         \/ /\ k = n /\ c.slot = "CallObjectMethod"
                            /\ v # Null /\ v[1] = kind
  <1>1. /\ CallsTo(s, {"CallObjectMethod"}) \subseteq DOMAIN s.calls
        /\ n \notin CallsTo(s, {"CallObjectMethod"})
        /\ \A k : k \in CallsTo(t, {"CallObjectMethod"})
                    <=> \/ k \in CallsTo(s, {"CallObjectMethod"})
                        \/ k = n /\ c.slot \in {"CallObjectMethod"}
    BY CallsLater
  <1>2. \A k \in DOMAIN s.calls : t.got[k] = s.got[k]
    BY DEF Follows
  <1>3. t.got[n] = v
    BY DEF Follows
  <1> QED BY <1>1, <1>2, <1>3 DEF Given

LEMMA MakersLater ==
  ASSUME NEW s, NEW t, NEW c, NEW v, NEW n, Follows(s, t, c, v, n)
  PROVE  /\ n \notin Makers(s) /\ Makers(s) \subseteq DOMAIN s.calls
         /\ \A k : k \in Makers(t)
                     <=> \/ k \in Makers(s)
                         \/ /\ k = n
                            /\ \/ c.slot = "NewStringUTF"
                               \/ /\ c.slot = "CallObjectMethod"
                                  /\ v # Null /\ v[1] = "object"
         /\ \A k \in Makers(s) : /\ TextOf(t, k) = TextOf(s, k)
                                 /\ t.got[k] = s.got[k]
  <1>1. /\ n \notin CallsTo(s, {"NewStringUTF"})
        /\ CallsTo(s, {"NewStringUTF"}) \subseteq DOMAIN s.calls
        /\ \A k : k \in CallsTo(t, {"NewStringUTF"})
                    <=> \/ k \in CallsTo(s, {"NewStringUTF"})
                        \/ k = n /\ c.slot \in {"NewStringUTF"}
    BY CallsLater
  <1>2. /\ n \notin Given(s, "object")
        /\ Given(s, "object") \subseteq DOMAIN s.calls
        /\ \A k : k \in Given(t, "object")
                     <=> \/ k \in Given(s, "object")
                         \/ /\ k = n /\ c.slot = "CallObjectMethod"
                            /\ v # Null /\ v[1] = "object"
    BY GivenLater
  <1>3. \A k \in DOMAIN s.calls : TextOf(t, k) = TextOf(s, k)
                                    /\ t.got[k] = s.got[k]
    BY DEF TextOf, Follows
  <1> QED BY <1>1, <1>2, <1>3 DEF Makers

LEMMA PointedLater ==
  ASSUME NEW s, NEW t, NEW c, NEW v, NEW n, Follows(s, t, c, v, n), NEW slots
  PROVE  /\ Pointed(s, slots) \subseteq DOMAIN s.calls
         /\ \A k : k \in Pointed(t, slots)
                     <=> \/ k \in Pointed(s, slots)
                         \/ k = n /\ c.slot \in slots /\ v # 0
  <1>1. /\ CallsTo(s, slots) \subseteq DOMAIN s.calls
        /\ \A k : k \in CallsTo(t, slots)
                    <=> \/ k \in CallsTo(s, slots)
                        \/ k = n /\ c.slot \in slots
    BY CallsLater
  <1>2. \A k \in DOMAIN s.calls : t.got[k] = s.got[k]
    BY DEF Follows
  <1>3. t.got[n] = v
    BY DEF Follows
  <1>4. \A k : k \in Pointed(t, slots)
                 <=> \/ k \in Pointed(s, slots)
                     \/ k = n /\ c.slot \in slots /\ v # 0
    BY <1>1, <1>2, <1>3 DEF Pointed
  <1>5. Pointed(s, slots) \subseteq DOMAIN s.calls
    BY <1>1 DEF Pointed
  <1> QED BY ONLY <1>4, <1>5

(* Whatever the call, lists grow at their end and maps keep their entries. *)
Grown(f, g) == \A x \in DOMAIN f : x \in DOMAIN g /\ g[x] = f[x]

LEMMA InSeq ==
  ASSUME NEW S, NEW q \in Seq(S), NEW n \in DOMAIN q
  PROVE  q[n] \in S
  OBVIOUS

LEMMA AppendGrows ==
  ASSUME NEW S, NEW q \in Seq(S), NEW e
  PROVE  /\ Grown(q, Append(q, e))
         /\ DOMAIN Append(q, e) = DOMAIN q \cup {Len(q) + 1}
         /\ Append(q, e)[Len(q) + 1] = e
         /\ Len(q) + 1 \notin DOMAIN q
  <1>1. DOMAIN q = 1 .. Len(q) /\ Len(q) \in Nat
    OBVIOUS
  <1>2. q \in Seq(S \cup {e}) /\ e \in S \cup {e}
    OBVIOUS
  <1>3. /\ Len(Append(q, e)) = Len(q) + 1
        /\ \A i \in 1 .. Len(q) : Append(q, e)[i] = q[i]
        /\ Append(q, e)[Len(q) + 1] = e
    BY ONLY <1>2, AppendProperties
  <1>4. DOMAIN Append(q, e) = 1 .. Len(q) + 1
    BY <1>3
  <1> QED BY <1>1, <1>3, <1>4 DEF Grown

LEMMA EnteredGrows ==
  ASSUME NEW f, NEW x, NEW v, x \notin DOMAIN f
  PROVE  /\ Grown(f, Entered(f, x, v))
         /\ DOMAIN Entered(f, x, v) = DOMAIN f \cup {x}
         /\ Entered(f, x, v)[x] = v
  BY DEF Grown, Entered

JavaGrows(j, k) ==
  /\ Grown(j.members, k.members) /\ Grown(j.strings, k.strings)
  /\ Grown(j.arrays, k.arrays) /\ Grown(j.made, k.made)
  /\ Grown(j.copies, k.copies)
  /\ k.bump.next \in Nat /\ j.bump.next <= k.bump.next
  /\ k.bump.limit = j.bump.limit

LEMMA OutcomeGrows ==
  ASSUME NEW j, JavaShape(j), NEW c, NEW k, NEW v, Outcome(j, c, k, v)
  PROVE  JavaShape(k) /\ JavaGrows(j, k)
  <1>0. \A f : Grown(f, f)
    BY DEF Grown
  <1>s. /\ j.members \in Seq([name : STRING, string : BOOLEAN])
        /\ j.strings \in Seq(Seq(STRING)) /\ j.arrays \in Seq(Seq(Int))
        /\ j.bump = [next |-> j.bump.next, limit |-> GlueBase + GlueSize]
        /\ j.bump.next \in Nat /\ j.bump.next >= GlueBase
    BY DEF JavaShape
  <1>1. CASE Nothing(j, c, k, v)
    <2>1. k = j
      BY <1>1 DEF Nothing
    <2> QED BY <1>0, <1>s, <2>1 DEF JavaGrows
  <1>2. CASE NewMember(j, c, k, v)
    <2> DEFINE members == Append(j.members, MemberNamed(c))
    <2>1. MemberNamed(c) \in [name : STRING, string : BOOLEAN]
      BY <1>2 DEF NewMember, MemberNamed
    <2>2. members \in Seq([name : STRING, string : BOOLEAN])
      BY <1>s, <2>1, AppendProperties
    <2>3. Grown(j.members, members)
      BY <1>s, AppendGrows
    <2>4. k = JavaOf(members, j.strings, j.arrays, j.made, j.copies, j.mem,
                     j.bump)
      BY <1>2 DEF NewMember
    <2> HIDE DEF members
    <2>5. JavaShape(k)
      BY ONLY <1>s, <2>2, <2>4 DEF JavaShape, JavaOf
    <2> QED BY <1>0, <1>s, <2>3, <2>4, <2>5 DEF JavaGrows, JavaOf
  <1>3. CASE \E text : NewString(j, c, k, v, text)
    <2>1. PICK text : NewString(j, c, k, v, text)
      BY <1>3
    <2> DEFINE strings == Append(j.strings, text)
    <2>2. strings \in Seq(Seq(STRING))
      BY <1>s, <2>1, AppendProperties DEF NewString
    <2>3. Grown(j.strings, strings)
      BY <1>s, AppendGrows
    <2>4. k = JavaOf(j.members, strings, j.arrays, j.made, j.copies, j.mem,
                     j.bump)
      BY <2>1 DEF NewString
    <2> HIDE DEF strings
    <2>5. JavaShape(k)
      BY ONLY <1>s, <2>2, <2>4 DEF JavaShape, JavaOf
    <2> QED BY <1>0, <1>s, <2>3, <2>4, <2>5 DEF JavaGrows, JavaOf
  <1>4. CASE NewArray(j, c, k, v)
    <2> DEFINE name == NameIn(j, c.token)
               arrays == Append(j.arrays, Capabilities[name])
               made == Entered(j.made, name, v)
    <2>1. name \in DOMAIN Capabilities \ DOMAIN j.made
      BY <1>4 DEF NewArray
    <2> HIDE DEF name
    <2>2. arrays \in Seq(Seq(Int))
      BY <1>s, <2>1, AppendProperties, JniAssumption DEF JniAssumption
    <2>3. Grown(j.arrays, arrays) /\ Grown(j.made, made)
      BY <1>s, <2>1, AppendGrows, EnteredGrows
    <2>4. k = JavaOf(j.members, j.strings, arrays, made, j.copies, j.mem,
                     j.bump)
      BY <1>4 DEF NewArray, name
    <2> HIDE DEF arrays, made
    <2>5. JavaShape(k)
      BY ONLY <1>s, <2>2, <2>4 DEF JavaShape, JavaOf
    <2> QED BY <1>0, <1>s, <2>3, <2>4, <2>5 DEF JavaGrows, JavaOf
  <1>5. CASE NewCopy(j, c, k, v)
    <2>1. PICK bytes \in Nat :
            \E what, stride : CopyFits(j, k, v, c.token, what, stride, bytes)
      <3>1. PICK n : TextCopied(j, c, k, v, n) \/ WordsCopied(j, c, k, v, n)
        BY <1>5 DEF NewCopy
      <3>2. CASE TextCopied(j, c, k, v, n)
        <4>1. /\ n \in DOMAIN j.strings
              /\ CopyFits(j, k, v, c.token, Append(j.strings[n], ""), 1,
                      Len(j.strings[n]) + 1)
          BY <3>2 DEF TextCopied
        <4>2. j.strings[n] \in Seq(STRING)
          BY ONLY <1>s, <4>1, InSeq
        <4>3. Len(j.strings[n]) + 1 \in Nat
          BY <4>2
        <4> QED BY ONLY <4>1, <4>3
      <3>3. CASE WordsCopied(j, c, k, v, n)
        <4>1. /\ n \in DOMAIN j.arrays
              /\ CopyFits(j, k, v, c.token, j.arrays[n], 4,
                      4 * Len(j.arrays[n]) + 4)
          BY <3>3 DEF WordsCopied
        <4>2. j.arrays[n] \in Seq(Int)
          BY ONLY <1>s, <4>1, InSeq
        <4>3. 4 * Len(j.arrays[n]) + 4 \in Nat
          BY <4>2
        <4> QED BY ONLY <4>1, <4>3
      <3> QED BY <3>1, <3>2, <3>3
    <2> DEFINE copies == Entered(j.copies, c.token, v)
               bump == [next |-> v + bytes, limit |-> j.bump.limit]
               mem == k.mem
    <2>2. Grown(j.copies, copies)
      BY <1>5, EnteredGrows DEF NewCopy
    <2>3. /\ v \in Nat /\ v >= j.bump.next
          /\ k = JavaOf(j.members, j.strings, j.arrays, j.made, copies, mem,
                        bump)
      BY <2>1 DEF CopyFits
    <2>4. /\ bump = [next |-> bump.next, limit |-> GlueBase + GlueSize]
          /\ bump.next \in Nat /\ bump.next >= GlueBase
          /\ bump.next >= j.bump.next /\ bump.limit = j.bump.limit
      <3>1. GlueBase \in Nat
        BY JniAssumption DEF JniAssumption
      <3>2. /\ bump.next = v + bytes /\ bump.limit = j.bump.limit
            /\ j.bump.limit = GlueBase + GlueSize
        BY <1>s
      <3> QED BY <1>s, <2>3, <3>1, <3>2
    <2> HIDE DEF copies, bump, mem
    <2>5. JavaShape(k)
      BY ONLY <1>s, <2>3, <2>4 DEF JavaShape, JavaOf
    <2>6. k.bump = bump /\ k.copies = copies /\ k.members = j.members
           /\ k.strings = j.strings /\ k.arrays = j.arrays /\ k.made = j.made
      BY ONLY <2>3 DEF JavaOf
    <2> QED BY <1>0, <1>s, <2>2, <2>4, <2>5, <2>6 DEF JavaGrows
  <1> QED BY <1>1, <1>2, <1>3, <1>4, <1>5 DEF Outcome

-----------------------------------------------------------------------------
(* The same outcomes, as each of Java's maps sees them.                    *)
MemberLater(j, c, k, v) ==
  /\ c.slot \in Asks /\ DOMAIN k.members = DOMAIN j.members \cup {v[2]}
  /\ k.members[v[2]].name = c.name

LEMMA CopyLeaves ==
  ASSUME NEW j, NEW c, NEW k, NEW v, NewCopy(j, c, k, v)
  PROVE  /\ c.slot \in PointerSlots
         /\ k.members = j.members /\ k.strings = j.strings
         /\ k.arrays = j.arrays /\ k.made = j.made
         /\ k.copies = Entered(j.copies, c.token, v)
  <1>1. PICK n : TextCopied(j, c, k, v, n) \/ WordsCopied(j, c, k, v, n)
    BY DEF NewCopy
  <1>2. c.slot \in PointerSlots
    BY <1>1 DEF TextCopied, WordsCopied, PointerSlots
  <1>3. \E what, stride, bytes : CopyFits(j, k, v, c.token, what, stride, bytes)
    BY <1>1 DEF TextCopied, WordsCopied
  <1>4. PICK bytes :
          k = JavaOf(j.members, j.strings, j.arrays, j.made,
                     Entered(j.copies, c.token, v), k.mem,
                     [next |-> v + bytes, limit |-> j.bump.limit])
    BY <1>3 DEF CopyFits
  <1> DEFINE mem == k.mem
             copies == Entered(j.copies, c.token, v)
             bump == [next |-> v + bytes, limit |-> j.bump.limit]
  <1>5. k = JavaOf(j.members, j.strings, j.arrays, j.made, copies, mem, bump)
    BY <1>4
  <1> HIDE DEF mem, copies, bump
  <1>6. /\ k.members = j.members /\ k.strings = j.strings
        /\ k.arrays = j.arrays /\ k.made = j.made /\ k.copies = copies
    BY ONLY <1>5 DEF JavaOf
  <1> QED BY <1>2, <1>6 DEF copies

LEMMA MembersLater ==
  ASSUME NEW j, JavaShape(j), NEW c, NEW k, NEW v, Outcome(j, c, k, v)
  PROVE  k.members = j.members \/ MemberLater(j, c, k, v)
  <1>1. CASE Nothing(j, c, k, v)
    BY <1>1 DEF Nothing
  <1>2. CASE NewMember(j, c, k, v)
    <2> DEFINE x == Len(j.members) + 1
    <2>1. c.slot \in Asks /\ v[2] = x
      BY <1>2 DEF NewMember
    <2>2. k.members = Append(j.members, MemberNamed(c))
      BY <1>2 DEF NewMember, JavaOf
    <2>3. DOMAIN k.members = DOMAIN j.members \cup {x}
           /\ k.members[x] = MemberNamed(c)
      BY <2>2, AppendGrows DEF JavaShape
    <2>4. MemberNamed(c).name = c.name
      BY DEF MemberNamed
    <2> QED BY <2>1, <2>3, <2>4 DEF MemberLater
  <1>3. CASE \E text : NewString(j, c, k, v, text)
    BY <1>3 DEF NewString, JavaOf
  <1>4. CASE NewArray(j, c, k, v)
    BY <1>4 DEF NewArray, JavaOf
  <1>5. CASE NewCopy(j, c, k, v)
    BY <1>5, CopyLeaves
  <1> QED BY <1>1, <1>2, <1>3, <1>4, <1>5 DEF Outcome

Makes(c, v) ==
  \/ c.slot = "NewStringUTF"
  \/ /\ c.slot = "CallObjectMethod"
     /\ v # Null /\ v[1] = "object"

TextGiven(c) == IF c.slot = "NewStringUTF" THEN c.text ELSE DataRoot

StringLater(j, c, k, v) ==
  /\ Makes(c, v)
  /\ \E x : /\ x \notin DOMAIN j.strings /\ v = <<"object", x>>
            /\ DOMAIN k.strings = DOMAIN j.strings \cup {x}
            /\ k.strings[x] = TextGiven(c)

LEMMA OldAnswers ==
  ASSUME NEW j, ArraysMade(j), NEW c, NEW v, AnswersOld(j, c, v), v # Null
  PROVE  v[1] # "object"
  <1>1. PICK n : v = <<"array", n>>
    BY DEF ArraysMade, AnswersOld
  <1> QED BY <1>1

LEMMA StringsLater ==
  ASSUME NEW j, JavaShape(j), ArraysMade(j), NEW c, NEW k, NEW v,
         Outcome(j, c, k, v)
  PROVE  \/ k.strings = j.strings /\ ~Makes(c, v)
         \/ StringLater(j, c, k, v)
  <1>1. CASE Nothing(j, c, k, v)
    <2>1. k = j /\ c.slot # "NewStringUTF"
           /\ (c.slot = "CallObjectMethod" => AnswersOld(j, c, v))
      BY <1>1 DEF Nothing
    <2> QED BY <2>1, OldAnswers DEF Makes
  <1>2. CASE NewMember(j, c, k, v)
    BY <1>2 DEF NewMember, JavaOf, Makes, Asks
  <1>3. CASE \E text : NewString(j, c, k, v, text)
    <2>1. PICK text : NewString(j, c, k, v, text)
      BY <1>3
    <2> DEFINE x == Len(j.strings) + 1
    <2>2. k.strings = Append(j.strings, text)
      BY <2>1 DEF NewString, JavaOf
    <2>3. DOMAIN k.strings = DOMAIN j.strings \cup {x}
           /\ k.strings[x] = text /\ x \notin DOMAIN j.strings
      BY <2>2, AppendGrows DEF JavaShape
    <2>4. v = <<"object", x>> /\ text = TextGiven(c)
      BY <2>1 DEF NewString, TextGiven
    <2>5. Makes(c, v)
      BY <2>1, <2>4 DEF NewString, Makes, Null
    <2> HIDE DEF x
    <2> QED BY <2>3, <2>4, <2>5 DEF StringLater
  <1>4. CASE NewArray(j, c, k, v)
    <2>1. k.strings = j.strings /\ c.slot = "CallObjectMethod"
           /\ v = <<"array", Len(j.arrays) + 1>>
      BY <1>4 DEF NewArray, JavaOf
    <2>2. v[1] # "object"
      BY <2>1
    <2> QED BY <2>1, <2>2 DEF Makes
  <1>5. CASE NewCopy(j, c, k, v)
    BY <1>5, CopyLeaves DEF PointerSlots, Makes
  <1> QED BY <1>1, <1>2, <1>3, <1>4, <1>5 DEF Outcome

ArrayLater(j, c, k, v) ==
  /\ c.slot = "CallObjectMethod" /\ HasMember(j, c.token)
  /\ NameIn(j, c.token) \in DOMAIN Capabilities \ DOMAIN j.made
  /\ \E x : /\ x \notin DOMAIN j.arrays /\ v = <<"array", x>>
            /\ DOMAIN k.arrays = DOMAIN j.arrays \cup {x}
            /\ k.arrays[x] = Capabilities[NameIn(j, c.token)]
  /\ DOMAIN k.made = DOMAIN j.made \cup {NameIn(j, c.token)}
  /\ k.made[NameIn(j, c.token)] = v
  /\ k.members = j.members

LEMMA ArraysLater ==
  ASSUME NEW j, JavaShape(j), NEW c, NEW k, NEW v, Outcome(j, c, k, v)
  PROVE  \/ /\ k.arrays = j.arrays /\ k.made = j.made
            /\ c.slot = "CallObjectMethod" /\ v # Null /\ v[1] = "array"
                 => AnswersOld(j, c, v)
         \/ ArrayLater(j, c, k, v)
  <1>1. CASE Nothing(j, c, k, v)
    BY <1>1 DEF Nothing
  <1>2. CASE NewMember(j, c, k, v)
    BY <1>2 DEF NewMember, JavaOf, Asks
  <1>3. CASE \E text : NewString(j, c, k, v, text)
    <2>1. /\ k.arrays = j.arrays /\ k.made = j.made
          /\ v = <<"object", Len(j.strings) + 1>>
      BY <1>3 DEF NewString, JavaOf
    <2>2. v[1] # "array"
      BY <2>1
    <2> QED BY <2>1, <2>2
  <1>4. CASE NewArray(j, c, k, v)
    <2> DEFINE x == Len(j.arrays) + 1
               name == NameIn(j, c.token)
               what == Capabilities[name]
    <2>1. /\ c.slot = "CallObjectMethod" /\ HasMember(j, c.token)
          /\ name \in DOMAIN Capabilities \ DOMAIN j.made
          /\ v = <<"array", x>>
      BY <1>4 DEF NewArray
    <2>2. /\ k.arrays = Append(j.arrays, what)
          /\ k.made = Entered(j.made, name, v)
          /\ k.members = j.members
      BY <1>4 DEF NewArray, JavaOf
    <2> HIDE DEF name, what
    <2>3. DOMAIN k.arrays = DOMAIN j.arrays \cup {x}
           /\ k.arrays[x] = what /\ x \notin DOMAIN j.arrays
      BY <2>2, AppendGrows DEF JavaShape
    <2>4. DOMAIN k.made = DOMAIN j.made \cup {name} /\ k.made[name] = v
      <3>1. name \notin DOMAIN j.made
        BY <2>1
      <3>2. /\ DOMAIN Entered(j.made, name, v) = DOMAIN j.made \cup {name}
            /\ Entered(j.made, name, v)[name] = v
        BY ONLY <3>1 DEF Entered
      <3> QED BY ONLY <2>2, <3>2
    <2> HIDE DEF x
    <2>5. ArrayLater(j, c, k, v)
      BY <2>1, <2>2, <2>3, <2>4 DEF ArrayLater, name, what
    <2> QED BY <2>5
  <1>5. CASE NewCopy(j, c, k, v)
    BY <1>5, CopyLeaves DEF PointerSlots
  <1> QED BY <1>1, <1>2, <1>3, <1>4, <1>5 DEF Outcome

NoCopyLater(j, c, k, v) ==
  /\ k.copies = j.copies /\ k.mem = j.mem /\ k.bump = j.bump
  /\ c.slot \in PointerSlots => v = 0 \/ IsCopy(j, c, v)
  /\ c.slot = "GetStringUTFChars" /\ v = 0 => NoRoomForText(j, c)

LEMMA CopiesLater ==
  ASSUME NEW j, JavaShape(j), NEW c, NEW k, NEW v, Outcome(j, c, k, v)
  PROVE  NoCopyLater(j, c, k, v) \/ NewCopy(j, c, k, v)
  <1>1. CASE Nothing(j, c, k, v)
    BY <1>1 DEF Nothing, NoCopyLater
  <1>2. CASE NewMember(j, c, k, v)
    BY <1>2 DEF NewMember, JavaOf, Asks, PointerSlots, NoCopyLater
  <1>3. CASE \E text : NewString(j, c, k, v, text)
    BY <1>3 DEF NewString, JavaOf, PointerSlots, NoCopyLater
  <1>4. CASE NewArray(j, c, k, v)
    BY <1>4 DEF NewArray, JavaOf, PointerSlots, NoCopyLater
  <1> QED BY <1>1, <1>2, <1>3, <1>4 DEF Outcome

-----------------------------------------------------------------------------
(* Each part of the invariant outlives a call.                             *)
LEMMA LaterGrows ==
  ASSUME NEW s, NEW t, NEW c, NEW v, NEW n, Later(s, t, c, v, n)
  PROVE  /\ JavaShape(s.java) /\ JavaShape(t.java)
         /\ JavaGrows(s.java, t.java)
         /\ \A k \in DOMAIN s.calls :
              t.calls[k] = s.calls[k] /\ t.got[k] = s.got[k]
         /\ t.calls[n] = c /\ t.got[n] = v
  <1>1. JavaShape(s.java) /\ Outcome(s.java, c, t.java, v)
    BY DEF Later, SessionInv, SessionShape
  <1>2. Follows(s, t, c, v, n)
    BY DEF Later
  <1> QED BY <1>1, <1>2, OutcomeGrows DEF Follows

LEMMA MembersStayAsked ==
  ASSUME NEW s, NEW t, NEW c, NEW v, NEW n, Later(s, t, c, v, n)
  PROVE  MembersAsked(t)
  <1> DEFINE j == s.java  k == t.java
  <1>1. \A m \in CallsTo(s, Asks) : m \in CallsTo(t, Asks)
           /\ t.got[m] = s.got[m] /\ t.calls[m] = s.calls[m]
    BY CallsLater, LaterGrows DEF Later
  <1>2. c.slot \in Asks => n \in CallsTo(t, Asks)
    BY CallsLater DEF Later
  <1>3. t.got[n] = v /\ t.calls[n] = c
    BY LaterGrows
  <1>4. Grown(j.members, k.members)
    BY LaterGrows DEF JavaGrows
  <1>5. k.members = j.members \/ MemberLater(j, c, k, v)
    BY LaterGrows, MembersLater DEF Later
  <1>6. ASSUME NEW x \in DOMAIN j.members
        PROVE  \E m \in CallsTo(t, Asks) : /\ t.got[m][2] = x
                                           /\ t.calls[m].name
                                                = k.members[x].name
    <2>1. PICK m \in CallsTo(s, Asks) :
            s.got[m][2] = x /\ s.calls[m].name = j.members[x].name
      BY DEF Later, SessionInv, MembersAsked
    <2>2. k.members[x] = j.members[x]
      BY <1>4 DEF Grown
    <2> QED BY <1>1, <2>1, <2>2
  <1>7. ASSUME NEW x \in DOMAIN k.members, x \notin DOMAIN j.members
        PROVE  \E m \in CallsTo(t, Asks) : /\ t.got[m][2] = x
                                           /\ t.calls[m].name
                                                = k.members[x].name
    <2>1. c.slot \in Asks /\ x = v[2] /\ k.members[x].name = c.name
      BY <1>5, <1>7 DEF MemberLater
    <2> QED BY <1>2, <1>3, <2>1
  <1> QED BY <1>6, <1>7 DEF MembersAsked

LEMMA StringsStayMade ==
  ASSUME NEW s, NEW t, NEW c, NEW v, NEW n, Later(s, t, c, v, n)
  PROVE  StringsMade(t)
  <1> DEFINE j == s.java  k == t.java
  <1>1. /\ n \notin Makers(s) /\ Makers(s) \subseteq DOMAIN s.calls
        /\ \A i : i \in Makers(t) <=> i \in Makers(s) \/ (i = n /\ Makes(c, v))
        /\ \A i \in Makers(s) : TextOf(t, i) = TextOf(s, i)
                                  /\ t.got[i] = s.got[i]
    BY MakersLater DEF Later, Makes
  <1>2. t.got[n] = v /\ TextOf(t, n) = TextGiven(c)
    BY LaterGrows DEF TextOf, TextGiven
  <1>3. Grown(j.strings, k.strings)
    BY LaterGrows DEF JavaGrows
  <1>4. \/ k.strings = j.strings /\ ~Makes(c, v)
        \/ StringLater(j, c, k, v)
    BY LaterGrows, StringsLater DEF Later, SessionInv
  <1>5. StringsMade(s)
    BY DEF Later, SessionInv
  <1>6. ASSUME NEW i \in Makers(s)
        PROVE  \E m \in DOMAIN j.strings :
                 /\ m \in DOMAIN k.strings /\ t.got[i] = <<"object", m>>
                 /\ k.strings[m] = TextOf(t, i)
    <2>1. PICK m \in DOMAIN j.strings :
            s.got[i] = <<"object", m>> /\ j.strings[m] = TextOf(s, i)
      BY <1>5 DEF StringsMade
    <2>2. m \in DOMAIN k.strings /\ k.strings[m] = j.strings[m]
      BY <1>3 DEF Grown
    <2> QED BY <1>1, <2>1, <2>2
  <1>7. \A m \in DOMAIN j.strings :
          \E i \in Makers(t) : t.got[i] = <<"object", m>>
    BY <1>1, <1>5 DEF StringsMade
  <1>8. \A i, l \in Makers(s) : t.got[i] = t.got[l] => i = l
    BY <1>1, <1>5 DEF StringsMade, StringsDiffer
  <1> HIDE DEF j, k
  <1>9. CASE k.strings = j.strings /\ ~Makes(c, v)
    <2>1. Makers(t) = Makers(s)
      BY <1>1, <1>9
    <2>2. \A i \in Makers(t) :
            \E m \in DOMAIN k.strings : /\ t.got[i] = <<"object", m>>
                                        /\ k.strings[m] = TextOf(t, i)
      BY <1>6, <2>1
    <2>3. StringsDiffer(t)
      BY <1>8, <2>1 DEF StringsDiffer
    <2> QED BY <1>7, <1>9, <2>2, <2>3 DEF StringsMade, k
  <1>10. CASE StringLater(j, c, k, v)
    <2>1. PICK x : /\ x \notin DOMAIN j.strings /\ v = <<"object", x>>
                   /\ DOMAIN k.strings = DOMAIN j.strings \cup {x}
                   /\ k.strings[x] = TextGiven(c)
      BY <1>10 DEF StringLater
    <2>2. \A i : i \in Makers(t) <=> i \in Makers(s) \/ i = n
      BY <1>1, <1>10 DEF StringLater
    <2>3. \A i \in Makers(t) :
            \E m \in DOMAIN k.strings : /\ t.got[i] = <<"object", m>>
                                        /\ k.strings[m] = TextOf(t, i)
      <3>1. /\ x \in DOMAIN k.strings /\ t.got[n] = <<"object", x>>
            /\ k.strings[x] = TextOf(t, n)
        BY <1>2, <2>1
      <3> QED BY <1>6, <2>2, <3>1
    <2>4. \A m \in DOMAIN k.strings :
            \E i \in Makers(t) : t.got[i] = <<"object", m>>
      BY <1>2, <1>7, <2>1, <2>2
    <2>5. \A i \in Makers(s) : t.got[i] # t.got[n]
      <3> SUFFICES ASSUME NEW i \in Makers(s)
                   PROVE  t.got[i] # t.got[n]
        OBVIOUS
      <3>1. PICK m \in DOMAIN j.strings : t.got[i] = <<"object", m>>
        BY <1>6
      <3>2. m # x
        BY <2>1
      <3> QED BY <1>2, <2>1, <3>1, <3>2
    <2>6. StringsDiffer(t)
      BY <1>8, <2>2, <2>5 DEF StringsDiffer
    <2> QED BY <2>3, <2>4, <2>6 DEF StringsMade, k
  <1> QED BY <1>4, <1>9, <1>10

LEMMA ArraysStayRead ==
  ASSUME NEW s, NEW t, NEW c, NEW v, NEW n, Later(s, t, c, v, n)
  PROVE  ArraysRead(t) /\ ArraysMade(t.java)
  <1> DEFINE j == s.java  k == t.java
  <1>1. /\ \A i \in Given(s, "array") : i \in Given(t, "array")
                                          /\ i \in DOMAIN s.calls
        /\ c.slot = "CallObjectMethod" /\ v # Null /\ v[1] = "array"
             => n \in Given(t, "array")
    BY GivenLater DEF Later
  <1>2. \A m \in CallsTo(s, Asks) : m \in CallsTo(t, Asks)
                                      /\ m \in DOMAIN s.calls
    BY CallsLater DEF Later
  <1>3. /\ \A l \in DOMAIN s.calls :
             t.calls[l] = s.calls[l] /\ t.got[l] = s.got[l]
        /\ t.calls[n] = c /\ t.got[n] = v
    BY LaterGrows
  <1>4. Grown(j.arrays, k.arrays) /\ Grown(j.made, k.made)
    BY LaterGrows DEF JavaGrows
  <1>5. \/ k.arrays = j.arrays /\ k.made = j.made
        \/ ArrayLater(j, c, k, v)
    BY LaterGrows, ArraysLater DEF Later
  <1>6. ArraysRead(s) /\ ArraysMade(j) /\ MembersAsked(s)
    BY DEF Later, SessionInv
  <1>7. ASSUME NEW x \in DOMAIN j.arrays
        PROVE  \E i \in Given(t, "array"), m \in CallsTo(t, Asks) :
                 ReadBy(t, i, m, x)
    <2>1. PICK i \in Given(s, "array"), m \in CallsTo(s, Asks) :
            ReadBy(s, i, m, x)
      BY <1>6 DEF ArraysRead
    <2>2. k.arrays[x] = j.arrays[x]
      BY <1>4 DEF Grown
    <2>3. ReadBy(t, i, m, x)
      BY <1>1, <1>2, <1>3, <2>1, <2>2 DEF ReadBy
    <2> QED BY <1>1, <1>2, <2>3
  <1>8. ASSUME NEW x \in DOMAIN k.arrays, x \notin DOMAIN j.arrays
        PROVE  \E i \in Given(t, "array"), m \in CallsTo(t, Asks) :
                 ReadBy(t, i, m, x)
    <2>1. /\ c.slot = "CallObjectMethod" /\ HasMember(j, c.token)
          /\ NameIn(j, c.token) \in DOMAIN Capabilities
          /\ v = <<"array", x>>
          /\ k.arrays[x] = Capabilities[NameIn(j, c.token)]
      BY <1>5, <1>8 DEF ArrayLater
    <2>2. PICK m \in CallsTo(s, Asks) :
            /\ s.got[m][2] = c.token[2]
            /\ s.calls[m].name = NameIn(j, c.token)
      BY <1>6, <2>1 DEF HasMember, MembersAsked, NameIn
    <2>3. n \in Given(t, "array")
      <3>1. v # Null /\ v[1] = "array"
        BY <2>1 DEF Null
      <3> QED BY <1>1, <2>1, <3>1
    <2>4. t.got[m] = s.got[m] /\ t.calls[m] = s.calls[m]
      BY <1>2, <1>3
    <2>5. ReadBy(t, n, m, x)
      BY <1>3, <2>1, <2>2, <2>4 DEF ReadBy
    <2> QED BY <1>2, <2>3, <2>5
  <1>9. ArraysRead(t)
    BY <1>7, <1>8 DEF ArraysRead
  <1>10. ArraysMade(k)
    <2>1. \A name \in DOMAIN j.made :
            \E x \in DOMAIN k.arrays : k.made[name] = <<"array", x>>
      BY <1>4, <1>6 DEF Grown, ArraysMade
    <2>2. \A name \in DOMAIN k.made \ DOMAIN j.made :
            \E x \in DOMAIN k.arrays : k.made[name] = <<"array", x>>
      BY <1>5 DEF ArrayLater
    <2> HIDE DEF j, k
    <2> QED BY <2>1, <2>2 DEF ArraysMade
  <1> QED BY <1>9, <1>10

LEMMA ArraysStayAnswered ==
  ASSUME NEW s, NEW t, NEW c, NEW v, NEW n, Later(s, t, c, v, n)
  PROVE  ArraysAnswered(t)
  <1> DEFINE j == s.java  k == t.java
  <1>1. \A l \in Given(t, "array") :
          \/ l \in Given(s, "array") /\ l \in DOMAIN s.calls
          \/ /\ l = n /\ c.slot = "CallObjectMethod"
             /\ v # Null /\ v[1] = "array"
    BY GivenLater DEF Later
  <1>2. /\ \A l \in DOMAIN s.calls :
             t.calls[l] = s.calls[l] /\ t.got[l] = s.got[l]
        /\ t.calls[n] = c /\ t.got[n] = v
    BY LaterGrows
  <1>3. Grown(j.members, k.members) /\ Grown(j.made, k.made)
    BY LaterGrows DEF JavaGrows
  <1>4. ASSUME NEW token, HasMember(j, token)
        PROVE  HasMember(k, token) /\ NameIn(k, token) = NameIn(j, token)
    BY <1>3, <1>4 DEF HasMember, NameIn, Grown
  <1>5. ASSUME NEW token, HasMember(j, token), NEW w,
               NameIn(j, token) \in DOMAIN j.made,
               w = j.made[NameIn(j, token)]
        PROVE  /\ HasMember(k, token) /\ NameIn(k, token) \in DOMAIN k.made
               /\ w = k.made[NameIn(k, token)]
    BY <1>3, <1>4, <1>5 DEF Grown
  <1>6. ASSUME NEW l \in Given(s, "array")
        PROVE  /\ HasMember(j, s.calls[l].token)
               /\ NameIn(j, s.calls[l].token) \in DOMAIN j.made
               /\ s.got[l] = j.made[NameIn(j, s.calls[l].token)]
    BY DEF Later, SessionInv, ArraysAnswered
  <1>7. ASSUME c.slot = "CallObjectMethod", v # Null, v[1] = "array"
        PROVE  /\ HasMember(k, c.token) /\ NameIn(k, c.token) \in DOMAIN k.made
               /\ v = k.made[NameIn(k, c.token)]
    <2>1. \/ k.made = j.made /\ AnswersOld(j, c, v)
          \/ ArrayLater(j, c, k, v)
      BY <1>7, LaterGrows, ArraysLater DEF Later
    <2>2. CASE AnswersOld(j, c, v)
      BY <1>5, <1>7, <2>2 DEF AnswersOld
    <2>3. CASE ArrayLater(j, c, k, v)
      BY <1>4, <2>3 DEF ArrayLater
    <2> QED BY <2>1, <2>2, <2>3
  <1> HIDE DEF j, k
  <1>8. ASSUME NEW l \in Given(t, "array")
        PROVE  /\ HasMember(k, t.calls[l].token)
               /\ NameIn(k, t.calls[l].token) \in DOMAIN k.made
               /\ t.got[l] = k.made[NameIn(k, t.calls[l].token)]
    <2>1. CASE l \in Given(s, "array") /\ l \in DOMAIN s.calls
      BY <1>2, <1>5, <1>6, <2>1
    <2>2. CASE /\ l = n /\ c.slot = "CallObjectMethod"
               /\ v # Null /\ v[1] = "array"
      BY <1>2, <1>7, <2>2
    <2> QED BY <1>1, <2>1, <2>2
  <1> QED BY <1>8 DEF ArraysAnswered, k

(* What was copied stays put: its string or array is still there, the      *)
(* region never shrinks and only addresses from `next` on are written.     *)
Untouched(j, k) ==
  \A a \in DOMAIN j.mem :
    a \in Int /\ a < j.bump.next => a \in DOMAIN k.mem /\ k.mem[a] = j.mem[a]

LEMMA TextShown ==
  ASSUME NEW j, NEW k, NEW text \in Seq(STRING), NEW addr,
         Untouched(j, k), j.bump.next \in Nat, k.bump.next \in Nat,
         j.bump.next <= k.bump.next,
         Holds(j, addr, Append(text, ""), 1, Len(text) + 1)
  PROVE  Holds(k, addr, Append(text, ""), 1, Len(text) + 1)
  <1>1. /\ addr \in Nat /\ GlueBase <= addr
        /\ addr + (Len(text) + 1) <= j.bump.next
        /\ Shows(j.mem, addr, Append(text, ""), 1)
    BY DEF Holds
  <1>2. DOMAIN Append(text, "") = 1 .. Len(text) + 1 /\ Len(text) \in Nat
    <2>1. Len(text) \in Nat /\ DOMAIN text = 1 .. Len(text)
      BY ONLY text \in Seq(STRING)
    <2>2. DOMAIN Append(text, "") = DOMAIN text \cup {Len(text) + 1}
      BY ONLY text \in Seq(STRING), AppendGrows
    <2> DEFINE len == Len(text)
    <2> HIDE DEF len
    <2>3. 1 .. len + 1 = (1 .. len) \cup {len + 1}
      BY ONLY <2>1 DEF len
    <2> QED BY ONLY <2>1, <2>2, <2>3 DEF len
  <1> DEFINE what == Append(text, "")
  <1> HIDE DEF what
  <1>3. ASSUME NEW i \in DOMAIN what
        PROVE  /\ addr + 1 * (i - 1) \in DOMAIN k.mem
               /\ k.mem[addr + 1 * (i - 1)] = what[i]
    <2>1. i \in 1 .. Len(text) + 1
      BY <1>2 DEF what
    <2> DEFINE a == addr + 1 * (i - 1)
    <2>2. a \in Int /\ a < j.bump.next
      <3>1. /\ addr \in Nat /\ addr + (Len(text) + 1) <= j.bump.next
            /\ Len(text) \in Nat /\ j.bump.next \in Nat
        BY <1>1, <1>2
      <3> QED BY ONLY <2>1, <3>1
    <2>3. a \in DOMAIN j.mem /\ j.mem[a] = what[i]
      BY <1>1 DEF Shows, what
    <2> HIDE DEF a
    <2>4. a \in DOMAIN k.mem /\ k.mem[a] = what[i]
      BY <2>2, <2>3 DEF Untouched
    <2> QED BY <2>4 DEF a
  <1>4. Shows(k.mem, addr, Append(text, ""), 1)
    BY <1>3 DEF Shows, what
  <1>5. addr + (Len(text) + 1) <= k.bump.next
    <2>1. /\ addr \in Nat /\ addr + (Len(text) + 1) <= j.bump.next
          /\ Len(text) \in Nat
      BY <1>1, <1>2
    <2> QED BY ONLY <2>1, j.bump.next \in Nat, k.bump.next \in Nat,
                    j.bump.next <= k.bump.next
  <1> QED BY <1>1, <1>4, <1>5 DEF Holds

LEMMA WordsShown ==
  ASSUME NEW j, NEW k, NEW what \in Seq(Int), NEW addr,
         Untouched(j, k), j.bump.next \in Nat, k.bump.next \in Nat,
         j.bump.next <= k.bump.next,
         Holds(j, addr, what, 4, 4 * Len(what) + 4)
  PROVE  Holds(k, addr, what, 4, 4 * Len(what) + 4)
  <1>1. /\ addr \in Nat /\ GlueBase <= addr
        /\ addr + (4 * Len(what) + 4) <= j.bump.next
        /\ Shows(j.mem, addr, what, 4)
    BY DEF Holds
  <1>2. DOMAIN what = 1 .. Len(what) /\ Len(what) \in Nat
    OBVIOUS
  <1>3. ASSUME NEW i \in DOMAIN what
        PROVE  /\ addr + 4 * (i - 1) \in DOMAIN k.mem
               /\ k.mem[addr + 4 * (i - 1)] = what[i]
    <2>1. i \in 1 .. Len(what)
      BY <1>2
    <2> DEFINE a == addr + 4 * (i - 1)
    <2>2. a \in Int /\ a < j.bump.next
      <3> DEFINE len == Len(what)
                 next == j.bump.next
      <3>1. /\ addr \in Nat /\ len \in Nat /\ next \in Nat /\ i \in 1 .. len
            /\ addr + (4 * len + 4) <= next
        BY <1>1, <1>2, <2>1
      <3> HIDE DEF len, next
      <3>2. i \in Nat /\ 1 <= i /\ i <= len
        BY ONLY <3>1
      <3>3. addr + 4 * (i - 1) < next
        BY ONLY <3>1, <3>2
      <3>4. addr + 4 * (i - 1) \in Int
        BY ONLY <3>1, <3>2
      <3> QED BY ONLY <3>3, <3>4 DEF a, next
    <2>3. a \in DOMAIN j.mem /\ j.mem[a] = what[i]
      BY <1>1 DEF Shows
    <2> HIDE DEF a
    <2>4. a \in DOMAIN k.mem /\ k.mem[a] = what[i]
      BY <2>2, <2>3 DEF Untouched
    <2> QED BY <2>4 DEF a
  <1>4. Shows(k.mem, addr, what, 4)
    BY <1>3 DEF Shows
  <1>5. addr + (4 * Len(what) + 4) <= k.bump.next
    BY <1>1, <1>2
  <1> QED BY <1>1, <1>4, <1>5 DEF Holds

(* A copy is found at an address below `next`.                             *)
LEMMA CopyIsBelow ==
  ASSUME NEW j, JavaShape(j), CopiesKept(j), NEW t \in DOMAIN j.copies
  PROVE  j.copies[t] \in Nat /\ j.copies[t] < j.bump.next
  <1>0. j.bump.next \in Nat /\ j.strings \in Seq(Seq(STRING))
         /\ j.arrays \in Seq(Seq(Int))
    BY DEF JavaShape
  <1>1. CASE TextKept(j, t)
    <2>1. PICK n \in DOMAIN j.strings :
            Holds(j, j.copies[t], Append(j.strings[n], ""), 1,
                  Len(j.strings[n]) + 1)
      BY <1>1 DEF TextKept
    <2>2. Len(j.strings[n]) \in Nat
      <3>1. j.strings[n] \in Seq(STRING)
        BY ONLY <1>0, InSeq, n \in DOMAIN j.strings
      <3> QED BY <3>1
    <2>3. /\ j.copies[t] \in Nat
          /\ j.copies[t] + (Len(j.strings[n]) + 1) <= j.bump.next
      BY <2>1 DEF Holds
    <2> QED BY <1>0, <2>2, <2>3
  <1>2. CASE WordsKept(j, t)
    <2>1. PICK n \in DOMAIN j.arrays :
            Holds(j, j.copies[t], j.arrays[n], 4, 4 * Len(j.arrays[n]) + 4)
      BY <1>2 DEF WordsKept
    <2>2. Len(j.arrays[n]) \in Nat
      <3>1. j.arrays[n] \in Seq(Int)
        BY ONLY <1>0, InSeq, n \in DOMAIN j.arrays
      <3> QED BY <3>1
    <2>3. /\ j.copies[t] \in Nat
          /\ j.copies[t] + (4 * Len(j.arrays[n]) + 4) <= j.bump.next
      BY <2>1 DEF Holds
    <2> QED BY <1>0, <2>2, <2>3
  <1> QED BY <1>1, <1>2 DEF CopiesKept

(* An old copy is kept, whatever the call.                                 *)
LEMMA CopyStays ==
  ASSUME NEW j, NEW k, JavaShape(j), JavaShape(k), CopiesKept(j),
         JavaGrows(j, k), Untouched(j, k), NEW t \in DOMAIN j.copies
  PROVE  TextKept(k, t) \/ WordsKept(k, t)
  <1>0. /\ j.bump.next \in Nat /\ k.bump.next \in Nat
        /\ j.bump.next <= k.bump.next
        /\ j.strings \in Seq(Seq(STRING)) /\ j.arrays \in Seq(Seq(Int))
    BY DEF JavaShape, JavaGrows
  <1>1. t \in DOMAIN k.copies /\ k.copies[t] = j.copies[t]
    BY DEF JavaGrows, Grown
  <1>2. CASE TextKept(j, t)
    <2>1. PICK n \in DOMAIN j.strings :
            /\ t = <<"object", n>>
            /\ Holds(j, j.copies[t], Append(j.strings[n], ""), 1,
                     Len(j.strings[n]) + 1)
      BY <1>2 DEF TextKept
    <2>2. n \in DOMAIN k.strings /\ k.strings[n] = j.strings[n]
      BY DEF JavaGrows, Grown
    <2> DEFINE text == j.strings[n]
               addr == j.copies[t]
    <2>3. text \in Seq(STRING)
      BY ONLY <1>0, InSeq, n \in DOMAIN j.strings
    <2>4. Holds(j, addr, Append(text, ""), 1, Len(text) + 1)
      BY <2>1
    <2> HIDE DEF text, addr
    <2>5. Holds(k, addr, Append(text, ""), 1, Len(text) + 1)
      BY <1>0, <2>3, <2>4, TextShown
    <2> QED BY <1>1, <2>1, <2>2, <2>5 DEF TextKept, text, addr
  <1>3. CASE WordsKept(j, t)
    <2>1. PICK n \in DOMAIN j.arrays :
            /\ t = <<"array", n>>
            /\ Holds(j, j.copies[t], j.arrays[n], 4, 4 * Len(j.arrays[n]) + 4)
      BY <1>3 DEF WordsKept
    <2>2. n \in DOMAIN k.arrays /\ k.arrays[n] = j.arrays[n]
      BY DEF JavaGrows, Grown
    <2> DEFINE what == j.arrays[n]
               addr == j.copies[t]
    <2>3. what \in Seq(Int)
      BY ONLY <1>0, InSeq, n \in DOMAIN j.arrays
    <2>4. Holds(j, addr, what, 4, 4 * Len(what) + 4)
      BY <2>1
    <2> HIDE DEF what, addr
    <2>5. Holds(k, addr, what, 4, 4 * Len(what) + 4)
      BY <1>0, <2>3, <2>4, WordsShown
    <2> QED BY <1>1, <2>1, <2>2, <2>5 DEF WordsKept, what, addr
  <1> QED BY <1>2, <1>3 DEF CopiesKept

LEMMA FitsIs ==
  ASSUME NEW j, NEW k, NEW v, NEW token, NEW what, NEW stride, NEW bytes,
         JavaShape(j), CopyFits(j, k, v, token, what, stride, bytes)
  PROVE  /\ v \in Nat /\ v >= j.bump.next
         /\ k.bump.next = v + bytes
         /\ Shows(k.mem, v, what, stride)
         /\ Untouched(j, k)
  <1> DEFINE mem == k.mem
             copies == Entered(j.copies, token, v)
             bump == [next |-> v + bytes, limit |-> j.bump.limit]
  <1>1. /\ k = JavaOf(j.members, j.strings, j.arrays, j.made, copies, mem, bump)
        /\ v \in Nat /\ v >= j.bump.next
        /\ Shows(k.mem, v, what, stride)
        /\ \A a \in DOMAIN j.mem :
             a < v => a \in DOMAIN k.mem /\ k.mem[a] = j.mem[a]
    BY DEF CopyFits
  <1>2. bump.next = v + bytes
    OBVIOUS
  <1> HIDE DEF mem, copies, bump
  <1>3. k.bump = bump
    BY ONLY <1>1 DEF JavaOf
  <1>4. j.bump.next \in Nat
    BY DEF JavaShape
  <1>5. \A a \in DOMAIN j.mem : a \in Int /\ a < j.bump.next => a < v
    BY <1>1, <1>4
  <1>6. Untouched(j, k)
    BY <1>1, <1>5 DEF Untouched
  <1> QED BY <1>1, <1>2, <1>3, <1>6

LEMMA CopiesStayKept ==
  ASSUME NEW s, NEW t, NEW c, NEW v, NEW n, Later(s, t, c, v, n)
  PROVE  CopiesKept(t.java)
  <1> DEFINE j == s.java  k == t.java
  <1>1. JavaShape(j) /\ JavaShape(k) /\ JavaGrows(j, k)
    BY LaterGrows
  <1>2. CopiesKept(j) /\ Outcome(j, c, k, v)
    BY DEF Later, SessionInv
  <1> HIDE DEF j, k
  <1>3. NoCopyLater(j, c, k, v) \/ NewCopy(j, c, k, v)
    BY <1>1, <1>2, CopiesLater
  <1>4. CASE NoCopyLater(j, c, k, v)
    <2>1. k.copies = j.copies /\ k.mem = j.mem
      BY <1>4 DEF NoCopyLater
    <2>2. Untouched(j, k)
      BY <2>1 DEF Untouched
    <2>3. \A u \in DOMAIN k.copies : TextKept(k, u) \/ WordsKept(k, u)
      BY <1>1, <1>2, <2>1, <2>2, CopyStays
    <2>4. CopiesKept(k)
      BY <1>2, <2>1, <2>3 DEF CopiesKept
    <2> QED BY <2>4 DEF k
  <1>5. CASE NewCopy(j, c, k, v)
    <2> DEFINE token == c.token
    <2>1. PICK m : TextCopied(j, c, k, v, m) \/ WordsCopied(j, c, k, v, m)
      BY <1>5 DEF NewCopy
    <2>2. token \notin DOMAIN j.copies
      BY <1>5 DEF NewCopy
    <2>3. k.copies = Entered(j.copies, token, v)
           /\ k.strings = j.strings /\ k.arrays = j.arrays
      BY <1>5, CopyLeaves
    <2>4. /\ DOMAIN k.copies = DOMAIN j.copies \cup {token}
          /\ k.copies[token] = v
          /\ \A u \in DOMAIN j.copies : k.copies[u] = j.copies[u]
      <3>1. /\ DOMAIN Entered(j.copies, token, v) = DOMAIN j.copies \cup {token}
            /\ Entered(j.copies, token, v)[token] = v
            /\ \A u \in DOMAIN j.copies :
                 Entered(j.copies, token, v)[u] = j.copies[u]
        BY ONLY <2>2 DEF Entered
      <3> QED BY ONLY <2>3, <3>1
    <2>5. /\ TextKept(k, token) \/ WordsKept(k, token)
          /\ Untouched(j, k) /\ v \in Nat /\ v >= j.bump.next
      <3>0. GlueBase <= j.bump.next /\ j.bump.next \in Nat /\ GlueBase \in Nat
        BY <1>1, JniAssumption DEF JavaShape, JniAssumption
      <3>1. CASE TextCopied(j, c, k, v, m)
        <4>1. /\ m \in DOMAIN j.strings /\ token = <<"object", m>>
              /\ CopyFits(j, k, v, token, Append(j.strings[m], ""), 1,
                      Len(j.strings[m]) + 1)
          BY <3>1 DEF TextCopied
        <4> HIDE DEF token
        <4>2. /\ v \in Nat /\ v >= j.bump.next
              /\ k.bump.next = v + (Len(j.strings[m]) + 1)
              /\ Shows(k.mem, v, Append(j.strings[m], ""), 1)
              /\ Untouched(j, k)
          BY ONLY <1>1, <4>1, FitsIs
        <4>3. Holds(k, v, Append(j.strings[m], ""), 1, Len(j.strings[m]) + 1)
          <5>1. k.bump.next \in Nat
            BY <1>1 DEF JavaShape
          <5>2. /\ v \in Nat /\ v >= j.bump.next
                /\ k.bump.next = v + (Len(j.strings[m]) + 1)
            BY <4>2
          <5>3. GlueBase <= v
            BY ONLY <3>0, <5>2
          <5>4. v + (Len(j.strings[m]) + 1) <= k.bump.next
            BY ONLY <5>1, <5>2
          <5> QED BY <4>2, <5>3, <5>4 DEF Holds
        <4>4. TextKept(k, token)
          BY <2>3, <2>4, <4>1, <4>3 DEF TextKept
        <4> QED BY <4>2, <4>4
      <3>2. CASE WordsCopied(j, c, k, v, m)
        <4>1. /\ m \in DOMAIN j.arrays /\ token = <<"array", m>>
              /\ CopyFits(j, k, v, token, j.arrays[m], 4,
                      4 * Len(j.arrays[m]) + 4)
          BY <3>2 DEF WordsCopied
        <4> HIDE DEF token
        <4>2. /\ v \in Nat /\ v >= j.bump.next
              /\ k.bump.next = v + (4 * Len(j.arrays[m]) + 4)
              /\ Shows(k.mem, v, j.arrays[m], 4)
              /\ Untouched(j, k)
          BY ONLY <1>1, <4>1, FitsIs
        <4>3. Holds(k, v, j.arrays[m], 4, 4 * Len(j.arrays[m]) + 4)
          <5>1. k.bump.next \in Nat
            BY <1>1 DEF JavaShape
          <5>2. GlueBase <= v
            BY <3>0, <4>2
          <5>3. v + (4 * Len(j.arrays[m]) + 4) <= k.bump.next
            BY ONLY <4>2, <5>1
          <5> QED BY <4>2, <5>2, <5>3 DEF Holds
        <4>4. WordsKept(k, token)
          BY <2>3, <2>4, <4>1, <4>3 DEF WordsKept
        <4> QED BY <4>2, <4>4
      <3> QED BY <2>1, <3>1, <3>2
    <2> HIDE DEF token
    <2>6. \A u \in DOMAIN k.copies : TextKept(k, u) \/ WordsKept(k, u)
      BY <1>1, <1>2, <2>4, <2>5, CopyStays
    <2>7. \A u \in DOMAIN j.copies : k.copies[u] # v
      <3> SUFFICES ASSUME NEW u \in DOMAIN j.copies
                   PROVE  k.copies[u] # v
        OBVIOUS
      <3>1. j.copies[u] \in Nat /\ j.copies[u] < j.bump.next
        BY <1>1, <1>2, CopyIsBelow
      <3>2. j.bump.next \in Nat
        BY <1>1 DEF JavaShape
      <3> QED BY <2>4, <2>5, <3>1, <3>2
    <2>8. \A u, w \in DOMAIN k.copies : k.copies[u] = k.copies[w] => u = w
      <3>1. \A u, w \in DOMAIN j.copies : j.copies[u] = j.copies[w] => u = w
        BY <1>2 DEF CopiesKept
      <3> QED BY <2>4, <2>7, <3>1
    <2>9. CopiesKept(k)
      BY <2>6, <2>8 DEF CopiesKept
    <2> QED BY <2>9 DEF k
  <1> QED BY <1>3, <1>4, <1>5

LEMMA PointersStayKept ==
  ASSUME NEW s, NEW t, NEW c, NEW v, NEW n, Later(s, t, c, v, n)
  PROVE  PointersKept(t)
  <1> DEFINE j == s.java  k == t.java
  <1>1. \A l \in Pointed(t, PointerSlots) :
          \/ l \in Pointed(s, PointerSlots) /\ l \in DOMAIN s.calls
          \/ l = n /\ c.slot \in PointerSlots /\ v # 0
    BY PointedLater DEF Later
  <1>2. /\ \A l \in DOMAIN s.calls :
             t.calls[l] = s.calls[l] /\ t.got[l] = s.got[l]
        /\ t.calls[n] = c /\ t.got[n] = v
    BY LaterGrows
  <1>3. Grown(j.copies, k.copies)
    BY LaterGrows DEF JavaGrows
  <1>4. \A l \in Pointed(s, PointerSlots) : IsCopy(j, s.calls[l], s.got[l])
    BY DEF Later, SessionInv, PointersKept
  <1>5. NoCopyLater(j, c, k, v) \/ NewCopy(j, c, k, v)
    BY LaterGrows, CopiesLater DEF Later
  <1> HIDE DEF j, k
  <1>6. ASSUME NEW d, NEW w, IsCopy(j, d, w)
        PROVE  IsCopy(k, d, w)
    BY <1>3, <1>6 DEF IsCopy, Grown
  <1>7. ASSUME c.slot \in PointerSlots, v # 0
        PROVE  IsCopy(k, c, v)
    <2>1. CASE NoCopyLater(j, c, k, v)
      BY <1>6, <1>7, <2>1 DEF NoCopyLater
    <2>2. CASE NewCopy(j, c, k, v)
      <3>1. k.copies = Entered(j.copies, c.token, v)
        BY <2>2, CopyLeaves
      <3>2. c.token \in DOMAIN k.copies /\ k.copies[c.token] = v
        BY ONLY <3>1 DEF Entered
      <3>3. PICK m : TextCopied(j, c, k, v, m) \/ WordsCopied(j, c, k, v, m)
        BY <2>2 DEF NewCopy
      <3>4. c.token[1] = KindOf(c.slot)
        <4>1. CASE TextCopied(j, c, k, v, m)
          <5>1. c.slot = "GetStringUTFChars" /\ c.token = <<"object", m>>
            BY <4>1 DEF TextCopied
          <5> QED BY ONLY <5>1 DEF KindOf
        <4>2. CASE WordsCopied(j, c, k, v, m)
          <5>1. c.slot = "GetArrayElements" /\ c.token = <<"array", m>>
            BY <4>2 DEF WordsCopied
          <5> QED BY ONLY <5>1 DEF KindOf
        <4> QED BY <3>3, <4>1, <4>2
      <3> QED BY <3>2, <3>4 DEF IsCopy
    <2> QED BY <1>5, <2>1, <2>2
  <1>8. ASSUME NEW l \in Pointed(t, PointerSlots)
        PROVE  IsCopy(k, t.calls[l], t.got[l])
    <2>1. CASE l \in Pointed(s, PointerSlots) /\ l \in DOMAIN s.calls
      BY <1>2, <1>4, <1>6, <2>1
    <2>2. CASE l = n /\ c.slot \in PointerSlots /\ v # 0
      BY <1>2, <1>7, <2>2
    <2> QED BY <1>1, <2>1, <2>2
  <1> QED BY <1>8 DEF PointersKept, k

(* A full region stays full.                                               *)
LEMMA FullStays ==
  ASSUME NEW b, NEW d, NEW m \in Int, b.next \in Nat, d.next \in Nat,
         b.next <= d.next, b.limit = d.limit, b.limit \in Nat, Full(b, m)
  PROVE  Full(d, m)
  <1> DEFINE p == b.next  q == d.next
  <1>1. p \in Nat /\ q \in Nat /\ p <= q
    OBVIOUS
  <1> HIDE DEF p, q
  <1>2. 4 * ((p + 4 - 1) \div 4) <= 4 * ((q + 4 - 1) \div 4)
    BY ONLY <1>1
  <1>3. Aligned(p, 4) \in Int /\ Aligned(q, 4) \in Int
         /\ Aligned(p, 4) <= Aligned(q, 4)
    BY ONLY <1>1, <1>2 DEF Aligned
  <1>4. Aligned(p, 4) + m > b.limit
    BY DEF Full, p
  <1>5. Aligned(q, 4) + m > d.limit
    BY ONLY <1>3, <1>4, m \in Int, b.limit = d.limit, b.limit \in Nat
  <1> QED BY <1>5 DEF Full, q

LEMMA OnlyFullStillRefuses ==
  ASSUME NEW s, NEW t, NEW c, NEW v, NEW n, Later(s, t, c, v, n)
  PROVE  OnlyFullRefuses(t)
  <1> DEFINE j == s.java  k == t.java
  <1>1. \A l \in CallsTo(t, {"GetStringUTFChars"}) :
          \/ l \in CallsTo(s, {"GetStringUTFChars"}) /\ l \in DOMAIN s.calls
          \/ l = n /\ c.slot = "GetStringUTFChars"
    <2>1. \A l \in CallsTo(t, {"GetStringUTFChars"}) :
            \/ l \in CallsTo(s, {"GetStringUTFChars"}) /\ l \in DOMAIN s.calls
            \/ l = n /\ c.slot \in {"GetStringUTFChars"}
      BY CallsLater DEF Later
    <2> QED BY <2>1
  <1>2. /\ Makers(s) \subseteq DOMAIN s.calls
        /\ \A i \in Makers(t) : i \in Makers(s) \/ i = n
        /\ \A i \in Makers(s) : TextOf(t, i) = TextOf(s, i)
                                  /\ t.got[i] = s.got[i]
    BY MakersLater DEF Later
  <1>3. /\ \A l \in DOMAIN s.calls :
             t.calls[l] = s.calls[l] /\ t.got[l] = s.got[l]
        /\ t.calls[n] = c /\ t.got[n] = v
    BY LaterGrows
  <1>4. n \in Nat /\ \A l \in DOMAIN s.calls : l \in Nat /\ l < n
    BY DEF Later, Follows
  <1>5. /\ j.bump.next \in Nat /\ k.bump.next \in Nat
        /\ j.bump.next <= k.bump.next /\ j.bump.limit = k.bump.limit
        /\ j.bump.limit \in Nat
    <2>1. JavaShape(j) /\ JavaGrows(j, k)
      BY LaterGrows
    <2>2. j.bump.limit = GlueBase + GlueSize
      BY <2>1 DEF JavaShape
    <2> QED BY <2>1, <2>2, JniAssumption DEF JavaShape, JavaGrows, JniAssumption
  <1>6. /\ StringsMade(s) /\ OnlyFullRefuses(s) /\ CopiesKept(k)
        /\ j.strings \in Seq(Seq(STRING))
    BY CopiesStayKept, LaterGrows DEF Later, SessionInv, JavaShape
  <1>7. NoCopyLater(j, c, k, v) \/ NewCopy(j, c, k, v)
    BY LaterGrows, CopiesLater DEF Later
  <1> HIDE DEF j, k
  <1>m. ASSUME NEW i \in Makers(s)
        PROVE  Len(TextOf(s, i)) + 1 \in Int
    <2>1. PICK m \in DOMAIN j.strings : j.strings[m] = TextOf(s, i)
      BY <1>6 DEF StringsMade, j
    <2>2. TextOf(s, i) \in Seq(STRING)
      BY ONLY <1>6, <2>1, InSeq
    <2> QED BY <2>2
  <1>8. ASSUME NEW l \in CallsTo(t, {"GetStringUTFChars"}),
               NEW i \in Makers(t),
               i < l, t.got[i] = t.calls[l].token, t.got[l] = 0
        PROVE  Full(k.bump, Len(TextOf(t, i)) + 1)
    <2>1. l \in DOMAIN s.calls \/ l = n
      BY <1>1
    <2>2. i \in Makers(s)
      BY <1>2, <1>4, <1>8, <2>1
    <2>3. t.got[i] = s.got[i] /\ TextOf(t, i) = TextOf(s, i)
      BY <1>2, <2>2
    <2> DEFINE m == Len(TextOf(s, i)) + 1
    <2>4. Full(j.bump, m)
      <3>1. CASE l \in CallsTo(s, {"GetStringUTFChars"}) /\ l \in DOMAIN s.calls
        <4>1. s.got[i] = s.calls[l].token /\ s.got[l] = 0
          BY <1>3, <1>8, <2>3, <3>1
        <4> QED BY <1>6, <1>8, <2>2, <3>1, <4>1 DEF OnlyFullRefuses, j
      <3>2. CASE l = n /\ c.slot = "GetStringUTFChars"
        <4>1. v = 0 /\ c.token = s.got[i]
          BY <1>3, <1>8, <2>3, <3>2
        <4>2. PICK x \in DOMAIN j.strings :
                s.got[i] = <<"object", x>> /\ j.strings[x] = TextOf(s, i)
          BY <1>6, <2>2 DEF StringsMade, j
        <4>3. NoCopyLater(j, c, k, v)
          <5> SUFFICES ASSUME NewCopy(j, c, k, v)
                       PROVE  FALSE
            BY <1>7
          <5>1. k.copies = Entered(j.copies, c.token, v)
            BY CopyLeaves
          <5>2. c.token \in DOMAIN k.copies /\ k.copies[c.token] = v
            BY ONLY <5>1 DEF Entered
          <5> QED BY <1>6, <4>1, <5>2, ZeroIsNoCopy
        <4>4. NoRoomForText(j, c)
          BY <3>2, <4>1, <4>3 DEF NoCopyLater
        <4> QED BY <4>1, <4>2, <4>4 DEF NoRoomForText
      <3> QED BY <1>1, <3>1, <3>2
    <2>5. m \in Int
      BY <1>m, <2>2
    <2> HIDE DEF m
    <2>6. Full(k.bump, m)
      BY <1>5, <2>4, <2>5, FullStays
    <2> QED BY <2>3, <2>6 DEF m
  <1> QED BY <1>8 DEF OnlyFullRefuses, k

-----------------------------------------------------------------------------
(* The first state of a session, and a call.                               *)
LEMMA OpenedIsSound == SessionInv(Opened)
  <1> DEFINE s == Opened  j == FreshJava
  <1>1. /\ s.calls = <<>> /\ s.got = <<>> /\ s.java = j
        /\ s = [fn |-> "java", calls |-> s.calls, got |-> s.got,
                java |-> s.java]
    BY DEF Opened
  <1>2. /\ j.members = <<>> /\ j.strings = <<>> /\ j.arrays = <<>>
        /\ j.made = <<>> /\ j.copies = <<>> /\ j.mem = <<>>
        /\ j.bump = [next |-> GlueBase, limit |-> GlueBase + GlueSize]
        /\ j = [members |-> j.members, strings |-> j.strings,
                arrays |-> j.arrays, made |-> j.made, copies |-> j.copies,
                mem |-> j.mem, bump |-> j.bump]
    BY DEF FreshJava
  <1> HIDE DEF s, j
  <1>3. /\ JavaShape(j)
    <2>1. j.bump.next = GlueBase /\ GlueBase \in Nat
           /\ j.bump = [next |-> j.bump.next, limit |-> GlueBase + GlueSize]
      BY <1>2, JniAssumption DEF JniAssumption
    <2>2. /\ <<>> \in Seq([name : STRING, string : BOOLEAN])
          /\ <<>> \in Seq(Seq(STRING)) /\ <<>> \in Seq(Seq(Int))
      OBVIOUS
    <2> QED BY <1>2, <2>1, <2>2 DEF JavaShape
  <1>4. SessionShape(s)
    <2>1. <<>> \in Seq(JavaCalls) /\ Len(s.calls) = 0
      BY <1>1
    <2>2. s.got = [x \in 1 .. Len(s.calls) |-> s.got[x]]
      BY <1>1, <2>1
    <2> QED BY <1>1, <1>3, <2>1, <2>2 DEF SessionShape
  <1>5. DOMAIN s.calls = {} /\ \A slots : CallsTo(s, slots) = {}
    BY <1>1 DEF CallsTo
  <1>6. /\ \A kind : Given(s, kind) = {}
        /\ \A slots : Pointed(s, slots) = {}
    BY <1>5 DEF Given, Pointed
  <1>7. Makers(s) = {}
    BY <1>5, <1>6 DEF Makers
  <1>8. /\ DOMAIN j.members = {} /\ DOMAIN j.strings = {}
        /\ DOMAIN j.arrays = {} /\ DOMAIN j.made = {} /\ DOMAIN j.copies = {}
    BY <1>2
  <1>9. MembersAsked(s) /\ ArraysRead(s) /\ ArraysMade(s.java)
    BY <1>1, <1>8 DEF MembersAsked, ArraysRead, ArraysMade
  <1>10. StringsMade(s)
    BY <1>1, <1>7, <1>8 DEF StringsMade, StringsDiffer
  <1>11. ArraysAnswered(s) /\ PointersKept(s)
    BY <1>6 DEF ArraysAnswered, PointersKept
  <1>12. CopiesKept(s.java)
    BY <1>1, <1>8 DEF CopiesKept
  <1>13. OnlyFullRefuses(s)
    BY <1>7 DEF OnlyFullRefuses
  <1> QED BY <1>4, <1>9, <1>10, <1>11, <1>12, <1>13 DEF SessionInv, s

LEMMA CalledIsSound ==
  ASSUME NEW s, SessionInv(s), NEW c \in JavaCalls
  PROVE  SessionInv(AfterCall(s, c))
  <1> DEFINE t == AfterCall(s, c)
             r == jni_dispatch(s.java, c)
             v == r.value
             n == Len(s.calls) + 1
             calls == Append(s.calls, c)
             answers == Append(s.got, v)
  <1>1. /\ s.calls \in Seq(JavaCalls) /\ JavaShape(s.java)
        /\ s.got = [k \in 1 .. Len(s.calls) |-> s.got[k]]
        /\ CopiesKept(s.java)
    BY DEF SessionInv, SessionShape
  <1>2. Outcome(s.java, c, r.java, v)
    BY <1>1, Dispatched
  <1> HIDE DEF r, v
  <1>3. /\ t = [fn |-> "java", calls |-> calls, got |-> answers, java |-> r.java]
        /\ t.calls = calls /\ t.got = answers /\ t.java = r.java
    BY DEF AfterCall, r, v
  <1>4. Len(s.calls) \in Nat /\ DOMAIN s.calls = 1 .. Len(s.calls)
    BY <1>1
  <1>5. /\ calls \in Seq(JavaCalls) /\ Len(calls) = n
        /\ DOMAIN calls = DOMAIN s.calls \cup {n}
        /\ calls[n] = c /\ \A k \in DOMAIN s.calls : calls[k] = s.calls[k]
    BY ONLY <1>1, c \in JavaCalls, AppendProperties, AppendGrows DEF Grown
  <1>6. /\ answers = [k \in 1 .. n |-> answers[k]]
        /\ answers[n] = v /\ \A k \in DOMAIN s.calls : answers[k] = s.got[k]
    <2> DEFINE len == Len(s.calls)
               past == s.got
    <2>1. len \in Nat /\ past = [k \in 1 .. len |-> past[k]]
      BY <1>1, <1>4
    <2> HIDE DEF len, past
    <2>2. Append(past, v) = [k \in 1 .. len + 1 |->
                               IF k = len + 1 THEN v ELSE past[k]]
      BY ONLY <2>1
    <2>3. \A k \in 1 .. len : k # len + 1 /\ k \in 1 .. len + 1
      BY ONLY <2>1
    <2>4. len + 1 \in 1 .. len + 1
      BY ONLY <2>1
    <2>5. /\ Append(past, v) = [k \in 1 .. len + 1 |-> Append(past, v)[k]]
          /\ Append(past, v)[len + 1] = v
          /\ \A k \in 1 .. len : Append(past, v)[k] = past[k]
      BY ONLY <2>2, <2>3, <2>4
    <2> QED BY <1>4, <2>5 DEF len, past
  <1> HIDE DEF t, calls, answers
  <1>7. SessionShape(t)
    <2>1. JavaShape(t.java)
      BY <1>1, <1>2, <1>3, OutcomeGrows
    <2> QED BY <1>3, <1>5, <1>6, <2>1 DEF SessionShape
  <1>8. Follows(s, t, c, v, n)
    <2>1. n \in Nat /\ \A k \in DOMAIN s.calls : k \in Nat /\ k < n
      BY <1>4
    <2> HIDE DEF n
    <2> QED BY <1>3, <1>5, <1>6, <2>1 DEF Follows
  <1>9. Later(s, t, c, v, n)
    BY <1>2, <1>3, <1>8 DEF Later
  <1> HIDE DEF n
  <1>10. SessionInv(t)
    BY <1>7, <1>9, MembersStayAsked, StringsStayMade, ArraysStayRead,
       ArraysStayAnswered, CopiesStayKept, PointersStayKept,
       OnlyFullStillRefuses DEF SessionInv
  <1> QED BY <1>10 DEF t

JavaInv == call.fn = "java" => SessionInv(call)

(* Of any session, at every moment: a string is its own token; a pointer   *)
(* the engine was ever given still shows the string or array it was given  *)
(* for; two pointers are the same only for one token; the controller's     *)
(* arrays stay the same; and only a full region refuses a string.          *)
THEOREM EngineCanTrustJava == JavaSpec => []JavaKeepsItsWord
  <1>1. call = NoCall => JavaInv
    BY DEF NoCall, JavaInv
  <1>2. JavaInv /\ [Java \/ call'.fn # "java"]_call => JavaInv'
    <2> SUFFICES ASSUME JavaInv, [Java \/ call'.fn # "java"]_call
                 PROVE  JavaInv'
      OBVIOUS
    <2>1. CASE call' = call
      BY <2>1 DEF JavaInv
    <2>2. CASE call'.fn # "java"
      BY <2>2 DEF JavaInv
    <2>3. CASE call' = Opened
      BY <2>3, OpenedIsSound DEF JavaInv
    <2>4. ASSUME call.fn = "java", NEW c \in JavaCalls,
                 call' = AfterCall(call, c)
          PROVE  JavaInv'
      <3>1. SessionInv(call)
        BY <2>4 DEF JavaInv
      <3>2. SessionInv(AfterCall(call, c))
        BY <3>1, CalledIsSound
      <3> QED BY <2>4, <3>2 DEF JavaInv
    <2> QED BY <2>1, <2>2, <2>3, <2>4 DEF Java, Called
  <1>3. JavaInv => JavaKeepsItsWord
    BY WordIsKept DEF JavaInv, JavaKeepsItsWord
  <1> QED BY <1>1, <1>2, <1>3, PTL DEF JavaSpec

-----------------------------------------------------------------------------
(* ElfLoader: whatever an image is made of.  WellLoaded is what holds of a *)
(* load at every moment: where it has failed, the reason; before that,     *)
(* what the segments, symbols, relocations and tables read so far have     *)
(* made of memory, of the imports and of the two regions (Linked), in      *)
(* parts of their own.  A step adds one entry to the image, and each entry *)
(* has a lemma that says it keeps Linked: SegmentKeeps, SymbolKeeps (by    *)
(* NoImportKeeps, GuestKeeps, ObjectKeeps, ThunkKeeps), RelocationKeeps.   *)
SessionFields == {"fn", "stage", "l", "image", "put", "table", "bound"}
LoaderFields == {"error", "mem", "hi", "thunks", "tramp", "data", "imports",
                 "objects", "exports"}
ImageFields == {"tls", "segments", "textrel", "symbols", "relocations"}

Shaped(s) ==
  /\ DOMAIN s = SessionFields
  /\ DOMAIN s.l = LoaderFields /\ DOMAIN s.image = ImageFields
  /\ s.image.segments \in Seq(Segments)
  /\ s.image.symbols \in Seq(Symbols)
  /\ s.image.relocations \in Seq(Relocations)

(* Segments lie apart and `hi` is where the last of them ends.             *)
SegmentsApart(image) ==
  \A s, t \in ToSet(image.segments) :
    s # t => Place(s) \cap Place(t) = {}

EndsAtHi(image, l) ==
  /\ l.hi \in Nat
  /\ \A s \in ToSet(image.segments) : s.vaddr + s.memsz <= l.hi
  /\ l.hi = 0 \/ \E s \in ToSet(image.segments) : l.hi = s.vaddr + s.memsz

(* The i-th trampoline, and what memory holds beside the image.            *)
Trampoline(i) == Trampolines + 8 * (i - 1)

TrampolinesIn(l) == {Trampoline(i) : i \in DOMAIN l.thunks}

InMemory(image, l) ==
  /\ DOMAIN l.mem = ImageWords(image) \cup TrampolinesIn(l)
  /\ \A i \in DOMAIN l.thunks : l.mem[Trampoline(i)] = [svc |-> i - 1]

(* A word holds what the file has until a relocation names it.             *)
Unnamed(image, a) ==
  \A r \in ToSet(image.relocations) :
    r.type # "NONE" => a # ImageBase + r.where

Meant(image, l, r) ==
  LET a == ImageBase + r.where
      sym == image.symbols[r.symbol]
  IN /\ r.type \in Handled /\ a \in ImageWords(image)
     /\ r.symbol \in DOMAIN image.symbols
     /\ r.type # "RELATIVE" => sym.defined \/ sym.name \in DOMAIN l.imports
     /\ l.mem[a] = Relocated(FileWord(image, a), r.type, resolve(l, sym))

Patching(image, l) ==
  /\ \A a \in ImageWords(image) :
       Unnamed(image, a) => l.mem[a] = FileWord(image, a)
  /\ \A r \in ToSet(image.relocations) : r.type # "NONE" => Meant(image, l, r)

(* What an import's address is, and whose name it is.                      *)
ImportedAs(l, sym) ==
  /\ sym.name \in DOMAIN l.imports
  /\ sym.name \in DOMAIN Guest => l.imports[sym.name] = Guest[sym.name]
  /\ (sym.name \notin DOMAIN Guest /\ sym.object) =>
       /\ sym.name \in DOMAIN l.objects
       /\ l.imports[sym.name] = l.objects[sym.name].addr
  /\ (sym.name \notin DOMAIN Guest /\ ~sym.object) =>
       \E i \in DOMAIN l.thunks :
         l.thunks[i] = sym.name /\ l.imports[sym.name] = Trampoline(i)

Imported(image, l) ==
  /\ \A sym \in ToSet(image.symbols) :
       (~sym.defined /\ sym.name # "") => ImportedAs(l, sym)
  /\ \A name \in DOMAIN l.imports :
       \E sym \in ToSet(image.symbols) :
         ~sym.defined /\ sym.name = name /\ name # ""

(* The two regions imports are given places in.                            *)
ThunksInRoom(l) ==
  /\ l.thunks \in Seq(DOMAIN l.imports)
  /\ DOMAIN l.tramp = {"next", "limit"}
  /\ l.tramp.next = Trampolines + 8 * Len(l.thunks)
  /\ l.tramp.limit = Trampolines + TrampSize
  /\ \A i \in DOMAIN l.thunks : l.imports[l.thunks[i]] = Trampoline(i)

ObjectsInRoom(l) ==
  /\ DOMAIN l.data = {"next", "limit"}
  /\ l.data.next \in Nat /\ DataImports <= l.data.next
  /\ l.data.limit = DataImports + DataSize
  /\ DOMAIN l.objects \subseteq DOMAIN l.imports
  /\ \A x \in DOMAIN l.objects :
       /\ l.objects[x].addr \in Nat /\ l.objects[x].size \in Nat
       /\ l.objects[x].addr + l.objects[x].size <= l.data.next
  /\ ObjectsApart(l)
  /\ \A a \in DataImports .. l.data.next - 1 :
       a % 16 = 0 => \E x \in DOMAIN l.objects : a \in Storage(l, x)

(* The tables put in so far, the last to have a name winning.              *)
TablesIn(s) ==
  /\ s.put \in 0 .. Len(Tables)
  /\ DOMAIN s.table = UNION {Tables[k] : k \in 1 .. s.put}
  /\ \A name \in DOMAIN s.table :
       /\ s.table[name] \in 1 .. s.put
       /\ name \in Tables[s.table[name]]
       /\ \A k \in 1 .. s.put : name \in Tables[k] => k <= s.table[name]

InStage(s) ==
  /\ s.stage \in {"segments", "symbols", "relocations", "tables", "bound"}
  /\ s.stage # "segments" => ImageBase + s.l.hi <= ImageLimit
  /\ s.stage = "segments" => s.image.symbols = <<>>
  /\ s.stage \in {"segments", "symbols"} => s.image.relocations = <<>>
  /\ s.stage = "bound" =>
       s.put = Len(Tables) /\ s.bound = bind_thunks(s.l.thunks, s.table)

Linked(image, l) ==
  /\ SegmentsApart(image) /\ EndsAtHi(image, l)
  /\ InMemory(image, l) /\ Patching(image, l)
  /\ Imported(image, l) /\ ThunksInRoom(l) /\ ObjectsInRoom(l)

WellLoaded(s) ==
  IF s.l.error = ""
  THEN Shaped(s) /\ InStage(s) /\ TablesIn(s) /\ Linked(s.image, s.l)
  ELSE HasReason(s.image, s.l) /\ s.stage # "bound"

LoadInv == call.fn = "load" => WellLoaded(call)


-----------------------------------------------------------------------------
(* What each change of the loader leaves.                                  *)
SameBut(l, m, fields) ==
  /\ DOMAIN m = LoaderFields
  /\ \A f \in LoaderFields \ fields : m[f] = l[f]

Fine(l) == l.error = ""

LEMMA FailedIs ==
  ASSUME NEW l, NEW why, DOMAIN l = LoaderFields
  PROVE  SameBut(l, Failed(l, why), {"error"}) /\ Failed(l, why).error = why
  BY DEF SameBut, Failed, LoaderFields

LEMMA MapSegmentIs ==
  ASSUME NEW l, NEW s, DOMAIN l = LoaderFields
  PROVE  /\ SameBut(l, MapSegment(l, s), {"mem", "hi"})
         /\ MapSegment(l, s).mem = Written(l.mem, Mapped(s))
         /\ MapSegment(l, s).hi = Max({l.hi, s.vaddr + s.memsz})
  BY DEF SameBut, MapSegment, LoaderFields


LEMMA ReadSegmentIs ==
  ASSUME NEW s, Shaped(s), NEW seg
  PROVE  LET t == ReadSegment(s, seg)
         IN /\ DOMAIN t = SessionFields /\ DOMAIN t.image = ImageFields
            /\ t.fn = s.fn /\ t.stage = s.stage /\ t.put = s.put
            /\ t.table = s.table /\ t.bound = s.bound
            /\ t.l = MapSegment(s.l, seg)
            /\ t.image.segments = Append(s.image.segments, seg)
            /\ t.image.symbols = s.image.symbols
            /\ t.image.relocations = s.image.relocations
  BY DEF Shaped, ReadSegment, SessionFields, ImageFields

LEMMA ReadDynamicIs ==
  ASSUME NEW s, Shaped(s), NEW textrel
  PROVE  LET t == ReadDynamic(s, textrel)
         IN /\ DOMAIN t = SessionFields /\ DOMAIN t.image = ImageFields
            /\ t.fn = s.fn /\ t.stage = "symbols" /\ t.put = s.put
            /\ t.table = s.table /\ t.bound = s.bound
            /\ Fine(AfterSegments(s.l)) =>
                 t.l = parse_dynamic(AfterSegments(s.l), textrel)
            /\ ~Fine(AfterSegments(s.l)) => t.l = AfterSegments(s.l)
            /\ t.image.textrel = textrel
            /\ t.image.segments = s.image.segments
            /\ t.image.symbols = s.image.symbols
            /\ t.image.relocations = s.image.relocations
  BY DEF Shaped, ReadDynamic, Fine, SessionFields, ImageFields

LEMMA ReadSymbolIs ==
  ASSUME NEW s, Shaped(s), NEW sym
  PROVE  LET t == ReadSymbol(s, sym)
         IN /\ DOMAIN t = SessionFields /\ DOMAIN t.image = ImageFields
            /\ t.fn = s.fn /\ t.stage = s.stage /\ t.put = s.put
            /\ t.table = s.table /\ t.bound = s.bound
            /\ t.l = Bind(s.l, sym)
            /\ t.image.symbols = Append(s.image.symbols, sym)
            /\ t.image.segments = s.image.segments
            /\ t.image.relocations = s.image.relocations
  BY DEF Shaped, ReadSymbol, SessionFields, ImageFields

LEMMA ReadRelocationIs ==
  ASSUME NEW s, Shaped(s), NEW r
  PROVE  LET t == ReadRelocation(s, r)
         IN /\ DOMAIN t = SessionFields /\ DOMAIN t.image = ImageFields
            /\ t.fn = s.fn /\ t.stage = "relocations" /\ t.put = s.put
            /\ t.table = s.table /\ t.bound = s.bound
            /\ t.l = Relocate(s.l, s.image, r)
            /\ t.image.relocations = Append(s.image.relocations, r)
            /\ t.image.segments = s.image.segments
            /\ t.image.symbols = s.image.symbols
  BY DEF Shaped, ReadRelocation, SessionFields, ImageFields

LEMMA PutTableIs ==
  ASSUME NEW s, Shaped(s)
  PROVE  LET t == PutTable(s)
         IN /\ DOMAIN t = SessionFields
            /\ t.fn = s.fn /\ t.stage = "tables" /\ t.put = s.put + 1
            /\ t.table = PutIn(s.table, s.put + 1) /\ t.bound = s.bound
            /\ t.l = s.l /\ t.image = s.image
  BY DEF Shaped, PutTable, SessionFields

LEMMA BindThunksIs ==
  ASSUME NEW s, Shaped(s)
  PROVE  LET t == BindThunks(s)
         IN /\ DOMAIN t = SessionFields
            /\ t.fn = s.fn /\ t.stage = "bound" /\ t.put = s.put
            /\ t.table = s.table
            /\ t.bound = bind_thunks(s.l.thunks, s.table)
            /\ t.l = s.l /\ t.image = s.image
  BY DEF Shaped, BindThunks, SessionFields

-----------------------------------------------------------------------------
(* What the image is made of, one more of a kind.                          *)
LEMMA ToSetAppend ==
  ASSUME NEW S, NEW q \in Seq(S), NEW x
  PROVE  ToSet(Append(q, x)) = ToSet(q) \cup {x}
  <1>1. /\ DOMAIN q = 1 .. Len(q) /\ Len(q) \in Nat
        /\ DOMAIN Append(q, x) = 1 .. Len(q) + 1
        /\ \A i \in 1 .. Len(q) : Append(q, x)[i] = q[i]
        /\ Append(q, x)[Len(q) + 1] = x
    OBVIOUS
  <1> DEFINE p == Append(q, x)
  <1> HIDE DEF p
  <1>2. \A y \in ToSet(p) : y \in ToSet(q) \cup {x}
    BY <1>1 DEF ToSet, p
  <1>3. \A y \in ToSet(q) \cup {x} : y \in ToSet(p)
    <2>1. \A i \in 1 .. Len(q) : i \in DOMAIN p /\ p[i] = q[i]
      BY <1>1 DEF p
    <2>2. Len(q) + 1 \in DOMAIN p /\ p[Len(q) + 1] = x
      BY <1>1 DEF p
    <2> QED
      BY <1>1, <2>1, <2>2 DEF ToSet
  <1> QED
    BY <1>2, <1>3 DEF p

LEMMA ToSetIn ==
  ASSUME NEW S, NEW q \in Seq(S)
  PROVE  /\ \A x \in ToSet(q) : x \in S
         /\ q = <<>> => ToSet(q) = {}
         /\ \A i \in DOMAIN q : q[i] \in ToSet(q)
  BY DEF ToSet

LEMMA SegmentsAre ==
  ASSUME NEW s \in Segments
  PROVE  /\ s.vaddr \in Nat /\ s.memsz \in Nat /\ ImageBase \in Nat
         /\ DOMAIN Mapped(s) = Place(s)
         /\ \A a \in Place(s) :
              /\ a \in Int /\ Mapped(s)[a] \in Int
              /\ ImageBase + s.vaddr <= a
              /\ a < ImageBase + s.vaddr + s.memsz
  <1>1. /\ s.vaddr \in Nat /\ s.memsz \in Nat /\ s.file \in Seq(Int)
        /\ ImageBase \in Nat
    BY ImageAssumption, LoaderAssumption
       DEF ImageAssumption, LoaderAssumption
  <1>2. \A a \in Place(s) :
          /\ a \in Int /\ ImageBase + s.vaddr <= a
          /\ a < ImageBase + s.vaddr + s.memsz
    BY <1>1 DEF Place
  <1>3. ASSUME NEW a \in Place(s)
        PROVE  Mapped(s)[a] \in Int
    <2> DEFINE i == a - ImageBase - s.vaddr + 1
    <2>1. i \in Int /\ i >= 1
      BY <1>1, <1>2
    <2>2. Mapped(s)[a] = IF i <= Len(s.file) THEN s.file[i] ELSE 0
      BY <1>3 DEF Mapped
    <2>3. i <= Len(s.file) => s.file[i] \in Int
      BY <1>1, <2>1
    <2> QED
      BY <2>2, <2>3
  <1> QED
    BY <1>1, <1>2, <1>3 DEF Mapped

LEMMA FileWordIs ==
  ASSUME NEW image, image.segments \in Seq(Segments), SegmentsApart(image),
         NEW s \in ToSet(image.segments), NEW a \in Place(s)
  PROVE  /\ FileWord(image, a) = Mapped(s)[a]
         /\ FileWord(image, a) \in Int
         /\ a \in ImageWords(image)
  <1> DEFINE t == CHOOSE u \in ToSet(image.segments) : a \in Place(u)
  <1>1. t \in ToSet(image.segments) /\ a \in Place(t)
    OBVIOUS
  <1>2. t = s
    <2> HIDE DEF t
    <2> QED
      BY <1>1 DEF SegmentsApart
  <1>3. s \in Segments
    BY ToSetIn
  <1>4. FileWord(image, a) = Mapped(t)[a]
    BY DEF FileWord
  <1> QED
    BY <1>2, <1>3, <1>4, SegmentsAre DEF ImageWords

LEMMA MaxOfTwo ==
  ASSUME NEW a \in Nat, NEW b \in Nat
  PROVE  LET m == Max({a, b})
         IN m \in {a, b} /\ a <= m /\ b <= m
  <1>1. \E x \in {a, b} : \A y \in {a, b} : x >= y
    <2>1. a >= b \/ b >= a
      OBVIOUS
    <2>2. a >= a /\ b >= b
      OBVIOUS
    <2> QED
      BY <2>1, <2>2
  <1>2. Max({a, b}) \in {a, b} /\ \A y \in {a, b} : Max({a, b}) >= y
    BY <1>1 DEF Max
  <1> QED
    BY <1>2

-----------------------------------------------------------------------------
(* One more segment.                                                       *)
LEMMA NothingImported ==
  ASSUME NEW image, NEW l, Imported(image, l), ThunksInRoom(l),
         image.symbols = <<>>
  PROVE  DOMAIN l.imports = {} /\ DOMAIN l.thunks = {}
  <1>1. ToSet(image.symbols) = {}
    BY DEF ToSet
  <1>2. DOMAIN l.imports = {}
    BY <1>1 DEF Imported
  <1>3. l.thunks \in Seq(DOMAIN l.imports)
    BY DEF ThunksInRoom
  <1>4. \A i \in DOMAIN l.thunks : l.thunks[i] \in DOMAIN l.imports
    BY <1>3
  <1> QED
    BY <1>2, <1>4

LEMMA SegmentKeeps ==
  ASSUME NEW image, NEW l, NEW im, NEW m, NEW seg \in Segments,
         image.segments \in Seq(Segments),
         image.symbols = <<>>, image.relocations = <<>>,
         Linked(image, l), InOrder(image, seg),
         im.segments = Append(image.segments, seg),
         im.symbols = image.symbols, im.relocations = image.relocations,
         SameBut(l, m, {"mem", "hi"}),
         m.mem = Written(l.mem, Mapped(seg)),
         m.hi = Max({l.hi, seg.vaddr + seg.memsz})
  PROVE  Linked(im, m)
  <1> USE DEF Linked
  <1>1. /\ ToSet(im.segments) = ToSet(image.segments) \cup {seg}
        /\ im.segments \in Seq(Segments)
        /\ \A s \in ToSet(im.segments) : s \in Segments
        /\ ToSet(im.relocations) = {}
    <2>1. im.segments \in Seq(Segments)
      OBVIOUS
    <2>2. ToSet(im.segments) = ToSet(image.segments) \cup {seg}
      BY ToSetAppend
    <2>3. \A s \in ToSet(im.segments) : s \in Segments
      BY <2>1, ToSetIn
    <2>4. ToSet(im.relocations) = {}
      BY DEF ToSet
    <2> QED
      BY <2>1, <2>2, <2>3, <2>4
  <1>2. /\ m.thunks = l.thunks /\ m.tramp = l.tramp /\ m.data = l.data
        /\ m.imports = l.imports /\ m.objects = l.objects
    BY DEF SameBut, LoaderFields
  <1>3. DOMAIN l.thunks = {} /\ TrampolinesIn(l) = {} /\ TrampolinesIn(m) = {}
    BY <1>2, NothingImported DEF TrampolinesIn
  <1>4. SegmentsApart(im)
    <2>1. ASSUME NEW s \in ToSet(image.segments)
          PROVE  Place(s) \cap Place(seg) = {}
      <3>1. s.vaddr + s.memsz <= seg.vaddr /\ s \in Segments
        BY <1>1 DEF InOrder
      <3>2. \A a \in Place(s) : a < ImageBase + s.vaddr + s.memsz
        BY <3>1, SegmentsAre
      <3>3. \A a \in Place(seg) : a \in Int /\ ImageBase + seg.vaddr <= a
        BY SegmentsAre
      <3>4. /\ s.vaddr \in Nat /\ s.memsz \in Nat /\ seg.vaddr \in Nat
            /\ ImageBase \in Nat
        BY <3>1, SegmentsAre
      <3> QED
        BY <3>1, <3>2, <3>3, <3>4
    <2> QED
      BY <1>1, <2>1 DEF SegmentsApart
  <1>5. EndsAtHi(im, m)
    <2>1. l.hi \in Nat /\ seg.vaddr \in Nat /\ seg.memsz \in Nat
      BY SegmentsAre DEF EndsAtHi
    <2> DEFINE e == seg.vaddr + seg.memsz
    <2>2. e \in Nat
      BY <2>1
    <2>3. m.hi \in {l.hi, e} /\ l.hi <= m.hi /\ e <= m.hi
      <3> HIDE DEF e
      <3> QED
        BY <2>1, <2>2, MaxOfTwo DEF e
    <2>4. \A s \in ToSet(image.segments) : s.vaddr + s.memsz <= m.hi
      <3> TAKE s \in ToSet(image.segments)
      <3>1. s.vaddr \in Nat /\ s.memsz \in Nat
        BY <1>1, SegmentsAre
      <3>2. s.vaddr + s.memsz <= l.hi
        BY DEF EndsAtHi
      <3>3. m.hi \in Nat
        BY <2>1, <2>2, <2>3
      <3> QED
        BY <2>1, <2>3, <3>1, <3>2, <3>3
    <2>5. m.hi = 0 \/ \E s \in ToSet(im.segments) : m.hi = s.vaddr + s.memsz
      <3>1. CASE m.hi = e
        BY <1>1, <3>1
      <3>2. CASE m.hi = l.hi
        BY <1>1, <3>2 DEF EndsAtHi
      <3> QED
        BY <2>3, <3>1, <3>2
    <2> QED
      BY <1>1, <2>1, <2>2, <2>3, <2>4, <2>5 DEF EndsAtHi
  <1>6. ImageWords(im) = ImageWords(image) \cup Place(seg)
    BY <1>1 DEF ImageWords
  <1>7. DOMAIN Mapped(seg) = Place(seg)
    BY SegmentsAre
  <1>8. DOMAIN m.mem = ImageWords(im)
    BY <1>3, <1>6, <1>7 DEF Written, InMemory
  <1>9. ASSUME NEW a \in ImageWords(im)
        PROVE  m.mem[a] = FileWord(im, a)
    <2>1. CASE a \in Place(seg)
      <3>1. m.mem[a] = Mapped(seg)[a]
        BY <1>7, <2>1 DEF Written
      <3> QED
        BY <1>1, <1>4, <2>1, <3>1, FileWordIs
    <2>2. CASE a \notin Place(seg)
      <3>1. PICK s \in ToSet(image.segments) : a \in Place(s)
        BY <1>6, <2>2 DEF ImageWords
      <3>2. FileWord(im, a) = Mapped(s)[a]
        BY <1>1, <1>4, <3>1, FileWordIs
      <3>3. FileWord(image, a) = Mapped(s)[a]
        BY <3>1, FileWordIs
      <3>4. a \in ImageWords(image)
        BY <3>1 DEF ImageWords
      <3>5. m.mem[a] = l.mem[a]
        BY <1>7, <2>2, <3>4 DEF Written, InMemory
      <3>6. l.mem[a] = FileWord(image, a)
        BY <3>4 DEF Patching, Unnamed, ToSet
      <3> QED
        BY <3>2, <3>3, <3>5, <3>6
    <2> QED
      BY <2>1, <2>2
  <1>10. InMemory(im, m) /\ Patching(im, m)
    BY <1>1, <1>2, <1>3, <1>8, <1>9 DEF InMemory, Patching
  <1>11. Imported(im, m) /\ ThunksInRoom(m) /\ ObjectsInRoom(m)
    <2>1. \A sym : ImportedAs(l, sym) => ImportedAs(m, sym)
      BY <1>2 DEF ImportedAs
    <2>2. Imported(im, m)
      BY <1>2, <2>1 DEF Imported
    <2>3. ThunksInRoom(m)
      BY <1>2 DEF ThunksInRoom
    <2>4. ObjectsInRoom(m)
      BY <1>2 DEF ObjectsInRoom, ObjectsApart, Storage
    <2> QED
      BY <2>2, <2>3, <2>4
  <1> QED
    BY <1>4, <1>5, <1>10, <1>11

-----------------------------------------------------------------------------
(* The places that are given out.                                          *)
LEMMA RegionsAre ==
  /\ Trampolines \in Nat /\ TrampSize \in Nat /\ Trampolines % 8 = 0
  /\ DataImports \in Nat /\ DataSize \in Nat
  /\ ImageBase \in Nat /\ ImageLimit \in Nat
  /\ 0 < Trampolines /\ ImageLimit <= Trampolines /\ 0 < DataImports
  /\ \A i \in Nat : Trampoline(i) \in Int
  BY LoaderAssumption DEF LoaderAssumption, Trampoline

ThunkAdded(l, m, name) ==
  LET next == Trampolines + 8 * Len(l.thunks)
  IN /\ SameBut(l, m, {"tramp", "mem", "thunks", "imports"})
     /\ DOMAIN m.tramp = {"next", "limit"}
     /\ m.tramp.next = next + 8
     /\ m.tramp.limit = l.tramp.limit
     /\ m.mem = Entered(l.mem, next, [svc |-> Len(l.thunks)])
     /\ m.thunks = Append(l.thunks, name)
     /\ m.imports = Entered(l.imports, name, next)

LEMMA AddTrampolineIs ==
  ASSUME NEW l, NEW name, DOMAIN l = LoaderFields, ThunksInRoom(l)
  PROVE  LET m == AddTrampoline(l, name)
             next == Trampolines + 8 * Len(l.thunks)
         IN IF next + 8 > Trampolines + TrampSize
            THEN m = Failed(l, "out of trampoline space")
            ELSE ThunkAdded(l, m, name)
  <1> DEFINE m == AddTrampoline(l, name)
             n == Len(l.thunks)
             next == Trampolines + 8 * n
             t == BumpAlloc(l.tramp, 8, 8)
  <1>1. /\ n \in Nat /\ Trampolines \in Nat /\ 0 < Trampolines
        /\ Trampolines % 8 = 0 /\ TrampSize \in Nat
    BY RegionsAre DEF ThunksInRoom
  <1>2. Aligned(l.tramp.next, 8) = next
    <2>1. l.tramp.next = next
      BY DEF ThunksInRoom
    <2>2. 8 * ((next + 8 - 1) \div 8) = next
      <3> DEFINE k == (Trampolines \div 8) + n
      <3>1. k \in Int /\ next = 8 * k
        <4> DEFINE j == Trampolines \div 8
        <4>1. j \in Int /\ Trampolines = 8 * j
          BY ONLY <1>1
        <4> HIDE DEF j, n
        <4>2. 8 * j + 8 * n = 8 * (j + n) /\ j + n \in Int
          BY ONLY <1>1, <4>1
        <4> QED
          BY <4>1, <4>2 DEF j
      <3>2. (8 * k + 8 - 1) \div 8 = k
        <4> HIDE DEF k
        <4> QED
          BY ONLY <3>1
      <3> QED
        BY <3>1, <3>2
    <2> QED
      BY <2>1, <2>2 DEF Aligned
  <1>3. CASE next + 8 > Trampolines + TrampSize
    <2>1. t.addr = 0
      BY <1>2, <1>3 DEF BumpAlloc, ThunksInRoom
    <2>2. m = Failed(l, "out of trampoline space")
      BY <2>1 DEF AddTrampoline
    <2> QED
      BY <1>3, <2>2
  <1>4. CASE ~(next + 8 > Trampolines + TrampSize)
    <2>1. t = [addr |-> next, left |-> [l.tramp EXCEPT !.next = next + 8]]
      BY <1>2, <1>4 DEF BumpAlloc, ThunksInRoom
    <2>2. /\ t.addr = next /\ DOMAIN t.left = {"next", "limit"}
          /\ t.left.next = next + 8 /\ t.left.limit = l.tramp.limit
      <3> DEFINE to == next + 8
      <3>1. t = [addr |-> next, left |-> [l.tramp EXCEPT !.next = to]]
        BY <2>1
      <3> HIDE DEF to
      <3>2. /\ t.addr = next /\ DOMAIN t.left = {"next", "limit"}
            /\ t.left.next = to /\ t.left.limit = l.tramp.limit
        BY <3>1 DEF ThunksInRoom
      <3> QED
        BY <3>2 DEF to
    <2>3. t.addr # 0
      BY <1>1, <2>2
    <2> HIDE DEF t
    <2>4. m = [l EXCEPT !.tramp = t.left,
                        !.mem = Entered(@, t.addr, [svc |-> Len(l.thunks)]),
                        !.thunks = Append(@, name),
                        !.imports = Entered(@, name, t.addr)]
      BY <2>3 DEF AddTrampoline, t
    <2>5. /\ SameBut(l, m, {"tramp", "mem", "thunks", "imports"})
          /\ m.tramp = t.left
          /\ m.mem = Entered(l.mem, t.addr, [svc |-> n])
          /\ m.thunks = Append(l.thunks, name)
          /\ m.imports = Entered(l.imports, name, t.addr)
      BY <2>4 DEF SameBut, LoaderFields
    <2> QED
      BY <1>4, <2>2, <2>5 DEF ThunkAdded
  <1> QED
    BY <1>3, <1>4

AtData(l) == Aligned(l.data.next, 16)

ObjectAdded(l, m, name, size) ==
  /\ SameBut(l, m, {"data", "objects", "imports"})
  /\ DOMAIN m.data = {"next", "limit"}
  /\ m.data.next = AtData(l) + size
  /\ m.data.limit = l.data.limit
  /\ m.objects = Entered(l.objects, name, [addr |-> AtData(l), size |-> size])
  /\ m.imports = Entered(l.imports, name, AtData(l))

LEMMA NextPlace ==
  ASSUME NEW n \in Nat
  PROVE  /\ Aligned(n, 16) \in Nat /\ n <= Aligned(n, 16)
         /\ \A a \in Nat : n <= a /\ a % 16 = 0 => Aligned(n, 16) <= a
  BY DEF Aligned

LEMMA AddDataIs ==
  ASSUME NEW l, NEW name, NEW size, DOMAIN l = LoaderFields,
         ObjectsInRoom(l)
  PROVE  LET m == AddData(l, name, size)
             next == AtData(l)
         IN IF next + size > DataImports + DataSize
            THEN m = Failed(l, "out of data-import storage")
            ELSE ObjectAdded(l, m, name, size)
  <1> DEFINE m == AddData(l, name, size)
             next == AtData(l)
             d == BumpAlloc(l.data, size, 16)
  <1>1. l.data.next \in Nat /\ DataImports <= l.data.next
    BY DEF ObjectsInRoom
  <1>2. next \in Nat /\ next # 0
    <2>1. next \in Nat /\ l.data.next <= next
      BY <1>1, NextPlace DEF AtData
    <2> QED
      BY <1>1, <2>1, RegionsAre
  <1>3. l.data.limit = DataImports + DataSize
    BY DEF ObjectsInRoom
  <1>4. CASE next + size > DataImports + DataSize
    <2>1. d.addr = 0
      BY <1>3, <1>4 DEF BumpAlloc, AtData
    <2>2. m = Failed(l, "out of data-import storage")
      BY <2>1 DEF AddData
    <2> QED
      BY <1>4, <2>2
  <1>5. CASE ~(next + size > DataImports + DataSize)
    <2> DEFINE to == next + size
    <2>1. d = [addr |-> next, left |-> [l.data EXCEPT !.next = to]]
      BY <1>3, <1>5 DEF BumpAlloc, AtData
    <2>2. /\ d.addr = next /\ DOMAIN d.left = {"next", "limit"}
          /\ d.left.next = to /\ d.left.limit = l.data.limit
      BY <2>1 DEF ObjectsInRoom
    <2>3. d.addr # 0
      BY <1>2, <2>2
    <2> HIDE DEF d
    <2>4. m = [l EXCEPT !.data = d.left,
                        !.objects = Entered(@, name, [addr |-> d.addr,
                                                      size |-> size]),
                        !.imports = Entered(@, name, d.addr)]
      BY <2>3 DEF AddData, d
    <2>5. /\ SameBut(l, m, {"data", "objects", "imports"})
          /\ m.data = d.left
          /\ m.objects = Entered(l.objects, name,
                                 [addr |-> d.addr, size |-> size])
          /\ m.imports = Entered(l.imports, name, d.addr)
      BY <2>4 DEF SameBut, LoaderFields
    <2> QED
      BY <1>5, <2>2, <2>5 DEF ObjectAdded
  <1> QED
    BY <1>4, <1>5

-----------------------------------------------------------------------------
(* One more symbol.                                                        *)
LEMMA ThunksAre ==
  ASSUME NEW l, ThunksInRoom(l)
  PROVE  LET n == Len(l.thunks)
         IN /\ n \in Nat /\ DOMAIN l.thunks = 1 .. n
            /\ l.thunks \in Seq(DOMAIN l.imports)
            /\ \A i \in 1 .. n : l.thunks[i] \in DOMAIN l.imports
  BY DEF ThunksInRoom

NewSymbol(image, im, sym) ==
  /\ image.segments \in Seq(Segments)
  /\ image.symbols \in Seq(Symbols) /\ sym \in Symbols
  /\ im.symbols = Append(image.symbols, sym)
  /\ im.segments = image.segments
  /\ image.relocations = <<>> /\ im.relocations = <<>>

LEMMA MoreSymbols ==
  ASSUME NEW image, NEW im, NEW sym, NewSymbol(image, im, sym)
  PROVE  /\ ToSet(im.symbols) = ToSet(image.symbols) \cup {sym}
         /\ ToSet(im.relocations) = {} /\ ToSet(image.relocations) = {}
         /\ im.segments = image.segments
         /\ ImageWords(im) = ImageWords(image)
         /\ \A a : FileWord(im, a) = FileWord(image, a)
         /\ SegmentsApart(image) => SegmentsApart(im)
         /\ \A l, m : m.hi = l.hi => (EndsAtHi(image, l) => EndsAtHi(im, m))
  <1> USE DEF NewSymbol
  <1>1. ToSet(im.symbols) = ToSet(image.symbols) \cup {sym}
    BY ToSetAppend
  <1>2. ToSet(im.relocations) = {} /\ ToSet(image.relocations) = {}
    BY DEF ToSet
  <1>3. im.segments = image.segments
    OBVIOUS
  <1>4. ImageWords(im) = ImageWords(image)
    BY <1>3 DEF ImageWords
  <1>5. \A a : FileWord(im, a) = FileWord(image, a)
    BY <1>3 DEF FileWord
  <1>6. SegmentsApart(image) => SegmentsApart(im)
    BY <1>3 DEF SegmentsApart
  <1>7. ASSUME NEW l, NEW m, m.hi = l.hi, EndsAtHi(image, l)
        PROVE  EndsAtHi(im, m)
    BY <1>3, <1>7 DEF EndsAtHi
  <1> QED
    BY <1>1, <1>2, <1>3, <1>4, <1>5, <1>6, <1>7

LEMMA ImportedStays ==
  ASSUME NEW l, NEW m, NEW sym, ImportedAs(l, sym),
         Grown(l.imports, m.imports), Grown(l.objects, m.objects),
         Grown(l.thunks, m.thunks)
  PROVE  ImportedAs(m, sym)
  BY DEF ImportedAs, Grown

LEMMA GrownSelf ==
  ASSUME NEW f PROVE Grown(f, f)
  BY DEF Grown

(* A symbol that changes no import.                                        *)
LEMMA NoImportKeeps ==
  ASSUME NEW image, NEW l, NEW im, NEW m, NEW sym,
         NewSymbol(image, im, sym), Linked(image, l),
         SameBut(l, m, {"exports"}),
         (~sym.defined /\ sym.name # "") => ImportedAs(l, sym)
  PROVE  Linked(im, m)
  <1>1. /\ m.mem = l.mem /\ m.hi = l.hi
        /\ m.thunks = l.thunks /\ m.tramp = l.tramp /\ m.data = l.data
        /\ m.imports = l.imports /\ m.objects = l.objects
    BY DEF SameBut, LoaderFields
  <1>2. Linked(image, l)
    OBVIOUS
  <1>0. /\ ToSet(im.symbols) = ToSet(image.symbols) \cup {sym}
        /\ ToSet(im.relocations) = {}
        /\ ImageWords(im) = ImageWords(image)
        /\ \A a : FileWord(im, a) = FileWord(image, a)
    BY ONLY NewSymbol(image, im, sym), MoreSymbols
  <1> USE DEF Linked
  <1>3. SegmentsApart(im) /\ EndsAtHi(im, m)
    BY <1>1, MoreSymbols
  <1>4. InMemory(im, m)
    BY <1>0, <1>1 DEF InMemory, TrampolinesIn
  <1>5. Patching(im, m)
    <2>1. \A a \in ImageWords(image) : l.mem[a] = FileWord(image, a)
      BY MoreSymbols DEF Patching, Unnamed
    <2> QED
      BY <1>0, <1>1, <2>1 DEF Patching
  <1>6. Imported(im, m)
    <2>1. \A s : ImportedAs(l, s) => ImportedAs(m, s)
      BY <1>1, GrownSelf, ImportedStays
    <2> QED
      <3>1. \A s \in ToSet(im.symbols) :
              (~s.defined /\ s.name # "") => ImportedAs(m, s)
        BY <1>0, <2>1 DEF Imported
      <3>2. \A name \in DOMAIN m.imports :
              \E s \in ToSet(im.symbols) :
                ~s.defined /\ s.name = name /\ name # ""
        BY <1>0, <1>1 DEF Imported
      <3> QED
        BY <3>1, <3>2 DEF Imported
  <1>7. ThunksInRoom(m)
    BY <1>1 DEF ThunksInRoom
  <1>8. ObjectsInRoom(m)
    BY <1>1 DEF ObjectsInRoom, ObjectsApart, Storage
  <1> QED
    BY <1>3, <1>4, <1>5, <1>6, <1>7, <1>8

(* A symbol that is a new import.                                          *)
LEMMA ImportKeeps ==
  ASSUME NEW image, NEW l, NEW im, NEW m, NEW sym, NEW v,
         NewSymbol(image, im, sym), Imported(image, l),
         ~sym.defined, sym.name # "", sym.name \notin DOMAIN l.imports,
         m.imports = Entered(l.imports, sym.name, v),
         Grown(l.objects, m.objects), Grown(l.thunks, m.thunks),
         ImportedAs(m, sym)
  PROVE  Imported(im, m)
  <1>1. Grown(l.imports, m.imports)
    BY DEF Grown, Entered
  <1>2. \A s : ImportedAs(l, s) => ImportedAs(m, s)
    BY <1>1, ImportedStays
  <1>3. DOMAIN m.imports = DOMAIN l.imports \cup {sym.name}
    BY DEF Entered
  <1>4. ToSet(im.symbols) = ToSet(image.symbols) \cup {sym}
    BY MoreSymbols
  <1>5. ASSUME NEW s \in ToSet(im.symbols), ~s.defined, s.name # ""
        PROVE  ImportedAs(m, s)
    BY <1>2, <1>4, <1>5 DEF Imported
  <1>6. ASSUME NEW name \in DOMAIN m.imports
        PROVE  \E s \in ToSet(im.symbols) :
                 ~s.defined /\ s.name = name /\ name # ""
    BY <1>3, <1>4, <1>6 DEF Imported
  <1> QED
    BY <1>5, <1>6 DEF Imported

LEMMA ThunksStay ==
  ASSUME NEW l, NEW m, ThunksInRoom(l), m.thunks = l.thunks,
         m.tramp = l.tramp, Grown(l.imports, m.imports)
  PROVE  ThunksInRoom(m)
  <1>1. DOMAIN l.imports \subseteq DOMAIN m.imports
    BY DEF Grown
  <1>2. m.thunks \in Seq(DOMAIN m.imports)
    BY <1>1, SeqMonotonic DEF ThunksInRoom
  <1>3. \A i \in DOMAIN l.thunks : l.thunks[i] \in DOMAIN l.imports
    BY DEF ThunksInRoom
  <1>4. \A i \in DOMAIN m.thunks : m.imports[m.thunks[i]] = Trampoline(i)
    BY <1>3 DEF ThunksInRoom, Grown
  <1> QED
    BY <1>2, <1>4 DEF ThunksInRoom

LEMMA ObjectsStay ==
  ASSUME NEW l, NEW m, ObjectsInRoom(l), m.objects = l.objects,
         m.data = l.data, Grown(l.imports, m.imports)
  PROVE  ObjectsInRoom(m)
  <1>1. DOMAIN l.imports \subseteq DOMAIN m.imports
    BY DEF Grown
  <1>2. DOMAIN m.objects \subseteq DOMAIN m.imports
    BY <1>1 DEF ObjectsInRoom
  <1> QED
    BY <1>2 DEF ObjectsInRoom, ObjectsApart, Storage

LEMMA GuestKeeps ==
  ASSUME NEW image, NEW l, NEW im, NEW m, NEW sym,
         NewSymbol(image, im, sym), Linked(image, l),
         ~sym.defined, sym.name # "", sym.name \notin DOMAIN l.imports,
         sym.name \in DOMAIN Guest,
         SameBut(l, m, {"imports"}),
         m.imports = Entered(l.imports, sym.name, Guest[sym.name])
  PROVE  Linked(im, m)
  <1>1. /\ m.mem = l.mem /\ m.hi = l.hi
        /\ m.thunks = l.thunks /\ m.tramp = l.tramp /\ m.data = l.data
        /\ m.objects = l.objects
    BY DEF SameBut, LoaderFields
  <1>2. Linked(image, l)
    OBVIOUS
  <1>0. /\ ToSet(im.symbols) = ToSet(image.symbols) \cup {sym}
        /\ ToSet(im.relocations) = {}
        /\ ImageWords(im) = ImageWords(image)
        /\ \A a : FileWord(im, a) = FileWord(image, a)
    BY ONLY NewSymbol(image, im, sym), MoreSymbols
  <1> USE DEF Linked
  <1>3. /\ Grown(l.imports, m.imports)
        /\ DOMAIN m.imports = DOMAIN l.imports \cup {sym.name}
        /\ m.imports[sym.name] = Guest[sym.name]
    BY DEF Grown, Entered
  <1>4. SegmentsApart(im) /\ EndsAtHi(im, m)
    BY <1>1, MoreSymbols
  <1>5. InMemory(im, m)
    BY <1>0, <1>1 DEF InMemory, TrampolinesIn
  <1>6. Patching(im, m)
    <2>1. \A a \in ImageWords(image) : l.mem[a] = FileWord(image, a)
      BY MoreSymbols DEF Patching, Unnamed
    <2> QED
      BY <1>0, <1>1, <2>1 DEF Patching
  <1>7. Imported(im, m)
    <2>1. ImportedAs(m, sym)
      BY <1>3 DEF ImportedAs
    <2>2. Grown(l.objects, m.objects) /\ Grown(l.thunks, m.thunks)
      BY <1>1, GrownSelf
    <2> QED
      BY <2>1, <2>2, ImportKeeps
  <1>8. ThunksInRoom(m) /\ ObjectsInRoom(m)
    BY <1>1, <1>3, ThunksStay, ObjectsStay
  <1> QED
    BY <1>4, <1>5, <1>6, <1>7, <1>8

(* An object's storage, and the storage before it.                         *)
LEMMA ObjectIsPlaced ==
  ASSUME NEW l, NEW m, NEW name, NEW size \in Nat \ {0},
         ObjectsInRoom(l), name \notin DOMAIN l.objects,
         ObjectAdded(l, m, name, size),
         Grown(l.imports, m.imports), name \in DOMAIN m.imports
  PROVE  ObjectsInRoom(m)
  <1> DEFINE at == AtData(l)
             new == [addr |-> at, size |-> size]
  <1>1. /\ l.data.next \in Nat /\ DataImports <= l.data.next
        /\ DataImports \in Nat
    BY RegionsAre DEF ObjectsInRoom
  <1>2. /\ at \in Nat /\ l.data.next <= at
        /\ \A a \in Nat : l.data.next <= a /\ a % 16 = 0 => at <= a
    BY <1>1, NextPlace DEF AtData
  <1>3. /\ DOMAIN m.objects = DOMAIN l.objects \cup {name}
        /\ m.objects[name] = new
        /\ \A x \in DOMAIN l.objects : m.objects[x] = l.objects[x]
    <2>1. m.objects = Entered(l.objects, name, new)
      BY DEF ObjectAdded
    <2> HIDE DEF new
    <2> QED
      BY ONLY <2>1, name \notin DOMAIN l.objects DEF Entered
  <1> HIDE DEF at
  <1>4. m.objects[name].addr = at /\ m.objects[name].size = size
    BY <1>3
  <1> HIDE DEF new
  <1>5. m.data.next = at + size
    BY DEF at, ObjectAdded
  <1>6. Storage(m, name) = at .. at + size - 1
    BY <1>4 DEF Storage
  <1>7. \A x \in DOMAIN l.objects : Storage(m, x) = Storage(l, x)
    BY <1>3 DEF Storage
  <1>8. ASSUME NEW x \in DOMAIN l.objects
        PROVE  /\ l.objects[x].addr \in Nat /\ l.objects[x].size \in Nat
               /\ l.objects[x].addr + l.objects[x].size <= l.data.next
    BY DEF ObjectsInRoom
  <1>9. ASSUME NEW x \in DOMAIN m.objects
        PROVE  /\ m.objects[x].addr \in Nat /\ m.objects[x].size \in Nat
               /\ m.objects[x].addr + m.objects[x].size <= m.data.next
    <2>1. CASE x = name
      BY <1>2, <1>4, <1>5, <2>1
    <2>2. CASE x # name
      <3>1. /\ x \in DOMAIN l.objects /\ m.objects[x] = l.objects[x]
        BY <1>3, <2>2
      <3>2. /\ m.objects[x].addr \in Nat /\ m.objects[x].size \in Nat
            /\ m.objects[x].addr + m.objects[x].size <= l.data.next
        BY <1>8, <3>1
      <3> QED
        BY ONLY <3>2, <1>1, <1>2, <1>5, size \in Nat \ {0}
    <2> QED
      BY <2>1, <2>2
  <1>10. ASSUME NEW x \in DOMAIN l.objects
         PROVE  Storage(m, x) \cap Storage(m, name) = {}
    <2> DEFINE b == l.objects[x].addr
               n == l.objects[x].size
    <2>1. \A a \in Storage(m, x) : a \in Int /\ a < l.data.next
      <3>1. b \in Nat /\ n \in Nat /\ b + n <= l.data.next
        BY <1>8
      <3>2. Storage(m, x) = b .. b + n - 1
        BY <1>7 DEF Storage
      <3> HIDE DEF b, n
      <3> QED
        BY ONLY <1>1, <3>1, <3>2
    <2>2. \A a \in Storage(m, name) : at <= a
      BY <1>6
    <2> QED
      BY <1>1, <1>2, <2>1, <2>2
  <1>11. ObjectsApart(m)
    <2>1. ASSUME NEW x \in DOMAIN m.objects, NEW y \in DOMAIN m.objects,
                 x # y
          PROVE  Storage(m, x) \cap Storage(m, y) = {}
      <3>1. CASE x = name
        BY <1>3, <1>10, <2>1, <3>1
      <3>2. CASE y = name
        BY <1>3, <1>10, <2>1, <3>2
      <3>3. CASE x # name /\ y # name
        <4>1. x \in DOMAIN l.objects /\ y \in DOMAIN l.objects
          BY <1>3, <3>3
        <4>2. Storage(l, x) \cap Storage(l, y) = {}
          BY <2>1, <4>1 DEF ObjectsInRoom, ObjectsApart
        <4> QED
          BY <1>7, <4>1, <4>2
      <3> QED
        BY <3>1, <3>2, <3>3
    <2> QED
      BY <2>1 DEF ObjectsApart
  <1>12. ASSUME NEW a \in DataImports .. m.data.next - 1, a % 16 = 0
         PROVE  \E x \in DOMAIN m.objects : a \in Storage(m, x)
    <2>1. a \in Nat
      BY <1>1
    <2>2. CASE a < l.data.next
      <3>1. a \in DataImports .. l.data.next - 1
        BY <1>1, <2>1, <2>2
      <3>2. PICK x \in DOMAIN l.objects : a \in Storage(l, x)
        BY <1>12, <3>1 DEF ObjectsInRoom
      <3> QED
        BY <1>3, <1>7, <3>2
    <2>3. CASE l.data.next <= a
      <3>1. at <= a
        BY <1>2, <1>12, <2>1, <2>3
      <3>2. a \in Storage(m, name)
        BY <1>2, <1>5, <1>6, <2>1, <3>1
      <3> QED
        BY <1>3, <3>2
    <2> QED
      BY <1>1, <2>1, <2>2, <2>3
  <1>13. DOMAIN m.objects \subseteq DOMAIN m.imports
    BY <1>3 DEF ObjectsInRoom, Grown
  <1>14. m.data.next \in Nat /\ DataImports <= m.data.next
    BY <1>1, <1>2, <1>5
  <1>15. /\ m.data.limit = DataImports + DataSize
         /\ DOMAIN m.data = {"next", "limit"}
    BY DEF ObjectsInRoom, ObjectAdded
  <1> QED
    BY <1>9, <1>11, <1>12, <1>13, <1>14, <1>15 DEF ObjectsInRoom

LEMMA ObjectKeeps ==
  ASSUME NEW image, NEW l, NEW im, NEW m, NEW sym,
         NewSymbol(image, im, sym), Linked(image, l),
         ~sym.defined, sym.name # "", sym.name \notin DOMAIN l.imports,
         sym.name \notin DOMAIN Guest, sym.object, sym.size \in Nat \ {0},
         ObjectAdded(l, m, sym.name, sym.size)
  PROVE  Linked(im, m)
  <1>0. /\ ToSet(im.symbols) = ToSet(image.symbols) \cup {sym}
        /\ ToSet(im.relocations) = {}
        /\ ImageWords(im) = ImageWords(image)
        /\ \A a : FileWord(im, a) = FileWord(image, a)
    BY ONLY NewSymbol(image, im, sym), MoreSymbols
  <1>1. /\ m.mem = l.mem /\ m.hi = l.hi
        /\ m.thunks = l.thunks /\ m.tramp = l.tramp
    BY DEF ObjectAdded, SameBut, LoaderFields
  <1> USE DEF Linked
  <1> DEFINE at == AtData(l)
             new == [addr |-> at, size |-> sym.size]
  <1>2. new.addr = at
    OBVIOUS
  <1> HIDE DEF at, new
  <1>3. /\ m.objects = Entered(l.objects, sym.name, new)
        /\ m.imports = Entered(l.imports, sym.name, at)
    BY DEF ObjectAdded, at, new
  <1>4. /\ Grown(l.imports, m.imports)
        /\ DOMAIN m.imports = DOMAIN l.imports \cup {sym.name}
        /\ m.imports[sym.name] = at
    BY ONLY <1>3, sym.name \notin DOMAIN l.imports DEF Grown, Entered
  <1>5. sym.name \notin DOMAIN l.objects
    BY DEF ObjectsInRoom
  <1>6. /\ Grown(l.objects, m.objects)
        /\ DOMAIN m.objects = DOMAIN l.objects \cup {sym.name}
        /\ m.objects[sym.name] = new
    BY ONLY <1>3, <1>5 DEF Grown, Entered
  <1>7. SegmentsApart(im) /\ EndsAtHi(im, m)
    BY <1>1, MoreSymbols
  <1>8. InMemory(im, m)
    BY <1>0, <1>1 DEF InMemory, TrampolinesIn
  <1>9. Patching(im, m)
    <2>1. \A a \in ImageWords(image) : l.mem[a] = FileWord(image, a)
      BY MoreSymbols DEF Patching, Unnamed
    <2> QED
      BY <1>0, <1>1, <2>1 DEF Patching
  <1>10. Imported(im, m)
    <2>1. ImportedAs(m, sym)
      BY <1>2, <1>4, <1>6 DEF ImportedAs
    <2>2. Grown(l.thunks, m.thunks)
      BY <1>1, GrownSelf
    <2> QED
      BY <1>3, <1>6, <2>1, <2>2, ImportKeeps
  <1>11. ThunksInRoom(m)
    BY <1>1, <1>4, ThunksStay
  <1>12. ObjectsInRoom(m)
    <2>1. sym.name \in DOMAIN m.imports
      BY <1>4
    <2>2. ObjectsInRoom(l)
      OBVIOUS
    <2> QED
      BY <1>4, <1>5, <2>1, <2>2, ObjectIsPlaced
  <1> QED
    BY <1>7, <1>8, <1>9, <1>10, <1>11, <1>12

(* A trampoline lies beyond the image and the trampolines before it.       *)
LEMMA ThunkKeeps ==
  ASSUME NEW image, NEW l, NEW im, NEW m, NEW sym,
         NewSymbol(image, im, sym), Linked(image, l),
         ImageBase + l.hi <= ImageLimit,
         ~sym.defined, sym.name # "", sym.name \notin DOMAIN l.imports,
         sym.name \notin DOMAIN Guest, ~sym.object,
         ThunkAdded(l, m, sym.name)
  PROVE  Linked(im, m)
  <1>0. /\ ToSet(im.symbols) = ToSet(image.symbols) \cup {sym}
        /\ ToSet(im.relocations) = {}
        /\ ImageWords(im) = ImageWords(image)
        /\ \A a : FileWord(im, a) = FileWord(image, a)
    BY ONLY NewSymbol(image, im, sym), MoreSymbols
  <1>1. /\ m.hi = l.hi /\ m.data = l.data /\ m.objects = l.objects
    BY DEF ThunkAdded, SameBut, LoaderFields
  <1> USE DEF Linked
  <1> DEFINE n == Len(l.thunks)
             at == Trampolines + 8 * n
             new == [svc |-> n]
             name == sym.name
  <1>2. /\ n \in Nat /\ DOMAIN l.thunks = 1 .. n
        /\ l.thunks \in Seq(DOMAIN l.imports)
        /\ \A i \in 1 .. n : l.thunks[i] \in DOMAIN l.imports
    <2>1. ThunksInRoom(l)
      OBVIOUS
    <2> QED
      BY ONLY <2>1, ThunksAre
  <1>3. /\ at = Trampoline(n + 1) /\ at \in Nat /\ Trampolines <= at
        /\ \A i \in 1 .. n : Trampoline(i) \in Int /\ Trampoline(i) # at
    <2>1. Trampolines \in Nat /\ n \in Nat
      BY <1>2, RegionsAre
    <2> HIDE DEF n
    <2> QED
      BY ONLY <2>1 DEF Trampoline
  <1>4. /\ m.mem = Entered(l.mem, at, new)
        /\ m.imports = Entered(l.imports, name, at)
        /\ m.thunks = Append(l.thunks, name)
    BY DEF ThunkAdded
  <1> HIDE DEF at, name
  <1>5. new = [svc |-> (n + 1) - 1]
    <2>1. (n + 1) - 1 = n
      BY ONLY <1>2
    <2> QED
      BY ONLY <2>1
  <1> HIDE DEF n, new
  <1>6. /\ Grown(l.imports, m.imports)
        /\ DOMAIN m.imports = DOMAIN l.imports \cup {name}
        /\ m.imports[name] = at
    <2>1. name \notin DOMAIN l.imports
      BY DEF name
    <2> QED
      BY ONLY <1>4, <2>1 DEF Grown, Entered
  <1>7. /\ DOMAIN m.thunks = 1 .. n + 1 /\ m.thunks[n + 1] = name
        /\ \A i \in 1 .. n : m.thunks[i] = l.thunks[i]
        /\ m.thunks \in Seq(DOMAIN m.imports) /\ Len(m.thunks) = n + 1
        /\ Grown(l.thunks, m.thunks)
    <2>1. /\ Grown(l.thunks, m.thunks)
          /\ DOMAIN m.thunks = DOMAIN l.thunks \cup {Len(l.thunks) + 1}
          /\ m.thunks[Len(l.thunks) + 1] = name
      BY ONLY <1>2, <1>4, AppendGrows
    <2>2. DOMAIN m.thunks = 1 .. n + 1 /\ m.thunks[n + 1] = name
      BY ONLY <1>2, <2>1 DEF n
    <2>3. \A i \in 1 .. n : m.thunks[i] = l.thunks[i]
      BY ONLY <1>2, <2>1 DEF Grown
    <2>4. m.thunks \in Seq(DOMAIN m.imports) /\ Len(m.thunks) = n + 1
      <3> DEFINE T == DOMAIN m.imports
      <3>1. DOMAIN l.imports \subseteq T /\ name \in T
        BY ONLY <1>6
      <3> HIDE DEF T
      <3>2. l.thunks \in Seq(T)
        BY ONLY <1>2, <3>1, SeqMonotonic
      <3>3. m.thunks \in Seq(T) /\ Len(m.thunks) = n + 1
        BY ONLY <1>4, <3>1, <3>2, AppendProperties DEF n
      <3> QED
        BY <3>3 DEF T
    <2> QED
      BY ONLY <2>1, <2>2, <2>3, <2>4
  <1>8. \A a \in ImageWords(image) : a \in Int /\ a < Trampolines
    <2> TAKE a \in ImageWords(image)
    <2>1. PICK s \in ToSet(image.segments) : a \in Place(s)
      BY DEF ImageWords
    <2>2. s \in Segments
      BY ToSetIn DEF NewSymbol
    <2>3. /\ a \in Int /\ a < ImageBase + s.vaddr + s.memsz
          /\ s.vaddr \in Nat /\ s.memsz \in Nat
      BY <2>1, <2>2, SegmentsAre
    <2>4. s.vaddr + s.memsz <= l.hi /\ l.hi \in Nat
      BY DEF EndsAtHi
    <2>5. /\ ImageBase \in Nat /\ ImageLimit \in Nat /\ Trampolines \in Nat
          /\ ImageLimit <= Trampolines
      BY RegionsAre
    <2> QED
      BY ONLY <2>3, <2>4, <2>5, ImageBase + l.hi <= ImageLimit
  <1>9. TrampolinesIn(m) = TrampolinesIn(l) \cup {at}
    <2>1. \A i \in 1 .. n + 1 : i \in 1 .. n \/ i = n + 1
      BY ONLY <1>2
    <2>2. 1 .. n \subseteq 1 .. n + 1 /\ n + 1 \in 1 .. n + 1
      BY ONLY <1>2
    <2> QED
      BY ONLY <1>2, <1>3, <1>7, <2>1, <2>2 DEF TrampolinesIn
  <1>10. /\ DOMAIN m.mem = DOMAIN l.mem \cup {at} /\ m.mem[at] = new
         /\ \A a \in DOMAIN l.mem : a # at => m.mem[a] = l.mem[a]
    BY ONLY <1>4 DEF Entered
  <1>11. SegmentsApart(im) /\ EndsAtHi(im, m)
    BY <1>1, MoreSymbols
  <1>12. InMemory(im, m)
    <2>1. DOMAIN m.mem = ImageWords(im) \cup TrampolinesIn(m)
      BY <1>0, <1>9, <1>10 DEF InMemory
    <2>2. ASSUME NEW i \in DOMAIN m.thunks
          PROVE  m.mem[Trampoline(i)] = [svc |-> i - 1]
      <3>1. CASE i = n + 1
        BY ONLY <1>3, <1>5, <1>10, <3>1
      <3>2. CASE i # n + 1
        <4>1. i \in DOMAIN l.thunks /\ i \in 1 .. n
          BY ONLY <1>2, <1>7, <2>2, <3>2
        <4>2. Trampoline(i) \in DOMAIN l.mem /\ Trampoline(i) # at
          BY <1>3, <4>1 DEF InMemory, TrampolinesIn
        <4>3. l.mem[Trampoline(i)] = [svc |-> i - 1]
          BY <4>1 DEF InMemory
        <4> QED
          BY <1>10, <4>2, <4>3
      <3> QED
        BY <3>1, <3>2
    <2> QED
      BY <2>1, <2>2 DEF InMemory
  <1>13. Patching(im, m)
    <2>1. \A a \in ImageWords(image) : l.mem[a] = FileWord(image, a)
      BY MoreSymbols DEF Patching, Unnamed
    <2>2. \A a \in ImageWords(image) : m.mem[a] = l.mem[a]
      <3>1. \A a \in ImageWords(image) : a \in DOMAIN l.mem
        BY DEF InMemory
      <3>2. \A a \in ImageWords(image) : a # at
        BY ONLY <1>3, <1>8, RegionsAre
      <3> QED
        BY ONLY <1>10, <3>1, <3>2
    <2> QED
      BY <1>0, <2>1, <2>2 DEF Patching
  <1>14. Imported(im, m)
    <2>1. ImportedAs(m, sym)
      <3>1. n + 1 \in DOMAIN m.thunks
        BY ONLY <1>2, <1>7
      <3> QED
        BY <1>3, <1>7, <1>6, <3>1 DEF ImportedAs, name
    <2>2. Grown(l.objects, m.objects)
      BY <1>1, GrownSelf
    <2> QED
      BY <1>4, <1>7, <2>1, <2>2, ImportKeeps DEF name
  <1>15. ThunksInRoom(m)
    <2>1. m.thunks \in Seq(DOMAIN m.imports)
      BY <1>7
    <2>2. m.tramp.next = Trampolines + 8 * Len(m.thunks)
      <3>1. m.tramp.next = at + 8
        BY DEF ThunkAdded, at, n
      <3>2. Trampolines \in Nat
        BY RegionsAre
      <3>3. at = Trampolines + 8 * n
        BY DEF at
      <3> QED
        BY ONLY <1>2, <1>7, <3>1, <3>2, <3>3
    <2>3. ASSUME NEW i \in DOMAIN m.thunks
          PROVE  m.imports[m.thunks[i]] = Trampoline(i)
      <3>1. CASE i = n + 1
        BY ONLY <1>3, <1>7, <1>6, <3>1
      <3>2. CASE i # n + 1
        <4>1. i \in DOMAIN l.thunks /\ m.thunks[i] = l.thunks[i]
          BY ONLY <1>2, <1>7, <2>3, <3>2
        <4>2. l.thunks[i] \in DOMAIN l.imports
          BY ONLY <1>2, <4>1
        <4>3. l.imports[l.thunks[i]] = Trampoline(i)
          BY <4>1 DEF ThunksInRoom
        <4> QED
          BY <1>6, <4>1, <4>2, <4>3 DEF Grown
      <3> QED
        BY <3>1, <3>2
    <2>4. /\ m.tramp.limit = Trampolines + TrampSize
          /\ DOMAIN m.tramp = {"next", "limit"}
      BY DEF ThunksInRoom, ThunkAdded
    <2> QED
      BY <2>1, <2>2, <2>3, <2>4 DEF ThunksInRoom
  <1>16. ObjectsInRoom(m)
    BY <1>1, <1>6, ObjectsStay
  <1> QED
    BY <1>11, <1>12, <1>13, <1>14, <1>15, <1>16

(* Failing to place an import means that every place is taken.             *)
LEMMA TrampolinesTaken ==
  ASSUME NEW l, NEW m, ThunksInRoom(l), m.imports = l.imports,
         Trampolines + 8 * Len(l.thunks) + 8 > Trampolines + TrampSize
  PROVE  NoTrampolineLeft(m)
  <1> DEFINE n == Len(l.thunks)
  <1>1. /\ n \in Nat /\ DOMAIN l.thunks = 1 .. n
        /\ \A i \in 1 .. n : l.thunks[i] \in DOMAIN l.imports
    BY ThunksAre
  <1>2. \A i \in 1 .. n : l.imports[l.thunks[i]] = Trampoline(i)
    BY <1>1 DEF ThunksInRoom
  <1>3. Trampolines + 8 * n + 8 > Trampolines + TrampSize
    OBVIOUS
  <1> HIDE DEF n
  <1>4. ASSUME NEW a \in Trampolines .. Trampolines + TrampSize - 8,
               a % 8 = 0
        PROVE  \E name \in DOMAIN m.imports : m.imports[name] = a
    <2> DEFINE p == Trampolines \div 8
               q == a \div 8
               i == q - p + 1
    <2>1. /\ Trampolines \in Nat /\ TrampSize \in Nat
          /\ Trampolines % 8 = 0
      BY RegionsAre
    <2>2. p \in Int /\ Trampolines = 8 * p
      BY ONLY <2>1
    <2>3. a \in Int /\ Trampolines <= a /\ a <= Trampolines + TrampSize - 8
      BY ONLY <1>4, <2>1
    <2>4. q \in Int /\ a = 8 * q
      BY ONLY <1>4, <2>3
    <2> HIDE DEF p, q
    <2>5. i \in 1 .. n /\ a = Trampolines + 8 * (i - 1)
      BY ONLY <1>1, <1>3, <2>1, <2>2, <2>3, <2>4
    <2> HIDE DEF i
    <2>6. l.thunks[i] \in DOMAIN l.imports /\ l.imports[l.thunks[i]] = a
      BY <1>1, <1>2, <2>5 DEF Trampoline
    <2> QED
      BY <2>6
  <1> QED
    BY <1>4 DEF NoTrampolineLeft

LEMMA StorageTaken ==
  ASSUME NEW l, NEW m, NEW size \in Nat \ {0}, ObjectsInRoom(l),
         m.objects = l.objects, AtData(l) + size > DataImports + DataSize
  PROVE  NoStorageLeft(m, size)
  <1> DEFINE at == AtData(l)
  <1>1. l.data.next \in Nat /\ DataImports <= l.data.next
    BY DEF ObjectsInRoom
  <1>2. /\ at \in Nat
        /\ \A a \in Nat : l.data.next <= a /\ a % 16 = 0 => at <= a
    BY <1>1, NextPlace DEF AtData
  <1>3. at + size > DataImports + DataSize
    OBVIOUS
  <1> HIDE DEF at
  <1>4. ASSUME NEW a \in DataImports .. DataImports + DataSize - size,
               a % 16 = 0
        PROVE  \E name \in DOMAIN m.objects : a \in Storage(m, name)
    <2>1. DataImports \in Nat /\ DataSize \in Nat
      BY RegionsAre
    <2>2. a \in Nat /\ DataImports <= a /\ a + size <= DataImports + DataSize
      BY ONLY <1>4, <2>1, size \in Nat \ {0}
    <2>3. a < at
      BY ONLY <1>2, <1>3, <2>1, <2>2, size \in Nat \ {0}
    <2>4. a < l.data.next
      BY ONLY <1>1, <1>2, <1>4, <2>2, <2>3
    <2>5. a \in DataImports .. l.data.next - 1
      BY ONLY <1>1, <2>1, <2>2, <2>4
    <2>6. \E name \in DOMAIN l.objects : a \in Storage(l, name)
      BY <1>4, <2>5 DEF ObjectsInRoom
    <2> QED
      BY <2>6 DEF Storage
  <1> QED
    BY <1>4 DEF NoStorageLeft

LEMMA SymbolKeeps ==
  ASSUME NEW image, NEW l, NEW im, NEW m, NEW sym,
         NewSymbol(image, im, sym), Linked(image, l),
         OneMeaning(image, sym), ImageBase + l.hi <= ImageLimit,
         DOMAIN l = LoaderFields, Fine(l), m = Bind(l, sym)
  PROVE  /\ DOMAIN m = LoaderFields
         /\ Fine(m) => Linked(im, m) /\ m.hi = l.hi
         /\ ~Fine(m) => HasReason(im, m)
  <1> USE DEF Fine
  <1> DEFINE name == sym.name
  <1>1. sym \in ToSet(im.symbols)
    <2>1. ToSet(im.symbols) = ToSet(image.symbols) \cup {sym}
      BY ONLY NewSymbol(image, im, sym), MoreSymbols
    <2> QED
      BY ONLY <2>1
  <1>2. sym \in Symbols
    BY DEF NewSymbol
  <1>3. CASE m = l /\ (~sym.defined /\ name # "" => ImportedAs(l, sym))
    <2>1. SameBut(l, m, {"exports"})
      BY <1>3 DEF SameBut
    <2> QED
      BY <1>3, <2>1, NoImportKeeps
  <1>4. CASE name # "" /\ sym.defined
    <2>1. CASE name \in DOMAIN l.exports
      <3>1. m = l
        BY <1>4, <2>1 DEF Bind
      <3> QED
        BY <1>3, <1>4, <3>1
    <2>2. CASE name \notin DOMAIN l.exports
      <3> DEFINE e == Entered(l.exports, name, ImageBase + sym.value)
      <3>1. m = [l EXCEPT !.exports = e]
        BY <1>4, <2>2 DEF Bind
      <3> HIDE DEF e
      <3>2. SameBut(l, m, {"exports"}) /\ m.error = l.error /\ m.hi = l.hi
        BY <3>1 DEF SameBut, LoaderFields
      <3>3. DOMAIN m = LoaderFields
        BY <3>2 DEF SameBut
      <3> QED
        BY <1>4, <3>2, <3>3, NoImportKeeps
    <2> QED
      BY <2>1, <2>2
  <1>5. CASE name # "" /\ ~sym.defined /\ name \in DOMAIN l.imports
    <2>1. m = l
      BY <1>5 DEF Bind
    <2>2. PICK s \in ToSet(image.symbols) : ~s.defined /\ s.name = name
      BY <1>5 DEF Linked, Imported
    <2>3. s = sym
      BY <1>5, <2>2 DEF OneMeaning
    <2>4. ImportedAs(l, sym)
      BY <1>5, <2>2, <2>3 DEF Linked, Imported
    <2> QED
      BY <1>3, <2>1, <2>4
  <1>6. CASE /\ name # "" /\ ~sym.defined /\ name \notin DOMAIN l.imports
             /\ name \in DOMAIN Guest
    <2> DEFINE e == Entered(l.imports, name, Guest[name])
    <2>1. m = [l EXCEPT !.imports = e]
      BY <1>6 DEF Bind
    <2>2. m.imports = e
      <3> HIDE DEF e
      <3> QED
        BY <2>1 DEF LoaderFields
    <2>3. SameBut(l, m, {"imports"}) /\ m.error = l.error /\ m.hi = l.hi
      <3> HIDE DEF e
      <3> QED
        BY <2>1 DEF SameBut, LoaderFields
    <2>4. DOMAIN m = LoaderFields
      BY <2>3 DEF SameBut
    <2> QED
      BY <1>6, <2>2, <2>3, <2>4, GuestKeeps
  <1>7. CASE /\ name # "" /\ ~sym.defined /\ name \notin DOMAIN l.imports
             /\ name \notin DOMAIN Guest /\ sym.object
    <2>1. m = AddData(l, name, sym.size)
      BY <1>7 DEF Bind
    <2>2. sym.size \in Nat \ {0}
      BY <1>2, <1>7, ImageAssumption DEF ImageAssumption
    <2>3. ObjectsInRoom(l)
      BY DEF Linked
    <2>4. CASE AtData(l) + sym.size > DataImports + DataSize
      <3>1. m = Failed(l, "out of data-import storage")
        BY <2>1, <2>3, <2>4, AddDataIs
      <3>2. SameBut(l, m, {"error"}) /\ m.error = "out of data-import storage"
        BY <3>1, FailedIs
      <3>3. /\ DOMAIN m = LoaderFields /\ m.error # ""
            /\ m.imports = l.imports /\ m.objects = l.objects
        BY <3>2 DEF SameBut, LoaderFields
      <3>4. NoStorageLeft(m, sym.size)
        BY <2>2, <2>3, <2>4, <3>3, StorageTaken
      <3>5. HasReason(im, m)
        BY <1>1, <1>7, <3>3, <3>4 DEF HasReason
      <3> QED
        BY <3>3, <3>5
    <2>5. CASE ~(AtData(l) + sym.size > DataImports + DataSize)
      <3>1. ObjectAdded(l, m, name, sym.size)
        BY <2>1, <2>3, <2>5, AddDataIs
      <3>2. DOMAIN m = LoaderFields /\ m.error = l.error /\ m.hi = l.hi
        BY <3>1 DEF ObjectAdded, SameBut, LoaderFields
      <3>3. Linked(im, m)
        BY <1>7, <2>2, <3>1, ObjectKeeps
      <3> QED
        BY <3>2, <3>3
    <2> QED
      BY <2>4, <2>5
  <1>8. CASE /\ name # "" /\ ~sym.defined /\ name \notin DOMAIN l.imports
             /\ name \notin DOMAIN Guest /\ ~sym.object
    <2> DEFINE next == Trampolines + 8 * Len(l.thunks)
    <2>1. m = AddTrampoline(l, name)
      BY <1>8 DEF Bind
    <2>2. ThunksInRoom(l)
      BY DEF Linked
    <2>3. CASE next + 8 > Trampolines + TrampSize
      <3>1. m = Failed(l, "out of trampoline space")
        BY <2>1, <2>2, <2>3, AddTrampolineIs
      <3>2. SameBut(l, m, {"error"}) /\ m.error = "out of trampoline space"
        BY <3>1, FailedIs
      <3>3. /\ DOMAIN m = LoaderFields /\ m.error # ""
            /\ m.imports = l.imports
        BY <3>2 DEF SameBut, LoaderFields
      <3>4. NoTrampolineLeft(m)
        BY <2>2, <2>3, <3>3, TrampolinesTaken
      <3>5. HasReason(im, m)
        BY <1>1, <1>8, <3>3, <3>4 DEF HasReason
      <3> QED
        BY <3>3, <3>5
    <2>4. CASE ~(next + 8 > Trampolines + TrampSize)
      <3>1. ThunkAdded(l, m, name)
        BY <2>1, <2>2, <2>4, AddTrampolineIs
      <3>2. DOMAIN m = LoaderFields /\ m.error = l.error /\ m.hi = l.hi
        BY <3>1 DEF ThunkAdded, SameBut, LoaderFields
      <3>3. Linked(im, m)
        BY <1>8, <3>1, ThunkKeeps
      <3> QED
        BY <3>2, <3>3
    <2> QED
      BY <2>3, <2>4
  <1>9. CASE name = ""
    <2>1. m = l
      BY <1>9 DEF Bind
    <2> QED
      BY <1>3, <1>9, <2>1
  <1> QED
    BY <1>4, <1>5, <1>6, <1>7, <1>8, <1>9

-----------------------------------------------------------------------------
(* One more relocation.                                                    *)
NewRelocation(image, im, r) ==
  /\ image.segments \in Seq(Segments) /\ image.symbols \in Seq(Symbols)
  /\ image.relocations \in Seq(Relocations) /\ r \in Relocations
  /\ im.relocations = Append(image.relocations, r)
  /\ im.segments = image.segments /\ im.symbols = image.symbols

LEMMA MoreRelocations ==
  ASSUME NEW image, NEW im, NEW r, NewRelocation(image, im, r)
  PROVE  /\ ToSet(im.relocations) = ToSet(image.relocations) \cup {r}
         /\ im.symbols = image.symbols /\ im.segments = image.segments
         /\ ImageWords(im) = ImageWords(image)
         /\ \A a : FileWord(im, a) = FileWord(image, a)
  <1> USE DEF NewRelocation
  <1>1. ToSet(im.relocations) = ToSet(image.relocations) \cup {r}
    BY ToSetAppend
  <1>2. im.symbols = image.symbols /\ im.segments = image.segments
    OBVIOUS
  <1>3. ImageWords(im) = ImageWords(image)
    BY <1>2 DEF ImageWords
  <1>4. \A a : FileWord(im, a) = FileWord(image, a)
    BY <1>2 DEF FileWord
  <1> QED
    BY <1>1, <1>2, <1>3, <1>4

(* All of Linked but the image's words.                                    *)
LEMMA WordsAside ==
  ASSUME NEW image, NEW l, NEW im, NEW m, NEW r,
         NewRelocation(image, im, r), Linked(image, l),
         SameBut(l, m, {"mem"})
  PROVE  /\ SegmentsApart(im) /\ EndsAtHi(im, m)
         /\ Imported(im, m) /\ ThunksInRoom(m) /\ ObjectsInRoom(m)
  <1>1. im.symbols = image.symbols /\ im.segments = image.segments
    BY DEF NewRelocation
  <1>2. /\ m.hi = l.hi /\ m.data = l.data /\ m.objects = l.objects
        /\ m.tramp = l.tramp /\ m.thunks = l.thunks /\ m.imports = l.imports
    BY DEF SameBut, LoaderFields
  <1> USE DEF Linked
  <1>3. SegmentsApart(im)
    BY <1>1 DEF SegmentsApart
  <1>4. EndsAtHi(im, m)
    BY <1>1, <1>2 DEF EndsAtHi
  <1>5. Imported(im, m)
    <2>1. \A s : ImportedAs(l, s) => ImportedAs(m, s)
      BY <1>2, GrownSelf, ImportedStays
    <2> QED
      BY <1>1, <1>2, <2>1 DEF Imported
  <1>6. ThunksInRoom(m) /\ ObjectsInRoom(m)
    <2>1. Grown(l.imports, m.imports)
      BY <1>2, GrownSelf
    <2> QED
      BY <1>2, <2>1, ThunksStay, ObjectsStay
  <1> QED
    BY <1>3, <1>4, <1>5, <1>6

LEMMA WordsBelow ==
  ASSUME NEW image, NEW l, image.segments \in Seq(Segments),
         EndsAtHi(image, l), ImageBase + l.hi <= ImageLimit
  PROVE  \A a \in ImageWords(image) : a \in Int /\ a < Trampolines
  <1> TAKE a \in ImageWords(image)
  <1>1. PICK s \in ToSet(image.segments) : a \in Place(s)
    BY DEF ImageWords
  <1>2. s \in Segments
    BY ToSetIn
  <1>3. /\ a \in Int /\ a < ImageBase + s.vaddr + s.memsz
        /\ s.vaddr \in Nat /\ s.memsz \in Nat
    BY <1>1, <1>2, SegmentsAre
  <1>4. s.vaddr + s.memsz <= l.hi /\ l.hi \in Nat
    BY DEF EndsAtHi
  <1>5. /\ ImageBase \in Nat /\ ImageLimit \in Nat /\ Trampolines \in Nat
        /\ ImageLimit <= Trampolines
    BY RegionsAre
  <1> QED
    BY ONLY <1>3, <1>4, <1>5, ImageBase + l.hi <= ImageLimit

LEMMA SumsDiffer ==
  \A b, x, y \in Nat : x # y => b + x # b + y
  OBVIOUS

LEMMA RelocationKeeps ==
  ASSUME NEW image, NEW l, NEW im, NEW m, NEW r,
         NewRelocation(image, im, r), Linked(image, l),
         Patches(image, r), ImageBase + l.hi <= ImageLimit,
         DOMAIN l = LoaderFields, Fine(l), m = Relocate(l, image, r)
  PROVE  /\ DOMAIN m = LoaderFields
         /\ Fine(m) => Linked(im, m) /\ m.hi = l.hi
         /\ ~Fine(m) => HasReason(im, m)
  <1> USE DEF Fine
  <1> DEFINE w == ImageBase + r.where
             sym == image.symbols[r.symbol]
             word == Relocated(l.mem[w], r.type, resolve(l, sym))
  <1>0. /\ ToSet(im.relocations) = ToSet(image.relocations) \cup {r}
        /\ im.symbols = image.symbols
        /\ ImageWords(im) = ImageWords(image)
        /\ \A a : FileWord(im, a) = FileWord(image, a)
    BY ONLY NewRelocation(image, im, r), MoreRelocations
  <1>1. r.symbol \in DOMAIN image.symbols
    BY DEF Patches
  <1>2. CASE r.type = "NONE"
    <2>1. m = l
      BY <1>2 DEF Relocate, Handled
    <2>2. SameBut(l, m, {"mem"})
      BY <2>1 DEF SameBut
    <2>3. InMemory(im, m)
      BY <1>0, <2>1 DEF Linked, InMemory, TrampolinesIn
    <2>4. Patching(im, m)
      <3>1. \A a : Unnamed(im, a) => Unnamed(image, a)
        BY <1>0 DEF Unnamed
      <3>2. \A q : Meant(image, l, q) => Meant(im, l, q)
        BY <1>0 DEF Meant
      <3>3. Patching(image, l)
        BY DEF Linked
      <3> QED
        BY ONLY <1>0, <1>2, <2>1, <3>1, <3>2, <3>3 DEF Patching
    <2>5. Linked(im, m)
      BY <2>2, <2>3, <2>4, WordsAside DEF Linked
    <2> QED
      BY <2>1, <2>5
  <1>3. CASE r.type \notin Handled
    <2>1. m = Failed(l, "unhandled relocation type")
      BY <1>3 DEF Relocate, Handled
    <2>2. /\ SameBut(l, m, {"error"})
          /\ m.error = "unhandled relocation type"
      BY <2>1, FailedIs
    <2>3. DOMAIN m = LoaderFields /\ m.error # ""
      BY <2>2 DEF SameBut
    <2>4. HasReason(im, m)
      BY <1>0, <1>3 DEF HasReason
    <2> QED
      BY <2>3, <2>4
  <1>4. CASE /\ r.type \in Handled \ {"NONE", "RELATIVE"}
             /\ ~sym.defined /\ sym.name \notin DOMAIN l.imports
    <2>1. m = Failed(l, "unresolved symbol")
      BY <1>4 DEF Relocate, Handled
    <2>2. SameBut(l, m, {"error"}) /\ m.error = "unresolved symbol"
      BY <2>1, FailedIs
    <2>3. DOMAIN m = LoaderFields /\ m.error # ""
      BY <2>2 DEF SameBut
    <2>4. sym \in ToSet(image.symbols)
      BY <1>1 DEF ToSet
    <2>5. sym.name = ""
      BY <1>4, <2>4 DEF Linked, Imported, ImportedAs
    <2>6. HasReason(im, m)
      BY <1>0, <1>4, <2>5 DEF HasReason
    <2> QED
      BY <2>3, <2>6
  <1>5. CASE /\ r.type \in Handled \ {"NONE"}
             /\ r.type # "RELATIVE" =>
                  sym.defined \/ sym.name \in DOMAIN l.imports
    <2>1. m = [l EXCEPT !.mem = Entered(@, w, word)]
      <3>1. CASE r.type = "RELATIVE"
        BY <1>5, <3>1 DEF Relocate, Handled, Relocated
      <3>2. CASE r.type # "RELATIVE"
        BY <1>5, <3>2 DEF Relocate, Handled
      <3> QED
        BY <3>1, <3>2
    <2>2. r.type # "NONE"
      BY <1>5
    <2>3. w \in ImageWords(image)
      BY <2>2 DEF Patches, ImageWords
    <2>4. Unnamed(image, w)
      <3> SUFFICES ASSUME NEW q \in ToSet(image.relocations),
                          q.type # "NONE"
                   PROVE  w # ImageBase + q.where
        BY DEF Unnamed
      <3>1. q.where # r.where
        BY <2>2 DEF Patches
      <3>2. q \in Relocations
        BY ToSetIn DEF NewRelocation
      <3>3. q.where \in Nat /\ r.where \in Nat
        BY <3>2, ImageAssumption DEF ImageAssumption, NewRelocation
      <3>4. ImageBase \in Nat
        BY RegionsAre
      <3> QED
        BY <3>1, <3>3, <3>4, SumsDiffer
    <2>5. l.mem[w] = FileWord(image, w)
      BY <2>3, <2>4 DEF Linked, Patching
    <2> DEFINE new == Entered(l.mem, w, word)
    <2>6. m = [l EXCEPT !.mem = new]
      BY <2>1
    <2>7. m.mem = new
      <3> HIDE DEF new
      <3> QED
        BY ONLY <2>6, DOMAIN l = LoaderFields DEF LoaderFields
    <2>8. SameBut(l, m, {"mem"}) /\ m.error = l.error /\ m.hi = l.hi
      <3> HIDE DEF new
      <3> QED
        BY ONLY <2>6, DOMAIN l = LoaderFields DEF SameBut, LoaderFields
    <2>9. /\ m.thunks = l.thunks /\ m.imports = l.imports
          /\ DOMAIN m = LoaderFields
      BY <2>8 DEF SameBut, LoaderFields
    <2>10. word = Relocated(FileWord(im, w), r.type, resolve(m, sym))
      BY <1>0, <2>5, <2>9 DEF resolve
    <2> HIDE DEF word, w
    <2>11. /\ DOMAIN m.mem = DOMAIN l.mem \cup {w} /\ m.mem[w] = word
           /\ \A a \in DOMAIN l.mem : a # w => m.mem[a] = l.mem[a]
      BY ONLY <2>7 DEF Entered
    <2> HIDE DEF new
    <2>12. InMemory(im, m)
      <3>1. w \in DOMAIN l.mem
        BY <2>3 DEF Linked, InMemory
      <3>2. w < Trampolines /\ w \in Int
        BY <2>3, WordsBelow DEF Linked, NewRelocation
      <3>3. ASSUME NEW i \in DOMAIN l.thunks
            PROVE  Trampoline(i) \in DOMAIN l.mem /\ Trampoline(i) # w
        <4>1. Trampoline(i) \in DOMAIN l.mem
          <5>1. DOMAIN l.mem = ImageWords(image) \cup TrampolinesIn(l)
            BY DEF Linked, InMemory
          <5>2. Trampoline(i) \in TrampolinesIn(l)
            BY DEF TrampolinesIn
          <5> QED
            BY ONLY <5>1, <5>2
        <4>2. i \in Nat /\ i >= 1
          <5>1. ThunksInRoom(l)
            BY DEF Linked
          <5>2. DOMAIN l.thunks = 1 .. Len(l.thunks) /\ Len(l.thunks) \in Nat
            BY ONLY <5>1, ThunksAre
          <5> QED
            BY ONLY <3>3, <5>2
        <4>3. Trampolines \in Nat
          BY RegionsAre
        <4> QED
          BY ONLY <3>2, <4>1, <4>2, <4>3 DEF Trampoline
      <3>4. \A i \in DOMAIN m.thunks : m.mem[Trampoline(i)] = [svc |-> i - 1]
        BY <2>9, <2>11, <3>3 DEF Linked, InMemory
      <3>5. DOMAIN m.mem = ImageWords(im) \cup TrampolinesIn(m)
        BY <1>0, <2>9, <2>11, <3>1 DEF Linked, InMemory, TrampolinesIn
      <3> QED
        BY <3>4, <3>5 DEF InMemory
    <2>13. Patching(im, m)
      <3>1. ASSUME NEW a \in ImageWords(im), Unnamed(im, a)
            PROVE  m.mem[a] = FileWord(im, a)
        <4>1. Unnamed(image, a) /\ a # w
          BY <1>0, <2>2, <3>1 DEF Unnamed, w
        <4>2. a \in DOMAIN l.mem /\ l.mem[a] = FileWord(image, a)
          BY <1>0, <4>1 DEF Linked, Patching, InMemory
        <4> QED
          BY <1>0, <2>11, <4>1, <4>2
      <3>2. ASSUME NEW q \in ToSet(image.relocations), q.type # "NONE"
            PROVE  Meant(im, m, q)
        <4> DEFINE a == ImageBase + q.where
                   s == image.symbols[q.symbol]
        <4>1. Meant(image, l, q)
          BY <3>2 DEF Linked, Patching
        <4>2. a # w
          BY <2>4, <3>2 DEF Unnamed
        <4>3. a \in DOMAIN l.mem
          BY <4>1 DEF Linked, InMemory, Meant
        <4>4. m.mem[a] = l.mem[a]
          BY <2>11, <4>2, <4>3
        <4>5. resolve(m, s) = resolve(l, s)
          BY <2>9 DEF resolve
        <4> QED
          BY ONLY <1>0, <2>9, <4>1, <4>4, <4>5 DEF Meant
      <3>3. Meant(im, m, r)
        BY <1>0, <1>1, <1>5, <2>3, <2>9, <2>10, <2>11 DEF Meant, w
      <3> QED
        BY <1>0, <3>1, <3>2, <3>3 DEF Patching
    <2>14. Linked(im, m)
      BY <2>8, <2>12, <2>13, WordsAside DEF Linked
    <2> QED
      BY <2>8, <2>9, <2>14
  <1> QED
    BY <1>2, <1>3, <1>4, <1>5

-----------------------------------------------------------------------------
(* The tables, the last to have a name winning.                            *)
LEMMA TableIsPut ==
  ASSUME NEW s, NEW t, TablesIn(s), s.put < Len(Tables),
         t.put = s.put + 1, t.table = PutIn(s.table, s.put + 1)
  PROVE  TablesIn(t)
  <1> DEFINE n == s.put
             k == n + 1
             new == [name \in Tables[k] |-> k]
  <1>1. n \in Nat /\ k \in 0 .. Len(Tables) /\ Len(Tables) \in Nat
    BY ImageAssumption DEF ImageAssumption, TablesIn
  <1>2. t.table = Written(s.table, new) /\ t.put = k
    BY DEF PutIn
  <1>3. /\ DOMAIN s.table = UNION {Tables[j] : j \in 1 .. n}
        /\ \A name \in DOMAIN s.table :
             /\ s.table[name] \in 1 .. n /\ name \in Tables[s.table[name]]
             /\ \A j \in 1 .. n : name \in Tables[j] => j <= s.table[name]
    BY DEF TablesIn
  <1> HIDE DEF n
  <1>4. 1 .. k = 1 .. n \cup {k} /\ k \in Nat /\ k \in 1 .. k
    BY ONLY <1>1
  <1>5. DOMAIN new = Tables[k] /\ \A name \in Tables[k] : new[name] = k
    OBVIOUS
  <1> HIDE DEF k, new
  <1>6. /\ DOMAIN t.table = DOMAIN s.table \cup Tables[k]
        /\ \A name \in Tables[k] : t.table[name] = k
        /\ \A name \in DOMAIN s.table :
             name \notin Tables[k] => t.table[name] = s.table[name]
    BY ONLY <1>2, <1>5 DEF Written
  <1>7. DOMAIN t.table = UNION {Tables[j] : j \in 1 .. k}
    BY ONLY <1>3, <1>4, <1>6
  <1>8. ASSUME NEW name \in DOMAIN t.table
        PROVE  /\ t.table[name] \in 1 .. k
               /\ name \in Tables[t.table[name]]
               /\ \A j \in 1 .. k : name \in Tables[j] => j <= t.table[name]
    <2>1. CASE name \in Tables[k]
      <3>1. t.table[name] = k
        BY ONLY <1>6, <2>1
      <3>2. \A j \in 1 .. k : j <= k
        BY ONLY <1>4
      <3> QED
        BY ONLY <1>4, <2>1, <3>1, <3>2
    <2>2. CASE name \notin Tables[k]
      <3>1. name \in DOMAIN s.table /\ t.table[name] = s.table[name]
        BY ONLY <1>6, <1>8, <2>2
      <3> QED
        BY ONLY <1>3, <1>4, <2>2, <3>1
    <2> QED
      BY ONLY <2>1, <2>2
  <1> QED
    BY ONLY <1>1, <1>2, <1>7, <1>8 DEF TablesIn

LEMMA BoundIsHost ==
  ASSUME NEW s, TablesIn(s), s.put = Len(Tables), NEW thunks,
         NEW i \in DOMAIN thunks
  PROVE  LET b == bind_thunks(thunks, s.table)[i]
         IN Host(thunks[i]) = [name |-> thunks[i], table |-> b.table,
                               gl |-> b.gl]
  <1> DEFINE name == thunks[i]
             b == bind_thunks(thunks, s.table)[i]
             holders == {k \in DOMAIN Tables : name \in Tables[k]}
             has == name \in DOMAIN s.table
             GlOnly == name \in GlNames \ EglNames
             at == s.table[name]
  <1>1. DOMAIN Tables = 1 .. s.put /\ s.put \in Nat
    BY ImageAssumption DEF ImageAssumption
  <1>2. b = [table |-> IF has THEN at ELSE 0, gl |-> has /\ GlOnly]
    BY DEF bind_thunks
  <1> HIDE DEF name
  <1>3. has <=> holders # {}
    BY <1>1 DEF TablesIn
  <1>4. has => at \in holders /\ \A k \in holders : at >= k
    BY <1>1 DEF TablesIn
  <1>5. \A k \in holders : k \in Int
    BY <1>1
  <1>6. Host(name) = [name |-> name,
                      table |-> IF holders = {} THEN 0 ELSE Max(holders),
                      gl |-> holders # {} /\ GlOnly]
    BY DEF Host
  <1> HIDE DEF b, holders, at, has, GlOnly
  <1>7. has => Max(holders) = at
    <2> SUFFICES ASSUME has PROVE Max(holders) = at
      OBVIOUS
    <2> DEFINE x == Max(holders)
    <2>1. x \in holders /\ \A y \in holders : x >= y
      BY <1>4 DEF Max
    <2> HIDE DEF x
    <2> QED
      BY ONLY <1>4, <1>5, <2>1, has DEF x
  <1>8. b.table = (IF has THEN at ELSE 0) /\ b.gl = (has /\ GlOnly)
    BY ONLY <1>2
  <1>9. (IF holders = {} THEN 0 ELSE Max(holders)) = b.table
    BY ONLY <1>3, <1>7, <1>8
  <1>10. (holders # {} /\ GlOnly) = b.gl
    BY ONLY <1>3, <1>8
  <1>11. Host(name) = [name |-> name, table |-> b.table, gl |-> b.gl]
    BY ONLY <1>6, <1>9, <1>10
  <1> QED
    BY <1>11 DEF name, b

-----------------------------------------------------------------------------
(* Where a symbol's address leads once the thunks are bound.               *)
LEMMA ResolvedLeads ==
  ASSUME NEW s, TablesIn(s), Linked(s.image, s.l), s.put = Len(Tables),
         s.image.symbols \in Seq(Symbols),
         s.bound = bind_thunks(s.l.thunks, s.table),
         NEW sym \in ToSet(s.image.symbols),
         sym.defined \/ sym.name \in DOMAIN s.l.imports
  PROVE  /\ resolve(s.l, sym) \in Int
         /\ LeadsTo(s, sym, resolve(s.l, sym))
  <1> DEFINE l == s.l
             name == sym.name
             addr == resolve(s.l, sym)
  <1>1. /\ sym \in Symbols /\ sym.defined \in BOOLEAN
        /\ sym.object \in BOOLEAN /\ sym.value \in Nat
    BY ToSetIn, ImageAssumption DEF ImageAssumption
  <1>2. CASE sym.defined
    <2>1. addr = ImageBase + sym.value
      BY <1>2 DEF resolve
    <2>2. addr \in Int
      BY <1>1, <2>1, RegionsAre
    <2> QED
      BY <1>2, <2>1, <2>2 DEF LeadsTo
  <1>3. CASE ~sym.defined
    <2>1. name \in DOMAIN l.imports
      BY <1>3
    <2>2. Imported(s.image, l) /\ ThunksInRoom(l) /\ ObjectsInRoom(l)
          /\ InMemory(s.image, l)
      BY DEF Linked
    <2>3. name # ""
      BY ONLY <2>1, <2>2 DEF Imported
    <2>4. ImportedAs(l, sym)
      BY <1>3, <2>2, <2>3 DEF Imported
    <2>5. addr = l.imports[name]
      BY <1>3, <2>1 DEF resolve
    <2>6. CASE name \in DOMAIN Guest
      <3>1. addr = Guest[name]
        BY <2>4, <2>5, <2>6 DEF ImportedAs
      <3>2. addr \in Int
        BY <2>6, <3>1, ImageAssumption DEF ImageAssumption
      <3> QED
        BY <1>3, <2>6, <3>1, <3>2 DEF LeadsTo
    <2>7. CASE name \notin DOMAIN Guest /\ sym.object
      <3>1. name \in DOMAIN l.objects /\ addr = l.objects[name].addr
        BY <2>4, <2>5, <2>7 DEF ImportedAs
      <3>2. addr \in Int
        BY <2>2, <3>1 DEF ObjectsInRoom
      <3> QED
        BY <1>3, <2>7, <3>1, <3>2 DEF LeadsTo
    <2>8. CASE name \notin DOMAIN Guest /\ ~sym.object
      <3>1. PICK i \in DOMAIN l.thunks :
              l.thunks[i] = name /\ l.imports[name] = Trampoline(i)
        BY <2>4, <2>8 DEF ImportedAs
      <3> DEFINE n == Len(l.thunks)
                 b == bind_thunks(l.thunks, s.table)
      <3>2. n \in Nat /\ DOMAIN l.thunks = 1 .. n
        BY <2>2, ThunksAre
      <3>3. addr = Trampoline(i) /\ i \in 1 .. n
        BY <2>5, <3>1, <3>2
      <3>4. addr \in Int
        BY <3>3, RegionsAre
      <3>5. l.mem[addr].svc = i - 1
        <4>1. l.mem[addr] = [svc |-> i - 1]
          BY ONLY <2>2, <3>1, <3>3 DEF InMemory
        <4> QED
          BY ONLY <4>1
      <3>6. Len(b) = n
        <4>1. DOMAIN b = 1 .. n
          BY <3>2 DEF bind_thunks
        <4> HIDE DEF b, n
        <4> QED
          BY ONLY <3>2, <4>1
      <3>7. s.bound = b
        OBVIOUS
      <3> HIDE DEF b, n
      <3>8. CallSVC(l, b, addr) =
              [name |-> name, table |-> b[i].table, gl |-> b[i].gl]
        <4>1. ~(i - 1 >= n) /\ (i - 1) + 1 = i
          BY ONLY <3>2, <3>3
        <4> QED
          BY <3>1, <3>5, <3>6, <4>1 DEF CallSVC
      <3>9. Host(name) = [name |-> name, table |-> b[i].table, gl |-> b[i].gl]
        BY <3>1, BoundIsHost DEF b
      <3> QED
        BY <1>3, <2>8, <3>4, <3>7, <3>8, <3>9 DEF LeadsTo
    <2> QED
      BY <1>1, <2>6, <2>7, <2>8
  <1> QED
    BY <1>1, <1>2, <1>3

LEMMA BoundIsLinked ==
  ASSUME NEW s, Shaped(s), InStage(s), TablesIn(s), Linked(s.image, s.l),
         s.stage = "bound"
  PROVE  Patched(s) /\ AsFiled(s) /\ ObjectsApart(s.l)
  <1>1. s.put = Len(Tables) /\ s.bound = bind_thunks(s.l.thunks, s.table)
    BY DEF InStage
  <1>2. SegmentsApart(s.image) /\ Patching(s.image, s.l)
    BY DEF Linked
  <1>3. s.image.segments \in Seq(Segments) /\ s.image.symbols \in Seq(Symbols)
    BY DEF Shaped
  <1>4. \A a \in ImageWords(s.image) : FileWord(s.image, a) \in Int
    <2> TAKE a \in ImageWords(s.image)
    <2>1. PICK t \in ToSet(s.image.segments) : a \in Place(t)
      BY DEF ImageWords
    <2> QED
      BY <1>2, <1>3, <2>1, FileWordIs
  <1>5. ASSUME NEW r \in ToSet(s.image.relocations)
        PROVE  LET a == ImageBase + r.where
                   sym == s.image.symbols[r.symbol]
               IN /\ r.type = "RELATIVE" =>
                       s.l.mem[a] = FileWord(s.image, a) + ImageBase
                  /\ r.type \in {"GLOB_DAT", "JUMP_SLOT"} =>
                       LeadsTo(s, sym, s.l.mem[a])
                  /\ r.type = "ABS32" =>
                       LeadsTo(s, sym, s.l.mem[a] - FileWord(s.image, a))
    <2> DEFINE a == ImageBase + r.where
               sym == s.image.symbols[r.symbol]
               to == resolve(s.l, sym)
               word == FileWord(s.image, a)
    <2>1. CASE r.type = "NONE"
      BY <2>1
    <2>2. CASE r.type # "NONE"
      <3>1. Meant(s.image, s.l, r)
        BY <1>2, <2>2 DEF Patching
      <3>2. /\ a \in ImageWords(s.image) /\ r.type \in Handled
            /\ r.symbol \in DOMAIN s.image.symbols
            /\ s.l.mem[a] = Relocated(word, r.type, to)
            /\ r.type # "RELATIVE" =>
                 sym.defined \/ sym.name \in DOMAIN s.l.imports
        BY <3>1 DEF Meant
      <3>3. word \in Int
        BY <1>4, <3>2
      <3>4. sym \in ToSet(s.image.symbols)
        BY <3>2 DEF ToSet
      <3>5. r.type # "RELATIVE" => to \in Int /\ LeadsTo(s, sym, to)
        BY <1>1, <1>3, <3>2, <3>4, ResolvedLeads
      <3> HIDE DEF a, sym, to, word
      <3>6. r.type = "RELATIVE" => s.l.mem[a] = word + ImageBase
        BY <3>2 DEF Relocated
      <3>7. r.type \in {"GLOB_DAT", "JUMP_SLOT"} => LeadsTo(s, sym, s.l.mem[a])
        BY <3>2, <3>5 DEF Relocated
      <3>8. r.type = "ABS32" => LeadsTo(s, sym, s.l.mem[a] - word)
        <4> SUFFICES ASSUME r.type = "ABS32"
                     PROVE  LeadsTo(s, sym, s.l.mem[a] - word)
          OBVIOUS
        <4>1. s.l.mem[a] = word + to
          BY <3>2 DEF Relocated
        <4>2. to \in Int /\ LeadsTo(s, sym, to)
          BY <3>5
        <4>3. s.l.mem[a] - word = to
          BY ONLY <3>3, <4>1, <4>2
        <4> QED
          BY <4>2, <4>3
      <3> QED
        BY <3>6, <3>7, <3>8 DEF a, sym, word
    <2> QED
      BY <2>1, <2>2
  <1>6. Patched(s)
    BY ONLY <1>5 DEF Patched
  <1>7. AsFiled(s)
    BY <1>2 DEF AsFiled, Patching, Unnamed
  <1>8. ObjectsApart(s.l)
    BY DEF Linked, ObjectsInRoom
  <1> QED
    BY <1>6, <1>7, <1>8

-----------------------------------------------------------------------------
(* Every step of the loading.                                              *)
LEMMA LoadingIsLoaded ==
  ASSUME NEW tls \in BOOLEAN
  PROVE  WellLoaded(Loading(tls))
  <1> DEFINE s == Loading(tls)
             l == s.l
             image == s.image
  <1>1. /\ DOMAIN s = SessionFields /\ DOMAIN image = ImageFields
        /\ s.stage = "segments" /\ s.put = 0 /\ s.table = <<>>
        /\ l = parse_headers(Empty, tls)
        /\ image.tls = tls /\ image.segments = <<>>
        /\ image.symbols = <<>> /\ image.relocations = <<>>
    BY DEF Loading, SessionFields, ImageFields
  <1>2. /\ DOMAIN Empty = LoaderFields /\ Empty.error = ""
        /\ Empty.mem = <<>> /\ Empty.hi = 0 /\ Empty.thunks = <<>>
        /\ Empty.imports = <<>> /\ Empty.objects = <<>>
        /\ DOMAIN Empty.tramp = {"next", "limit"}
        /\ Empty.tramp.next = Trampolines
        /\ Empty.tramp.limit = Trampolines + TrampSize
        /\ DOMAIN Empty.data = {"next", "limit"}
        /\ Empty.data.next = DataImports
        /\ Empty.data.limit = DataImports + DataSize
    BY DEF Empty, LoaderFields
  <1> HIDE DEF s, l, image
  <1>3. CASE tls
    <2>1. l = Failed(Empty, "PT_TLS present")
      BY <1>1, <1>3 DEF parse_headers
    <2>2. l.error = "PT_TLS present"
      BY <1>2, <2>1, FailedIs
    <2>3. HasReason(image, l)
      BY <1>1, <1>3 DEF HasReason
    <2>4. l.error # ""
      BY <2>2
    <2> QED
      BY <1>1, <2>3, <2>4 DEF WellLoaded, l, image, s
  <1>4. CASE ~tls
    <2>1. l = Empty
      BY <1>1, <1>4 DEF parse_headers
    <2>2. /\ ToSet(image.segments) = {} /\ ToSet(image.symbols) = {}
          /\ ToSet(image.relocations) = {} /\ ImageWords(image) = {}
      BY <1>1 DEF ToSet, ImageWords
    <2>3. /\ DOMAIN l.thunks = {} /\ DOMAIN l.imports = {}
          /\ DOMAIN l.objects = {} /\ DOMAIN l.mem = {}
          /\ Len(l.thunks) = 0 /\ TrampolinesIn(l) = {}
      <3>1. /\ DOMAIN l.thunks = {} /\ DOMAIN l.imports = {}
            /\ DOMAIN l.objects = {} /\ DOMAIN l.mem = {}
            /\ Len(l.thunks) = 0
        <4>1. /\ l.thunks = <<>> /\ l.imports = <<>> /\ l.objects = <<>>
              /\ l.mem = <<>>
          BY ONLY <1>2, <2>1
        <4>2. DOMAIN <<>> = {} /\ Len(<<>>) = 0
          BY ONLY TRUE
        <4> QED
          BY ONLY <4>1, <4>2
      <3> QED
        BY ONLY <3>1 DEF TrampolinesIn
    <2>4. SegmentsApart(image) /\ EndsAtHi(image, l)
      <3>1. l.hi = 0
        BY ONLY <1>2, <2>1
      <3> QED
        BY ONLY <2>2, <3>1 DEF SegmentsApart, EndsAtHi
    <2>5. InMemory(image, l) /\ Patching(image, l) /\ Imported(image, l)
      BY ONLY <2>2, <2>3 DEF InMemory, Patching, Imported
    <2>6. ThunksInRoom(l)
      <3>1. l.thunks \in Seq(DOMAIN l.imports)
        <4>1. l.thunks = <<>>
          BY ONLY <1>2, <2>1
        <4> QED
          BY ONLY <4>1, EmptySeq
      <3>2. /\ l.tramp.next = Trampolines
            /\ l.tramp.limit = Trampolines + TrampSize
            /\ DOMAIN l.tramp = {"next", "limit"}
        BY ONLY <1>2, <2>1
      <3>3. Trampolines \in Nat
        BY RegionsAre
      <3>4. l.tramp.next = Trampolines + 8 * Len(l.thunks)
        BY ONLY <2>3, <3>2, <3>3
      <3> QED
        BY ONLY <2>3, <3>1, <3>2, <3>4 DEF ThunksInRoom
    <2>7. ObjectsInRoom(l)
      <3>1. /\ l.data.next = DataImports /\ DataImports \in Nat
            /\ DOMAIN l.data = {"next", "limit"}
            /\ l.data.limit = DataImports + DataSize
        BY ONLY <1>2, <2>1, RegionsAre
      <3>2. DataImports .. l.data.next - 1 = {}
        BY ONLY <3>1
      <3> QED
        BY ONLY <2>3, <3>1, <3>2 DEF ObjectsInRoom, ObjectsApart
    <2>8. TablesIn(s)
      <3>1. s.put = 0 /\ DOMAIN s.table = {}
        BY <1>1
      <3>2. Len(Tables) \in Nat
        BY ImageAssumption DEF ImageAssumption
      <3> QED
        BY ONLY <3>1, <3>2 DEF TablesIn
    <2>9. Shaped(s)
      <3>1. /\ image.segments \in Seq(Segments)
            /\ image.symbols \in Seq(Symbols)
            /\ image.relocations \in Seq(Relocations)
        BY ONLY <1>1, EmptySeq
      <3>2. DOMAIN l = LoaderFields
        BY ONLY <1>2, <2>1
      <3> QED
        BY ONLY <1>1, <3>1, <3>2 DEF Shaped, l, image
    <2>10. InStage(s)
      BY <1>1 DEF InStage, image
    <2>11. l.error = ""
      BY <1>2, <2>1
    <2> QED
      BY <2>4, <2>5, <2>6, <2>7, <2>8, <2>9, <2>10, <2>11
         DEF WellLoaded, Linked, l, image, s
  <1> QED
    BY <1>3, <1>4

LEMMA SegmentStep ==
  ASSUME NEW s, WellLoaded(s), s.l.error = "", s.stage = "segments",
         NEW seg \in Segments, InOrder(s.image, seg)
  PROVE  WellLoaded(ReadSegment(s, seg))
  <1> DEFINE t == ReadSegment(s, seg)
             m == t.l
             im == t.image
  <1>1. Shaped(s) /\ InStage(s) /\ TablesIn(s) /\ Linked(s.image, s.l)
    BY DEF WellLoaded
  <1>2. /\ DOMAIN t = SessionFields /\ DOMAIN im = ImageFields
        /\ t.stage = s.stage /\ t.put = s.put /\ t.table = s.table
        /\ m = MapSegment(s.l, seg)
        /\ im.segments = Append(s.image.segments, seg)
        /\ im.symbols = s.image.symbols
        /\ im.relocations = s.image.relocations
    BY ONLY <1>1, ReadSegmentIs
  <1> HIDE DEF t, m, im
  <1>3. /\ DOMAIN s.l = LoaderFields /\ s.image.segments \in Seq(Segments)
        /\ s.image.symbols \in Seq(Symbols)
        /\ s.image.relocations \in Seq(Relocations)
    BY ONLY <1>1 DEF Shaped
  <1>4. s.image.symbols = <<>> /\ s.image.relocations = <<>>
    BY <1>1 DEF InStage
  <1>5. /\ SameBut(s.l, m, {"mem", "hi"})
        /\ m.mem = Written(s.l.mem, Mapped(seg))
        /\ m.hi = Max({s.l.hi, seg.vaddr + seg.memsz})
    BY ONLY <1>2, <1>3, MapSegmentIs
  <1>6. Linked(im, m)
    BY ONLY <1>1, <1>2, <1>3, <1>4, <1>5, InOrder(s.image, seg),
            seg \in Segments, SegmentKeeps
  <1>7. m.error = "" /\ DOMAIN m = LoaderFields
    BY <1>5 DEF SameBut, LoaderFields
  <1>8. Shaped(t)
    <2>1. im.segments \in Seq(Segments)
      BY ONLY <1>2, <1>3, seg \in Segments, AppendProperties
    <2> QED
      BY ONLY <1>2, <1>3, <1>7, <2>1 DEF Shaped, m, im
  <1>9. InStage(t)
    BY <1>2, <1>4 DEF InStage, im
  <1>10. TablesIn(t)
    BY <1>1, <1>2 DEF TablesIn
  <1> QED
    BY <1>6, <1>7, <1>8, <1>9, <1>10 DEF WellLoaded, t, m, im

LEMMA DynamicStep ==
  ASSUME NEW s, WellLoaded(s), s.l.error = "", s.stage = "segments",
         NEW textrel \in BOOLEAN
  PROVE  WellLoaded(ReadDynamic(s, textrel))
  <1> DEFINE t == ReadDynamic(s, textrel)
             m == t.l
             im == t.image
             a == AfterSegments(s.l)
  <1>1. Shaped(s) /\ InStage(s) /\ TablesIn(s) /\ Linked(s.image, s.l)
    BY DEF WellLoaded
  <1>2. /\ DOMAIN t = SessionFields /\ DOMAIN im = ImageFields
        /\ t.stage = "symbols" /\ t.put = s.put /\ t.table = s.table
        /\ Fine(a) => m = parse_dynamic(a, textrel)
        /\ ~Fine(a) => m = a
        /\ im.textrel = textrel
        /\ im.segments = s.image.segments
        /\ im.symbols = s.image.symbols
        /\ im.relocations = s.image.relocations
    BY ONLY <1>1, ReadDynamicIs
  <1> HIDE DEF t, m, im, a
  <1>3. DOMAIN s.l = LoaderFields
    BY ONLY <1>1 DEF Shaped
  <1>4. CASE ImageBase + s.l.hi > ImageLimit
    <2>1. a = Failed(s.l, "image too large")
      BY <1>4 DEF AfterSegments, a
    <2>2. a.error = "image too large"
      BY ONLY <1>3, <2>1, FailedIs
    <2>3. a.error # ""
      BY ONLY <2>2
    <2>4. m = a
      BY <1>2, <2>3 DEF Fine
    <2>5. PICK seg \in ToSet(s.image.segments) :
            s.l.hi = seg.vaddr + seg.memsz
      <3>1. s.l.hi # 0
        <4>1. ImageBase < ImageLimit
          BY LoaderAssumption DEF LoaderAssumption
        <4> QED
          BY ONLY <1>4, <4>1, RegionsAre
      <3> QED
        BY <1>1, <3>1 DEF Linked, EndsAtHi
    <2>6. ImageBase + seg.vaddr + seg.memsz > ImageLimit
      <3>1. seg \in Segments
        BY <1>1, ToSetIn DEF Shaped
      <3>2. /\ seg.vaddr \in Nat /\ seg.memsz \in Nat
            /\ ImageBase \in Nat /\ ImageLimit \in Nat
        BY <3>1, SegmentsAre, RegionsAre
      <3> QED
        BY ONLY <1>4, <2>5, <3>2
    <2>7. HasReason(im, m)
      <3>1. seg \in ToSet(im.segments)
        BY <1>2
      <3> QED
        BY <2>6, <3>1 DEF HasReason
    <2> QED
      BY <1>2, <2>3, <2>4, <2>7 DEF WellLoaded, t, m, im
  <1>5. CASE ~(ImageBase + s.l.hi > ImageLimit)
    <2>1. a = s.l
      BY <1>5 DEF AfterSegments, a
    <2>2. m = parse_dynamic(s.l, textrel)
      BY <1>2, <2>1 DEF Fine
    <2>3. CASE textrel
      <3>1. m = Failed(s.l, "DT_TEXTREL")
        BY <2>2, <2>3 DEF parse_dynamic
      <3>2. m.error = "DT_TEXTREL"
        BY ONLY <1>3, <3>1, FailedIs
      <3>3. m.error # ""
        BY ONLY <3>2
      <3>4. HasReason(im, m)
        BY <1>2, <2>3 DEF HasReason
      <3> QED
        BY <1>2, <3>3, <3>4 DEF WellLoaded, t, m, im
    <2>4. CASE ~textrel
      <3>1. m = s.l
        BY <2>2, <2>4 DEF parse_dynamic
      <3>2. Linked(im, m)
        <4>1. ImageWords(im) = ImageWords(s.image)
          BY <1>2 DEF ImageWords
        <4>2. \A x : FileWord(im, x) = FileWord(s.image, x)
          BY <1>2 DEF FileWord
        <4>3. SegmentsApart(im) /\ EndsAtHi(im, m)
          BY <1>1, <1>2, <3>1 DEF Linked, SegmentsApart, EndsAtHi
        <4>4. InMemory(im, m) /\ Imported(im, m)
          <5>1. InMemory(s.image, s.l) /\ Imported(s.image, s.l)
            BY <1>1 DEF Linked
          <5>2. im.symbols = s.image.symbols
            BY <1>2
          <5>3. InMemory(im, m)
            BY ONLY <3>1, <4>1, <5>1 DEF InMemory
          <5>4. Imported(im, m)
            BY ONLY <3>1, <5>1, <5>2 DEF Imported
          <5> QED
            BY <5>3, <5>4
        <4>5. Patching(im, m)
          <5>1. ToSet(im.relocations) = {} /\ ToSet(s.image.relocations) = {}
            <6>1. s.image.relocations = <<>> /\ im.relocations = <<>>
              BY <1>1, <1>2 DEF InStage
            <6> QED
              BY ONLY <6>1 DEF ToSet
          <5>2. Patching(s.image, s.l)
            BY <1>1 DEF Linked
          <5> QED
            BY ONLY <3>1, <4>1, <4>2, <5>1, <5>2 DEF Patching, Unnamed
        <4>6. ThunksInRoom(m) /\ ObjectsInRoom(m)
          BY <1>1, <3>1 DEF Linked
        <4> QED
          BY <4>3, <4>4, <4>5, <4>6 DEF Linked
      <3>3. Shaped(t)
        BY <1>1, <1>2, <1>3, <3>1 DEF Shaped, m, im
      <3>4. InStage(t)
        <4>1. ImageBase + m.hi <= ImageLimit
          <5>1. s.l.hi \in Nat
            BY <1>1 DEF Linked, EndsAtHi
          <5> QED
            BY ONLY <1>5, <3>1, <5>1, RegionsAre
        <4>2. im.relocations = <<>>
          BY <1>1, <1>2 DEF InStage
        <4> QED
          BY <1>2, <4>1, <4>2 DEF InStage, m, im
      <3>5. TablesIn(t)
        BY <1>1, <1>2 DEF TablesIn
      <3> QED
        BY <3>1, <3>2, <3>3, <3>4, <3>5 DEF WellLoaded, t, m, im
    <2> QED
      BY <2>3, <2>4
  <1> QED
    BY <1>4, <1>5

LEMMA SymbolStep ==
  ASSUME NEW s, WellLoaded(s), s.l.error = "", s.stage = "symbols",
         NEW sym \in Symbols, OneMeaning(s.image, sym)
  PROVE  WellLoaded(ReadSymbol(s, sym))
  <1> DEFINE t == ReadSymbol(s, sym)
             m == t.l
             im == t.image
  <1>1. Shaped(s) /\ InStage(s) /\ TablesIn(s) /\ Linked(s.image, s.l)
    BY DEF WellLoaded
  <1>2. /\ DOMAIN t = SessionFields /\ DOMAIN im = ImageFields
        /\ t.stage = s.stage /\ t.put = s.put /\ t.table = s.table
        /\ m = Bind(s.l, sym)
        /\ im.symbols = Append(s.image.symbols, sym)
        /\ im.segments = s.image.segments
        /\ im.relocations = s.image.relocations
    BY ONLY <1>1, ReadSymbolIs
  <1> HIDE DEF t, m, im
  <1>3. /\ DOMAIN s.l = LoaderFields /\ s.image.segments \in Seq(Segments)
        /\ s.image.symbols \in Seq(Symbols)
        /\ s.image.relocations \in Seq(Relocations)
    BY ONLY <1>1 DEF Shaped
  <1>4. /\ s.image.relocations = <<>>
        /\ ImageBase + s.l.hi <= ImageLimit
    BY <1>1 DEF InStage
  <1>5. NewSymbol(s.image, im, sym)
    BY <1>2, <1>3, <1>4 DEF NewSymbol
  <1>6. /\ DOMAIN m = LoaderFields
        /\ Fine(m) => Linked(im, m) /\ m.hi = s.l.hi
        /\ ~Fine(m) => HasReason(im, m)
    <2>1. Fine(s.l)
      BY DEF Fine
    <2> QED
      BY ONLY <1>1, <1>2, <1>3, <1>4, <1>5, <2>1,
              OneMeaning(s.image, sym), SymbolKeeps
  <1>7. CASE ~Fine(m)
    BY <1>2, <1>6, <1>7 DEF Fine, WellLoaded, t, m, im
  <1>8. CASE Fine(m)
    <2>1. Shaped(t)
      <3>1. im.symbols \in Seq(Symbols)
        BY ONLY <1>2, <1>3, sym \in Symbols, AppendProperties
      <3> QED
        BY ONLY <1>2, <1>3, <1>6, <3>1 DEF Shaped, m, im
    <2>2. InStage(t)
      BY <1>2, <1>4, <1>6, <1>8 DEF InStage, m, im
    <2>3. TablesIn(t)
      BY <1>1, <1>2 DEF TablesIn
    <2> QED
      BY <1>6, <1>8, <2>1, <2>2, <2>3 DEF Fine, WellLoaded, t, m, im
  <1> QED
    BY <1>7, <1>8

LEMMA RelocationStep ==
  ASSUME NEW s, WellLoaded(s), s.l.error = "",
         s.stage \in {"symbols", "relocations"},
         NEW r \in Relocations, Patches(s.image, r)
  PROVE  WellLoaded(ReadRelocation(s, r))
  <1> DEFINE t == ReadRelocation(s, r)
             m == t.l
             im == t.image
  <1>1. Shaped(s) /\ InStage(s) /\ TablesIn(s) /\ Linked(s.image, s.l)
    BY DEF WellLoaded
  <1>2. /\ DOMAIN t = SessionFields /\ DOMAIN im = ImageFields
        /\ t.stage = "relocations" /\ t.put = s.put /\ t.table = s.table
        /\ m = Relocate(s.l, s.image, r)
        /\ im.relocations = Append(s.image.relocations, r)
        /\ im.segments = s.image.segments
        /\ im.symbols = s.image.symbols
    BY ONLY <1>1, ReadRelocationIs
  <1> HIDE DEF t, m, im
  <1>3. /\ DOMAIN s.l = LoaderFields /\ s.image.segments \in Seq(Segments)
        /\ s.image.symbols \in Seq(Symbols)
        /\ s.image.relocations \in Seq(Relocations)
    BY ONLY <1>1 DEF Shaped
  <1>4. ImageBase + s.l.hi <= ImageLimit
    BY <1>1 DEF InStage
  <1>5. NewRelocation(s.image, im, r)
    BY <1>2, <1>3 DEF NewRelocation
  <1>6. /\ DOMAIN m = LoaderFields
        /\ Fine(m) => Linked(im, m) /\ m.hi = s.l.hi
        /\ ~Fine(m) => HasReason(im, m)
    <2>1. Fine(s.l)
      BY DEF Fine
    <2> QED
      <3>1. /\ Linked(s.image, s.l) /\ DOMAIN s.l = LoaderFields
            /\ m = Relocate(s.l, s.image, r) /\ Patches(s.image, r)
        BY <1>1, <1>2, <1>3
      <3> QED
        BY ONLY <1>4, <1>5, <2>1, <3>1, RelocationKeeps
  <1>7. CASE ~Fine(m)
    BY <1>2, <1>6, <1>7 DEF Fine, WellLoaded, t, m, im
  <1>8. CASE Fine(m)
    <2>1. Shaped(t)
      <3>1. im.relocations \in Seq(Relocations)
        BY ONLY <1>2, <1>3, r \in Relocations, AppendProperties
      <3> QED
        BY ONLY <1>2, <1>3, <1>6, <3>1 DEF Shaped, m, im
    <2>2. InStage(t)
      BY <1>2, <1>4, <1>6, <1>8 DEF InStage, m, im
    <2>3. TablesIn(t)
      BY <1>1, <1>2 DEF TablesIn
    <2> QED
      BY <1>6, <1>8, <2>1, <2>2, <2>3 DEF Fine, WellLoaded, t, m, im
  <1> QED
    BY <1>7, <1>8

LEMMA TableStep ==
  ASSUME NEW s, WellLoaded(s), s.l.error = "",
         s.stage \in {"symbols", "relocations", "tables"},
         s.put < Len(Tables)
  PROVE  WellLoaded(PutTable(s))
  <1> DEFINE t == PutTable(s)
  <1>1. Shaped(s) /\ InStage(s) /\ TablesIn(s) /\ Linked(s.image, s.l)
    BY DEF WellLoaded
  <1>2. /\ DOMAIN t = SessionFields
        /\ t.stage = "tables" /\ t.put = s.put + 1
        /\ t.table = PutIn(s.table, s.put + 1)
        /\ t.l = s.l /\ t.image = s.image
    BY ONLY <1>1, PutTableIs
  <1> HIDE DEF t
  <1>3. TablesIn(t)
    BY <1>1, <1>2, TableIsPut
  <1>4. Shaped(t)
    BY ONLY <1>1, <1>2 DEF Shaped
  <1>5. InStage(t)
    BY <1>1, <1>2 DEF InStage
  <1> QED
    BY <1>1, <1>2, <1>3, <1>4, <1>5 DEF WellLoaded, t

LEMMA BindStep ==
  ASSUME NEW s, WellLoaded(s), s.l.error = "",
         s.stage = "tables", s.put = Len(Tables)
  PROVE  WellLoaded(BindThunks(s))
  <1> DEFINE t == BindThunks(s)
  <1>1. Shaped(s) /\ InStage(s) /\ TablesIn(s) /\ Linked(s.image, s.l)
    BY DEF WellLoaded
  <1>2. /\ DOMAIN t = SessionFields
        /\ t.stage = "bound" /\ t.put = s.put /\ t.table = s.table
        /\ t.bound = bind_thunks(s.l.thunks, s.table)
        /\ t.l = s.l /\ t.image = s.image
    BY ONLY <1>1, BindThunksIs
  <1> HIDE DEF t
  <1>3. TablesIn(t)
    BY <1>1, <1>2 DEF TablesIn
  <1>4. Shaped(t)
    BY ONLY <1>1, <1>2 DEF Shaped
  <1>5. InStage(t)
    BY <1>1, <1>2 DEF InStage
  <1> QED
    BY <1>1, <1>2, <1>3, <1>4, <1>5 DEF WellLoaded, t

(* Every image a load accepts is linked as it asks, whatever its segments, *)
(* symbols and relocations and however small the regions: each relocated   *)
(* word leads to what its symbol names, and a load fails only for a        *)
(* reason.                                                                 *)
(* (elf_loader.cpp, load; env.cpp, bind_thunks, CallSVC)                   *)
THEOREM LoadedImageIsLinked == LoadSpec => []ImageIsLinked
  <1>1. call = NoCall => LoadInv
    BY DEF LoadInv, NoCall
  <1>2. LoadInv /\ [Load \/ call'.fn # "load"]_call => LoadInv'
    <2> SUFFICES ASSUME LoadInv, Load, call'.fn = "load"
                 PROVE  WellLoaded(call')
      BY DEF LoadInv, WellLoaded
    <2>1. CASE \E tls \in BOOLEAN : Called(Loading(tls))
      BY <2>1, LoadingIsLoaded DEF Called
    <2>2. CASE call.fn = "load" /\ call.l.error = ""
      <3>1. WellLoaded(call)
        BY <2>2 DEF LoadInv
      <3>2. ASSUME call.stage = "segments", NEW seg \in Segments,
                   InOrder(call.image, seg), Called(ReadSegment(call, seg))
            PROVE  WellLoaded(call')
        BY <2>2, <3>1, <3>2, SegmentStep DEF Called
      <3>3. ASSUME call.stage = "segments", NEW textrel \in BOOLEAN,
                   Called(ReadDynamic(call, textrel))
            PROVE  WellLoaded(call')
        BY <2>2, <3>1, <3>3, DynamicStep DEF Called
      <3>4. ASSUME call.stage = "symbols", NEW sym \in Symbols,
                   OneMeaning(call.image, sym), Called(ReadSymbol(call, sym))
            PROVE  WellLoaded(call')
        BY <2>2, <3>1, <3>4, SymbolStep DEF Called
      <3>5. ASSUME call.stage \in {"symbols", "relocations"},
                   NEW r \in Relocations, Patches(call.image, r),
                   Called(ReadRelocation(call, r))
            PROVE  WellLoaded(call')
        BY <2>2, <3>1, <3>5, RelocationStep DEF Called
      <3>6. ASSUME call.stage \in {"symbols", "relocations", "tables"},
                   call.put < Len(Tables), Called(PutTable(call))
            PROVE  WellLoaded(call')
        BY <2>2, <3>1, <3>6, TableStep DEF Called
      <3>7. ASSUME call.stage = "tables", call.put = Len(Tables),
                   Called(BindThunks(call))
            PROVE  WellLoaded(call')
        BY <2>2, <3>1, <3>7, BindStep DEF Called
      <3>8. CASE call = NoCall
        BY <2>2, <3>8 DEF NoCall
      <3>9. CASE call # NoCall
        BY <3>2, <3>3, <3>4, <3>5, <3>6, <3>7, <3>9 DEF Load
      <3> QED
        BY <3>8, <3>9
    <2> QED
      BY <2>1, <2>2 DEF Load
  <1>3. LoadInv => ImageIsLinked
    <2> SUFFICES ASSUME LoadInv, call.fn = "load"
                 PROVE  /\ call.l.error # "" => HasReason(call.image, call.l)
                        /\ call.stage = "bound" =>
                             /\ Patched(call) /\ AsFiled(call)
                             /\ ObjectsApart(call.l)
      BY DEF ImageIsLinked
    <2>1. WellLoaded(call)
      BY DEF LoadInv
    <2>2. CASE call.l.error # ""
      BY <2>1, <2>2 DEF WellLoaded
    <2>3. CASE call.l.error = ""
      BY <2>1, <2>3, BoundIsLinked DEF WellLoaded
    <2> QED
      BY <2>2, <2>3
  <1> QED
    BY <1>1, <1>2, <1>3, PTL DEF LoadSpec
=============================================================================
