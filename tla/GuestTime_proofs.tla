--------------------------- MODULE GuestTime_proofs ---------------------------
(***************************************************************************)
(* Theorems about GuestCond, for any number of threads, conditions and     *)
(* recursions of the lock, and about TimePage, for any number of readers,  *)
(* any time and any width of the sequence word: the waits with a deadline, *)
(* and the clock the guest sets its deadlines by.  The two share nothing   *)
(* but this module.                                                        *)
(*                                                                         *)
(* Each property of GuestCond rests on a part of the invariant of its own: *)
(* Locking says how a thread in a wait stands to the mutex, Clocks what a  *)
(* sleep knows of its deadline, Tokens which thread is at which host       *)
(* condition.                                                              *)
(***************************************************************************)
EXTENDS GuestCond, TimePage, TLAPS

CondTypes ==
  /\ holder \in [{M} -> Threads \cup {NoThread}] /\ count \in [{M} -> Nat]
  /\ word \in [Conds -> Nat] /\ ready \in [Conds -> BOOLEAN] /\ made \in Nat
  /\ pc \in [Threads -> Stages] /\ op \in [Threads -> Ops]
  /\ obj \in [Threads -> Conds] /\ tok \in [Threads -> Nat]
  /\ deadline \in [Threads -> Deadlines] /\ wake \in [Threads -> Nat]
  /\ capped \in [Threads -> BOOLEAN] /\ ret \in [Threads -> {0, kETimedOut}]
  /\ nest \in [Threads -> Nat] /\ due \in [Threads -> SUBSET Threads]
  /\ now \in Nat

Awake == {"load", "create", "store", "act"}
Gone  == {"parked", "notified", "relock"}

(* Only waits sleep, and a thread outside the thunks is in none.           *)
OpsFit ==
  \A t \in Threads : /\ pc[t] \in Gone => op[t] \in Waits
                     /\ pc[t] = "guest" <=> op[t] = "none"

(* Before it sleeps a waiter has the lock as often as nest says, which is  *)
(* not at all when others have let go of all it had.  While it is away it  *)
(* has given up one level: it still holds a lock it had more than once.    *)
Locking ==
  /\ holder[M] = NoThread <=> count[M] = 0
  /\ \A t \in Threads : op[t] \in Waits =>
       /\ pc[t] \in Awake => Held(t) = nest[t]
       /\ pc[t] \in Gone => Held(t) = IF nest[t] = 0 THEN 0 ELSE nest[t] - 1

(* A sleep that was not cut to a slice does not end before its deadline.   *)
Clocks ==
  \A t \in Threads :
    pc[t] \in {"parked", "notified"} /\ op[t] = "timedwait" /\ ~capped[t] =>
      deadline[t] # NoDeadline /\ deadline[t] <= wake[t]

(* Tokens in use have been handed out; one not yet stored is its creator's *)
(* alone; that of an object the guest initialises is no other object's.    *)
TokensUnique ==
  /\ \A c \in Conds : word[c] <= made
  /\ \A t \in Threads : tok[t] <= made /\ (pc[t] = "guest" => tok[t] = 0)
  /\ \A t \in Threads : pc[t] = "store" =>
       /\ tok[t] # 0
       /\ \A c \in Conds : word[c] # tok[t]
       /\ \A u \in Threads \ {t} : tok[u] # tok[t]
  /\ \A c \in Conds \ StaticInit : word[c] # 0 =>
       /\ \A d \in Conds : word[d] = word[c] => d = c
       /\ \A t \in Threads : tok[t] = word[c] => obj[t] = c

(* pthread_cond_init runs before its object is ready, and alone; whoever   *)
(* comes later finds the token it stored.                                  *)
InitAlone ==
  \A c \in Conds \ StaticInit :
    /\ ready[c] => word[c] # 0
    /\ \A t \in InCall(c) :
         /\ ready[c] <=> op[t] # "init"
         /\ pc[t] \in {"create", "store"} => op[t] = "init"
         /\ pc[t] \in {"act"} \cup Gone => word[c] # 0 /\ tok[t] = word[c]
         /\ ~ready[c] => InCall(c) = {t}

StaticReady == \A c \in StaticInit : ready[c]

Tokens == TokensUnique /\ InitAlone /\ StaticReady

IInv == CondTypes /\ OpsFit /\ Locking /\ Clocks /\ Tokens

-----------------------------------------------------------------------------
USE CondAssumption DEF CondAssumption

LEMMA LockIs ==
  /\ Lock!Init <=> /\ holder = [o \in {M} |-> NoThread]
                   /\ count = [o \in {M} |-> 0]
  /\ \A t \in Threads : Lock!Acquire(t, M) <=>
       /\ holder[M] \in {NoThread, t}
       /\ holder' = [holder EXCEPT ![M] = t]
       /\ count' = [count EXCEPT ![M] = @ + 1]
  /\ Lock!Release(M) <=>
       /\ holder[M] # NoThread
       /\ holder' = [holder EXCEPT ![M] = IF count[M] > 1 THEN @ ELSE NoThread]
       /\ count' = [count EXCEPT ![M] = @ - 1]
  BY DEF Lock!Init, Lock!Acquire, Lock!Release

(* What a step may be.                                                     *)
Entry(t) ==
  \E c \in Conds :
    \/ CallInit(t, c) \/ CallWait(t, c)
    \/ \E d \in Deadlines : CallTimedWait(t, c, d)
    \/ \E f \in Wakers : CallWaker(t, c, f)

Finding(t) == LoadToken(t) \/ CreateToken(t) \/ StoreToken(t)

Waking(t) == Timeout(t) \/ Resume(t) \/ SpuriousWake(t)

LEMMA StepIs ==
  ASSUME Next
  PROVE  \/ Tick
         \/ \E t \in Threads :
              \/ GuestLocks(t) \/ GuestUnlocks(t) \/ Entry(t) \/ Finding(t)
              \/ FinishInit(t) \/ Wait(t) \/ TimedWaitPast(t) \/ TimedWait(t)
              \/ Waking(t) \/ Relock(t) \/ Signal(t) \/ Broadcast(t)
  BY Zenon DEF Next, GuestStep, ThunkStep, Entry, Finding, Waking

-----------------------------------------------------------------------------
LEMMA InitHolds == Init => IInv
  <1> SUFFICES ASSUME Init PROVE IInv
    OBVIOUS
  <1> USE LockIs DEF Init
  <1>1. CondTypes
    BY DEF CondTypes, Stages, Ops, Deadlines
  <1>2. OpsFit /\ Locking /\ Clocks
    BY DEF OpsFit, Locking, Clocks, Gone, Waits, Awake
  <1>3. TokensUnique
    BY DEF TokensUnique
  <1>4. InitAlone /\ StaticReady
    BY DEF InitAlone, StaticReady, InCall
  <1> QED
    BY <1>1, <1>2, <1>3, <1>4 DEF IInv, Tokens

LEMMA DropTyped ==
  ASSUME CondTypes, NEW t \in Threads, Drop(t)
  PROVE  /\ op' \in [Threads -> Ops] /\ obj' \in [Threads -> Conds]
         /\ tok' \in [Threads -> Nat] /\ deadline' \in [Threads -> Deadlines]
         /\ wake' \in [Threads -> Nat] /\ capped' \in [Threads -> BOOLEAN]
         /\ nest' \in [Threads -> Nat]
         /\ due' \in [Threads -> SUBSET Threads]
  <1> USE DEF CondTypes, Drop
  <1>1. op' \in [Threads -> Ops] /\ obj' \in [Threads -> Conds]
    BY DEF Ops
  <1>2. tok' \in [Threads -> Nat] /\ wake' \in [Threads -> Nat]
        /\ nest' \in [Threads -> Nat]
    OBVIOUS
  <1>3. deadline' \in [Threads -> Deadlines]
    BY DEF Deadlines
  <1>4. capped' \in [Threads -> BOOLEAN]
    OBVIOUS
  <1>5. due' \in [Threads -> SUBSET Threads]
    OBVIOUS
  <1> QED
    BY <1>1, <1>2, <1>3, <1>4, <1>5

(* Before it sleeps and while it is away a waiter has no more of the lock  *)
(* than nest says.                                                         *)
LEMMA HeldAtMost ==
  ASSUME CondTypes, OpsFit, Locking, NEW t \in Threads, op[t] \in Waits
  PROVE  Held(t) <= nest[t] /\ Held(t) \in Nat /\ nest[t] \in Nat
  <1>1. pc[t] \in Awake \cup Gone
    BY DEF CondTypes, OpsFit, Stages, Awake, Gone, Waits
  <1>2. Held(t) \in Nat /\ nest[t] \in Nat
    BY DEF CondTypes, Held
  <1> QED
    BY <1>1, <1>2 DEF Locking

(* What letting go of the lock once leaves: its holder has one level less, *)
(* and so has what the holder will find again when it is another thread.   *)
LEMMA Unlocked ==
  ASSUME CondTypes, OpsFit, Locking, NEW t \in Threads, Unlock(t)
  PROVE  /\ holder' \in [{M} -> Threads \cup {NoThread}]
         /\ count' \in [{M} -> Nat] /\ nest' \in [Threads -> Nat]
         /\ holder'[M] = NoThread <=> count'[M] = 0
         /\ nest'[t] = nest[t]
         /\ Held(t)' = IF Held(t) = 0 THEN 0 ELSE Held(t) - 1
         /\ \A u \in Threads \ {t} : op[u] \in Waits =>
              \/ Held(u)' = Held(u) /\ nest'[u] = nest[u]
              \/ /\ Held(u) > 0 /\ Held(u)' = Held(u) - 1
                 /\ nest'[u] = nest[u] - 1
  <1>1. /\ holder \in [{M} -> Threads \cup {NoThread}] /\ count \in [{M} -> Nat]
        /\ holder[M] = NoThread <=> count[M] = 0
        /\ nest \in [Threads -> Nat]
    BY DEF CondTypes, Locking
  <1> DEFINE robbed(u) == u # t /\ u = holder[M] /\ op[u] \in Waits
  <1>2. nest' = [u \in Threads |-> IF robbed(u) THEN nest[u] - 1 ELSE nest[u]]
    BY DEF Unlock
  <1>3. \A u \in Threads : robbed(u) => nest[u] - 1 \in Nat
    <2> SUFFICES ASSUME NEW u \in Threads, robbed(u) PROVE nest[u] - 1 \in Nat
      OBVIOUS
    <2>1. Held(u) = count[M] /\ count[M] \in Nat \ {0}
      BY <1>1 DEF Held
    <2>2. Held(u) <= nest[u] /\ nest[u] \in Nat
      BY HeldAtMost
    <2> QED
      BY ONLY <2>1, <2>2
  <1>4. nest' \in [Threads -> Nat]
    BY <1>1, <1>2, <1>3
  <1>5. nest'[t] = nest[t]
    BY <1>2
  <1>6. CASE holder[M] = NoThread
    <2>1. UNCHANGED lockVars
      BY <1>6 DEF Unlock
    <2>2. \A u \in Threads : ~robbed(u) /\ Held(u) = 0 /\ Held(u)' = 0
      BY <1>6, <2>1 DEF lockVars, Held
    <2>3. \A u \in Threads : nest'[u] = nest[u]
      BY <1>2, <2>2
    <2> QED
      BY <1>1, <1>4, <1>6, <2>1, <2>2, <2>3 DEF lockVars
  <1>7. CASE holder[M] # NoThread
    <2>1. Lock!Release(M)
      BY <1>7 DEF Unlock
    <2>2. /\ holder' = [holder EXCEPT ![M] = IF count[M] > 1 THEN @ ELSE NoThread]
          /\ count' = [count EXCEPT ![M] = @ - 1]
      BY <2>1, LockIs
    <2>3. count[M] \in Nat \ {0}
      BY <1>1, <1>7
    <2>4. count'[M] = count[M] - 1 /\ count' \in [{M} -> Nat]
      BY <1>1, <2>2, <2>3
    <2>5. /\ holder'[M] = IF count[M] > 1 THEN holder[M] ELSE NoThread
          /\ holder' \in [{M} -> Threads \cup {NoThread}]
      BY <1>1, <2>2
    <2>6. holder'[M] = NoThread <=> count'[M] = 0
      BY <1>7, <2>3, <2>4, <2>5
    <2>7. \A u \in Threads :
            IF u = holder[M]
            THEN Held(u) = count[M] /\ Held(u)' = count[M] - 1
            ELSE Held(u) = 0 /\ Held(u)' = 0
      BY <2>3, <2>4, <2>5 DEF Held
    <2>8. Held(t)' = IF Held(t) = 0 THEN 0 ELSE Held(t) - 1
      BY <2>3, <2>7
    <2>9. ASSUME NEW u \in Threads \ {t}, op[u] \in Waits
          PROVE  \/ Held(u)' = Held(u) /\ nest'[u] = nest[u]
                 \/ /\ Held(u) > 0 /\ Held(u)' = Held(u) - 1
                    /\ nest'[u] = nest[u] - 1
      <3>1. nest'[u] = IF u = holder[M] THEN nest[u] - 1 ELSE nest[u]
        BY <1>2, <2>9
      <3> QED
        BY <2>3, <2>7, <3>1
    <2> QED
      BY <1>4, <1>5, <2>4, <2>5, <2>6, <2>8, <2>9
  <1> QED
    BY <1>6, <1>7

LEMMA Acquired ==
  ASSUME CondTypes, NEW t \in Threads, Lock!Acquire(t, M)
  PROVE  /\ holder[M] \in {NoThread, t} /\ holder'[M] = t
         /\ count[M] \in Nat /\ count'[M] = count[M] + 1
         /\ holder' \in [{M} -> Threads \cup {NoThread}]
         /\ count' \in [{M} -> Nat]
         /\ \A u \in Threads \ {t} : Held(u) = 0 /\ Held(u)' = 0
  <1>1. /\ holder[M] \in {NoThread, t}
        /\ holder' = [holder EXCEPT ![M] = t]
        /\ count' = [count EXCEPT ![M] = @ + 1]
    BY LockIs
  <1>2. /\ holder \in [{M} -> Threads \cup {NoThread}]
        /\ count \in [{M} -> Nat]
    BY DEF CondTypes
  <1>3. holder'[M] = t /\ count'[M] = count[M] + 1
    BY <1>1, <1>2
  <1>4. \A u \in Threads \ {t} : Held(u) = 0 /\ Held(u)' = 0
    BY <1>1, <1>3 DEF Held
  <1> QED
    BY <1>1, <1>2, <1>3, <1>4

LEMMA Typing == CondTypes /\ OpsFit /\ Locking /\ [Next]_vars => CondTypes'
  <1> SUFFICES ASSUME CondTypes, OpsFit, Locking, [Next]_vars PROVE CondTypes'
    OBVIOUS
  <1> USE DEF CondTypes, Stages, Ops, Waits, Wakers, Deadlines, Go, lockVars,
             memoryVars, callVars
  <1>0. CASE UNCHANGED vars
    BY <1>0 DEF vars
  <1>1. CASE Tick
    BY <1>1 DEF Tick
  <1> SUFFICES ASSUME NEW t \in Threads,
         \/ GuestLocks(t) \/ GuestUnlocks(t) \/ Entry(t) \/ Finding(t)
         \/ FinishInit(t) \/ Wait(t) \/ TimedWaitPast(t) \/ TimedWait(t)
         \/ Waking(t) \/ Relock(t) \/ Signal(t) \/ Broadcast(t)
       PROVE CondTypes'
    BY <1>0, <1>1, StepIs
  <1>2. CASE GuestLocks(t) \/ GuestUnlocks(t)
    <2>1. /\ (Lock!Acquire(t, M) /\ UNCHANGED nest) \/ Unlock(t)
          /\ UNCHANGED <<memoryVars, pc, op, obj, tok, deadline, wake, capped, due,
                         ret, now>>
      BY <1>2 DEF GuestLocks, GuestUnlocks
    <2>2. /\ holder' \in [{M} -> Threads \cup {NoThread}]
          /\ count' \in [{M} -> Nat] /\ nest' \in [Threads -> Nat]
      BY <2>1, Acquired, Unlocked
    <2> QED
      BY <2>1, <2>2
  <1>3. CASE Entry(t)
    <2>1. PICK c \in Conds :
            \/ CallInit(t, c) \/ CallWait(t, c)
            \/ \E d \in Deadlines : CallTimedWait(t, c, d)
            \/ \E f \in Wakers : CallWaker(t, c, f)
      BY <1>3 DEF Entry
    <2>2. \E f \in Ops : Enter(t, c, f)
      BY <2>1 DEF CallInit, CallWait, CallTimedWait, CallWaker
    <2>3. /\ pc' \in [Threads -> Stages] /\ op' \in [Threads -> Ops]
          /\ obj' \in [Threads -> Conds] /\ ret' \in [Threads -> {0, kETimedOut}]
          /\ UNCHANGED <<lockVars, made, tok, wake, capped, now>>
      BY <2>2 DEF Enter
    <2>4. /\ ready' = ready
          /\ word' = word \/ word' = [word EXCEPT ![c] = 0]
          /\ \/ deadline' = deadline
             \/ \E d \in Deadlines : deadline' = [deadline EXCEPT ![t] = d]
          /\ nest' = nest \/ nest' = [nest EXCEPT ![t] = Held(t)]
          /\ due' = due \/ due' = [due EXCEPT ![t] = ParkedFor(c)]
      BY <2>1 DEF CallInit, CallWait, CallTimedWait, CallWaker
    <2>5. word' \in [Conds -> Nat] /\ ready' \in [Conds -> BOOLEAN]
      BY <2>4
    <2>6. deadline' \in [Threads -> Deadlines]
      BY <2>4
    <2>7. nest' \in [Threads -> Nat]
      BY <2>4 DEF Held
    <2>8. due' \in [Threads -> SUBSET Threads]
      BY <2>4 DEF ParkedFor
    <2> QED
      BY <2>3, <2>5, <2>6, <2>7, <2>8
  <1>4. CASE Finding(t)
    BY <1>4 DEF Finding, LoadToken, CreateToken, StoreToken
  <1>5. CASE FinishInit(t) \/ TimedWaitPast(t)
    <2>1. Drop(t) /\ pc' = [pc EXCEPT ![t] = "guest"]
          /\ UNCHANGED <<lockVars, word, made, now>>
      BY <1>5 DEF FinishInit, TimedWaitPast
    <2>2. ready' \in [Conds -> BOOLEAN]
      BY <1>5 DEF FinishInit, TimedWaitPast
    <2>3. ret' \in [Threads -> {0, kETimedOut}]
      BY <1>5 DEF FinishInit, TimedWaitPast
    <2> QED
      BY <2>1, <2>2, <2>3, DropTyped
  <1>6. CASE Wait(t) \/ TimedWait(t)
    <2>1. Unlock(t) /\ pc' = [pc EXCEPT ![t] = "parked"]
          /\ UNCHANGED <<memoryVars, op, obj, tok, deadline, ret, now>>
      BY <1>6 DEF Wait, TimedWait, Sleep
    <2>2. wake' \in [Threads -> Nat]
      BY <1>6 DEF Wait, TimedWait
    <2>4. capped' \in [Threads -> BOOLEAN]
      <3>1. capped' = capped \/ \E b \in BOOLEAN : capped' = [capped EXCEPT ![t] = b]
        BY <1>6, Zenon DEF Wait, TimedWait
      <3> QED
        BY <3>1
    <2>3. due' \in [Threads -> SUBSET Threads]
      BY <1>6 DEF Wait, TimedWait, Sleep
    <2> QED
      BY <2>1, <2>2, <2>3, <2>4, Unlocked
  <1>7. CASE Waking(t)
    BY <1>7 DEF Waking, Timeout, Resume, SpuriousWake, Expired
  <1>8. CASE Relock(t)
    BY <1>8, LockIs DEF Relock, Drop
  <1>9. CASE Signal(t) \/ Broadcast(t)
    <2>1. Drop(t) /\ UNCHANGED <<lockVars, memoryVars, ret, now>>
      BY <1>9 DEF Signal, Broadcast
    <2>2. pc' \in [Threads -> Stages]
      <3>1. CASE Broadcast(t)
        <4>1. \A u \in Threads :
                (CASE u = t -> "guest" [] u \in ParkedOn(tok[t]) -> "notified"
                   [] OTHER -> pc[u]) \in Stages
          OBVIOUS
        <4> QED
          BY <3>1, <4>1 DEF Broadcast
      <3>2. CASE Signal(t)
        BY <3>2 DEF Signal, ParkedOn
      <3> QED
        BY <1>9, <3>1, <3>2
    <2> QED
      BY <2>1, <2>2, DropTyped
  <1> QED
    BY <1>2, <1>3, <1>4, <1>5, <1>6, <1>7, <1>8, <1>9

LEMMA OpsStayFit == CondTypes /\ OpsFit /\ [Next]_vars => OpsFit'
  <1> SUFFICES ASSUME CondTypes, OpsFit, [Next]_vars PROVE OpsFit'
    OBVIOUS
  <1> USE DEF CondTypes, OpsFit, Gone, Stages, Ops, Waits, Wakers, Go, callVars
  <1>0. CASE UNCHANGED vars
    BY <1>0 DEF vars
  <1>1. CASE Tick
    BY <1>1 DEF Tick
  <1> SUFFICES ASSUME NEW t \in Threads,
         \/ GuestLocks(t) \/ GuestUnlocks(t) \/ Entry(t) \/ Finding(t)
         \/ FinishInit(t) \/ Wait(t) \/ TimedWaitPast(t) \/ TimedWait(t)
         \/ Waking(t) \/ Relock(t) \/ Signal(t) \/ Broadcast(t)
       PROVE OpsFit'
    BY <1>0, <1>1, StepIs
  <1>2. CASE GuestLocks(t) \/ GuestUnlocks(t)
    BY <1>2 DEF GuestLocks, GuestUnlocks
  <1>3. CASE Entry(t)
    BY <1>3 DEF Entry, Enter, CallInit, CallWait, CallTimedWait, CallWaker
  <1>4. CASE Finding(t)
    BY <1>4 DEF Finding, LoadToken, CreateToken, StoreToken
  <1>5. CASE FinishInit(t) \/ TimedWaitPast(t) \/ Relock(t)
    BY <1>5 DEF FinishInit, TimedWaitPast, Relock, Drop
  <1>6. CASE Wait(t) \/ TimedWait(t)
    BY <1>6 DEF Wait, TimedWait
  <1>7. CASE Waking(t)
    BY <1>7 DEF Waking, Timeout, Resume, SpuriousWake
  <1>8. CASE Signal(t) \/ Broadcast(t)
    BY <1>8 DEF Signal, Broadcast, Drop, ParkedOn
  <1> QED
    BY <1>2, <1>3, <1>4, <1>5, <1>6, <1>7, <1>8

(* Whoever else is in a wait stays in order when a thread unlocks.         *)
LEMMA OthersGiveWay ==
  ASSUME CondTypes, OpsFit, Locking, NEW t \in Threads, Unlock(t), UNCHANGED op,
         \A u \in Threads \ {t} : pc'[u] = pc[u]
  PROVE  /\ holder'[M] = NoThread <=> count'[M] = 0
         /\ \A u \in Threads \ {t} : op'[u] \in Waits =>
              /\ pc'[u] \in Awake => Held(u)' = nest'[u]
              /\ pc'[u] \in Gone =>
                   Held(u)' = IF nest'[u] = 0 THEN 0 ELSE nest'[u] - 1
  <1>1. holder'[M] = NoThread <=> count'[M] = 0
    BY Unlocked
  <1>2. ASSUME NEW u \in Threads \ {t}, op'[u] \in Waits
        PROVE  /\ pc'[u] \in Awake => Held(u)' = nest'[u]
               /\ pc'[u] \in Gone =>
                    Held(u)' = IF nest'[u] = 0 THEN 0 ELSE nest'[u] - 1
    <2>1. op[u] \in Waits /\ pc'[u] = pc[u]
      BY <1>2
    <2>2. \/ Held(u)' = Held(u) /\ nest'[u] = nest[u]
          \/ Held(u) > 0 /\ Held(u)' = Held(u) - 1 /\ nest'[u] = nest[u] - 1
      BY <2>1, Unlocked
    <2>3. nest[u] \in Nat
      BY DEF CondTypes
    <2>4. /\ pc[u] \in Awake => Held(u) = nest[u]
          /\ pc[u] \in Gone => Held(u) = IF nest[u] = 0 THEN 0 ELSE nest[u] - 1
      BY <2>1 DEF Locking
    <2>5. pc[u] \in Awake => Held(u)' = nest'[u]
      BY ONLY <2>2, <2>4
    <2>6. pc[u] \in Gone => Held(u)' = IF nest'[u] = 0 THEN 0 ELSE nest'[u] - 1
      BY ONLY <2>2, <2>3, <2>4
    <2> QED
      BY <2>1, <2>5, <2>6
  <1> QED
    BY <1>1, <1>2

LEMMA LockingHolds == CondTypes /\ OpsFit /\ Locking /\ [Next]_vars => Locking'
  <1> SUFFICES ASSUME CondTypes, OpsFit, Locking, [Next]_vars PROVE Locking'
    OBVIOUS
  <1> USE DEF CondTypes, OpsFit, Locking, Awake, Gone, Stages, Ops, Waits, Wakers,
             Go, callVars, lockVars
  <1>0. CASE UNCHANGED vars
    BY <1>0 DEF vars, Held
  <1>1. CASE Tick
    BY <1>1 DEF Tick, Held
  <1> SUFFICES ASSUME NEW t \in Threads,
         \/ GuestLocks(t) \/ GuestUnlocks(t) \/ Entry(t) \/ Finding(t)
         \/ FinishInit(t) \/ Wait(t) \/ TimedWaitPast(t) \/ TimedWait(t)
         \/ Waking(t) \/ Relock(t) \/ Signal(t) \/ Broadcast(t)
       PROVE Locking'
    BY <1>0, <1>1, StepIs
  <1>2. CASE GuestLocks(t) \/ GuestUnlocks(t)
    <2>1. pc[t] = "guest" /\ op[t] = "none" /\ UNCHANGED <<pc, op>>
      BY <1>2 DEF GuestLocks, GuestUnlocks
    <2>2. CASE Lock!Acquire(t, M) /\ UNCHANGED nest
      BY <2>1, <2>2, Acquired
    <2>3. CASE Unlock(t)
      BY <2>1, <2>3, OthersGiveWay
    <2> QED
      BY <1>2, <2>2, <2>3 DEF GuestLocks, GuestUnlocks
  <1>3. CASE Entry(t)
    <2>0. UNCHANGED lockVars => \A u \in Threads : Held(u)' = Held(u)
      BY DEF Held
    <2>1. ASSUME NEW c \in Conds, CallInit(t, c) PROVE Locking'
      BY <2>0, <2>1 DEF Enter, CallInit
    <2>2. ASSUME NEW c \in Conds, CallWait(t, c) PROVE Locking'
      BY <2>0, <2>2 DEF Enter, CallWait
    <2>3. ASSUME NEW c \in Conds, NEW d \in Deadlines, CallTimedWait(t, c, d)
          PROVE  Locking'
      BY <2>0, <2>3 DEF Enter, CallTimedWait
    <2>4. ASSUME NEW c \in Conds, NEW f \in Wakers, CallWaker(t, c, f)
          PROVE  Locking'
      BY <2>0, <2>4 DEF Enter, CallWaker
    <2> HIDE DEF CondTypes, OpsFit, Locking, Stages, Ops
    <2> QED
      BY <1>3, <2>1, <2>2, <2>3, <2>4 DEF Entry
  <1>4. CASE Finding(t)
    BY <1>4 DEF Finding, LoadToken, CreateToken, StoreToken, Held
  <1>5. CASE FinishInit(t) \/ TimedWaitPast(t)
    BY <1>5 DEF FinishInit, TimedWaitPast, Drop, Held
  <1>6. CASE Wait(t) \/ TimedWait(t)
    <2>1. Unlock(t) /\ pc' = [pc EXCEPT ![t] = "parked"]
          /\ pc[t] = "act" /\ op[t] \in Waits /\ UNCHANGED op
      BY <1>6 DEF Wait, TimedWait, Sleep
    <2>2. Held(t)' = IF nest'[t] = 0 THEN 0 ELSE nest'[t] - 1
      BY <2>1, Unlocked
    <2>3. pc'[t] = "parked" /\ \A u \in Threads \ {t} : pc'[u] = pc[u]
      BY <2>1
    <2> QED
      BY <2>1, <2>2, <2>3, OthersGiveWay
  <1>7. CASE Waking(t)
    BY <1>7 DEF Waking, Timeout, Resume, SpuriousWake, Held
  <1>8. CASE Relock(t)
    BY <1>8, Acquired DEF Relock, Drop
  <1>9. CASE Signal(t) \/ Broadcast(t)
    BY <1>9 DEF Signal, Broadcast, Drop, ParkedOn, Held
  <1> QED
    BY <1>2, <1>3, <1>4, <1>5, <1>6, <1>7, <1>8, <1>9

LEMMA ClocksHold == CondTypes /\ OpsFit /\ Clocks /\ [Next]_vars => Clocks'
  <1> SUFFICES ASSUME CondTypes, OpsFit, Clocks, [Next]_vars PROVE Clocks'
    OBVIOUS
  <1> USE DEF CondTypes, OpsFit, Clocks, Gone, Stages, Ops, Waits, Wakers, Go,
             callVars, Deadlines
  <1>0. CASE UNCHANGED vars
    BY <1>0 DEF vars
  <1>1. CASE Tick
    BY <1>1 DEF Tick
  <1> SUFFICES ASSUME NEW t \in Threads,
         \/ GuestLocks(t) \/ GuestUnlocks(t) \/ Entry(t) \/ Finding(t)
         \/ FinishInit(t) \/ Wait(t) \/ TimedWaitPast(t) \/ TimedWait(t)
         \/ Waking(t) \/ Relock(t) \/ Signal(t) \/ Broadcast(t)
       PROVE Clocks'
    BY <1>0, <1>1, StepIs
  <1>2. CASE GuestLocks(t) \/ GuestUnlocks(t)
    BY <1>2 DEF GuestLocks, GuestUnlocks
  <1>3. CASE Entry(t)
    BY <1>3 DEF Entry, Enter, CallInit, CallWait, CallTimedWait, CallWaker
  <1>4. CASE Finding(t)
    BY <1>4 DEF Finding, LoadToken, CreateToken, StoreToken
  <1>5. CASE FinishInit(t) \/ TimedWaitPast(t) \/ Relock(t)
    BY <1>5 DEF FinishInit, TimedWaitPast, Relock, Drop
  <1>6. CASE Wait(t)
    BY <1>6 DEF Wait, Sleep
  <1>7. CASE TimedWait(t)
    <2>1. deadline[t] # NoDeadline => deadline[t] \in Nat
      OBVIOUS
    <2>2. now \in Nat /\ wake' [t] = now + 1
      BY <1>7 DEF TimedWait
    <2>3. ~capped'[t] => deadline[t] # NoDeadline /\ ~(deadline[t] - now > 1)
      BY <1>7 DEF TimedWait
    <2>4. ~capped'[t] => deadline[t] # NoDeadline /\ deadline[t] <= wake'[t]
      BY ONLY <2>1, <2>2, <2>3
    <2>5. /\ \A u \in Threads \ {t} :
               /\ pc'[u] = pc[u]
               /\ wake'[u] = wake[u] /\ capped'[u] = capped[u]
          /\ UNCHANGED <<op, deadline>>
      BY <1>7 DEF TimedWait
    <2> QED
      BY <2>4, <2>5
  <1>8. CASE Waking(t)
    BY <1>8 DEF Waking, Timeout, Resume, SpuriousWake
  <1>9. CASE Signal(t) \/ Broadcast(t)
    BY <1>9 DEF Signal, Broadcast, Drop, ParkedOn
  <1> QED
    BY <1>2, <1>3, <1>4, <1>5, <1>6, <1>7, <1>8, <1>9

-----------------------------------------------------------------------------
(* The tokens.  A step takes a thread's token away, or gives it the one of *)
(* its object's word, or a new one; it leaves the words, or clears that of *)
(* an object nobody uses, or stores in it what nobody else knows.          *)
LEMMA TokensStayUnique ==
  CondTypes /\ TokensUnique /\ InitAlone /\ [Next]_vars => TokensUnique'
  <1> SUFFICES ASSUME CondTypes, TokensUnique, InitAlone, [Next]_vars
               PROVE  TokensUnique'
    OBVIOUS
  <1> USE DEF CondTypes, TokensUnique, Stages, Go, callVars, memoryVars
  <1>0. CASE UNCHANGED vars
    BY <1>0 DEF vars
  <1>1. CASE Tick
    BY <1>1 DEF Tick
  <1> SUFFICES ASSUME NEW t \in Threads,
         \/ GuestLocks(t) \/ GuestUnlocks(t) \/ Entry(t) \/ Finding(t)
         \/ FinishInit(t) \/ Wait(t) \/ TimedWaitPast(t) \/ TimedWait(t)
         \/ Waking(t) \/ Relock(t) \/ Signal(t) \/ Broadcast(t)
       PROVE TokensUnique'
    BY <1>0, <1>1, StepIs
  <1>2. CASE /\ UNCHANGED <<word, made, tok, obj>>
             /\ \A u \in Threads : /\ pc'[u] = "store" => pc[u] = "store"
                                   /\ pc'[u] = "guest" => pc[u] = "guest"
    BY <1>2
  <1>3. CASE /\ Drop(t) /\ UNCHANGED <<word, made>>
             /\ \A u \in Threads :
                  /\ pc'[u] = "store" => pc[u] = "store" /\ u # t
                  /\ pc'[u] = "guest" => pc[u] = "guest" \/ u = t
    <2>1. /\ tok' = [tok EXCEPT ![t] = 0] /\ obj' = obj
      BY <1>3 DEF Drop
    <2> QED
      BY <1>3, <2>1
  <1>4. CASE GuestLocks(t) \/ GuestUnlocks(t) \/ Wait(t) \/ TimedWait(t)
    BY <1>2, <1>4 DEF GuestLocks, GuestUnlocks, Wait, TimedWait
  <1>5. CASE Waking(t)
    BY <1>2, <1>5 DEF Waking, Timeout, Resume, SpuriousWake
  <1>6. CASE FinishInit(t) \/ TimedWaitPast(t) \/ Relock(t)
    BY <1>3, <1>6 DEF FinishInit, TimedWaitPast, Relock
  <1>7. CASE Signal(t) \/ Broadcast(t)
    BY <1>3, <1>7 DEF Signal, Broadcast, ParkedOn
  <1>8. CASE Entry(t)
    <2>1. PICK c \in Conds :
            /\ pc[t] = "guest" /\ pc' = [pc EXCEPT ![t] = "load"]
            /\ obj' = [obj EXCEPT ![t] = c] /\ UNCHANGED <<made, tok>>
            /\ word' = word \/ word' = [word EXCEPT ![c] = 0]
      BY <1>8 DEF Entry, CallInit, CallWait, CallTimedWait, CallWaker, Enter
    <2> QED
      BY <2>1
  <1>9. CASE Finding(t)
    <2>1. CASE LoadToken(t)
      BY <2>1 DEF LoadToken
    <2>2. CASE CreateToken(t)
      BY <2>2 DEF CreateToken
    <2>3. CASE StoreToken(t)
      BY <2>3 DEF StoreToken
    <2> QED
      BY <1>9, <2>1, <2>2, <2>3 DEF Finding
  <1> QED
    BY <1>4, <1>5, <1>6, <1>7, <1>8, <1>9

(* A step that moves t only inside its call keeps who is in a call.        *)
LEMMA InitStaysAlone == CondTypes /\ OpsFit /\ Tokens /\ [Next]_vars => InitAlone'
  <1> SUFFICES ASSUME CondTypes, OpsFit, Tokens, [Next]_vars PROVE InitAlone'
    OBVIOUS
  <1> USE DEF CondTypes, OpsFit, Tokens, InitAlone, StaticReady, InCall, Stages,
             Gone, Ops, Waits, Wakers, Go, callVars, memoryVars
  <1>0. CASE UNCHANGED vars
    BY <1>0 DEF vars
  <1>1. CASE Tick
    BY <1>1 DEF Tick
  <1> SUFFICES ASSUME NEW t \in Threads,
         \/ GuestLocks(t) \/ GuestUnlocks(t) \/ Entry(t) \/ Finding(t)
         \/ FinishInit(t) \/ Wait(t) \/ TimedWaitPast(t) \/ TimedWait(t)
         \/ Waking(t) \/ Relock(t) \/ Signal(t) \/ Broadcast(t)
       PROVE InitAlone'
    BY <1>0, <1>1, StepIs
  <1>2. CASE GuestLocks(t) \/ GuestUnlocks(t)
    BY <1>2 DEF GuestLocks, GuestUnlocks
  <1>3. CASE Wait(t) \/ TimedWait(t)
    BY <1>3 DEF Wait, TimedWait
  <1>4. CASE Waking(t)
    BY <1>4 DEF Waking, Timeout, Resume, SpuriousWake
  <1>5. CASE TimedWaitPast(t) \/ Relock(t)
    BY <1>5 DEF TimedWaitPast, Relock, Drop
  <1>6. CASE FinishInit(t)
    BY <1>6 DEF FinishInit, Drop
  <1>7. CASE Signal(t) \/ Broadcast(t)
    BY <1>7 DEF Signal, Broadcast, ParkedOn, Drop
  <1>8. CASE Entry(t)
    <2> PICK c \in Conds :
          \/ CallInit(t, c) \/ CallWait(t, c)
          \/ \E d \in Deadlines : CallTimedWait(t, c, d)
          \/ \E f \in Wakers : CallWaker(t, c, f)
      BY <1>8 DEF Entry
    <2>1. CASE CallInit(t, c)
      BY <2>1 DEF CallInit, Enter
    <2>2. CASE ~CallInit(t, c)
      <3>1. /\ ready[c] /\ UNCHANGED <<word, ready, tok>>
            /\ pc[t] = "guest" /\ pc' = [pc EXCEPT ![t] = "load"]
            /\ obj' = [obj EXCEPT ![t] = c]
            /\ \E f \in Waits \cup Wakers : op' = [op EXCEPT ![t] = f]
        BY <2>2 DEF CallWait, CallTimedWait, CallWaker, Enter
      <3> QED
        BY <3>1
    <2> QED
      BY <2>1, <2>2
  <1>9. CASE Finding(t)
    <2>1. CASE LoadToken(t)
      BY <2>1 DEF LoadToken
    <2>2. CASE CreateToken(t)
      BY <2>2 DEF CreateToken
    <2>3. CASE StoreToken(t)
      BY <2>3 DEF StoreToken, TokensUnique
    <2> QED
      BY <1>9, <2>1, <2>2, <2>3 DEF Finding
  <1> QED
    BY <1>2, <1>3, <1>4, <1>5, <1>6, <1>7, <1>8, <1>9

LEMMA StaticStaysReady == CondTypes /\ StaticReady /\ [Next]_vars => StaticReady'
  <1> SUFFICES ASSUME CondTypes, StaticReady, [Next]_vars PROVE StaticReady'
    OBVIOUS
  <1>1. ready' = ready \/ \E c \in Conds : ready' = [ready EXCEPT ![c] = TRUE]
    BY DEF vars, Next, Tick, GuestStep, ThunkStep, GuestLocks, GuestUnlocks,
           CallInit, CallWait, CallTimedWait, CallWaker, LoadToken,
           CreateToken, StoreToken, FinishInit, Wait, TimedWaitPast, TimedWait,
           Timeout, Resume, SpuriousWake, Relock, Signal, Broadcast,
           memoryVars, CondTypes
  <1> QED
    BY <1>1 DEF CondTypes, StaticReady

(* The invariant the three theorems follow from.                           *)
THEOREM Invariant == Spec => []IInv
  <1>1. Init => IInv
    BY InitHolds
  <1>2. IInv /\ [Next]_vars => IInv'
    BY Typing, OpsStayFit, LockingHolds, ClocksHold, TokensStayUnique,
       InitStaysAlone, StaticStaysReady DEF IInv, Tokens
  <1> QED
    BY <1>1, <1>2, PTL DEF Spec

-----------------------------------------------------------------------------
(* WaitRestoresLock: pthread_cond_wait and pthread_cond_timedwait return   *)
(* with the mutex in hand, however the wait ended: as often as when they   *)
(* were called, but for the levels that other threads have let go of, and  *)
(* once at the least.                                                      *)
THEOREM WaitRestoresLockHolds == Spec => WaitRestoresLock
  <1> DEFINE AllBack == \A t \in Threads :
               op[t] \in Waits /\ pc[t] # "guest" /\ pc'[t] = "guest" =>
                 IF pc[t] = "relock"
                 THEN holder'[M] = t /\ count'[M] = IF nest[t] = 0 THEN 1 ELSE nest[t]
                 ELSE lockVars' = lockVars /\ Held(t) = nest[t]
  <1>1. IInv /\ [Next]_vars => [AllBack]_vars
    <2> SUFFICES ASSUME IInv, Next, NEW u \in Threads, op[u] \in Waits,
                        pc[u] # "guest", pc'[u] = "guest"
                 PROVE  IF pc[u] = "relock"
                        THEN /\ holder'[M] = u
                             /\ count'[M] = IF nest[u] = 0 THEN 1 ELSE nest[u]
                        ELSE lockVars' = lockVars /\ Held(u) = nest[u]
      OBVIOUS
    <2> USE DEF IInv, CondTypes, OpsFit, Go, Waits, Stages
    <2>1. CASE \E t \in Threads : FinishInit(t) \/ Signal(t) \/ Broadcast(t)
      BY <2>1 DEF FinishInit, Signal, Broadcast, ParkedOn
    <2>2. CASE TimedWaitPast(u)
      BY <2>2 DEF TimedWaitPast, lockVars, Locking, Awake
    <2>3. CASE Relock(u)
      <3>1. Lock!Acquire(u, M) /\ pc[u] = "relock"
        BY <2>3 DEF Relock
      <3>2. /\ holder[M] \in {NoThread, u} /\ holder'[M] = u
            /\ count[M] \in Nat /\ count'[M] = count[M] + 1
        BY <3>1, Acquired
      <3>3. Held(u) = count[M]
        BY <3>2 DEF Locking, Held
      <3>4. Held(u) = IF nest[u] = 0 THEN 0 ELSE nest[u] - 1
        BY <3>1 DEF Locking, Gone
      <3>5. nest[u] \in Nat
        OBVIOUS
      <3>6. count'[M] = IF nest[u] = 0 THEN 1 ELSE nest[u]
        BY ONLY <3>2, <3>3, <3>4, <3>5
      <3> QED
        BY <3>1, <3>2, <3>6
    <2>4. PICK t \in Threads :
            \/ GuestLocks(t) \/ GuestUnlocks(t) \/ Entry(t) \/ Finding(t)
            \/ FinishInit(t) \/ Wait(t) \/ TimedWaitPast(t) \/ TimedWait(t)
            \/ Waking(t) \/ Relock(t) \/ Signal(t) \/ Broadcast(t)
      BY StepIs DEF Tick
    <2>5. CASE GuestLocks(t) \/ GuestUnlocks(t) \/ Entry(t) \/ Finding(t)
               \/ Wait(t) \/ TimedWait(t) \/ Waking(t)
      BY <2>5 DEF GuestLocks, GuestUnlocks, Entry, Enter, CallInit, CallWait,
                  CallTimedWait, CallWaker, Finding, LoadToken, CreateToken,
                  StoreToken, Wait, TimedWait, Waking, Timeout, Resume,
                  SpuriousWake
    <2>6. CASE TimedWaitPast(t) \/ Relock(t)
      <3>1. t = u
        BY <2>6 DEF TimedWaitPast, Relock
      <3> QED
        BY <2>2, <2>3, <2>6, <3>1
    <2> QED
      BY <2>1, <2>4, <2>5, <2>6
  <1> QED
    BY <1>1, Invariant, PTL DEF Spec, WaitRestoresLock

(* TimeoutIsHonest: ETIMEDOUT is reported no earlier than the deadline the *)
(* caller gave, and never to one that gave none.                           *)
THEOREM TimeoutIsHonestHolds == Spec => TimeoutIsHonest
  <1> DEFINE Honest == \A t \in Threads :
               ret'[t] = kETimedOut /\ ret[t] # kETimedOut
                  => deadline[t] # NoDeadline /\ now >= deadline[t]
  <1>1. IInv /\ [Next]_vars => [Honest]_vars
    <2> SUFFICES ASSUME IInv, Next, NEW u \in Threads,
                        ret'[u] = kETimedOut, ret[u] # kETimedOut
                 PROVE  deadline[u] # NoDeadline /\ now >= deadline[u]
      OBVIOUS
    <2> USE DEF IInv, CondTypes, Go, kETimedOut
    <2>1. PICK t \in Threads : TimedWaitPast(t) \/ Timeout(t) \/ Resume(t)
      <3>1. ~Tick
        BY DEF Tick
      <3>2. \A t \in Threads :
              ~ (\/ GuestLocks(t) \/ GuestUnlocks(t) \/ Entry(t) \/ Finding(t)
                 \/ FinishInit(t) \/ Wait(t) \/ TimedWait(t) \/ Relock(t)
                 \/ SpuriousWake(t) \/ Signal(t) \/ Broadcast(t))
        BY DEF GuestLocks, GuestUnlocks, Entry, Enter, CallInit, CallWait,
               CallTimedWait, CallWaker, Finding, LoadToken, CreateToken,
               StoreToken, FinishInit, Wait, TimedWait, Relock, SpuriousWake,
               Signal, Broadcast
      <3> QED
        BY <3>1, <3>2, StepIs DEF Waking
    <2>2. t = u
      BY <2>1 DEF TimedWaitPast, Timeout, Resume
    <2>3. CASE TimedWaitPast(u)
      BY <2>3 DEF TimedWaitPast, Deadlines
    <2>4. CASE Timeout(u) \/ Resume(u)
      <3>1. /\ op[u] = "timedwait" /\ now >= wake[u] /\ ~capped[u]
            /\ pc[u] \in {"parked", "notified"}
        BY <2>4 DEF Timeout, Resume, Expired
      <3>2. deadline[u] # NoDeadline /\ deadline[u] <= wake[u]
        BY <3>1 DEF Clocks
      <3>3. deadline[u] \in Nat /\ wake[u] \in Nat /\ now \in Nat
        BY <3>2 DEF Deadlines
      <3> QED
        BY ONLY <3>1, <3>2, <3>3
    <2> QED
      BY <2>1, <2>2, <2>3, <2>4
  <1> QED
    BY <1>1, Invariant, PTL DEF Spec, TimeoutIsHonest

(* SignalReaches: a signal wakes somebody who waits for the condition if   *)
(* anybody was waiting when it was called, and a broadcast wakes everybody *)
(* who was: they all sleep on the host condition the signal looks at.      *)
THEOREM SignalReachesHolds == Spec => SignalReaches
  <1> DEFINE Reached == \A c \in Conds \ StaticInit : Reaches(c)
  <1>1. IInv /\ [Next]_vars => [Reached]_vars
    <2> SUFFICES ASSUME IInv, Next, NEW c \in Conds \ StaticInit,
                        NEW t \in Threads, obj[t] = c, op[t] \in Wakers,
                        pc[t] = "act", pc'[t] = "guest"
                 PROVE  LET waiting == due[t] \cap ParkedFor(c)
                            woken == {u \in ParkedFor(c) : pc'[u] = "notified"}
                        IN /\ waiting # {} => woken # {}
                           /\ op[t] = "broadcast" => waiting \subseteq woken
      BY DEF Reaches
    <2> USE DEF IInv, CondTypes, Wakers
    <2>1. ParkedOn(tok[t]) = ParkedFor(c)
      BY DEF Tokens, TokensUnique, InitAlone, InCall, ParkedOn, ParkedFor, Gone
    <2>2. Signal(t) \/ Broadcast(t)
      <3>1. ~Tick
        BY DEF Tick
      <3>2. ASSUME NEW u \in Threads PROVE
              ~ (\/ GuestLocks(u) \/ GuestUnlocks(u) \/ Entry(u) \/ Finding(u)
                 \/ FinishInit(u) \/ Wait(u) \/ TimedWaitPast(u)
                 \/ TimedWait(u) \/ Relock(u) \/ Waking(u))
        BY DEF GuestLocks, GuestUnlocks, Entry, Enter, CallInit, CallWait,
               CallTimedWait, CallWaker, Finding, LoadToken, CreateToken,
               StoreToken, FinishInit, Wait, TimedWait, TimedWaitPast, Relock,
               Waking, SpuriousWake, Timeout, Resume, Go
      <3>3. PICK u \in Threads : Signal(u) \/ Broadcast(u)
        BY <3>1, <3>2, StepIs
      <3>4. u = t
        BY <3>3 DEF Signal, Broadcast, ParkedOn
      <3> QED
        BY <3>3, <3>4
    <2>3. CASE Signal(t)
      <3>1. op[t] = "signal"
        BY <2>3 DEF Signal
      <3>2. CASE ParkedFor(c) = {}
        BY <3>1, <3>2
      <3>3. CASE ParkedFor(c) # {}
        <4>1. PICK u \in ParkedFor(c) :
                pc' = [pc EXCEPT ![t] = "guest", ![u] = "notified"]
          BY <2>1, <2>3, <3>3 DEF Signal
        <4>2. pc'[u] = "notified"
          BY <4>1 DEF ParkedFor
        <4> QED
          BY <3>1, <4>1, <4>2
      <3> QED
        BY <3>2, <3>3
    <2>4. CASE Broadcast(t)
      <3>1. \A u \in ParkedFor(c) : pc'[u] = "notified"
        BY <2>1, <2>4 DEF Broadcast, ParkedFor
      <3> QED
        BY <3>1
    <2> QED
      BY <2>2, <2>3, <2>4
  <1> QED
    BY <1>1, Invariant, PTL DEF Spec, SignalReaches

-----------------------------------------------------------------------------
(***************************************************************************)
(* The clock page, on a machine that does loads in order.  The argument is *)
(* the seqlock's: while an attempt is under way the page's sequence word   *)
(* is lag increments past the value the reader saw first, so that seeing   *)
(* it again means that lag is 0, and an even word that has not moved means *)
(* that no field was stored since.                                         *)
(***************************************************************************)
(* What the page holds: of the time sampled last, what is stored so far.   *)
PageInv ==
  /\ settled \in published /\ settled <= ns
  /\ Idle => settled = ns
  /\ writer # "sec" => sec = Sec(ns)
  /\ writer \notin {"sec", "nsec"} => nsec = Nsec(ns)
  /\ writer \notin {"sec", "nsec", "usec"} => usec = Usec(ns)

(* The loads were done in order, the fields only after an even sequence.   *)
Ordered(r) ==
  /\ done[r] # {} => call[r] \in {"clock_gettime", "gettimeofday"}
  /\ \A x \in done[r] : Before(x) \subseteq done[r]
  /\ "sec" \in done[r] => ~Odd(s1[r])

(* How far the word has moved on, and what was loaded while it had not.    *)
Attempt(r) ==
  /\ since[r] <= settled
  /\ "seq1" \in done[r] => seq = Wrap(s1[r] + lag[r])
  /\ "sec" \in done[r] /\ lag[r] = 0 => gotSec[r] = sec
  /\ "sub" \in done[r] /\ lag[r] = 0 => gotSub[r] = SubField(r)

OneInstant(r) ==
  Agrees(r) =>
    \E n \in published :
      /\ n >= since[r]
      /\ gotSec[r] = Sec(n)
      /\ gotSub[r] = IF call[r] = "clock_gettime" THEN Nsec(n) ELSE Usec(n)

ClockInv ==
  /\ TypeOK
  /\ PageInv
  /\ \A r \in Readers : Ordered(r) /\ Attempt(r) /\ OneInstant(r)

-----------------------------------------------------------------------------
(* A time's parts are numbers.                                             *)
LEMMA PartsAreNat ==
  ASSUME NEW n \in Nat
  PROVE  Sec(n) \in Nat /\ Nsec(n) \in Nat /\ Usec(n) \in Nat
  <1>1. Sec(n) \in Nat /\ Nsec(n) \in Nat
    BY TimeAssumption DEF Sec, Nsec
  <1>2. n \div PerUsec \in Nat
    BY TimeAssumption
  <1>3. Usec(n) \in Nat
    BY <1>2, TimeAssumption DEF Usec
  <1> QED BY <1>1, <1>3

(* The word alternates between even and odd, also where it comes round.    *)
LEMMA WrapAlternates ==
  ASSUME NEW n \in 0 .. SeqMod - 1
  PROVE  /\ Wrap(n + 1) \in 0 .. SeqMod - 1
         /\ Odd(Wrap(n + 1)) <=> ~Odd(n)
  <1>1. CASE n + 1 < SeqMod
    BY <1>1, TimeAssumption DEF Wrap, Odd
  <1>2. CASE n + 1 = SeqMod
    BY <1>2, TimeAssumption DEF Wrap, Odd
  <1> QED BY <1>1, <1>2, TimeAssumption

(* Fewer than SeqMod steps do not bring the word back to where it was.     *)
LEMMA WrapMoves ==
  ASSUME NEW a \in 0 .. SeqMod - 1, NEW k \in 0 .. SeqMod - 1
  PROVE  /\ k + 1 < SeqMod => Wrap(Wrap(a + k) + 1) = Wrap(a + (k + 1))
         /\ Wrap(a + k) = a => k = 0
         /\ Wrap(a + 0) = a
  BY TimeAssumption DEF Wrap

(* A store of the word puts every attempt under way one step further back. *)
LEMMA BumpLag ==
  ASSUME ClockInv, BumpSeq, UNCHANGED <<done, s1>>
  PROVE  /\ seq' \in 0 .. SeqMod - 1
         /\ Odd(seq') <=> ~Odd(seq)
         /\ lag' \in [Readers -> 0 .. SeqMod - 1]
         /\ \A r \in Readers : "seq1" \in done[r] =>
              lag'[r] # 0 /\ seq' = Wrap(s1[r] + lag'[r])
  <1>1. seq' \in 0 .. SeqMod - 1 /\ (Odd(seq') <=> ~Odd(seq))
    BY WrapAlternates DEF ClockInv, TypeOK, BumpSeq
  <1>2. lag' \in [Readers -> 0 .. SeqMod - 1]
    BY TimeAssumption DEF ClockInv, TypeOK, BumpSeq, InFlight
  <1>3. ASSUME NEW r \in Readers, "seq1" \in done[r]
        PROVE  lag'[r] # 0 /\ seq' = Wrap(s1[r] + lag'[r])
    <2>1. lag'[r] = lag[r] + 1 /\ lag[r] + 1 < SeqMod
      BY <1>3 DEF BumpSeq, InFlight
    <2>2. seq = Wrap(s1[r] + lag[r]) /\ s1[r] \in 0 .. SeqMod - 1
          /\ lag[r] \in 0 .. SeqMod - 1
      BY <1>3 DEF ClockInv, TypeOK, Attempt
    <2> QED BY <2>1, <2>2, WrapMoves DEF BumpSeq
  <1> QED BY <1>1, <1>2, <1>3

(* What a step of publish_once that stores the word does to the readers.   *)
LEMMA BumpReaders ==
  ASSUME ClockInv, BumpSeq, UNCHANGED <<sec, nsec, usec, readerVars>>,
         settled' >= settled, settled' \in Nat, published \subseteq published'
  PROVE  \A r \in Readers : Ordered(r)' /\ Attempt(r)' /\ OneInstant(r)'
  <1> SUFFICES ASSUME NEW r \in Readers
               PROVE  Ordered(r)' /\ Attempt(r)' /\ OneInstant(r)'
    OBVIOUS
  <1>0. Ordered(r) /\ Attempt(r) /\ OneInstant(r)
    BY DEF ClockInv
  <1>1. Ordered(r)'
    BY <1>0 DEF Ordered, readerVars
  <1>2. Attempt(r)'
    <2>1. "sec" \in done[r] \/ "sub" \in done[r] => "seq1" \in done[r]
      BY <1>0 DEF Ordered, Before
    <2>2. since'[r] <= settled'
      BY <1>0 DEF ClockInv, TypeOK, Attempt, readerVars
    <2> QED BY <2>1, <2>2, BumpLag DEF Attempt, readerVars
  <1>3. OneInstant(r)'
    BY <1>0 DEF OneInstant, Agrees, readerVars
  <1> QED BY <1>1, <1>2, <1>3

(* What a store of a field does to them: the word is odd then, so that no  *)
(* attempt that has loaded a field saw it last.                            *)
LEMMA FieldReaders ==
  ASSUME ClockInv, ~Idle, UNCHANGED <<seq, settled, published, readerVars, lag>>
  PROVE  \A r \in Readers : Ordered(r)' /\ Attempt(r)' /\ OneInstant(r)'
  <1> SUFFICES ASSUME NEW r \in Readers
               PROVE  Ordered(r)' /\ Attempt(r)' /\ OneInstant(r)'
    OBVIOUS
  <1>0. Ordered(r) /\ Attempt(r) /\ OneInstant(r)
    BY DEF ClockInv
  <1>1. Ordered(r)'
    BY <1>0 DEF Ordered, readerVars
  <1>2. "sec" \in done[r] => lag[r] # 0
    <2>1. SUFFICES ASSUME "sec" \in done[r], lag[r] = 0 PROVE FALSE
      OBVIOUS
    <2>2. seq = Wrap(s1[r] + 0) /\ s1[r] \in 0 .. SeqMod - 1 /\ ~Odd(s1[r])
      BY <1>0, <2>1 DEF Ordered, Before, Attempt, ClockInv, TypeOK
    <2>3. 0 \in 0 .. SeqMod - 1
      BY TimeAssumption
    <2>4. seq = s1[r]
      BY <2>2, <2>3, WrapMoves
    <2> QED BY <2>2, <2>4 DEF ClockInv, TypeOK
  <1>3. "sub" \in done[r] => "sec" \in done[r]
    BY <1>0 DEF Ordered, Before
  <1>4. Attempt(r)'
    BY <1>0, <1>2, <1>3 DEF Attempt, readerVars
  <1>5. OneInstant(r)'
    BY <1>0 DEF OneInstant, Agrees, readerVars
  <1> QED BY <1>1, <1>4, <1>5

-----------------------------------------------------------------------------
LEMMA BeginKeeps == ASSUME ClockInv, NEW n \in 0 .. MaxNs, Begin(n) PROVE ClockInv'
  <1>0. n \in Nat
    BY TimeAssumption
  <1>1. TypeOK'
    BY <1>0, BumpLag DEF ClockInv, TypeOK, Begin, Idle, readerVars
  <1>2. PageInv'
    BY <1>0 DEF ClockInv, TypeOK, PageInv, Begin, Idle
  <1>3. \A r \in Readers : Ordered(r)' /\ Attempt(r)' /\ OneInstant(r)'
    BY BumpReaders DEF ClockInv, TypeOK, Begin
  <1> QED BY <1>1, <1>2, <1>3 DEF ClockInv

LEMMA WriteSecKeeps == ASSUME ClockInv, WriteSec PROVE ClockInv'
  <1>1. TypeOK'
    BY PartsAreNat DEF ClockInv, TypeOK, WriteSec, Idle, readerVars
  <1>2. PageInv'
    BY DEF ClockInv, PageInv, WriteSec, Idle
  <1>3. \A r \in Readers : Ordered(r)' /\ Attempt(r)' /\ OneInstant(r)'
    BY FieldReaders DEF WriteSec, Idle
  <1> QED BY <1>1, <1>2, <1>3 DEF ClockInv

LEMMA WriteNsecKeeps == ASSUME ClockInv, WriteNsec PROVE ClockInv'
  <1>1. TypeOK'
    BY PartsAreNat DEF ClockInv, TypeOK, WriteNsec, Idle, readerVars
  <1>2. PageInv'
    BY DEF ClockInv, PageInv, WriteNsec, Idle
  <1>3. \A r \in Readers : Ordered(r)' /\ Attempt(r)' /\ OneInstant(r)'
    BY FieldReaders DEF WriteNsec, Idle
  <1> QED BY <1>1, <1>2, <1>3 DEF ClockInv

LEMMA WriteUsecKeeps == ASSUME ClockInv, WriteUsec PROVE ClockInv'
  <1>1. TypeOK'
    BY PartsAreNat DEF ClockInv, TypeOK, WriteUsec, Idle, readerVars
  <1>2. PageInv'
    BY DEF ClockInv, PageInv, WriteUsec, Idle
  <1>3. \A r \in Readers : Ordered(r)' /\ Attempt(r)' /\ OneInstant(r)'
    BY FieldReaders DEF WriteUsec, Idle
  <1> QED BY <1>1, <1>2, <1>3 DEF ClockInv

LEMMA SettleKeeps == ASSUME ClockInv, Settle PROVE ClockInv'
  <1>1. TypeOK'
    BY BumpLag DEF ClockInv, TypeOK, Settle, Idle, readerVars
  <1>2. PageInv'
    BY DEF ClockInv, TypeOK, PageInv, Settle, Idle
  <1>3. \A r \in Readers : Ordered(r)' /\ Attempt(r)' /\ OneInstant(r)'
    BY BumpReaders DEF ClockInv, TypeOK, PageInv, Settle
  <1> QED BY <1>1, <1>2, <1>3 DEF ClockInv

(* Steps that leave the page and every attempt as they are.                *)
LEMMA StopKeeps == ASSUME ClockInv, Stop PROVE ClockInv'
  <1>1. TypeOK'
    BY DEF ClockInv, TypeOK, Stop, Idle, readerVars, page
  <1>2. PageInv'
    BY DEF ClockInv, PageInv, Stop, Idle, page
  <1>3. \A r \in Readers : Ordered(r)' /\ Attempt(r)' /\ OneInstant(r)'
    BY DEF ClockInv, Ordered, Attempt, OneInstant, Agrees, SubField, Stop,
           readerVars, page
  <1> QED BY <1>1, <1>2, <1>3 DEF ClockInv

LEMMA StartKeeps ==
  ASSUME ClockInv, NEW r \in Readers, NEW c \in Calls, Start(r, c)
  PROVE  ClockInv'
  <1>1. TypeOK'
    BY DEF ClockInv, TypeOK, Start, Idle, writerVars, page
  <1>2. PageInv'
    BY DEF ClockInv, PageInv, Start, Idle, writerVars, page
  <1>3. ASSUME NEW q \in Readers
        PROVE  Ordered(q)' /\ Attempt(q)' /\ OneInstant(q)'
    <2>0. Ordered(q) /\ Attempt(q) /\ OneInstant(q)
      BY DEF ClockInv
    <2>1. CASE q # r
      <3>1. call'[q] = call[q] /\ since'[q] = since[q]
        BY <2>1 DEF ClockInv, TypeOK, Start
      <3> QED
        BY <2>0, <3>1 DEF Ordered, Attempt, OneInstant, Agrees, SubField,
                          Start, writerVars, page
    <2>2. CASE q = r
      <3>1. done[q] = {} /\ done' = done /\ lag' = lag
        BY <2>0, <2>2 DEF Ordered, Start, Calls
      <3>2. since'[q] = settled' /\ settled' \in Nat
        BY <2>2 DEF ClockInv, TypeOK, Start, writerVars
      <3> QED BY <3>1, <3>2 DEF Ordered, Attempt, OneInstant, Agrees, Loads
    <2> QED BY <2>1, <2>2
  <1> QED BY <1>1, <1>2, <1>3 DEF ClockInv

(* An attempt that is given up or over has loaded nothing.                 *)
LEMMA ForgetKeeps ==
  ASSUME ClockInv, NEW r \in Readers, Forget(r), UNCHANGED writerVars,
         call' \in [Readers -> Calls \cup {"none"}],
         since' \in [Readers -> Nat], last' \in [Readers -> Nat],
         since'[r] <= settled,
         \A q \in Readers \ {r} : call'[q] = call[q] /\ since'[q] = since[q]
  PROVE  ClockInv'
  <1>1. TypeOK'
    <2>0. 0 \in 0 .. SeqMod - 1
      BY TimeAssumption
    <2>1. /\ done' \in [Readers -> SUBSET Loads]
          /\ s1' \in [Readers -> 0 .. SeqMod - 1]
          /\ s2' \in [Readers -> 0 .. SeqMod - 1]
          /\ gotSec' \in [Readers -> Nat] /\ gotSub' \in [Readers -> Nat]
          /\ lag' \in [Readers -> 0 .. SeqMod - 1]
      BY <2>0 DEF ClockInv, TypeOK, Forget
    <2> QED BY <2>1 DEF ClockInv, TypeOK, Idle, writerVars, page
  <1>2. PageInv'
    BY DEF ClockInv, PageInv, Idle, writerVars, page
  <1>3. ASSUME NEW q \in Readers
        PROVE  Ordered(q)' /\ Attempt(q)' /\ OneInstant(q)'
    <2>0. Ordered(q) /\ Attempt(q) /\ OneInstant(q)
      BY DEF ClockInv
    <2>1. CASE q # r
      <3>1. /\ call'[q] = call[q] /\ since'[q] = since[q]
            /\ done'[q] = done[q] /\ s1'[q] = s1[q] /\ s2'[q] = s2[q]
            /\ gotSec'[q] = gotSec[q] /\ gotSub'[q] = gotSub[q]
            /\ lag'[q] = lag[q]
        BY <2>1 DEF ClockInv, TypeOK, Forget
      <3> QED
        BY <2>0, <3>1 DEF Ordered, Attempt, OneInstant, Agrees, SubField,
                          writerVars, page
    <2>2. CASE q = r
      <3>1. done'[q] = {}
        BY <2>2 DEF ClockInv, TypeOK, Forget
      <3>2. since'[q] <= settled'
        BY <2>2 DEF writerVars
      <3> QED BY <3>1, <3>2 DEF Ordered, Attempt, OneInstant, Agrees, Loads
    <2> QED BY <2>1, <2>2
  <1> QED BY <1>1, <1>2, <1>3 DEF ClockInv

LEMMA RetryKeeps == ASSUME ClockInv, NEW r \in Readers, Retry(r) PROVE ClockInv'
  <1>1. since[r] <= settled
    BY DEF ClockInv, Attempt
  <1> QED BY <1>1, ForgetKeeps DEF ClockInv, TypeOK, Retry

LEMMA OverKeeps ==
  ASSUME ClockInv, NEW r \in Readers, NEW seconds \in Nat, Over(r, seconds)
  PROVE  ClockInv'
  <1>1. /\ call' \in [Readers -> Calls \cup {"none"}]
        /\ since' \in [Readers -> Nat] /\ last' \in [Readers -> Nat]
        /\ since'[r] = 0
        /\ \A q \in Readers \ {r} : call'[q] = call[q] /\ since'[q] = since[q]
    BY DEF ClockInv, TypeOK, Over
  <1>2. since'[r] <= settled
    BY <1>1 DEF ClockInv, TypeOK
  <1> QED BY <1>1, <1>2, ForgetKeeps DEF Over

-----------------------------------------------------------------------------
LEMMA LoadKeeps ==
  ASSUME ClockInv, LoadsInOrder, NEW r \in Readers, NEW x \in Loads, Load(r, x)
  PROVE  ClockInv'
  <1>1. TypeOK'
    <2>0. 0 \in 0 .. SeqMod - 1
      BY TimeAssumption
    <2>1. seq \in 0 .. SeqMod - 1 /\ sec \in Nat /\ SubField(r) \in Nat
      BY DEF ClockInv, TypeOK, SubField
    <2>2. /\ done' \in [Readers -> SUBSET Loads]
          /\ UNCHANGED <<writerVars, call, since, last>>
      BY DEF ClockInv, TypeOK, Load
    <2>3. /\ s1' \in [Readers -> 0 .. SeqMod - 1]
          /\ s2' \in [Readers -> 0 .. SeqMod - 1]
          /\ gotSec' \in [Readers -> Nat] /\ gotSub' \in [Readers -> Nat]
          /\ lag' \in [Readers -> 0 .. SeqMod - 1]
      <3>1. CASE x = "seq1"
        BY <2>0, <2>1, <3>1 DEF ClockInv, TypeOK, Load
      <3>2. CASE x = "sec"
        BY <2>1, <3>2 DEF ClockInv, TypeOK, Load
      <3>3. CASE x = "sub"
        BY <2>1, <3>3 DEF ClockInv, TypeOK, Load
      <3>4. CASE x = "seq2"
        BY <2>1, <3>4 DEF ClockInv, TypeOK, Load
      <3> QED BY <3>1, <3>2, <3>3, <3>4 DEF Loads
    <2> QED BY <2>2, <2>3 DEF ClockInv, TypeOK, Idle, writerVars, page
  <1>2. PageInv'
    BY DEF ClockInv, PageInv, Load, Idle, writerVars, page
  <1>3. ASSUME NEW q \in Readers
        PROVE  Ordered(q)' /\ Attempt(q)' /\ OneInstant(q)'
    <2>0. Ordered(q) /\ Attempt(q) /\ OneInstant(q)
      BY DEF ClockInv
    <2>1. CASE q # r
      <3>1. /\ call'[q] = call[q] /\ since'[q] = since[q]
            /\ done'[q] = done[q] /\ s1'[q] = s1[q] /\ s2'[q] = s2[q]
            /\ gotSec'[q] = gotSec[q] /\ gotSub'[q] = gotSub[q]
            /\ lag'[q] = lag[q]
        BY <2>1 DEF ClockInv, TypeOK, Load, Loads
      <3> QED
        BY <2>0, <3>1 DEF Ordered, Attempt, OneInstant, Agrees, SubField,
                          Load, writerVars, page
    <2>2. CASE q = r
      <3>1. Before(x) \subseteq done[r]
        BY DEF Load, Needed
      <3>2. done'[r] = done[r] \cup {x} /\ x \notin done[r]
        BY DEF ClockInv, TypeOK, Load
      <3>3. \A y \in Loads : Before(y) \subseteq Loads
        BY DEF Before, Loads
      <3>4. /\ UNCHANGED <<seq, sec, nsec, usec, settled, published>>
            /\ UNCHANGED <<call, since>>
            /\ call[r] \in {"clock_gettime", "gettimeofday"}
            /\ "seq1" \in done[r] => ~Odd(s1[r])
        BY DEF Load, writerVars, page
      <3>5. Ordered(r)'
        <4>1. \A y \in done'[r] : Before(y) \subseteq done'[r]
          BY <2>0, <2>2, <3>1, <3>2 DEF Ordered
        <4>2. ASSUME "sec" \in done'[r] PROVE ~Odd(s1'[r])
          <5>1. "seq1" \in done[r]
            BY <2>0, <2>2, <3>1, <3>2, <4>2 DEF Ordered, Before
          <5>2. s1' = s1
            BY <3>2, <5>1 DEF Load, Loads
          <5> QED
            BY <3>4, <5>1, <5>2
        <4> QED
          BY <3>4, <4>1, <4>2 DEF Ordered
      <3>6. CASE x = "seq1"
        <4>1. done[r] = {}
          BY <2>0, <2>2, <3>2, <3>6 DEF ClockInv, TypeOK, Ordered, Before, Loads
        <4>2. s1'[r] = seq /\ lag'[r] = 0 /\ done'[r] = {"seq1"}
          BY <3>2, <3>6, <4>1 DEF ClockInv, TypeOK, Load
        <4>3. seq' = Wrap(s1'[r] + lag'[r])
          BY <3>4, <4>2, TimeAssumption, WrapMoves DEF ClockInv, TypeOK
        <4> QED
          BY <2>0, <2>2, <3>4, <3>5, <4>2, <4>3
          DEF Attempt, OneInstant, Agrees, Loads
      <3>7. CASE x = "sec"
        <4>1. gotSec'[r] = sec /\ UNCHANGED <<s1, s2, gotSub, lag>>
          BY <3>7 DEF ClockInv, TypeOK, Load
        <4>2. "seq2" \notin done'[r]
          BY <2>0, <2>2, <3>2, <3>7 DEF Ordered, Before
        <4> QED
          BY <2>0, <2>2, <3>2, <3>4, <3>5, <3>7, <4>1, <4>2
          DEF Attempt, OneInstant, Agrees, Loads, SubField
      <3>8. CASE x = "sub"
        <4>1. gotSub'[r] = SubField(r) /\ UNCHANGED <<s1, s2, gotSec, lag>>
          BY <3>8 DEF ClockInv, TypeOK, Load
        <4>2. "seq2" \notin done'[r]
          BY <2>0, <2>2, <3>2, <3>8 DEF Ordered, Before
        <4> QED
          BY <2>0, <2>2, <3>2, <3>4, <3>5, <3>8, <4>1, <4>2
          DEF Attempt, OneInstant, Agrees, Loads, SubField
      <3>9. CASE x = "seq2"
        <4>1. s2'[r] = seq /\ UNCHANGED <<s1, gotSec, gotSub, lag>>
          BY <3>9 DEF ClockInv, TypeOK, Load
        <4>2. Attempt(r)'
          BY <2>0, <2>2, <3>2, <3>4, <3>9, <4>1 DEF Attempt, SubField
        <4>3. ASSUME Agrees(r)'
              PROVE  /\ settled \in published /\ settled >= since[r]
                     /\ gotSec[r] = Sec(settled)
                     /\ gotSub[r] = IF call[r] = "clock_gettime"
                                    THEN Nsec(settled) ELSE Usec(settled)
          <5>1. s1[r] = seq /\ ~Odd(seq)
            BY <4>1, <4>3 DEF Agrees
          <5>2. "seq1" \in done[r] /\ "sec" \in done[r] /\ "sub" \in done[r]
            BY <3>1, <3>9 DEF Before
          <5>3. lag[r] = 0
            BY <2>0, <2>2, <5>1, <5>2, WrapMoves DEF Attempt, ClockInv, TypeOK
          <5>4. Idle
            BY <5>1 DEF ClockInv, TypeOK
          <5>5. gotSec[r] = sec /\ gotSub[r] = SubField(r)
            BY <2>0, <2>2, <5>2, <5>3 DEF Attempt
          <5>6. settled \in published /\ settled >= since[r]
            BY <2>0, <2>2 DEF Attempt, ClockInv, PageInv, TypeOK
          <5> QED BY <5>4, <5>5, <5>6 DEF ClockInv, PageInv, Idle, SubField
        <4>4. OneInstant(r)'
          BY <3>4, <4>1, <4>3 DEF OneInstant
        <4> QED BY <2>2, <3>5, <4>2, <4>4
      <3> QED BY <3>6, <3>7, <3>8, <3>9 DEF Loads
    <2> QED BY <2>1, <2>2
  <1> QED BY <1>1, <1>2, <1>3 DEF ClockInv

-----------------------------------------------------------------------------
LEMMA ClockInitHolds == PageInit => ClockInv
  <1> SUFFICES ASSUME PageInit PROVE ClockInv
    OBVIOUS
  <1>1. TypeOK
    <2>1. seq \in 0 .. SeqMod - 1 /\ ~Odd(seq)
      <3>1. SeqMod > 1
        BY TimeAssumption
      <3> QED BY <3>1, TimeAssumption DEF PageInit, Wrap, Odd
    <2>2. ns \in Nat /\ 0 \in 0 .. SeqMod - 1
      BY TimeAssumption DEF PageInit
    <2> QED BY <2>1, <2>2, PartsAreNat DEF PageInit, TypeOK, Idle
  <1>2. PageInv
    <2>1. ns \in Nat /\ ns <= ns
      BY TimeAssumption DEF PageInit
    <2> QED BY <2>1 DEF PageInit, PageInv
  <1>3. \A r \in Readers : Ordered(r) /\ Attempt(r) /\ OneInstant(r)
    <2>1. \A r \in Readers : since[r] <= settled /\ done[r] = {}
      <3>1. settled \in Nat /\ 0 <= settled
        BY <1>1 DEF TypeOK
      <3> QED BY <3>1 DEF PageInit
    <2> QED BY <2>1 DEF Ordered, Attempt, OneInstant, Agrees, Loads
  <1> QED BY <1>1, <1>2, <1>3 DEF ClockInv

LEMMA NextKeeps == LoadsInOrder /\ ClockInv /\ [PageNext]_pageVars => ClockInv'
  <1> SUFFICES ASSUME LoadsInOrder, ClockInv, [PageNext]_pageVars PROVE ClockInv'
    OBVIOUS
  <1>1. CASE Writer
    BY <1>1, BeginKeeps, WriteSecKeeps, WriteNsecKeeps, WriteUsecKeeps,
       SettleKeeps, StopKeeps DEF Writer
  <1>2. ASSUME NEW r \in Readers, ReaderStep(r) PROVE ClockInv'
    <2>1. ASSUME NEW x \in Loads, Load(r, x) PROVE ClockInv'
      BY <2>1, LoadKeeps
    <2>2. CASE Retry(r)
      BY <2>2, RetryKeeps
    <2>3. CASE Return(r)
      <3>1. gotSec[r] \in Nat
        BY DEF ClockInv, TypeOK
      <3> QED BY <2>3, <3>1, OverKeeps DEF Return
    <2>4. CASE Time(r)
      <3>1. sec \in Nat
        BY DEF ClockInv, TypeOK
      <3> QED BY <2>4, <3>1, OverKeeps DEF Time
    <2> QED BY <1>2, <2>1, <2>2, <2>3, <2>4 DEF ReaderStep
  <1>3. ASSUME NEW r \in Readers, NEW c \in Calls, Start(r, c) PROVE ClockInv'
    BY <1>3, StartKeeps
  <1>4. CASE UNCHANGED pageVars
    BY <1>4 DEF pageVars, writerVars, readerVars, page, ClockInv, TypeOK, PageInv,
                Ordered, Attempt, OneInstant, Agrees, SubField, Idle
  <1> QED BY <1>1, <1>2, <1>3, <1>4 DEF PageNext

(* Init => IInv and every step keeps it, on a machine that loads in order. *)
THEOREM ClockInvariant == LoadsInOrder => (PageSpec => []ClockInv)
  <1>1. ASSUME LoadsInOrder PROVE PageSpec => []ClockInv
    <2>1. LoadsInOrder
      BY <1>1
    <2>2. ClockInv /\ [PageNext]_pageVars => ClockInv'
      BY <2>1, NextKeeps
    <2> QED BY <2>2, ClockInitHolds, PTL DEF PageSpec
  <1> QED BY <1>1

(* Every clock read that returns, returns one instant that publish_once    *)
(* settled and that was not out of date when the guest asked, for any      *)
(* number of readers, any times and any width of the sequence word.        *)
THEOREM ClockReadsOneInstant == LoadsInOrder => (PageSpec => []ReadsOneInstant)
  <1>1. ClockInv => ReadsOneInstant
    BY DEF ClockInv, OneInstant, ReadsOneInstant
  <1>2. ASSUME LoadsInOrder PROVE PageSpec => []ReadsOneInstant
    <2>1. PageSpec => []ClockInv
      BY <1>2, ClockInvariant
    <2> QED BY <1>1, <2>1, PTL
  <1> QED BY <1>2

-----------------------------------------------------------------------------
(* The seconds.  The order of the loads does not matter to them: whichever *)
(* load comes first, the seconds were loaded after the call was made, and  *)
(* the page's seconds only grow.                                           *)
SecondsTypes ==
  /\ sec \in Nat /\ ns \in Nat
  /\ done \in [Readers -> SUBSET Loads]
  /\ gotSec \in [Readers -> Nat] /\ last \in [Readers -> Nat]

SecondsInv ==
  /\ SecondsTypes
  /\ sec <= Sec(ns)
  /\ \A r \in Readers :
       /\ last[r] <= sec
       /\ "sec" \in done[r] => last[r] <= gotSec[r] /\ gotSec[r] <= sec

LEMMA QuotientGrows ==
  ASSUME NEW p \in Nat \ {0}, NEW a \in Nat, NEW b \in Nat, a <= b
  PROVE  a \div p <= b \div p
  <1> DEFINE x == a \div p
             y == b \div p
  <1>1. x \in Nat /\ y \in Nat /\ p * x <= a /\ b < p * (y + 1)
    OBVIOUS
  <1> HIDE DEF x, y
  <1>2. p * x < p * (y + 1)
    BY <1>1
  <1>3. ASSUME x >= y + 1 PROVE FALSE
    <2>1. p * x >= p * (y + 1)
      BY <1>1, <1>3
    <2> QED
      BY <1>1, <1>2, <2>1
  <1>4. x < y + 1
    BY <1>1, <1>3
  <1> QED
    BY <1>1, <1>4 DEF x, y

LEMMA SecGrows ==
  ASSUME NEW a \in Nat, NEW b \in Nat, a <= b
  PROVE  Sec(a) <= Sec(b)
  BY QuotientGrows, TimeAssumption DEF Sec

LEMMA SecondsHold ==
  SecondsInv /\ [PageNext]_pageVars =>
    SecondsInv' /\ \A r \in Readers : last'[r] >= last[r]
  <1> SUFFICES ASSUME SecondsInv, [PageNext]_pageVars
               PROVE  SecondsInv' /\ \A r \in Readers : last'[r] >= last[r]
    OBVIOUS
  <1> USE DEF SecondsInv, SecondsTypes, page, writerVars, readerVars
  <1>1. CASE UNCHANGED <<sec, ns, done, gotSec, last>>
    BY <1>1
  <1>2. ASSUME NEW n \in 0 .. MaxNs, Begin(n)
        PROVE  SecondsInv' /\ \A r \in Readers : last'[r] >= last[r]
    <2>1. n \in Nat /\ ns <= n /\ ns' = n
      BY <1>2, TimeAssumption DEF Begin
    <2>2. Sec(ns) <= Sec(n) /\ Sec(ns) \in Nat /\ Sec(n) \in Nat
      BY <2>1, SecGrows, PartsAreNat
    <2> QED
      BY <1>2, <2>1, <2>2 DEF Begin
  <1>3. CASE WriteSec
    <2>1. sec' = Sec(ns) /\ Sec(ns) \in Nat /\ sec <= Sec(ns)
      BY <1>3, PartsAreNat DEF WriteSec
    <2> QED
      BY <1>3, <2>1 DEF WriteSec
  <1>4. ASSUME NEW r \in Readers, NEW x \in Loads, Load(r, x)
        PROVE  SecondsInv' /\ \A q \in Readers : last'[q] >= last[q]
    <2>1. /\ done' = [done EXCEPT ![r] = @ \cup {x}]
          /\ UNCHANGED <<sec, ns, last>>
      BY <1>4 DEF Load
    <2>2. IF x = "sec" THEN gotSec' = [gotSec EXCEPT ![r] = sec]
          ELSE gotSec' = gotSec
      BY <1>4 DEF Load, Loads
    <2> QED
      BY <2>1, <2>2
  <1>5. ASSUME NEW r \in Readers, Retry(r)
        PROVE  SecondsInv' /\ \A q \in Readers : last'[q] >= last[q]
    BY <1>5 DEF Retry, Forget
  <1>6. ASSUME NEW r \in Readers, NEW seconds \in Nat, Over(r, seconds),
               last[r] <= seconds, seconds <= sec
        PROVE  SecondsInv' /\ \A q \in Readers : last'[q] >= last[q]
    BY <1>6 DEF Over, Forget
  <1>7. ASSUME NEW r \in Readers, Return(r) \/ Time(r)
        PROVE  SecondsInv' /\ \A q \in Readers : last'[q] >= last[q]
    <2>1. CASE Return(r)
      <3>1. "sec" \in done[r]
        BY <2>1 DEF Return, Agrees, Loads
      <3> QED
        BY <1>6, <2>1, <3>1 DEF Return
    <2>2. CASE Time(r)
      BY <1>6, <2>2 DEF Time
    <2> QED
      BY <1>7, <2>1, <2>2
  <1>8. CASE \/ WriteNsec \/ WriteUsec \/ Settle \/ Stop
             \/ \E r \in Readers, c \in Calls : Start(r, c)
             \/ UNCHANGED pageVars
    BY <1>1, <1>8 DEF WriteNsec, WriteUsec, Settle, Stop, Start, pageVars
  <1> QED
    BY <1>2, <1>3, <1>4, <1>5, <1>7, <1>8 DEF PageNext, Writer, ReaderStep

(* SecondsNeverGoBack: whichever of the three routines a thread calls, the *)
(* seconds it is told are at least those it was told before, also on a     *)
(* machine that reorders loads and in an update that is not settled.       *)
THEOREM SecondsNeverGoBackHolds == PageSpec => SecondsNeverGoBack
  <1>1. PageInit => SecondsInv
    <2> SUFFICES ASSUME PageInit PROVE SecondsInv
      OBVIOUS
    <2>1. ns \in Nat /\ sec = Sec(ns) /\ Sec(ns) \in Nat
      BY TimeAssumption, PartsAreNat DEF PageInit
    <2> QED
      BY <2>1 DEF PageInit, SecondsInv, SecondsTypes
  <1> DEFINE Grown == \A r \in Readers : last'[r] >= last[r]
  <1>2. SecondsInv /\ [PageNext]_pageVars => SecondsInv' /\ [Grown]_pageVars
    BY SecondsHold
  <1> QED
    BY <1>1, <1>2, PTL DEF PageSpec, SecondsNeverGoBack
=============================================================================
