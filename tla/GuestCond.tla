------------------------------ MODULE GuestCond ------------------------------
(***************************************************************************)
(* The guest's pthread condition variables (src/src/thunks_thread.cpp).    *)
(*                                                                         *)
(* A guest pthread_cond_t holds a token for a host condition_variable_any, *)
(* created on first use exactly as mutexes are.  The mutex a thread waits  *)
(* with is the abstract lock that GuestMutex implements: wait releases it  *)
(* once, and takes it again before it returns to the guest.  Any thread may*)
(* unlock it, and call wait with it or without.                            *)
(*                                                                         *)
(* Time is a counter of milliseconds: kSlice, the longest single sleep of  *)
(* pthread_cond_timedwait, is one tick.                                    *)
(***************************************************************************)
EXTENDS Naturals, FiniteSets

CONSTANTS
  Threads,     \* the guest threads
  Conds,       \* the pthread_cond_t objects in guest memory
  StaticInit,  \* those that begin as PTHREAD_COND_INITIALIZER
  NoThread,
  NoDeadline,  \* the deadline of a call whose timespec pointer is null
  MaxTokens,   \* bound on the host condition variables ever created
  MaxDepth,    \* bound on the recursion of the lock
  MaxTime      \* bound on the clock, and on the deadlines asked for

ASSUME CondAssumption ==
  /\ Conds # {}
  /\ StaticInit \subseteq Conds
  /\ NoThread \notin Threads
  /\ NoDeadline \notin Nat
  /\ MaxTokens \in Nat /\ MaxDepth \in Nat \ {0} /\ MaxTime \in Nat

VARIABLES
  holder, count,  \* the guest mutex all waits use: the abstract lock
  word,           \* Conds -> the word of guest memory
  ready,          \* Conds -> may the guest use the object?
  made,           \* the size of g_conds
  pc,             \* Threads -> where the thread is
  op,             \* Threads -> the thunk it is in
  obj,            \* Threads -> the condition it was called for
  tok,            \* Threads -> the token cond_for found
  deadline,       \* Threads -> the absolute deadline it asked for
  wake,           \* Threads -> the time its single sleep ends
  capped,         \* Threads -> was the sleep cut to one slice?
  ret,            \* Threads -> what its last wait returned
  nest,           \* Threads -> how often it held the lock when it called wait,
                  \* less the levels that others have let go of for it since
  due,            \* Threads -> who was asleep when it called signal
  now             \* guest_monotonic_ns

lockVars   == <<holder, count>>
memoryVars == <<word, ready, made>>
callVars   == <<op, obj, tok, deadline, wake, capped, nest, due>>
vars == <<lockVars, memoryVars, pc, callVars, ret, now>>

M == "mutex"

kETimedOut == 110

Lock == INSTANCE GuestLock WITH Objects <- {M}

Waits     == {"wait", "timedwait"}
Wakers    == {"signal", "broadcast"}
Ops       == Waits \cup Wakers \cup {"init", "none"}
Stages    == {"guest", "load", "create", "store", "act",
              "parked", "notified", "relock"}
Deadlines == (0 .. MaxTime) \cup {NoDeadline}

InCall(c) == {t \in Threads : pc[t] # "guest" /\ obj[t] = c}

(* The threads asleep in a wait for guest condition c, and those asleep on *)
(* one host condition variable.                                            *)
ParkedFor(c) == {t \in Threads : pc[t] = "parked" /\ obj[t] = c}
ParkedOn(k)  == {t \in Threads : pc[t] = "parked" /\ tok[t] = k}

Held(t) == IF holder[M] = t THEN count[M] ELSE 0

Go(t, from, to) == pc[t] = from /\ pc' = [pc EXCEPT ![t] = to]

(* The locals of a thunk die with it.                                      *)
Drop(t) ==
  /\ op'  = [op EXCEPT ![t] = "none"]
  /\ tok' = [tok EXCEPT ![t] = 0]
  /\ deadline' = [deadline EXCEPT ![t] = NoDeadline]
  /\ wake'   = [wake EXCEPT ![t] = 0]
  /\ capped' = [capped EXCEPT ![t] = FALSE]
  /\ nest'   = [nest EXCEPT ![t] = 0]
  /\ due'    = [due EXCEPT ![t] = {}]
  /\ UNCHANGED obj

-----------------------------------------------------------------------------
Init ==
  /\ Lock!Init
  /\ word  = [c \in Conds |-> 0]
  /\ ready = [c \in Conds |-> c \in StaticInit]
  /\ made  = 0
  /\ pc    = [t \in Threads |-> "guest"]
  /\ op    = [t \in Threads |-> "none"]
  /\ obj   = [t \in Threads |-> CHOOSE c \in Conds : TRUE]
  /\ tok   = [t \in Threads |-> 0]
  /\ deadline = [t \in Threads |-> NoDeadline]
  /\ wake     = [t \in Threads |-> 0]
  /\ capped   = [t \in Threads |-> FALSE]
  /\ ret      = [t \in Threads |-> 0]
  /\ nest     = [t \in Threads |-> 0]
  /\ due      = [t \in Threads |-> {}]
  /\ now = 0

Enter(t, c, f) ==
  /\ Go(t, "guest", "load")
  /\ op'  = [op EXCEPT ![t] = f]
  /\ obj' = [obj EXCEPT ![t] = c]
  /\ ret' = [ret EXCEPT ![t] = 0]
  /\ UNCHANGED <<lockVars, made, tok, wake, capped, now>>

(* GuestMutex::unlock: anyone lets go of one level, whoever holds the lock,*)
(* and of a free lock of nothing.                                          *)
Unlock(t) ==
  /\ IF holder[M] = NoThread THEN UNCHANGED lockVars ELSE Lock!Release(M)
  /\ nest' = [u \in Threads |->
       IF u # t /\ u = holder[M] /\ op[u] \in Waits THEN nest[u] - 1 ELSE nest[u]]

(* pthread_cond_init drops any old token and runs cond_for.                *)
CallInit(t, c) ==
  /\ ~ready[c] /\ InCall(c) = {}
  /\ Enter(t, c, "init")
  /\ word' = [word EXCEPT ![c] = 0]
  /\ UNCHANGED <<ready, deadline, nest, due>>

CallWait(t, c) ==
  /\ ready[c]
  /\ Enter(t, c, "wait")
  /\ deadline' = [deadline EXCEPT ![t] = NoDeadline]
  /\ nest' = [nest EXCEPT ![t] = Held(t)]
  /\ UNCHANGED <<word, ready, due>>

CallTimedWait(t, c, d) ==
  /\ ready[c]
  /\ Enter(t, c, "timedwait")
  /\ deadline' = [deadline EXCEPT ![t] = d]
  /\ nest' = [nest EXCEPT ![t] = Held(t)]
  /\ UNCHANGED <<word, ready, due>>

(* A thread may signal with or without the mutex in hand.                  *)
CallWaker(t, c, f) ==
  /\ ready[c]
  /\ Enter(t, c, f)
  /\ due' = [due EXCEPT ![t] = ParkedFor(c)]
  /\ UNCHANGED <<word, ready, deadline, nest>>

GuestLocks(t) ==
  /\ pc[t] = "guest"
  /\ count[M] < MaxDepth
  /\ Lock!Acquire(t, M)
  /\ UNCHANGED <<memoryVars, pc, callVars, ret, now>>

GuestUnlocks(t) ==
  /\ pc[t] = "guest"
  /\ Unlock(t)
  /\ UNCHANGED <<memoryVars, pc, op, obj, tok, deadline, wake, capped, due, ret, now>>

-----------------------------------------------------------------------------
(* cond_for.                                                               *)
LoadToken(t) ==
  /\ \/ /\ word[obj[t]] = 0
        /\ Go(t, "load", "create")
        /\ UNCHANGED tok
     \/ /\ word[obj[t]] # 0
        /\ Go(t, "load", "act")
        /\ tok' = [tok EXCEPT ![t] = word[obj[t]]]
  /\ UNCHANGED <<lockVars, memoryVars, op, obj, deadline, wake, capped, nest, due, ret, now>>

CreateToken(t) ==
  /\ Go(t, "create", "store")
  /\ made < MaxTokens
  /\ made' = made + 1
  /\ tok'  = [tok EXCEPT ![t] = made + 1]
  /\ UNCHANGED <<lockVars, word, ready, op, obj, deadline, wake, capped, nest, due, ret, now>>

(* A faulty StoreToken, that forgets to write the guest word back.         *)
StoreToken_NotWritten(t) ==
  /\ Go(t, "store", "act")
  /\ UNCHANGED <<lockVars, memoryVars, callVars, ret, now>>

StoreToken(t) ==
  /\ Go(t, "store", "act")
  /\ word' = [word EXCEPT ![obj[t]] = tok[t]]
  /\ UNCHANGED <<lockVars, ready, made, callVars, ret, now>>

FinishInit(t) ==
  /\ op[t] = "init" /\ Go(t, "act", "guest")
  /\ ready' = [ready EXCEPT ![obj[t]] = TRUE]
  /\ Drop(t)
  /\ UNCHANGED <<lockVars, word, made, ret, now>>

-----------------------------------------------------------------------------
(* condition_variable_any::wait: unlock the mutex once and go to sleep, in *)
(* one step as far as any notification can tell.                           *)
Sleep(t) ==
  /\ Unlock(t)
  /\ due' = [u \in Threads |-> due[u] \ {t}]

Wait(t) ==
  /\ op[t] = "wait" /\ Go(t, "act", "parked")
  /\ Sleep(t)
  /\ UNCHANGED <<memoryVars, op, obj, tok, deadline, wake, capped, ret, now>>

(* TimedWaitPast_ReturnsZero claims a signal when the time is up.          *)
(*                                                                         *)
(* pthread_cond_timedwait: a deadline already past returns at once, with   *)
(* the mutex still held; otherwise one sleep of at most a slice.           *)
TimedWaitPast_ReturnsZero(t) ==
  /\ op[t] = "timedwait" /\ Go(t, "act", "guest")
  /\ deadline[t] # NoDeadline /\ deadline[t] <= now
  /\ ret' = [ret EXCEPT ![t] = 0]
  /\ Drop(t)
  /\ UNCHANGED <<lockVars, memoryVars, now>>

TimedWaitPast(t) ==
  /\ op[t] = "timedwait" /\ Go(t, "act", "guest")
  /\ deadline[t] # NoDeadline /\ deadline[t] <= now
  /\ ret' = [ret EXCEPT ![t] = kETimedOut]
  /\ Drop(t)
  /\ UNCHANGED <<lockVars, memoryVars, now>>

TimedWait(t) ==
  /\ op[t] = "timedwait" /\ Go(t, "act", "parked")
  /\ deadline[t] # NoDeadline => deadline[t] > now
  /\ wake'   = [wake EXCEPT ![t] = now + 1]
  /\ capped' = [capped EXCEPT ![t] = deadline[t] # NoDeadline => deadline[t] - now > 1]
  /\ Sleep(t)
  /\ UNCHANGED <<memoryVars, op, obj, tok, deadline, ret, now>>

(* Expired_Always takes every sleep that ran out for the deadline.         *)
(*                                                                         *)
(* What a sleep that ended by the clock tells the caller.  A slice that    *)
(* ran out is a spurious wakeup, not a timeout.                            *)
Expired_Always(t) == kETimedOut

Expired(t) == IF capped[t] THEN 0 ELSE kETimedOut

Timeout(t) ==
  /\ op[t] = "timedwait" /\ now >= wake[t]
  /\ Go(t, "parked", "relock")
  /\ ret' = [ret EXCEPT ![t] = Expired(t)]
  /\ UNCHANGED <<lockVars, memoryVars, callVars, now>>

(* A notified sleeper returns 0.  When its time has run out as well,       *)
(* wait_for may report that instead.                                       *)
Resume(t) ==
  /\ Go(t, "notified", "relock")
  /\ \/ ret' = [ret EXCEPT ![t] = 0]
     \/ /\ op[t] = "timedwait" /\ now >= wake[t]
        /\ ret' = [ret EXCEPT ![t] = Expired(t)]
  /\ UNCHANGED <<lockVars, memoryVars, callVars, now>>

(* A host condition variable may also wake for no reason.                  *)
SpuriousWake(t) ==
  /\ Go(t, "parked", "relock")
  /\ ret' = [ret EXCEPT ![t] = 0]
  /\ UNCHANGED <<lockVars, memoryVars, callVars, now>>

(* A faulty Relock, that returns without the mutex.                        *)
Relock_Skipped(t) ==
  /\ Go(t, "relock", "guest")
  /\ Drop(t)
  /\ UNCHANGED <<lockVars, memoryVars, ret, now>>

Relock(t) ==
  /\ Go(t, "relock", "guest")
  /\ Lock!Acquire(t, M)
  /\ Drop(t)
  /\ UNCHANGED <<memoryVars, ret, now>>

-----------------------------------------------------------------------------
Signal(t) ==
  /\ op[t] = "signal" /\ pc[t] = "act"
  /\ \/ /\ ParkedOn(tok[t]) = {}
        /\ pc' = [pc EXCEPT ![t] = "guest"]
     \/ \E u \in ParkedOn(tok[t]) :
           pc' = [pc EXCEPT ![t] = "guest", ![u] = "notified"]
  /\ Drop(t)
  /\ UNCHANGED <<lockVars, memoryVars, ret, now>>

(* A faulty Broadcast, notify_one for notify_all.                          *)
Broadcast_One(t) ==
  /\ op[t] = "broadcast" /\ pc[t] = "act"
  /\ \/ /\ ParkedOn(tok[t]) = {}
        /\ pc' = [pc EXCEPT ![t] = "guest"]
     \/ \E u \in ParkedOn(tok[t]) :
           pc' = [pc EXCEPT ![t] = "guest", ![u] = "notified"]
  /\ Drop(t)
  /\ UNCHANGED <<lockVars, memoryVars, ret, now>>

Broadcast(t) ==
  /\ op[t] = "broadcast" /\ pc[t] = "act"
  /\ pc' = [u \in Threads |-> CASE u = t -> "guest"
                                [] u \in ParkedOn(tok[t]) -> "notified"
                                [] OTHER -> pc[u]]
  /\ Drop(t)
  /\ UNCHANGED <<lockVars, memoryVars, ret, now>>

Tick ==
  /\ now < MaxTime
  /\ now' = now + 1
  /\ UNCHANGED <<lockVars, memoryVars, pc, callVars, ret>>

-----------------------------------------------------------------------------
GuestStep(t) ==
  \/ GuestLocks(t) \/ GuestUnlocks(t)
  \/ \E c \in Conds :
        \/ CallInit(t, c) \/ CallWait(t, c)
        \/ \E d \in Deadlines : CallTimedWait(t, c, d)
        \/ \E f \in Wakers : CallWaker(t, c, f)

ThunkStep(t) ==
  \/ LoadToken(t) \/ CreateToken(t) \/ StoreToken(t) \/ FinishInit(t)
  \/ Wait(t) \/ TimedWaitPast(t) \/ TimedWait(t) \/ Timeout(t)
  \/ Resume(t) \/ Relock(t) \/ Signal(t) \/ Broadcast(t)

Next == Tick \/ \E t \in Threads : GuestStep(t) \/ ThunkStep(t) \/ SpuriousWake(t)

Spec == Init /\ [][Next]_vars

-----------------------------------------------------------------------------
(* A waiter never hears ETIMEDOUT before the deadline it asked for, not    *)
(* even when its sleep was cut to one slice, and never when it gave none.  *)
TimeoutIsHonest ==
  [][\A t \in Threads :
        ret'[t] = kETimedOut /\ ret[t] # kETimedOut
           => deadline[t] # NoDeadline /\ now >= deadline[t]]_vars

(* Whoever has slept in a wait, be it signalled, spurious or timed out, has*)
(* the mutex when it returns: as often as when it called, but for what     *)
(* other threads let go of in its place, and once at the least.  A wait    *)
(* that finds its deadline past leaves the mutex alone.                    *)
WaitRestoresLock ==
  [][\A t \in Threads :
        op[t] \in Waits /\ pc[t] # "guest" /\ pc'[t] = "guest" =>
          IF pc[t] = "relock"
          THEN holder'[M] = t /\ count'[M] = IF nest[t] = 0 THEN 1 ELSE nest[t]
          ELSE lockVars' = lockVars /\ Held(t) = nest[t]]_vars

(* A thread that was waiting for the condition when somebody called signal *)
(* is not left asleep by a signal that wakes nobody, and a broadcast wakes *)
(* every such thread: no waiter sleeps where the signal does not look.     *)
Reaches(c) ==
  \A t \in Threads :
     obj[t] = c /\ op[t] \in Wakers /\ pc[t] = "act" /\ pc'[t] = "guest"
        => LET waiting == due[t] \cap ParkedFor(c)
               woken   == {u \in ParkedFor(c) : pc'[u] = "notified"}
           IN /\ waiting # {} => woken # {}
              /\ op[t] = "broadcast" => waiting \subseteq woken

SignalReaches == [][\A c \in Conds \ StaticInit : Reaches(c)]_vars
=============================================================================
