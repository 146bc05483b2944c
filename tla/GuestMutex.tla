----------------------------- MODULE GuestMutex -----------------------------
(***************************************************************************)
(* The guest's pthread mutexes (src/src/thunks_thread.cpp).                *)
(*                                                                         *)
(* A guest pthread_mutex_t is one word of guest memory.  It holds a token  *)
(* that indexes a host table of GuestMutex objects; a zero word is a       *)
(* static initialiser, and the host object is created the first time a     *)
(* thunk sees it.  A GuestMutex is recursive for its owner and may be      *)
(* released by any thread.                                                 *)
(*                                                                         *)
(* One action is one stretch of code that no other thread can divide: a    *)
(* read or a write of the guest word, one call into the table (its own     *)
(* lock), one critical section of GuestMutex::state_.                      *)
(***************************************************************************)
EXTENDS Naturals, FiniteSets

CONSTANTS
  Threads,     \* the guest threads, one host thread each
  Objects,     \* the pthread_mutex_t objects in guest memory
  StaticInit,  \* the objects that begin as PTHREAD_MUTEX_INITIALIZER
  NoThread,    \* the value of a default std::thread::id
  MaxTokens,   \* bound on the host objects ever created
  MaxDepth     \* bound on the recursion of one owner

ASSUME MutexAssumption ==
  /\ Objects # {}
  /\ StaticInit \subseteq Objects
  /\ NoThread \notin Threads
  /\ MaxTokens \in Nat
  /\ MaxDepth \in Nat

Tokens == 1 .. MaxTokens

Ops == {"init", "lock", "trylock", "unlock"}

(* Where a thread is.  "guest" is guest code, outside every thunk; the     *)
(* next three are mutex_for; "act" is the thunk with its host object in    *)
(* hand; the last three are GuestMutex::lock.                              *)
Stages == {"guest", "load", "create", "store", "act", "lock", "asleep", "woken"}

VARIABLES
  word,    \* Objects -> the word of guest memory: 0 or a token
  ready,   \* Objects -> may the guest use the object?
  made,    \* the size of g_mutexes
  owner,   \* Tokens -> GuestMutex::owner_, NoThread when held_ is false
  depth,   \* Tokens -> GuestMutex::depth_
  pc,      \* Threads -> Stages
  op,      \* Threads -> the thunk the thread is in
  obj,     \* Threads -> its argument
  tok,     \* Threads -> the token mutex_for found for it
  inside   \* Objects -> threads whose lock succeeded and was not released

vars == <<word, ready, made, owner, depth, pc, op, obj, tok, inside>>

hostVars   == <<owner, depth, inside>>
memoryVars == <<word, ready, made>>
callVars   == <<op, obj>>

InCall(o) == {t \in Threads : pc[t] # "guest" /\ obj[t] = o}

Sleepers(k) == {t \in Threads : pc[t] = "asleep" /\ tok[t] = k}

-----------------------------------------------------------------------------
Init ==
  /\ word  = [o \in Objects |-> 0]
  /\ ready = [o \in Objects |-> o \in StaticInit]
  /\ made  = 0
  /\ owner = [k \in Tokens |-> NoThread]
  /\ depth = [k \in Tokens |-> 0]
  /\ pc    = [t \in Threads |-> "guest"]
  /\ op    = [t \in Threads |-> "lock"]
  /\ obj   = [t \in Threads |-> CHOOSE o \in Objects : TRUE]
  /\ tok   = [t \in Threads |-> 0]
  /\ inside = [o \in Objects |-> {}]

(* pthread_mutex_init drops any old token and runs mutex_for.  The guest   *)
(* initialises an object that nobody else can use yet.                     *)
CallInit(t, o) ==
  /\ pc[t] = "guest"
  /\ ~ready[o] /\ InCall(o) = {}
  /\ word' = [word EXCEPT ![o] = 0]
  /\ pc'   = [pc EXCEPT ![t] = "load"]
  /\ op'   = [op EXCEPT ![t] = "init"]
  /\ obj'  = [obj EXCEPT ![t] = o]
  /\ UNCHANGED <<ready, made, tok, hostVars>>

(* The guest enters one of the other thunks.  It may release a mutex that  *)
(* another thread holds.                                                   *)
CallOp(t, o, f) ==
  /\ pc[t] = "guest"
  /\ ready[o]
  /\ f # "unlock" /\ t \in inside[o] => depth[word[o]] < MaxDepth
  /\ pc'  = [pc EXCEPT ![t] = "load"]
  /\ op'  = [op EXCEPT ![t] = f]
  /\ obj' = [obj EXCEPT ![t] = o]
  /\ UNCHANGED <<memoryVars, tok, hostVars>>

(* pthread_mutex_destroy does nothing to the host object; the guest only   *)
(* destroys a mutex nobody holds or is using, and may then initialise it   *)
(* again in place.  MaxTokens bounds this: a token stays in reserve for    *)
(* every object that has yet to be initialised.                            *)
Destroy(t, o) ==
  /\ pc[t] = "guest"
  /\ made + Cardinality({p \in Objects : ~ready[p]}) < MaxTokens
  /\ ready[o] /\ InCall(o) = {} /\ inside[o] = {}
  /\ ready' = [ready EXCEPT ![o] = FALSE]
  /\ UNCHANGED <<word, made, pc, op, obj, tok, hostVars>>

-----------------------------------------------------------------------------
(* mutex_for: read the guest word, and when it is zero create a host       *)
(* object and write its token back.                                        *)
LoadToken(t) ==
  /\ pc[t] = "load"
  /\ IF word[obj[t]] = 0
       THEN pc' = [pc EXCEPT ![t] = "create"] /\ UNCHANGED tok
       ELSE /\ pc'  = [pc EXCEPT ![t] = "act"]
            /\ tok' = [tok EXCEPT ![t] = word[obj[t]]]
  /\ UNCHANGED <<memoryVars, callVars, hostVars>>

CreateToken(t) ==
  /\ pc[t] = "create"
  /\ made < MaxTokens
  /\ made' = made + 1
  /\ tok' = [tok EXCEPT ![t] = made + 1]
  /\ pc'  = [pc EXCEPT ![t] = "store"]
  /\ UNCHANGED <<word, ready, callVars, hostVars>>

StoreToken(t) ==
  /\ pc[t] = "store"
  /\ word' = [word EXCEPT ![obj[t]] = tok[t]]
  /\ pc'   = [pc EXCEPT ![t] = "act"]
  /\ UNCHANGED <<ready, made, tok, callVars, hostVars>>

FinishInit(t) ==
  /\ pc[t] = "act" /\ op[t] = "init"
  /\ ready' = [ready EXCEPT ![obj[t]] = TRUE]
  /\ pc'    = [pc EXCEPT ![t] = "guest"]
  /\ UNCHANGED <<word, made, tok, callVars, hostVars>>

-----------------------------------------------------------------------------
(* The two ways GuestMutex gives itself to a thread: for the first time,   *)
(* or once more to the owner.                                              *)
Take(t) ==
  /\ owner[tok[t]] = NoThread
  /\ owner'  = [owner EXCEPT ![tok[t]] = t]
  /\ depth'  = [depth EXCEPT ![tok[t]] = 1]
  /\ inside' = [inside EXCEPT ![obj[t]] = @ \cup {t}]

Retake(t) ==
  /\ owner[tok[t]] = t
  /\ depth' = [depth EXCEPT ![tok[t]] = @ + 1]
  /\ inside' = [inside EXCEPT ![obj[t]] = @ \cup {t}]
  /\ UNCHANGED owner

(* try_lock, on its own and as the first half of pthread_mutex_lock.       *)
TryLock(t) ==
  /\ pc[t] = "act" /\ op[t] \in {"lock", "trylock"}
  /\ \/ /\ Take(t) \/ Retake(t)
        /\ pc' = [pc EXCEPT ![t] = "guest"]
     \/ /\ owner[tok[t]] \notin {NoThread, t}
        /\ pc' = [pc EXCEPT ![t] = IF op[t] = "lock" THEN "lock" ELSE "guest"]
        /\ UNCHANGED hostVars
  /\ UNCHANGED <<memoryVars, callVars, tok>>

(* The first pass of GuestMutex::lock: the recursive case, then            *)
(* free_.wait, which returns at once when the mutex is free.               *)
EnterLock(t) ==
  /\ pc[t] = "lock"
  /\ \/ /\ Take(t) \/ Retake(t)
        /\ pc' = [pc EXCEPT ![t] = "guest"]
     \/ /\ owner[tok[t]] \notin {NoThread, t}
        /\ pc' = [pc EXCEPT ![t] = "asleep"]
        /\ UNCHANGED hostVars
  /\ UNCHANGED <<memoryVars, callVars, tok>>

(* A faulty Recheck: an if in place of the loop around the wait.           *)
Recheck_Once(t) ==
  /\ pc[t] = "woken"
  /\ owner'  = [owner EXCEPT ![tok[t]] = t]
  /\ depth'  = [depth EXCEPT ![tok[t]] = 1]
  /\ inside' = [inside EXCEPT ![obj[t]] = @ \cup {t}]
  /\ pc' = [pc EXCEPT ![t] = "guest"]
  /\ UNCHANGED <<memoryVars, callVars, tok>>

(* A thread woken inside free_.wait evaluates !held_ again.                *)
Recheck(t) ==
  /\ pc[t] = "woken"
  /\ \/ /\ Take(t)
        /\ pc' = [pc EXCEPT ![t] = "guest"]
     \/ /\ owner[tok[t]] # NoThread
        /\ pc' = [pc EXCEPT ![t] = "asleep"]
        /\ UNCHANGED hostVars
  /\ UNCHANGED <<memoryVars, callVars, tok>>

(* A std::condition_variable may wake without a notification.              *)
SpuriousWake(t) ==
  /\ pc[t] = "asleep"
  /\ pc' = [pc EXCEPT ![t] = "woken"]
  /\ UNCHANGED <<memoryVars, callVars, tok, hostVars>>

(* A faulty notification, left out when another thread's lock is released. *)
NotifyForOwnOnly(t, k) ==
  \/ /\ owner[k] # t \/ Sleepers(k) = {}
     /\ pc' = [pc EXCEPT ![t] = "guest"]
  \/ /\ owner[k] = t
     /\ \E u \in Sleepers(k) : pc' = [pc EXCEPT ![t] = "guest", ![u] = "woken"]

(* notify_one, together with thread t's return to the guest.               *)
NotifyOneAndReturn(t, k) ==
  \/ /\ Sleepers(k) = {}
     /\ pc' = [pc EXCEPT ![t] = "guest"]
  \/ \E u \in Sleepers(k) : pc' = [pc EXCEPT ![t] = "guest", ![u] = "woken"]

(* Faulty form of unlock: without the count of recursive locks.            *)
Unlock_NoDepth(t) ==
  LET k == tok[t] IN
  /\ pc[t] = "act" /\ op[t] = "unlock"
  /\ owner'  = [owner EXCEPT ![k] = NoThread]
  /\ depth'  = [depth EXCEPT ![k] = 0]
  /\ inside' = [inside EXCEPT ![obj[t]] = @ \ {owner[k]}]
  /\ NotifyOneAndReturn(t, k)
  /\ UNCHANGED <<memoryVars, callVars, tok>>

(* GuestMutex::unlock, from any thread.                                    *)
Unlock(t) ==
  LET k == tok[t] IN
  /\ pc[t] = "act" /\ op[t] = "unlock"
  /\ \/ /\ owner[k] = NoThread
        /\ pc' = [pc EXCEPT ![t] = "guest"]
        /\ UNCHANGED hostVars
     \/ /\ owner[k] # NoThread /\ depth[k] > 1
        /\ depth' = [depth EXCEPT ![k] = @ - 1]
        /\ pc' = [pc EXCEPT ![t] = "guest"]
        /\ UNCHANGED <<owner, inside>>
     \/ /\ owner[k] # NoThread /\ depth[k] <= 1
        /\ owner'  = [owner EXCEPT ![k] = NoThread]
        /\ depth'  = [depth EXCEPT ![k] = 0]
        /\ inside' = [inside EXCEPT ![obj[t]] = @ \ {owner[k]}]
        /\ NotifyOneAndReturn(t, k)
  /\ UNCHANGED <<memoryVars, callVars, tok>>

-----------------------------------------------------------------------------
(* What a thread does once it is inside a thunk.                           *)
ThunkStep(t) ==
  \/ LoadToken(t) \/ CreateToken(t) \/ StoreToken(t) \/ FinishInit(t)
  \/ TryLock(t) \/ EnterLock(t) \/ Recheck(t) \/ Unlock(t)

GuestStep(t) ==
  \E o \in Objects :
     \/ CallInit(t, o)
     \/ \E f \in Ops \ {"init"} : CallOp(t, o, f)
     \/ Destroy(t, o)

Next == \E t \in Threads : GuestStep(t) \/ ThunkStep(t) \/ SpuriousWake(t)

(* The host schedules its threads: one that can step inside a thunk does.  *)
(* What the guest calls, and whether it calls again, is not assumed.       *)
Fairness == \A t \in Threads : WF_vars(ThunkStep(t))

Spec == Init /\ [][Next]_vars /\ Fairness

(* The abstract lock that each initialised mutex implements.               *)
Holder(o) == IF word[o] = 0 THEN NoThread ELSE owner[word[o]]
Count(o)  == IF word[o] = 0 THEN 0 ELSE depth[word[o]]

Lock == INSTANCE GuestLock
          WITH Objects <- Objects \ StaticInit,
               holder  <- [o \in Objects \ StaticInit |-> Holder(o)],
               count   <- [o \in Objects \ StaticInit |-> Count(o)]

(* Every step of the thunks, with their tokens, retries and sleeps, is a   *)
(* step of one atomic recursive lock per initialised object, or none.      *)
ImplementsLock == Lock!Spec

-----------------------------------------------------------------------------
(* A word of the guest is zero or a token the table can give out, an owner *)
(* a guest thread, a recursion depth never negative.                       *)
TypeOK ==
  /\ word   \in [Objects -> 0 .. MaxTokens]
  /\ ready  \in [Objects -> BOOLEAN]
  /\ made   \in 0 .. MaxTokens
  /\ owner  \in [Tokens -> Threads \cup {NoThread}]
  /\ depth  \in [Tokens -> Nat]
  /\ pc     \in [Threads -> Stages]
  /\ op     \in [Threads -> Ops]
  /\ obj    \in [Threads -> Objects]
  /\ tok    \in [Threads -> 0 .. MaxTokens]
  /\ inside \in [Objects -> SUBSET Threads]

Exclusive(o) == \A t, u \in inside[o] : t = u

(* A mutex the guest initialised before sharing it is held by at most one  *)
(* thread, whoever creates the host object, whoever releases it and        *)
(* however often it is destroyed and initialised again.                    *)
MutualExclusion == \A o \in Objects \ StaticInit : Exclusive(o)

(* Two guest mutexes never share a host object.                            *)
NoAliasing ==
  \A o, p \in Objects : word[o] = word[p] /\ word[o] # 0 => o = p

(* A free mutex is never left with nobody awake to take it: when threads   *)
(* sleep on it, one of them has been woken and has not yet looked.         *)
NoStrandedSleeper ==
  \A k \in Tokens :
     owner[k] = NoThread /\ Sleepers(k) # {}
        => \E t \in Threads : pc[t] = "woken" /\ tok[t] = k
=============================================================================
