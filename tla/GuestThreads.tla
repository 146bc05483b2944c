----------------------------- MODULE GuestThreads -----------------------------
(***************************************************************************)
(* Guest threads (src/src/env.cpp and env.h, thunks_thread.cpp 142-170).   *)
(*                                                                         *)
(* Every guest thread is a host thread that runs its own recompiler in     *)
(* slices of a fixed budget of instructions.  It gets the next free id, a  *)
(* stack slot counted down from the top of guest memory and an entry of    *)
(* the exclusive monitor, and it keeps all three for good.  Any of them    *)
(* may create others.  Thread 0 is the host's main thread, which runs      *)
(* guest code only when run() calls it: LifeCycle says when.               *)
(***************************************************************************)
EXTENDS Naturals

CONSTANTS
  MaxIds,      \* bound: how many guest threads are ever made
  SpawnLimit,  \* 16: pthread_create makes no more threads than this
  MaxThreads,  \* --threads: the limit of callbacks, and the monitor's size
  StackSlots   \* 16: the stacks that fit between the heap and the top

Ids == 0 .. MaxIds - 1

ASSUME ThreadsAssumption ==
  /\ MaxIds \in Nat \ {0} /\ SpawnLimit \in Nat
  /\ MaxThreads \in Nat /\ StackSlots \in Nat

NoOne == MaxIds

VARIABLES
  count,   \* threads_.size(): ids below it belong to a GuestThread
  pc,      \* Ids -> where the thread is
  mine,    \* Ids -> the thread it has made and not started yet, or NoOne
  hosts,   \* host_threads_: started, and not taken by a join
  taken,   \* the host threads join_all waits for
  fatal,   \* fatal_
  owner,   \* who holds the guest's lock, or NoOne
  listed,  \* join_all has taken its list
  late,    \* the threads started after that
  raced    \* two threads were between the limit and make_thread at once

threads == <<count, pc, mine, hosts, taken, fatal, owner, listed, late, raced>>

Made == 0 .. count - 1

(* The threads that have seen room for one more and not made it yet.       *)
Making == {t \in Ids : pc[t] \in {"make thread", "make callback"}}

NoThreads ==
  /\ count  = 0
  /\ pc     = [t \in Ids |-> "none"]
  /\ mine   = [t \in Ids |-> NoOne]
  /\ hosts  = {} /\ taken = {}
  /\ fatal  = FALSE
  /\ owner  = NoOne
  /\ listed = FALSE /\ late = {} /\ raced = FALSE

Goto(t, there) == pc' = [pc EXCEPT ![t] = there]

(* Env::start: main gets the first guest CPU.                              *)
EnvStart ==
  /\ count' = 1
  /\ Goto(0, "slice")
  /\ UNCHANGED <<mine, hosts, taken, fatal, owner, listed, late, raced>>

-----------------------------------------------------------------------------
(* The limit one too high.                                                 *)
LookForRoom_OneMore(t, limit, there) ==
  /\ pc[t] = "slice" /\ count <= limit
  /\ Goto(t, there)
  /\ raced' = (raced \/ Making # {})
  /\ UNCHANGED <<count, mine, hosts, taken, fatal, owner, listed, late>>

(* spawn and spawn_call look at the number of threads without the lock;    *)
(* if there are too many, pthread_create answers EAGAIN and nothing else.  *)
LookForRoom(t, limit, there) ==
  /\ pc[t] = "slice" /\ count < limit
  /\ Goto(t, there)
  /\ raced' = (raced \/ Making # {})
  /\ UNCHANGED <<count, mine, hosts, taken, fatal, owner, listed, late>>

Spawn(t) == LookForRoom(t, SpawnLimit, "make thread")
SpawnCall(t) == LookForRoom(t, MaxThreads, "make callback")

(* make_thread, under threads_lock_: the id is the number of threads made. *)
Make(t) ==
  /\ t \in Making /\ count < MaxIds
  /\ mine'  = [mine EXCEPT ![t] = count]
  /\ count' = count + 1
  /\ Goto(t, "start thread")
  /\ UNCHANGED <<hosts, taken, fatal, owner, listed, late, raced>>

(* The recompiler did not get its memory: make_thread leaves no trace.     *)
MakeFails(t) ==
  /\ t \in Making
  /\ Goto(t, "slice")
  /\ UNCHANGED <<count, mine, hosts, taken, fatal, owner, listed, late, raced>>

(* The host thread is added under the lock.                                *)
Start(t) ==
  /\ pc[t] = "start thread"
  /\ hosts'  = hosts \cup {mine[t]}
  /\ pc'     = [pc EXCEPT ![t] = "slice", ![mine[t]] = "enter"]
  /\ mine'   = [mine EXCEPT ![t] = NoOne]
  /\ late'   = IF listed THEN late \cup {mine[t]} ELSE late
  /\ UNCHANGED <<count, taken, fatal, owner, listed, raced>>

Create(t) == Spawn(t) \/ SpawnCall(t) \/ Make(t) \/ MakeFails(t) \/ Start(t)

-----------------------------------------------------------------------------
(* call: clear the halt and run a slice.  A halt that stop_all asked for   *)
(* just before is lost here; the slice then ends with its budget.          *)
Enter(t) ==
  /\ pc[t] = "enter" /\ Goto(t, "slice")
  /\ UNCHANGED <<count, mine, hosts, taken, fatal, owner, listed, late, raced>>

EndSlice(t) ==
  /\ t # 0 /\ pc[t] = "slice" /\ Goto(t, "after")
  /\ UNCHANGED <<count, mine, hosts, taken, fatal, owner, listed, late, raced>>

(* The stop flag is forgotten: only a guest function that returns ends.    *)
Resume_IgnoresStop(t) ==
  /\ pc[t] = "after"
  /\ Goto(t, "enter")
  /\ UNCHANGED <<count, mine, hosts, taken, fatal, owner, listed, late, raced>>

(* The guest function has not returned and nobody stopped the guest.       *)
Resume(t) ==
  /\ pc[t] = "after" /\ ~fatal
  /\ Goto(t, "enter")
  /\ UNCHANGED <<count, mine, hosts, taken, fatal, owner, listed, late, raced>>

(* It has returned, or the guest was stopped: the host thread is over.     *)
Finish(t) ==
  /\ pc[t] = "after"
  /\ Goto(t, "finished")
  /\ UNCHANGED <<count, mine, hosts, taken, fatal, owner, listed, late, raced>>

(* A fatal import: abort, a failed assertion, a smashed stack.             *)
Fatal(t) ==
  /\ pc[t] = "slice"
  /\ fatal' = TRUE
  /\ UNCHANGED <<count, pc, mine, hosts, taken, owner, listed, late, raced>>

(* The guest takes a lock of its own, waiting in the host if it must, and  *)
(* any thread gives it back.  Nothing ends the wait of a thread but the    *)
(* lock.                                                                   *)
Lock(t) ==
  /\ \/ pc[t] = "slice" /\ owner = NoOne /\ owner' = t /\ UNCHANGED pc
     \/ /\ pc[t] = "slice" /\ owner \in Ids \ {t}
        /\ Goto(t, "wait") /\ UNCHANGED owner
     \/ pc[t] = "wait" /\ owner = NoOne /\ owner' = t /\ Goto(t, "slice")
  /\ UNCHANGED <<count, mine, hosts, taken, fatal, listed, late, raced>>

Unlock(t) ==
  /\ pc[t] = "slice" /\ owner' = NoOne
  /\ UNCHANGED <<count, pc, mine, hosts, taken, fatal, listed, late, raced>>

(* pthread_cond_wait: the lock is given up and the thread sleeps until it  *)
(* is woken, which nothing ends either.  A wait with a deadline ends by    *)
(* itself, and is a part of the slice.                                     *)
CondWait(t) ==
  /\ pc[t] = "slice" /\ Goto(t, "asleep") /\ owner' = NoOne
  /\ UNCHANGED <<count, mine, hosts, taken, fatal, listed, late, raced>>

(* A thread signals the condition of another, which wants the lock back.   *)
Signal(t) ==
  /\ pc[t] = "slice"
  /\ \E u \in Ids : pc[u] = "asleep" /\ Goto(u, "wait")
  /\ UNCHANGED <<count, mine, hosts, taken, fatal, owner, listed, late, raced>>

(* Waits that neither the end of a slice nor a stop cuts short.            *)
Blocked(t) == pc[t] = "asleep" \/ (pc[t] = "wait" /\ owner # NoOne)

(* What a thread does to the others from inside guest code, and the rest.  *)
InGuest(t) ==
  Create(t) \/ Fatal(t) \/ Lock(t) \/ Unlock(t) \/ CondWait(t) \/ Signal(t)
HostThread(t) == Enter(t) \/ EndSlice(t) \/ Resume(t) \/ Finish(t)

-----------------------------------------------------------------------------
StopAll ==
  /\ fatal' = TRUE
  /\ UNCHANGED <<count, pc, mine, hosts, taken, owner, listed, late, raced>>

(* join_all takes the list under the lock and waits without it.            *)
TakeList ==
  /\ taken' = hosts /\ hosts' = {} /\ listed' = TRUE
  /\ UNCHANGED <<count, pc, mine, fatal, owner, late, raced>>

Join ==
  /\ \E t \in taken : pc[t] = "finished" /\ taken' = taken \ {t}
  /\ UNCHANGED <<count, pc, mine, hosts, fatal, owner, listed, late, raced>>

Joined == taken = {} /\ UNCHANGED threads

-----------------------------------------------------------------------------
(* guest.h 81-85, env.cpp 122 and main.cpp 316-319: sixteen stacks fit     *)
(* above the heap and the exclusive monitor is sized for every guest       *)
(* thread that can ever exist.  No more are made, by any number of threads *)
(* that create others, so long as no two of them look at the limit before  *)
(* either has made its thread.                                             *)
RoomUnlessRaced == raced \/ (count <= StackSlots /\ count <= MaxThreads)
=============================================================================
