------------------------------ MODULE GuestLock ------------------------------
(***************************************************************************)
(* What a guest pthread mutex promises: recursive for its owner, exclusive *)
(* between threads, released by anyone, at once and in one step.  The      *)
(* abstract specification that GuestMutex implements.                      *)
(***************************************************************************)
EXTENDS Naturals

CONSTANTS Threads, Objects, NoThread

VARIABLES
  holder,  \* Objects -> the thread that holds the lock, or NoThread
  count    \* Objects -> how often it has taken it

vars == <<holder, count>>

Init ==
  /\ holder = [o \in Objects |-> NoThread]
  /\ count  = [o \in Objects |-> 0]

Acquire(t, o) ==
  /\ holder[o] \in {NoThread, t}
  /\ holder' = [holder EXCEPT ![o] = t]
  /\ count'  = [count EXCEPT ![o] = @ + 1]

Release(o) ==
  /\ holder[o] # NoThread
  /\ holder' = [holder EXCEPT ![o] = IF count[o] > 1 THEN @ ELSE NoThread]
  /\ count'  = [count EXCEPT ![o] = @ - 1]

Next == \E o \in Objects : Release(o) \/ \E t \in Threads : Acquire(t, o)

Spec == Init /\ [][Next]_vars
=============================================================================
