------------------------------ MODULE GuestEvent ------------------------------
(***************************************************************************)
(* An event built on one guest mutex and one guest condition, the way the  *)
(* engine's neosmart events are: a waiter takes the mutex, waits until the *)
(* flag is set or its deadline has passed, and lets go; a setter sets the  *)
(* flag under the mutex and broadcasts.  The engine is the guest program;  *)
(* the thunks it calls are those of GuestCond.                             *)
(***************************************************************************)
EXTENDS GuestCond

CONSTANTS
  Waiters,      \* threads that wait for the event
  Timed,        \* those of them that give a deadline
  Deadline,     \* the deadline they give
  Setters,      \* threads that set the event
  MaxSpurious   \* bound on the wakeups that come for no reason

ASSUME EventAssumption ==
  /\ Waiters \cup Setters = Threads /\ Waiters \cap Setters = {}
  /\ Timed \subseteq Waiters
  /\ Deadline \in 0 .. MaxTime
  /\ MaxSpurious \in Nat

VARIABLES
  event,    \* the condition the event is built on
  coming,   \* do the setters come at all?
  flag,     \* the event is set
  stage,    \* Threads -> where the guest program of the thread is
  spurious  \* wakeups for no reason so far

eventVars == <<event, coming, flag, stage, spurious>>

allVars == <<vars, eventVars>>

EventInit ==
  /\ Init
  /\ event \in Conds /\ coming \in BOOLEAN
  /\ flag = FALSE
  /\ stage = [t \in Threads |-> "start"]
  /\ spurious = 0

At(t, s) == pc[t] = "guest" /\ stage[t] = s

(* A setter that does not come takes no part.                              *)
TakesPart(t) == t \in Setters => coming

To(t, s) == stage' = [stage EXCEPT ![t] = s]

(* The first thread to arrive initialises the condition, unless it is a    *)
(* static one.                                                             *)
Prepare(t) ==
  /\ At(t, "start") /\ TakesPart(t)
  /\ CallInit(t, event)
  /\ UNCHANGED eventVars

TakeLock(t) ==
  /\ At(t, "start") /\ TakesPart(t) /\ ready[event]
  /\ GuestLocks(t)
  /\ To(t, "locked")
  /\ UNCHANGED <<event, coming, flag, spurious>>

(* while (!flag) { if (wait() == ETIMEDOUT) break; }                       *)
WaitMore(t) ==
  /\ At(t, "locked") /\ t \in Waiters
  /\ ~flag /\ ret[t] # kETimedOut
  /\ IF t \in Timed THEN CallTimedWait(t, event, Deadline)
                    ELSE CallWait(t, event)
  /\ UNCHANGED eventVars

StopWaiting(t) ==
  /\ At(t, "locked") /\ t \in Waiters
  /\ flag \/ ret[t] = kETimedOut
  /\ GuestUnlocks(t)
  /\ To(t, "done")
  /\ UNCHANGED <<event, coming, flag, spurious>>

Set(t) ==
  /\ At(t, "locked") /\ t \in Setters
  /\ GuestUnlocks(t)
  /\ flag' = TRUE
  /\ To(t, "set")
  /\ UNCHANGED <<event, coming, spurious>>

Announce(t) ==
  /\ At(t, "set")
  /\ CallWaker(t, event, "broadcast")
  /\ To(t, "done")
  /\ UNCHANGED <<event, coming, flag, spurious>>

WakeForNoReason(t) ==
  /\ spurious < MaxSpurious
  /\ SpuriousWake(t)
  /\ spurious' = spurious + 1
  /\ UNCHANGED <<event, coming, flag, stage>>

Thunk(t) == ThunkStep(t) /\ UNCHANGED eventVars

Clock == Tick /\ UNCHANGED eventVars

ThreadStep(t) ==
  \/ Prepare(t) \/ TakeLock(t) \/ WaitMore(t) \/ StopWaiting(t)
  \/ Set(t) \/ Announce(t) \/ Thunk(t)

(* Everybody is through, or the setters stay away and a waiter without a   *)
(* deadline waits for ever.                                                *)
Finished ==
  /\ \A t \in Threads : At(t, "done") \/ (t \notin Timed /\ ~coming)
  /\ now = MaxTime
  /\ UNCHANGED allVars

EventNext ==
  \/ Clock \/ Finished
  \/ \E t \in Threads : ThreadStep(t) \/ WakeForNoReason(t)

(* Threads are scheduled and time passes.  Spurious wakeups need not come. *)
EventSpec ==
  /\ EventInit /\ [][EventNext]_allVars
  /\ WF_allVars(Clock) /\ \A t \in Threads : WF_allVars(ThreadStep(t))

-----------------------------------------------------------------------------
(* If the event is set every thread gets through, and so no waiter misses  *)
(* it: set before it looks, while it goes to sleep, or once it sleeps.  And*)
(* a waiter with a deadline gets through though nobody sets the event.     *)
EveryoneFinishes ==
  \A t \in Threads :
    coming \/ t \in Timed => <>(stage[t] = "done" /\ pc[t] = "guest")
=============================================================================
