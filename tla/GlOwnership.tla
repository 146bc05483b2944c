----------------------------- MODULE GlOwnership -----------------------------
(***************************************************************************)
(* Which guest thread may talk to the graphics driver (thunks_gl.cpp 48-72,*)
(* 345-351, 425-468, 533-683 and 704; env.cpp 456-465; gl_make_current of  *)
(* gl_win32.cpp and gl_switch.cpp).                                        *)
(*                                                                         *)
(* Every GL import is bracketed by gl_thunk_enter and gl_thunk_leave, which*)
(* take and release one lock once a surface exists.  The thread that bound *)
(* the context last, or presented last, owns GL; the calls of the others   *)
(* are dropped.  The EGL imports move ownership, and only eglMakeCurrent   *)
(* takes the lock for it.                                                  *)
(***************************************************************************)
EXTENDS Naturals

CONSTANTS
  Threads,        \* guest threads that call GL or EGL
  Surfacers,      \* those that create and destroy the surface
  NoThread,
  Spares          \* kSpareContexts

ASSUME GlAssumption ==
  /\ NoThread \notin Threads /\ Surfacers \subseteq Threads
  /\ Spares \in Nat

VARIABLES
  live,   \* g_context_live
  ready,  \* g_ready: the platform has a context
  lock,   \* who holds g_gl_lock
  owner,  \* g_gl_owner
  bound,  \* Threads -> a host context is current on the thread
  pc,     \* Threads -> where the thread is in an import
  call,   \* Threads -> which import: "gl", "swap", "bind", "unbind", ...
  orderly,\* no thread called GL without a surface, none called eglTerminate
  single, \* the Switch, one host context; else Windows, one for each thread
  kept,   \* Windows: Threads -> t_rc, the context the thread binds
  spares  \* Windows: contexts of g_spare not taken; the group may stay small

hostVars == <<single, kept, spares>>

vars == <<live, ready, lock, owner, bound, pc, call, orderly, hostVars>>

Init ==
  /\ live = FALSE /\ ready = FALSE
  /\ lock = NoThread /\ owner = NoThread
  /\ bound = [t \in Threads |-> FALSE]
  /\ pc    = [t \in Threads |-> "guest"]
  /\ call  = [t \in Threads |-> "none"]
  /\ orderly = TRUE
  /\ single \in BOOLEAN
  /\ kept = [t \in Threads |-> "none"] /\ spares \in 0 .. Spares

Goto(t, there) == pc' = [pc EXCEPT ![t] = there]

(* The import returns to the guest.                                        *)
Back(t) == Goto(t, "guest") /\ call' = [call EXCEPT ![t] = "none"]

Calls(t, import, there) ==
  /\ pc[t] = "guest"
  /\ call' = [call EXCEPT ![t] = import] /\ Goto(t, there)

(* gl_make_current(true).  With one context the driver refuses it to a     *)
(* thread while another has it; with several a thread takes one at its     *)
(* first call and keeps it, as long as there are any.                      *)
TakesSpare(t) == ready /\ ~single /\ kept[t] = "none" /\ spares > 0

CanBind(t) ==
  \/ ready /\ single /\ \A u \in Threads \ {t} : ~bound[u]
  \/ ready /\ ~single /\ kept[t] \in {"first", "spare"}
  \/ TakesSpare(t)

MakeCurrent(t) ==
  /\ bound'  = [bound EXCEPT ![t] = @ \/ CanBind(t)]
  /\ kept'   = IF TakesSpare(t) THEN [kept EXCEPT ![t] = "spare"] ELSE kept
  /\ spares' = IF TakesSpare(t) THEN spares - 1 ELSE spares
  /\ single' = single

Owns(t) == owner = t

-----------------------------------------------------------------------------
(* CallSVC on a GL import, and eglSwapBuffers, which claims GL first and   *)
(* without the lock.                                                       *)
Gl(t) ==
  /\ Calls(t, "gl", "enter")
  /\ orderly' = (orderly /\ live)
  /\ UNCHANGED <<live, ready, lock, owner, bound, hostVars>>

Swap(t) ==
  /\ Calls(t, "swap", "enter")
  /\ owner' = t /\ orderly' = (orderly /\ live)
  /\ UNCHANGED <<live, ready, lock, bound, hostVars>>

(* gl_thunk_enter without a surface does nothing.                          *)
EnterEarly(t) ==
  /\ pc[t] = "enter" /\ ~live /\ Goto(t, "call")
  /\ UNCHANGED <<live, ready, lock, owner, bound, call, orderly, hostVars>>

(* The lock is skipped by the thread that owns GL.                         *)
Enter_OwnerSkips(t) ==
  /\ pc[t] \in {"enter", "wait"}
  /\ pc[t] = "enter" => live
  /\ lock = NoThread \/ Owns(t)
  /\ lock' = t /\ Goto(t, "call")
  /\ IF Owns(t) THEN MakeCurrent(t) ELSE UNCHANGED <<bound, hostVars>>
  /\ UNCHANGED <<live, ready, owner, call, orderly>>

(* Only eglMakeCurrent gives a thread its context.                         *)
Enter_BindsNothing(t) ==
  /\ pc[t] \in {"enter", "wait"}
  /\ pc[t] = "enter" => live
  /\ lock = NoThread /\ lock' = t /\ Goto(t, "call")
  /\ UNCHANGED <<live, ready, owner, bound, call, orderly, hostVars>>

(* gl_thunk_enter: the lock, and the context if the thread owns GL.        *)
Enter(t) ==
  /\ pc[t] \in {"enter", "wait"}
  /\ pc[t] = "enter" => live
  /\ lock = NoThread /\ lock' = t /\ Goto(t, "call")
  /\ IF Owns(t) THEN MakeCurrent(t) ELSE UNCHANGED <<bound, hostVars>>
  /\ UNCHANGED <<live, ready, owner, call, orderly>>

(* It saw the surface, and the lock is taken.                              *)
Wait(t) ==
  /\ pc[t] = "enter" /\ live /\ lock # NoThread /\ Goto(t, "wait")
  /\ UNCHANGED <<live, ready, lock, owner, bound, call, orderly, hostVars>>

(* No context is looked for.                                               *)
Ready_OwnerOnly(t) == ready /\ Owns(t)

(* ready(): a context, ownership, and the context current here.            *)
Ready(t) == ready /\ Owns(t) /\ bound[t]

(* The import itself: into the driver, or dropped.  eglSwapBuffers does    *)
(* not ask ready().                                                        *)
Driver(t) ==
  /\ pc[t] = "call"
  /\ Goto(t, IF (call[t] = "gl" /\ Ready(t)) \/ (call[t] = "swap" /\ ready)
             THEN "driver" ELSE "leave")
  /\ UNCHANGED <<live, ready, lock, owner, bound, call, orderly, hostVars>>

DriverReturns(t) ==
  /\ pc[t] = "driver" /\ Goto(t, "leave")
  /\ UNCHANGED <<live, ready, lock, owner, bound, call, orderly, hostVars>>

(* A call that is dropped returns at once and keeps the lock.              *)
Leave_OwnerOnly(t) ==
  /\ pc[t] = "leave"
  /\ lock' = IF live /\ Owns(t) THEN NoThread ELSE lock
  /\ Back(t)
  /\ UNCHANGED <<live, ready, owner, bound, orderly, hostVars>>

(* gl_thunk_leave: unlocks if there is a surface now.                      *)
Leave(t) ==
  /\ pc[t] = "leave"
  /\ lock' = IF live THEN NoThread ELSE lock
  /\ Back(t)
  /\ UNCHANGED <<live, ready, owner, bound, orderly, hostVars>>

-----------------------------------------------------------------------------
(* eglCreateWindowSurface: the context, the flag, the claim, in that order *)
(* and without the lock.                                                   *)
CreateContext(t) ==
  /\ Calls(t, "create", "set live")
  /\ ready' = TRUE
  /\ IF ready THEN UNCHANGED <<bound, hostVars>>
     ELSE /\ bound' = [bound EXCEPT ![t] = TRUE]
          /\ kept' = [kept EXCEPT ![t] = "first"]
          /\ UNCHANGED <<single, spares>>
  /\ UNCHANGED <<live, lock, owner, orderly>>

SetLive(t) ==
  /\ pc[t] = "set live" /\ Goto(t, "claim")
  /\ live' = TRUE
  /\ UNCHANGED <<ready, lock, owner, bound, call, orderly, hostVars>>

Claim(t) ==
  /\ pc[t] = "claim" /\ Back(t)
  /\ owner' = t
  /\ UNCHANGED <<live, ready, lock, bound, orderly, hostVars>>

(* eglTerminate: the context, then the flag, without the lock.  The thread *)
(* that made the first context keeps its name, unless it is current there, *)
(* when it cannot be deleted.  Spares taken are not given back.            *)
Terminate(t) ==
  /\ Calls(t, "terminate", "clear live")
  /\ orderly' = FALSE
  /\ ready' = FALSE
  /\ bound' = IF ready THEN [bound EXCEPT ![t] = FALSE] ELSE bound
  /\ kept' = [u \in Threads |->
       IF ready /\ kept[u] = "first" /\ ~bound'[u] THEN "deleted" ELSE kept[u]]
  /\ UNCHANGED <<live, lock, owner, single, spares>>

ClearLive(t) ==
  /\ pc[t] = "clear live" /\ Back(t)
  /\ live' = FALSE
  /\ UNCHANGED <<ready, lock, owner, bound, orderly, hostVars>>

(* eglMakeCurrent: refused without a surface, else done under the lock.    *)
EglMakeCurrent(t) ==
  /\ live
  /\ \/ Calls(t, "bind", "egl wait") \/ Calls(t, "unbind", "egl wait")
  /\ UNCHANGED <<live, ready, lock, owner, bound, orderly, hostVars>>

EglLock(t) ==
  /\ pc[t] = "egl wait" /\ lock = NoThread
  /\ lock' = t /\ Goto(t, "egl")
  /\ \/ call[t] = "bind" /\ owner' = t /\ MakeCurrent(t)
     \/ /\ call[t] = "unbind" /\ owner' = owner
        /\ bound' = IF ready THEN [bound EXCEPT ![t] = FALSE] ELSE bound
        /\ UNCHANGED hostVars
  /\ UNCHANGED <<live, ready, call, orderly>>

EglUnlock(t) ==
  /\ pc[t] = "egl" /\ lock' = NoThread
  /\ Back(t)
  /\ UNCHANGED <<live, ready, owner, bound, orderly, hostVars>>

Import(t) ==
  \/ EnterEarly(t) \/ Enter(t) \/ Wait(t) \/ Driver(t) \/ DriverReturns(t)
  \/ Leave(t) \/ SetLive(t) \/ Claim(t) \/ ClearLive(t)
  \/ EglLock(t) \/ EglUnlock(t)

Next ==
  \E t \in Threads :
    \/ Import(t) \/ Gl(t) \/ Swap(t) \/ EglMakeCurrent(t)
    \/ t \in Surfacers /\ (CreateContext(t) \/ Terminate(t))

(* Host threads run, the driver returns, and a mutex that is released time *)
(* and again is got in the end.                                            *)
Fairness ==
  \A t \in Threads : WF_vars(Import(t)) /\ SF_vars(Enter(t)) /\ SF_vars(EglLock(t))

Spec == Init /\ [][Next]_vars /\ Fairness

-----------------------------------------------------------------------------
(* env.h 86-88: every GL import is bracketed, and the bracket takes the    *)
(* lock: at most one thread is in the driver, and it holds the lock - in   *)
(* a program that calls GL only while it has a surface.                    *)
DriverUnderLock ==
  orderly => \A t \in Threads : pc[t] = "driver" => lock = t

(* thunks_gl.cpp 701-703 and gl_api.h 135-137: a GL call with no context   *)
(* current on the calling thread faults in the driver, so none is made,    *)
(* whoever claims GL or makes and destroys the surface meanwhile.  This is *)
(* the import's own call: those guard_draw makes before it are DrawState's.*)
DriverHasContext ==
  \A t \in Threads : pc[t] = "driver" /\ call[t] = "gl" => bound[t]

(* gl_api.h 129-134: where each thread has a context of its own, the thread*)
(* that owns GL draws.  Whoever took GL from whom and whoever gave up its  *)
(* context: the owner's call finds one, unless there were more threads     *)
(* than contexts.                                                          *)
OwnerIsServed ==
  orderly /\ ~single =>
    \A t \in Threads :
      pc[t] = "call" /\ Owns(t) => bound[t] \/ (kept[t] = "none" /\ spares = 0)

(* In such a program every GL and EGL import returns to the guest.         *)
ImportsReturn ==
  \A t \in Threads : pc[t] # "guest" ~> pc[t] = "guest" \/ ~orderly
=============================================================================
