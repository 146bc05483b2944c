------------------------- MODULE GlOwnership_proofs -------------------------
(***************************************************************************)
(* Theorems about GlOwnership, for any set of threads, any of which may    *)
(* make and destroy the surface, on the Switch and on Windows with any     *)
(* number of spare contexts.                                               *)
(*                                                                         *)
(* DriverHasContext is inductive but for types: no step but a thread's own *)
(* takes its context from it, and its own steps do not while it is in the  *)
(* driver.  The other two speak of orderly programs and need to know that  *)
(* there a thread inside the bracket has the lock and a surface (Bracket), *)
(* and that no context has been deleted (Intact).                          *)
(***************************************************************************)
EXTENDS GlOwnership, TLAPS

Stages == {"guest", "enter", "wait", "call", "driver", "leave", "set live",
           "claim", "clear live", "egl wait", "egl"}

TypeOK ==
  /\ live \in BOOLEAN /\ ready \in BOOLEAN /\ orderly \in BOOLEAN
  /\ single \in BOOLEAN /\ spares \in Nat
  /\ lock \in Threads \cup {NoThread} /\ owner \in Threads \cup {NoThread}
  /\ bound \in [Threads -> BOOLEAN]
  /\ pc \in [Threads -> Stages]
  /\ call \in [Threads -> {"none", "gl", "swap", "bind", "unbind", "create",
                           "terminate"}]
  /\ kept \in [Threads -> {"none", "first", "spare", "deleted"}]

(* Whoever has been through gl_thunk_enter or EglLock has the lock.        *)
Bracket ==
  orderly => \A t \in Threads :
    /\ pc[t] \in {"call", "driver", "leave", "egl"} => lock = t
    /\ pc[t] \in {"enter", "wait", "call", "driver", "leave"} => live

(* The surface has its context; nobody is on the way to destroy it.        *)
Intact ==
  orderly => /\ live => ready
             /\ \A t \in Threads :
                  /\ pc[t] = "set live" => ready
                  /\ pc[t] # "clear live"
                  /\ kept[t] # "deleted"

IInv == TypeOK /\ DriverHasContext /\ Bracket /\ Intact /\ OwnerIsServed

-----------------------------------------------------------------------------
LEMMA InitHolds == Init => IInv
  <1> SUFFICES ASSUME Init PROVE IInv
    OBVIOUS
  <1> USE DEF Init
  <1>1. TypeOK
    <2>1. spares \in Nat
      BY GlAssumption
    <2> QED
      BY <2>1 DEF TypeOK, Stages
  <1>2. DriverHasContext /\ OwnerIsServed
    BY DEF DriverHasContext, OwnerIsServed
  <1>3. Bracket /\ Intact
    BY DEF Bracket, Intact
  <1> QED
    BY <1>1, <1>2, <1>3 DEF IInv

(* The types, action by action.                                            *)
LEMMA BracketTyped ==
  ASSUME TypeOK, NEW t \in Threads,
         \/ Gl(t) \/ Swap(t) \/ EnterEarly(t) \/ Wait(t)
         \/ Driver(t) \/ DriverReturns(t) \/ Leave(t)
  PROVE  TypeOK'
  <1> USE DEF TypeOK, Stages, Calls, Goto, Back, hostVars
  <1>1. CASE Gl(t) \/ Swap(t)
    BY <1>1 DEF Gl, Swap
  <1>2. CASE EnterEarly(t) \/ Wait(t)
    BY <1>2 DEF EnterEarly, Wait
  <1>3. CASE Driver(t) \/ DriverReturns(t) \/ Leave(t)
    BY <1>3 DEF Driver, DriverReturns, Leave
  <1> QED
    BY <1>1, <1>2, <1>3

LEMMA MakeCurrentTyped ==
  ASSUME TypeOK, NEW t \in Threads, MakeCurrent(t)
  PROVE  /\ bound' \in [Threads -> BOOLEAN]
         /\ kept' \in [Threads -> {"none", "first", "spare", "deleted"}]
         /\ spares' \in Nat /\ single' \in BOOLEAN
  BY DEF TypeOK, MakeCurrent, TakesSpare

LEMMA EnterTyped ==
  ASSUME TypeOK, NEW t \in Threads, Enter(t)
  PROVE  TypeOK'
  <1>1. CASE Owns(t)
    BY <1>1, MakeCurrentTyped DEF TypeOK, Stages, Enter, Goto
  <1>2. CASE ~Owns(t)
    BY <1>2 DEF TypeOK, Stages, Enter, Goto, hostVars
  <1> QED
    BY <1>1, <1>2

LEMMA EglLockTyped ==
  ASSUME TypeOK, NEW t \in Threads, EglLock(t)
  PROVE  TypeOK'
  <1>1. CASE MakeCurrent(t) /\ owner' = t
    BY <1>1, MakeCurrentTyped DEF TypeOK, Stages, EglLock, Goto
  <1>2. CASE /\ owner' = owner /\ UNCHANGED hostVars
             /\ bound' = IF ready THEN [bound EXCEPT ![t] = FALSE] ELSE bound
    <2>1. pc' \in [Threads -> Stages] /\ lock' = t
      BY DEF TypeOK, Stages, EglLock, Goto
    <2>2. bound' \in [Threads -> BOOLEAN]
      BY <1>2 DEF TypeOK
    <2> QED
      BY <1>2, <2>1, <2>2 DEF TypeOK, EglLock, hostVars
  <1>3. \/ MakeCurrent(t) /\ owner' = t
        \/ /\ owner' = owner /\ UNCHANGED hostVars
           /\ bound' = IF ready THEN [bound EXCEPT ![t] = FALSE] ELSE bound
    BY Zenon DEF EglLock
  <1> QED
    BY ONLY <1>1, <1>2, <1>3

LEMMA SurfaceTyped ==
  ASSUME TypeOK, NEW t \in Threads,
         \/ CreateContext(t) \/ SetLive(t) \/ Claim(t)
         \/ Terminate(t) \/ ClearLive(t) \/ EglMakeCurrent(t) \/ EglUnlock(t)
  PROVE  TypeOK'
  <1> USE DEF TypeOK, Stages, Calls, Goto, Back, hostVars
  <1>1. CASE CreateContext(t)
    BY <1>1 DEF CreateContext
  <1>2. CASE SetLive(t) \/ Claim(t) \/ ClearLive(t)
    <2>1. CASE SetLive(t)
      BY <2>1 DEF SetLive
    <2>2. CASE Claim(t)
      BY <2>2 DEF Claim
    <2>3. CASE ClearLive(t)
      BY <2>3 DEF ClearLive
    <2> QED
      BY <1>2, <2>1, <2>2, <2>3
  <1>3. CASE Terminate(t)
    BY <1>3 DEF Terminate
  <1>4. CASE EglMakeCurrent(t)
    BY <1>4 DEF EglMakeCurrent
  <1>5. CASE EglUnlock(t)
    BY <1>5 DEF EglUnlock
  <1> QED
    BY <1>1, <1>2, <1>3, <1>4, <1>5

LEMMA TypesKept ==
  ASSUME TypeOK, [Next]_vars
  PROVE  TypeOK'
  <1>1. CASE UNCHANGED vars
    BY <1>1 DEF TypeOK, vars, hostVars
  <1>2. CASE Next
    BY <1>2, BracketTyped, EnterTyped, EglLockTyped, SurfaceTyped, GlAssumption
       DEF Next, Import
  <1> QED
    BY <1>1, <1>2
-----------------------------------------------------------------------------
(* A context is taken from a thread only by a step of its own.             *)
LEMMA ContextStep ==
  ASSUME TypeOK, DriverHasContext, [Next]_vars
  PROVE  DriverHasContext'
  <1> SUFFICES ASSUME NEW u \in Threads, pc'[u] = "driver", call'[u] = "gl"
               PROVE  bound'[u]
    BY DEF DriverHasContext
  <1> USE DEF TypeOK, Stages
  <1>1. CASE UNCHANGED vars
    BY <1>1 DEF vars, DriverHasContext
  <1>2. ASSUME NEW t \in Threads,
               \/ Gl(t) \/ Swap(t) \/ EnterEarly(t) \/ Wait(t)
               \/ DriverReturns(t) \/ Leave(t) \/ SetLive(t) \/ Claim(t)
               \/ ClearLive(t) \/ EglMakeCurrent(t) \/ EglUnlock(t)
        PROVE  bound'[u]
    <2>1. UNCHANGED bound /\ pc[u] = "driver" /\ call[u] = "gl"
      BY <1>2 DEF Gl, Swap, EnterEarly, Wait, DriverReturns, Leave, SetLive,
                  Claim, ClearLive, EglMakeCurrent, EglUnlock, Calls, Goto,
                  Back
    <2> QED
      BY <2>1 DEF DriverHasContext
  <1>3. ASSUME NEW t \in Threads, Driver(t)
        PROVE  bound'[u]
    BY <1>3 DEF Driver, Ready, Goto, DriverHasContext
  <1>4. ASSUME NEW t \in Threads, Enter(t)
        PROVE  bound'[u]
    <2>1. u # t /\ pc[u] = "driver" /\ call[u] = "gl"
      BY <1>4 DEF Enter, Goto
    <2>2. bound'[u] = bound[u]
      BY <1>4, <2>1 DEF Enter, MakeCurrent, hostVars
    <2> QED
      BY <2>1, <2>2 DEF DriverHasContext
  <1>5. ASSUME NEW t \in Threads,
               EglLock(t) \/ CreateContext(t) \/ Terminate(t)
        PROVE  bound'[u]
    <2>1. u # t /\ pc[u] = "driver" /\ call[u] = "gl"
      BY <1>5 DEF EglLock, CreateContext, Terminate, Calls, Goto
    <2>2. bound'[u] = bound[u]
      BY <1>5, <2>1 DEF EglLock, CreateContext, Terminate, MakeCurrent
    <2> QED
      BY <2>1, <2>2 DEF DriverHasContext
  <1> QED
    BY <1>1, <1>2, <1>3, <1>4, <1>5, GlAssumption DEF Next, Import

-----------------------------------------------------------------------------
(* The lock: taken at gl_thunk_enter or in eglMakeCurrent, and given back  *)
(* by the thread that has it.                                              *)
LEMMA BracketStep ==
  ASSUME TypeOK, Bracket, Intact, [Next]_vars
  PROVE  Bracket'
  <1> SUFFICES ASSUME orderly', NEW u \in Threads
               PROVE  /\ pc'[u] \in {"call", "driver", "leave", "egl"}
                           => lock' = u
                      /\ pc'[u] \in {"enter", "wait", "call", "driver",
                                     "leave"} => live'
    BY DEF Bracket
  <1> USE DEF TypeOK, Stages, Bracket, Goto, Back, Calls
  <1> USE GlAssumption
  <1>1. CASE UNCHANGED vars
    BY <1>1 DEF vars
  <1>2. ASSUME NEW t \in Threads, Gl(t) \/ Swap(t) \/ EnterEarly(t) \/ Wait(t)
        PROVE  /\ pc'[u] \in {"call", "driver", "leave", "egl"} => lock' = u
               /\ pc'[u] \in {"enter", "wait", "call", "driver", "leave"}
                    => live'
    BY <1>2 DEF Gl, Swap, EnterEarly, Wait
  <1>3. ASSUME NEW t \in Threads, Driver(t) \/ DriverReturns(t) \/ Leave(t)
        PROVE  /\ pc'[u] \in {"call", "driver", "leave", "egl"} => lock' = u
               /\ pc'[u] \in {"enter", "wait", "call", "driver", "leave"}
                    => live'
    <2>1. CASE Driver(t)
      BY <2>1 DEF Driver
    <2>2. CASE DriverReturns(t)
      BY <2>2 DEF DriverReturns
    <2>3. CASE Leave(t)
      BY <2>3 DEF Leave
    <2> QED
      BY <1>3, <2>1, <2>2, <2>3
  <1>4. ASSUME NEW t \in Threads, Enter(t) \/ EglLock(t) \/ EglUnlock(t)
        PROVE  /\ pc'[u] \in {"call", "driver", "leave", "egl"} => lock' = u
               /\ pc'[u] \in {"enter", "wait", "call", "driver", "leave"}
                    => live'
    <2>1. CASE Enter(t)
      BY <2>1 DEF Enter
    <2>2. CASE EglLock(t)
      BY <2>2 DEF EglLock
    <2>3. CASE EglUnlock(t)
      BY <2>3 DEF EglUnlock
    <2> QED
      BY <1>4, <2>1, <2>2, <2>3
  <1>5. ASSUME NEW t \in Threads,
               CreateContext(t) \/ SetLive(t) \/ Claim(t) \/ EglMakeCurrent(t)
        PROVE  /\ pc'[u] \in {"call", "driver", "leave", "egl"} => lock' = u
               /\ pc'[u] \in {"enter", "wait", "call", "driver", "leave"}
                    => live'
    <2>1. CASE CreateContext(t)
      BY <2>1 DEF CreateContext
    <2>2. CASE SetLive(t)
      BY <2>2 DEF SetLive
    <2>3. CASE Claim(t)
      BY <2>3 DEF Claim
    <2>4. CASE EglMakeCurrent(t)
      BY <2>4 DEF EglMakeCurrent
    <2> QED
      BY <1>5, <2>1, <2>2, <2>3, <2>4
  (* An orderly program neither terminates the display nor is about to.    *)
  <1>6. ASSUME NEW t \in Threads PROVE ~Terminate(t) /\ ~ClearLive(t)
    <2>1. ~Terminate(t)
      BY DEF Terminate
    <2>2. ~ClearLive(t)
      BY DEF ClearLive, Intact
    <2> QED
      BY <2>1, <2>2
  <1> QED
    BY <1>1, <1>2, <1>3, <1>4, <1>5, <1>6 DEF Next, Import

(* Nothing but eglTerminate takes the context or deletes one.              *)
LEMMA IntactStep ==
  ASSUME TypeOK, Intact, [Next]_vars
  PROVE  Intact'
  <1> SUFFICES ASSUME orderly' PROVE Intact'
    BY DEF Intact
  <1> USE DEF TypeOK, Stages, Intact, Goto, Back, Calls
  <1>1. CASE UNCHANGED vars
    BY <1>1 DEF vars, hostVars
  <1>2. ASSUME NEW t \in Threads,
               \/ Gl(t) \/ Swap(t) \/ EnterEarly(t) \/ Wait(t) \/ Driver(t)
               \/ DriverReturns(t) \/ Leave(t) \/ SetLive(t) \/ Claim(t)
               \/ ClearLive(t) \/ EglMakeCurrent(t) \/ EglUnlock(t)
        PROVE  Intact'
    <2>1. CASE Gl(t) \/ Swap(t) \/ EnterEarly(t) \/ Wait(t)
      BY <2>1 DEF Gl, Swap, EnterEarly, Wait, hostVars
    <2>2. CASE Driver(t) \/ DriverReturns(t) \/ Leave(t)
      <3>1. CASE Driver(t)
        BY <3>1 DEF Driver, hostVars
      <3>2. CASE DriverReturns(t)
        BY <3>2 DEF DriverReturns, hostVars
      <3>3. CASE Leave(t)
        BY <3>3 DEF Leave, hostVars
      <3> QED
        BY <2>2, <3>1, <3>2, <3>3
    <2>3. CASE SetLive(t) \/ Claim(t) \/ ClearLive(t)
      BY <2>3 DEF SetLive, Claim, ClearLive, hostVars
    <2>4. CASE EglMakeCurrent(t) \/ EglUnlock(t)
      BY <2>4 DEF EglMakeCurrent, EglUnlock, hostVars
    <2> QED
      BY <1>2, <2>1, <2>2, <2>3, <2>4
  <1>3. ASSUME NEW t \in Threads, Enter(t) \/ EglLock(t)
        PROVE  Intact'
    <2>1. UNCHANGED <<live, ready, orderly>>
      BY <1>3 DEF Enter, EglLock
    <2>2. \A u \in Threads :
            pc'[u] \notin {"set live", "clear live"} \/ pc'[u] = pc[u]
      BY <1>3 DEF Enter, EglLock
    <2>3. kept' = kept \/ kept' = [kept EXCEPT ![t] = "spare"]
      BY <1>3 DEF Enter, EglLock, MakeCurrent, hostVars
    <2> QED
      BY <2>1, <2>2, <2>3
  <1>4. ASSUME NEW t \in Threads, CreateContext(t)
        PROVE  Intact'
    BY <1>4 DEF CreateContext, hostVars
  <1>5. ASSUME NEW t \in Threads, Terminate(t)
        PROVE  Intact'
    BY <1>5 DEF Terminate
  <1> QED
    BY <1>1, <1>2, <1>3, <1>4, <1>5, GlAssumption DEF Next, Import
-----------------------------------------------------------------------------
LEMMA SparesCount ==
  ASSUME TypeOK
  PROVE  spares = 0 <=> ~(spares > 0)
  <1>1. spares \in Nat
    BY DEF TypeOK
  <1> QED
    BY <1>1

(* Spares are not given back: a thread that found none will find none, and *)
(* one that has its context keeps it until it gives it up itself.          *)
LEMMA ServedStep ==
  ASSUME TypeOK, Bracket, Intact, OwnerIsServed, [Next]_vars
  PROVE  OwnerIsServed'
  <1> SUFFICES ASSUME orderly', ~single', NEW u \in Threads,
                      pc'[u] = "call", owner' = u
               PROVE  bound'[u] \/ (kept'[u] = "none" /\ spares' = 0)
    BY DEF OwnerIsServed, Owns
  <1> USE DEF TypeOK, Stages, Goto, Back, Calls, hostVars
  <1>1. CASE UNCHANGED vars
    BY <1>1 DEF vars, OwnerIsServed, Owns
  (* Steps that leave the contexts alone.                                  *)
  <1>2. ASSUME NEW t \in Threads,
               \/ Gl(t) \/ Swap(t) \/ Wait(t) \/ Driver(t)
               \/ DriverReturns(t) \/ Leave(t) \/ SetLive(t) \/ Claim(t)
               \/ EglMakeCurrent(t) \/ EglUnlock(t)
        PROVE  bound'[u] \/ (kept'[u] = "none" /\ spares' = 0)
    <2>1. /\ pc[u] = "call" /\ owner = u /\ orderly
          /\ UNCHANGED <<bound, kept, spares, single>>
      BY <1>2 DEF Gl, Swap, Wait, Driver, DriverReturns, Leave, SetLive, Claim,
                  EglMakeCurrent, EglUnlock
    <2> QED
      BY <2>1 DEF OwnerIsServed, Owns
  (* An orderly program has a surface when it enters the bracket, and does *)
  (* not destroy it.                                                       *)
  <1>3. ASSUME NEW t \in Threads
        PROVE  ~EnterEarly(t) /\ ~Terminate(t) /\ ~ClearLive(t)
    <2>1. ~EnterEarly(t)
      BY DEF EnterEarly, Bracket
    <2>2. ~Terminate(t)
      BY DEF Terminate
    <2>3. ~ClearLive(t)
      BY DEF ClearLive, Intact
    <2> QED
      BY <2>1, <2>2, <2>3
  <1>4. CASE Enter(u)
    <2>1. MakeCurrent(u) /\ live /\ orderly
      BY <1>4 DEF Enter, Owns, Bracket
    <2>2. ready /\ kept[u] \in {"none", "first", "spare"} /\ ~single
      BY <2>1 DEF Intact, MakeCurrent
    <2>3. CASE TakesSpare(u)
      BY <2>1, <2>3 DEF MakeCurrent, CanBind
    <2>4. CASE ~TakesSpare(u)
      <3>1. kept[u] \in {"first", "spare"} \/ (kept[u] = "none" /\ spares = 0)
        BY <2>2, <2>4, SparesCount DEF TakesSpare
      <3> QED
        BY <2>1, <2>2, <2>4, <3>1 DEF MakeCurrent, CanBind
    <2> QED
      BY <2>3, <2>4
  (* What another thread does to the contexts, or the same one elsewhere.  *)
  <1>5. ASSUME NEW t \in Threads, t # u, Enter(t) \/ EglLock(t)
        PROVE  bound'[u] \/ (kept'[u] = "none" /\ spares' = 0)
    <2>1. pc[u] = "call" /\ owner = u /\ orderly
      BY <1>5 DEF Enter, EglLock
    <2>2. bound'[u] = bound[u] /\ kept'[u] = kept[u] /\ single' = single
      BY <1>5 DEF Enter, EglLock, MakeCurrent
    <2>3. spares = 0 => spares' = 0
      <3>1. TakesSpare(t) \/ UNCHANGED spares
        BY <1>5 DEF Enter, EglLock, MakeCurrent
      <3>2. TakesSpare(t) => spares # 0
        BY SparesCount DEF TakesSpare
      <3> QED
        BY <3>1, <3>2
    <2> QED
      BY <2>1, <2>2, <2>3 DEF OwnerIsServed, Owns
  <1>6. ASSUME NEW t \in Threads, CreateContext(t)
        PROVE  bound'[u] \/ (kept'[u] = "none" /\ spares' = 0)
    <2>1. t # u /\ pc[u] = "call" /\ owner = u /\ orderly
      BY <1>6 DEF CreateContext
    <2>2. /\ bound'[u] = bound[u] /\ kept'[u] = kept[u]
          /\ UNCHANGED <<spares, single>>
      BY <1>6, <2>1 DEF CreateContext
    <2> QED
      BY <2>1, <2>2 DEF OwnerIsServed, Owns
  <1>7. ~EglLock(u)
    BY DEF EglLock
  <1> QED
    BY <1>1, <1>2, <1>3, <1>4, <1>5, <1>6, <1>7, GlAssumption DEF Next, Import

-----------------------------------------------------------------------------
(* IInv is inductive.                                                      *)
THEOREM OwnershipInvariant == Spec => []IInv
  <1>1. IInv /\ [Next]_vars => IInv'
    BY TypesKept, ContextStep, BracketStep, IntactStep, ServedStep DEF IInv
  <1> QED
    BY InitHolds, <1>1, PTL DEF Spec

(* Whoever claims GL, binds and unbinds, or makes and destroys the surface:*)
(* no GL call reaches the driver from a thread without a context.          *)
THEOREM DriverHasContextHolds == Spec => []DriverHasContext
  <1>1. IInv => DriverHasContext
    BY DEF IInv
  <1> QED
    BY <1>1, OwnershipInvariant, PTL

(* In an orderly program whoever is in the driver has the lock, so that at *)
(* most one thread is.                                                     *)
THEOREM DriverUnderLockHolds == Spec => []DriverUnderLock
  <1>1. IInv => DriverUnderLock
    BY DEF IInv, Bracket, DriverUnderLock
  <1> QED
    BY <1>1, OwnershipInvariant, PTL

(* On Windows, in an orderly program, the owner of GL has a context when   *)
(* its call is made, unless the spare contexts have run out.               *)
THEOREM OwnerIsServedHolds == Spec => []OwnerIsServed
  <1>1. IInv => OwnerIsServed
    BY DEF IInv
  <1> QED
    BY <1>1, OwnershipInvariant, PTL
=============================================================================
