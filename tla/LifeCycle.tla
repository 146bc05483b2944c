------------------------------ MODULE LifeCycle ------------------------------
(***************************************************************************)
(* The life of the program: run() of src/src/main.cpp with the start-up    *)
(* commands of android_glue.cpp, around the guest threads of GuestThreads  *)
(* and three threads of the host: the clock (guest_code.cpp), the GL       *)
(* watchdog (thunks_gl.cpp) and the stall watchdog (main.cpp).  The fourth,*)
(* which feeds the audio device, is Mixer's.                               *)
(*                                                                         *)
(* `stage` is where main is.  In a stage of Calling it is inside guest     *)
(* code, thread 0 of GuestThreads.  A host thread is stopped and joined in *)
(* one step: each looks at its flag many times a second.                   *)
(***************************************************************************)
EXTENDS GuestThreads

CONSTANT Commands  \* how many start-up commands there are; the code sends 8

ASSUME CommandsAssumption == Commands \in Nat

VARIABLES
  stage,    \* where main is in run()
  helpers,  \* the host threads that are running
  engine,   \* the guest thread that runs android_main, or NoOne
  handler,  \* it has registered onAppCmd
  sent,     \* commands main is done with
  got,      \* those the handler was called for
  tardy,    \* main stopped waiting for the handler
  early     \* run() returned before android_main was started

startup == <<handler, sent, got, tardy>>
life == <<stage, helpers, engine, startup, early>>
vars == <<threads, life>>

Calling == {"constructor", "command", "delivering"}

(* After the page table and the monitor went; after Env and the arena.     *)
Torn == {"torn", "joining again", "gone", "exited", "terminated"}
Gone == {"gone", "exited", "terminated"}
Over == {"exited", "terminated"}

Init ==
  /\ NoThreads
  /\ stage = "loading"
  /\ helpers = {"clock"}
  /\ engine = NoOne /\ handler = FALSE
  /\ sent = 0 /\ got = {} /\ tardy = FALSE
  /\ early = FALSE

Stage(from, to) == stage = from /\ stage' = to

(* Main's own steps, none of them inside guest code.                       *)
Main(from, to) == Stage(from, to) /\ pc[0] \in {"none", "slice"}

-----------------------------------------------------------------------------
(* Up to android_main.                                                     *)

(* The image does not load, or has no android_main.                        *)
LoadFails ==
  /\ Main("loading", "gone") /\ early' = TRUE
  /\ UNCHANGED <<threads, helpers, engine, startup>>

Loaded ==
  /\ Main("loading", "constructors") /\ EnvStart
  /\ UNCHANGED <<helpers, engine, startup, early>>

Constructor ==
  /\ Main("constructors", "constructor")
  /\ UNCHANGED <<threads, helpers, engine, startup, early>>

(* The guest failed, in this constructor or in a thread of an earlier one. *)
Constructed ==
  /\ \/ fatal /\ Main("constructed", "torn") /\ early' = TRUE
     \/ ~fatal /\ Main("constructed", "constructors") /\ UNCHANGED early
  /\ UNCHANGED <<threads, helpers, engine, startup>>

(* --no-main.                                                              *)
SkipMain ==
  /\ Main("constructors", "torn") /\ early' = TRUE
  /\ UNCHANGED <<threads, helpers, engine, startup>>

(* gl_set_drawing starts the GL watchdog; the android_app is built.        *)
HostSide ==
  /\ Main("constructors", "spawning")
  /\ helpers' = helpers \cup {"watchdog"}
  /\ UNCHANGED <<threads, engine, startup, early>>

(* env.spawn(entry, app), with the race that any creator runs.             *)
SpawnMain ==
  /\ stage = "spawning"
  /\ \/ (Spawn(0) \/ Make(0)) /\ UNCHANGED <<stage, engine>>
     \/ Start(0) /\ engine' = mine[0] /\ stage' = "awaiting"
     \/ MakeFails(0) /\ stage' = "awaiting" /\ UNCHANGED engine
     \/ /\ pc[0] = "slice" /\ count >= SpawnLimit
        /\ stage' = "awaiting" /\ UNCHANGED <<threads, engine>>
  /\ UNCHANGED <<helpers, startup, early>>

-----------------------------------------------------------------------------
(* The wait forgotten.                                                     *)
Await_Not ==
  /\ Main("awaiting", "commands") /\ UNCHANGED tardy
  /\ UNCHANGED <<threads, helpers, engine, handler, sent, got, early>>

(* Two hundred looks, ten milliseconds apart, at app->onAppCmd.            *)
Await ==
  /\ Main("awaiting", "commands") /\ tardy' = ~handler
  /\ UNCHANGED <<threads, helpers, engine, handler, sent, got, early>>

(* send_app_cmd: call the handler, or drop the command if there is none.   *)
SendAppCmd ==
  /\ sent < Commands /\ sent' = sent + 1
  /\ \/ handler /\ Main("commands", "command") /\ got' = got \cup {sent'}
     \/ ~handler /\ Main("commands", "commands") /\ UNCHANGED got
  /\ UNCHANGED <<threads, helpers, engine, handler, tardy, early>>

StartupSent ==
  /\ sent = Commands /\ Main("commands", "watching")
  /\ helpers' = helpers \cup {"stall watch"}
  /\ UNCHANGED <<threads, engine, startup, early>>

(* pump_input has an event for the engine.                                 *)
Deliver ==
  /\ handler /\ Main("watching", "delivering")
  /\ UNCHANGED <<threads, helpers, engine, startup, early>>

(* Env::call returns to main: the guest function has, or the guest was     *)
(* stopped and the slice is over.                                          *)
CallReturns ==
  /\ pc[0] = "slice"
  /\ \/ Stage("constructor", "constructed") \/ Stage("command", "commands")
     \/ Stage("delivering", "watching")
  /\ UNCHANGED <<threads, helpers, engine, startup, early>>

-----------------------------------------------------------------------------
(* The way out of run().                                                   *)

Ends(helper) == helpers' = helpers \ {helper}

(* The time is up, the window closed, or no guest thread is left: the      *)
(* stall watchdog is joined, the guest told to stop.                       *)
LeaveWatch ==
  /\ Main("watching", "stopping") /\ Ends("stall watch") /\ StopAll
  /\ UNCHANGED <<engine, startup, early>>

(* join_all of run(), and that of ~Env.                                    *)
JoinAll ==
  /\ \/ (Stage("stopping", "joining") \/ Stage("torn", "joining again"))
        /\ TakeList
     \/ stage \in {"joining", "joining again"} /\ Join /\ UNCHANGED stage
     \/ (Stage("joining", "joined") \/ Stage("joining again", "gone"))
        /\ Joined
  /\ UNCHANGED <<helpers, engine, startup, early>>

(* run() returns without having stopped the clock.                         *)
StopClock_Not ==
  /\ Stage("joined", "clock stopped") /\ UNCHANGED helpers
  /\ UNCHANGED <<threads, engine, startup, early>>

StopClock ==
  /\ Stage("joined", "clock stopped") /\ Ends("clock")
  /\ UNCHANGED <<threads, engine, startup, early>>

(* Then audio_stop, which Mixer models; run() returns, glue and monitor go.*)
StopWatchdog ==
  /\ Stage("clock stopped", "torn") /\ Ends("watchdog")
  /\ UNCHANGED <<threads, engine, startup, early>>

(* The clock and the watchdog are std::threads with static storage: one    *)
(* that is still joinable ends the program in terminate().                 *)
Exit ==
  /\ IF helpers = {} THEN Stage("gone", "exited")
                     ELSE Stage("gone", "terminated")
  /\ UNCHANGED <<threads, helpers, engine, startup, early>>

MainStep ==
  \/ LoadFails \/ Loaded \/ Constructor \/ Constructed \/ SkipMain
  \/ HostSide \/ SpawnMain \/ Await \/ SendAppCmd \/ StartupSent
  \/ Deliver \/ CallReturns \/ LeaveWatch \/ JoinAll
  \/ StopClock \/ StopWatchdog \/ Exit

-----------------------------------------------------------------------------
(* What guest threads do while the program lives.                          *)

Register(t) ==
  /\ t = engine /\ pc[t] = "slice" /\ handler' = TRUE
  /\ UNCHANGED <<threads, stage, helpers, engine, sent, got, tardy>>
  /\ UNCHANGED early

(* Guest code runs in thread t: always, but for main's own thread.         *)
Runs(t) == stage \notin Over /\ (t = 0 => stage \in Calling)

Next ==
  \/ MainStep
  \/ \E t \in Ids : /\ Runs(t) /\ (InGuest(t) \/ HostThread(t))
                    /\ UNCHANGED life
  \/ \E t \in Ids : Register(t)

(* The host schedules every thread.  A slice has a budget of instructions, *)
(* so it ends even if the guest calls imports all along, and with it ends  *)
(* a call by main once the guest has failed; the watch loop has a time.    *)
Moves(t) ==
  \/ Make(t) \/ MakeFails(t) \/ Start(t)
  \/ Enter(t) \/ Resume(t) \/ Finish(t)
  \/ pc[t] = "wait" /\ Lock(t)

Fairness ==
  /\ WF_vars(stage \notin Calling /\ MainStep)
  /\ SF_vars(fatal /\ CallReturns)
  /\ SF_vars(LeaveWatch)
  /\ \A t \in Ids : WF_vars(Runs(t) /\ Moves(t) /\ UNCHANGED life)
  /\ \A t \in Ids \ {0} : SF_vars(Runs(t) /\ EndSlice(t) /\ UNCHANGED life)

Spec == Init /\ [][Next]_vars /\ Fairness

-----------------------------------------------------------------------------
(* android_glue.cpp 164-165: "started, resumed, then a window, then focus". *)
(* If main did not tire of waiting for the handler, the engine gets every  *)
(* command, though others may register, fail or end in between.            *)
EngineIsTold ==
  engine # NoOne /\ ~tardy /\ stage \notin {"spawning", "awaiting"} =>
    got = 1 .. sent

(* main.cpp 636-637: "The clock thread writes into the guest arena, so it  *)
(* has to stop before anything releases it".  When run() has started the   *)
(* engine, nobody is left who uses what has gone: no guest thread and no   *)
(* stall watchdog without the monitor, no clock without the arena, no      *)
(* joinable thread at the end of the program - unless a guest thread was   *)
(* started after the list was taken.                                       *)
NobodyOutlivesTheArena ==
  ~early /\ late = {} =>
    /\ stage \in Torn =>
         /\ "stall watch" \notin helpers
         /\ \A t \in Made \ {0} : pc[t] \in {"none", "finished"}
    /\ stage \in Gone => helpers = {}

(* Some thread waits for a lock or a condition, and nobody who could give  *)
(* it either is left: the others have ended or wait themselves, main waits *)
(* to join them.                                                           *)
Stranded ==
  /\ \E t \in Ids : Blocked(t)
  /\ \A u \in Ids : \/ pc[u] \in {"none", "finished"} \/ Blocked(u)
                     \/ (u = 0 /\ stage \in {"joining", "joining again"})

(* Once the guest has failed or main has told it to stop, every guest      *)
(* thread ends and so does the program, though a halt may be lost to a     *)
(* thread just entering a slice - unless those who would have woken one    *)
(* are stopped before they do: neither wait ever looks at the stop.        *)
StopEndsEveryThread == fatal ~> stage \in Over \/ Stranded
=============================================================================
