------------------------------ MODULE InputQueue ------------------------------
(***************************************************************************)
(* What the player does, on its way to the engine (thunks_input.cpp 43-80  *)
(* and 282-319, AndroidGlue::pump_input, gamepad_poll and poll_touch of    *)
(* gamepad_win32.cpp and gamepad_switch.cpp, the loop of main.cpp).        *)
(*                                                                         *)
(* The main thread polls the controller, pushes what has changed into a    *)
(* bounded queue, and hands the queue's events to the engine's handler     *)
(* one by one, keys no closer than a gap.  Another thread may push as      *)
(* well: the Switch's keyboard, called by the guest, or the window         *)
(* procedure, which runs on the thread that presents.                      *)
(***************************************************************************)
EXTENDS Naturals, Sequences, FiniteSets, SequencesExt

CONSTANTS
  Buttons,   \* controls that report key events
  Sticks,    \* the axes of a pad, which report one motion event together
  Fingers,   \* what touches the screen, and reports motion events
  Places,    \* where a stick or a finger may be, a place being as wide as
             \* the move that is not reported; 0 is at rest, or no finger
  Cap,       \* 257: the queue never holds more events
  Guard,     \* 64: events one call of pump_input hands out
  Gap,       \* 20 ms, in ticks of main's loop
  MaxGestures,  \* bound on what the player does
  MaxTyped   \* bound on the events the other thread pushes

Char == "char"  \* the key of a character that is typed

ASSUME InputAssumption ==
  /\ IsFiniteSet(Buttons) /\ IsFiniteSet(Sticks) /\ IsFiniteSet(Fingers)
  /\ Buttons \cap Sticks = {} /\ (Buttons \cup Sticks) \cap Fingers = {}
  /\ Char \notin Buttons \cup Sticks \cup Fingers
  /\ 0 \in Places /\ Places \subseteq Nat
  /\ Cap \in Nat \ {0} /\ Guard \in Nat \ {0}
  /\ Gap \in Nat \ {0}
  /\ MaxGestures \in Nat /\ MaxTyped \in Nat

Controls == Buttons \cup Sticks \cup Fingers
Values   == Places \cup {0, 1}

Kind(c) == IF c \in Sticks \cup Fingers THEN "motion" ELSE "key"

Events == [control : Controls \cup {Char}, value : Values]

(* A button is up or down.                                                 *)
May(c) == IF c \in Buttons THEN {0, 1} ELSE Places

VARIABLES
  pad,        \* Controls -> where the player holds it
  polled,     \* g_last_buttons, g_last_axis, g_touching with g_touch_x and _y:
              \* Controls -> what gamepad_poll remembers of it
  reported,   \* Controls -> what its last event said
  todo,       \* the events gamepad_poll has yet to push
  queue,      \* g_queue
  registered, \* app->onInputEvent is set
  pc,         \* main: "poll", "push", "peek", "take", "handle"
  isKey,      \* pump_input's is_key
  rounds,     \* its guard
  hand,       \* the event in the handler's hands
  ago,        \* clock::now() - last_key, no further than Gap
  gestures,   \* what the player has done
  typed,      \* events the other thread has pushed
  seen,       \* Controls -> what the engine was told last
  overflowed, \* an event was dropped
  spacing,    \* ticks since a key was handed out, no further than Gap
  slipped     \* the last key handed out was not taken for one

engineVars == <<seen, hand>>
pumpVars   == <<isKey, rounds, ago, spacing, slipped>>
padVars    == <<gestures, pad, polled, reported>>
vars == <<padVars, todo, queue, registered, pc, pumpVars, engineVars, typed,
          overflowed>>

Rest == [c \in Controls |-> 0]

Nothing == [control |-> Char, value |-> 0]

Init ==
  /\ pad = Rest /\ polled = Rest /\ reported = Rest /\ seen = Rest
  /\ todo = <<>> /\ queue = <<>>
  /\ registered = FALSE
  /\ pc = "poll" /\ isKey = FALSE /\ rounds = 0 /\ hand = Nothing
  /\ ago = Gap /\ spacing = Gap /\ slipped = FALSE
  /\ gestures = 0 /\ typed = 0 /\ overflowed = FALSE

-----------------------------------------------------------------------------
(* The bound looked at after the push of one more.                         *)
Push_OneMore(e) ==
  /\ queue' = Append(IF Len(queue) > Cap THEN Tail(queue) ELSE queue, e)
  /\ overflowed' = (overflowed \/ Len(queue) > Cap)

(* input_push: the oldest event makes room.                                *)
Push(e) ==
  /\ queue' = Append(IF Len(queue) >= Cap THEN Tail(queue) ELSE queue, e)
  /\ overflowed' = (overflowed \/ Len(queue) >= Cap)

Near(p, q) == p <= q + 1 /\ q <= p + 1

(* A change that makes an event: any of a button, the coming and the going *)
(* of a finger, and a move that is not slight.                             *)
Counts(c, from, to) ==
  \/ c \in Buttons /\ from # to
  \/ c \in Fingers /\ from # to /\ 0 \in {from, to}
  \/ c \in Sticks \cup Fingers /\ ~Near(from, to)

Moved(cs) == {c \in cs : Counts(c, polled[c], pad[c])}

EventsOf(cs) == SetToSeq({[control |-> c, value |-> pad[c]] : c \in cs})

(* The buttons remembered only when a stick has moved as well.             *)
Poll_ForgetsButtons ==
  /\ pc = "poll" /\ pc' = "push"
  /\ todo' = EventsOf(Moved(Buttons)) \o EventsOf(Moved(Sticks))
                                     \o EventsOf(Moved(Fingers))
  /\ polled' = [c \in Controls |->
                  IF c \in Fingers \/ Moved(Sticks) # {} THEN pad[c]
                                                        ELSE polled[c]]
  /\ reported' = [c \in Controls |->
                    IF c \in Moved(Controls) THEN pad[c] ELSE reported[c]]
  /\ UNCHANGED <<gestures, pad, queue, registered, pumpVars, engineVars, typed,
                 overflowed>>

(* gamepad_poll: one look at the pad; a press or a release for each button *)
(* that changed, then what has moved.  The sticks are remembered as they   *)
(* were reported, but a finger where it is, reported or not.               *)
Poll ==
  /\ pc = "poll" /\ pc' = "push"
  /\ todo' = EventsOf(Moved(Buttons)) \o EventsOf(Moved(Sticks))
                                     \o EventsOf(Moved(Fingers))
  /\ polled' = [c \in Controls |->
                  IF c \in Sticks \ Moved(Sticks) THEN polled[c] ELSE pad[c]]
  /\ reported' = [c \in Controls |->
                    IF c \in Moved(Controls) THEN pad[c] ELSE reported[c]]
  /\ UNCHANGED <<gestures, pad, queue, registered, pumpVars, engineVars, typed,
                 overflowed>>

PushNext ==
  /\ pc = "push" /\ todo # <<>>
  /\ Push(Head(todo)) /\ todo' = Tail(todo)
  /\ UNCHANGED <<padVars, registered, pc, pumpVars, engineVars, typed>>

(* pump_input, unless the engine has no handler yet.                       *)
StartPump ==
  /\ pc = "push" /\ todo = <<>>
  /\ pc' = IF registered THEN "peek" ELSE "poll"
  /\ rounds' = 0
  /\ UNCHANGED <<padVars, todo, queue, registered, isKey, ago, spacing,
                 slipped, engineVars, typed, overflowed>>

KeyIsNext == queue # <<>> /\ Kind(Head(queue).control) = "key"

(* The clock of the last key started anew by every look.                   *)
Peek_Restarts ==
  /\ pc = "peek"
  /\ isKey' = KeyIsNext
  /\ ago' = IF KeyIsNext THEN 0 ELSE ago
  /\ pc' = IF rounds = Guard \/ (KeyIsNext /\ ago < Gap) THEN "poll" ELSE "take"
  /\ UNCHANGED <<padVars, todo, queue, registered, rounds, spacing, slipped,
                 engineVars, typed, overflowed>>

(* The kind of the next event decides whether it is time for it.           *)
Peek ==
  /\ pc = "peek"
  /\ isKey' = KeyIsNext
  /\ pc' = IF rounds = Guard \/ (KeyIsNext /\ ago < Gap) THEN "poll" ELSE "take"
  /\ UNCHANGED <<padVars, todo, queue, registered, rounds, ago, spacing,
                 slipped, engineVars, typed, overflowed>>

(* The time of the last key not noted.                                     *)
Take_Untimed ==
  /\ pc = "take" /\ queue # <<>>
  /\ hand' = Head(queue) /\ queue' = Tail(queue)
  /\ IF Kind(Head(queue).control) = "key"
     THEN spacing' = 0 /\ slipped' = ~isKey
     ELSE UNCHANGED <<spacing, slipped>>
  /\ pc' = "handle"
  /\ UNCHANGED <<padVars, todo, registered, isKey, rounds, ago, seen, typed,
                 overflowed>>

(* The next event is taken out, whatever is next now.                      *)
Take ==
  /\ pc = "take" /\ queue # <<>>
  /\ hand' = Head(queue) /\ queue' = Tail(queue)
  /\ ago' = IF isKey THEN 0 ELSE ago
  /\ IF Kind(Head(queue).control) = "key"
     THEN spacing' = 0 /\ slipped' = ~isKey
     ELSE UNCHANGED <<spacing, slipped>>
  /\ pc' = "handle"
  /\ UNCHANGED <<padVars, todo, registered, isKey, rounds, seen, typed,
                 overflowed>>

TakeNothing ==
  /\ pc = "take" /\ queue = <<>> /\ pc' = "poll"
  /\ UNCHANGED <<padVars, todo, queue, registered, pumpVars, engineVars,
                 typed, overflowed>>

(* What the accessors say of a control when the handler asks: the event at *)
(* hand speaks of one, and of the others the engine keeps what it knew.    *)
Told(e, c) == IF c = e.control THEN e.value ELSE seen[c]

(* The engine's handler asks, and keeps the answer.                        *)
Handle ==
  /\ pc = "handle" /\ pc' = "peek"
  /\ seen' = [c \in Controls |-> Told(hand, c)]
  /\ hand' = Nothing /\ rounds' = rounds + 1
  /\ UNCHANGED <<padVars, todo, queue, registered, isKey, ago, spacing,
                 slipped, typed, overflowed>>

Main ==
  \/ Poll \/ PushNext \/ StartPump \/ Peek \/ Take \/ TakeNothing \/ Handle

-----------------------------------------------------------------------------
(* The other thread: a character goes down, then up.                       *)
Type ==
  /\ typed < MaxTyped /\ typed' = typed + 1
  /\ Push([control |-> Char, value |-> 1 - (typed % 2)])
  /\ UNCHANGED <<padVars, todo, registered, pc, pumpVars, engineVars>>

Player ==
  /\ gestures < MaxGestures /\ gestures' = gestures + 1
  /\ \E c \in Controls : \E v \in May(c) \ {pad[c]} :
        pad' = [pad EXCEPT ![c] = v]
  /\ UNCHANGED <<polled, reported, todo, queue, registered, pc, pumpVars,
                 engineVars, typed, overflowed>>

(* android_main sets app->onInputEvent, once.                              *)
Register ==
  /\ ~registered /\ registered' = TRUE
  /\ UNCHANGED <<padVars, todo, queue, pc, pumpVars, engineVars, typed,
                 overflowed>>

Later(n) == IF n < Gap THEN n + 1 ELSE n

Tick ==
  /\ ago < Gap \/ spacing < Gap
  /\ ago' = Later(ago) /\ spacing' = Later(spacing)
  /\ UNCHANGED <<padVars, todo, queue, registered, pc, isKey, rounds,
                 slipped, engineVars, typed, overflowed>>

Next == Main \/ Type \/ Player \/ Register \/ Tick

(* Main goes round its loop, the engine's handler returns, time passes.    *)
Spec == Init /\ [][Next]_vars /\ WF_vars(Main) /\ WF_vars(Tick)
-----------------------------------------------------------------------------
(* "Dropping the oldest keeps a stall from turning into unbounded memory": *)
(* the queue is bounded, whatever main and the other thread push, and main *)
(* has an event in hand only in the handler.                               *)
TypeOK ==
  /\ {pad, polled, reported, seen} \subseteq [Controls -> Values]
  /\ todo \in Seq(Events) /\ queue \in Seq(Events) /\ Len(queue) <= Cap
  /\ {registered, isKey, overflowed, slipped} \subseteq BOOLEAN
  /\ pc \in {"poll", "push", "peek", "take", "handle"}
  /\ todo # <<>> => pc = "push"
  /\ hand \in Events /\ (pc # "handle" => hand = Nothing)
  /\ rounds \in 0 .. Guard /\ ago \in 0 .. Gap /\ spacing \in 0 .. Gap
  /\ gestures \in 0 .. MaxGestures /\ typed \in 0 .. MaxTyped

TakesKey == pc = "take" /\ pc' = "handle" /\ Kind(hand'.control) = "key"

(* android_glue.cpp 192-193: "Keys go one at a time, twenty milliseconds   *)
(* apart".  It is so between keys that pump_input took for keys, whoever   *)
(* pushed them: only one that came to the front between its look and its   *)
(* grasp is out of time, and so may be the one after it.                   *)
KnownKeysAreSpaced == [][TakesKey /\ isKey /\ ~slipped => spacing = Gap]_vars

(* When all that was reported has been delivered, the engine believes of   *)
(* every control what was reported of it: no press without its release,    *)
(* and none in the wrong order - unless the queue overflowed.              *)
QuietMeansSeen ==
  queue = <<>> /\ todo = <<>> /\ pc # "handle" /\ ~overflowed => seen = reported

(* What gamepad_poll takes for the last of a control is what was reported: *)
(* of a finger, only whether it touches.                                   *)
Remembers ==
  \A c \in Controls : IF c \in Fingers THEN polled[c] = 0 <=> reported[c] = 0
                                       ELSE polled[c] = reported[c]

(* The queue is sound: bounded, and at rest in agreement with the engine   *)
(* and with what is compared to the next look at the pad.                  *)
QueueIsSound == TypeOK /\ QuietMeansSeen /\ Remembers

(* A finger that creeps, no further from one look to the next than makes   *)
(* an event, is not reported, however far it gets.                         *)
Creeps(c, v) ==
  c \in Fingers /\ reported[c] # v /\ ~Counts(c, polled[c], v)

Sees(c, v) == IF c \in Sticks THEN Near(seen[c], v) ELSE seen[c] = v

(* What the player does reaches the engine, if the player does it long     *)
(* enough: keys in front that wait for their time do not block it for good.*)
(* What it believes of a stick is near enough, and of a finger that did    *)
(* not creep there exact.                                                  *)
PlayerIsSeen ==
  \A c \in Controls, v \in Values :
    registered /\ pad[c] = v /\ ~Creeps(c, v) ~>
      Sees(c, v) \/ pad[c] # v \/ overflowed
=============================================================================
