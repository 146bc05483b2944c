---- MODULE WatchLoop ----
(***************************************************************************)
(* The input that the command line schedules for a run without a player    *)
(* (main.cpp, the watch loop of run): a text typed at once, buttons and    *)
(* taps, each at a second of its own, released some rounds later.          *)
(*                                                                         *)
(* Every iteration of a loop inside the round is a step.  Buttons and      *)
(* fingers are two hands: done[h] is pressed or tapped, held[h] is         *)
(* release_press or release_at, `at` the counter of the loop under way.    *)
(* opt is [typed, typed_at, times], times[h] the seconds of --press or     *)
(* --tap; clock[i] the second at which round i began; got what has been    *)
(* pushed, an event [round, hand, what, id], in order.                     *)
(***************************************************************************)
EXTENDS SequencesExt, OneCall

CONSTANTS kFingerHeldTicks,
          TypedTexts, Seconds, MaxScheduled,   \* what is scheduled, and how much
          Readings, MaxRounds             \* of the clock; bound on rounds

ASSUME WatchAssumption ==
    /\ kFingerHeldTicks \in Nat \ {0}
    /\ \A text \in TypedTexts : text \in Seq(Nat)
    /\ Seconds \subseteq Int /\ Readings \subseteq Int
    /\ MaxScheduled \in Nat /\ MaxRounds \in Nat

Hands == {"button", "finger"}

Watching(opt) ==
    [fn |-> "watch", opt |-> opt, clock |-> <<>>, stage |-> "asleep",
     hand |-> "button", at |-> 1, text_sent |-> FALSE,
     done |-> [h \in Hands |-> {}], held |-> [h \in Hands |-> <<>>],
     got |-> <<>>]

This(w) == Len(w.clock)      \* the round
Now(w) == w.clock[This(w)]

Event(w, hand, what, id) ==
    [round |-> This(w), hand |-> hand, what |-> what, id |-> id]

BeginRound(w, now) ==
    [w EXCEPT !.stage = "text", !.clock = Append(@, now)]

\* Every character goes down and up at once.
KeyStrokes(w) ==
    [k \in 1..2 * Len(w.opt.typed) |->
        Event(w, "key", IF k % 2 = 1 THEN "down" ELSE "up",
              w.opt.typed[(k + 1) \div 2])]

TypeText(w) ==
    LET due == /\ w.opt.typed # <<>> /\ ~w.text_sent
               /\ Now(w) >= w.opt.typed_at
    IN [w EXCEPT !.stage = "schedule", !.hand = "button", !.at = 1,
                 !.text_sent = @ \/ due,
                 !.got = IF due THEN @ \o KeyStrokes(w) ELSE @]

\* One entry of --press or --tap.
Schedule(w) ==
    LET h == w.hand
        due == w.at \notin w.done[h] /\ Now(w) >= w.opt.times[h][w.at]
        entry == [id |-> w.at, tick |-> This(w) + kFingerHeldTicks]
    IN IF ~due THEN [w EXCEPT !.at = @ + 1]
       ELSE [w EXCEPT !.at = @ + 1, !.done[h] = @ \cup {w.at},
                      !.held[h] = Append(@, entry),
                      !.got = Append(@, Event(w, h, "down", w.at))]

\* One entry of the list of what is held, which is walked with its entries
\* erased under way.  A finger that stays reports that it is there.
LetGo(w) ==
    [w EXCEPT !.held[w.hand] = RemoveAt(@, w.at),
              !.got = Append(@, Event(w, w.hand, "up",
                                      w.held[w.hand][w.at].id))]
Hold(w) ==
    [w EXCEPT !.at = @ + 1,
              !.got = IF w.hand = "button" THEN @
                      ELSE Append(@, Event(w, w.hand, "move",
                                           w.held[w.hand][w.at].id))]

\* Mutant of Held: the entry behind one that is erased is passed over.
Held_SkipsNext(w) ==
    IF This(w) < w.held[w.hand][w.at].tick THEN Hold(w)
    ELSE [LetGo(w) EXCEPT !.at = @ + 1]

Held(w) ==
    IF This(w) < w.held[w.hand][w.at].tick THEN Hold(w) ELSE LetGo(w)

\* The end of a loop inside the round.
Scheduled(w) == [w EXCEPT !.stage = "held", !.at = 1]

AllHeld(w) ==
    IF w.hand = "button"
    THEN [w EXCEPT !.stage = "schedule", !.hand = "finger", !.at = 1]
    ELSE [w EXCEPT !.stage = "asleep", !.hand = "button", !.at = 1]

Options == [typed : TypedTexts, typed_at : Seconds,
            times : [Hands -> Sequences(Seconds, MaxScheduled)]]

Watch ==
    \/ /\ call = NoCall
       /\ \E opt \in Options : Called(Watching(opt))
    \/ /\ call.fn = "watch"
       /\ \/ /\ call.stage = "asleep" /\ This(call) < MaxRounds
             /\ \E now \in Readings :
                    /\ call.clock # <<>> => Now(call) <= now
                    /\ Called(BeginRound(call, now))
          \/ call.stage = "text" /\ Called(TypeText(call))
          \/ /\ call.stage = "schedule"
             /\ \/ /\ call.at \in DOMAIN call.opt.times[call.hand]
                   /\ Called(Schedule(call))
                \/ /\ call.at \notin DOMAIN call.opt.times[call.hand]
                   /\ Called(Scheduled(call))
          \/ /\ call.stage = "held"
             /\ \/ /\ call.at \in DOMAIN call.held[call.hand]
                   /\ Called(Held(call))
                \/ /\ call.at \notin DOMAIN call.held[call.hand]
                   /\ Called(AllHeld(call))

\* The watch loop's part of what the program is asked.
WatchSpec == call = NoCall /\ [][Watch \/ call'.fn # "watch"]_call

(***************************************************************************)
(* What a schedule asks for.                                               *)
(***************************************************************************)
\* The events of a kind happen once in each of these rounds and in no other.
Happens(got, hand, what, id, rounds) ==
    LET kind == {k \in DOMAIN got : /\ got[k].hand = hand
                                    /\ got[k].what = what
                                    /\ got[k].id = id}
    IN /\ {got[k].round : k \in kind} = rounds
       /\ \A j, k \in kind : got[j].round = got[k].round => j = k

\* The first round that began at or after a second, if there is one yet.
Begins(clock, second) ==
    {i \in DOMAIN clock : /\ clock[i] >= second
                          /\ \A j \in 1..i - 1 : clock[j] < second}

HeldFrom(i) == i..i + kFingerHeldTicks - 1

OnTime(w, h, id) ==
    LET begin == Begins(w.clock, w.opt.times[h][id])
        during == IF h = "finger" THEN UNION {HeldFrom(i) : i \in begin} ELSE {}
        end == {i + kFingerHeldTicks : i \in begin}
    IN /\ Happens(w.got, h, "down", id, begin)
       /\ Happens(w.got, h, "move", id, during \cap DOMAIN w.clock)
       /\ Happens(w.got, h, "up", id, end \cap DOMAIN w.clock)

Sequel == {<<"down", "move">>, <<"move", "up">>, <<"down", "up">>}

DownThenUp(got) ==
    \A j, k \in DOMAIN got :
        (/\ got[j].hand \in Hands /\ got[j].hand = got[k].hand
         /\ got[j].id = got[k].id
         /\ <<got[j].what, got[k].what>> \in Sequel) => j < k

\* A text that stands in one piece behind the n-th event.
TypedAfter(got, n, text, round) ==
    /\ \A k \in DOMAIN text :
          /\ n + 2 * k \in DOMAIN got
          /\ got[n + 2 * k - 1] = [round |-> round, hand |-> "key",
                                   what |-> "down", id |-> text[k]]
          /\ got[n + 2 * k] = [round |-> round, hand |-> "key",
                               what |-> "up", id |-> text[k]]
    /\ \A j \in DOMAIN got :
          got[j].hand = "key" => j \in n + 1..n + 2 * Len(text)

TextOnTime(w) ==
    \/ /\ w.opt.typed = <<>> \/ Begins(w.clock, w.opt.typed_at) = {}
       /\ \A j \in DOMAIN w.got : w.got[j].hand # "key"
    \/ \E i \in Begins(w.clock, w.opt.typed_at), n \in 0..Len(w.got) :
           TypedAfter(w.got, n, w.opt.typed, i)

\* After every round what was scheduled has been played, however the clock
\* runs between two rounds: every button and finger went down once, in the
\* first round of its second, and up once, after as many rounds as a finger
\* is held; a finger reported in every round of its stay, or a frame would
\* see it lifted; each came down before it went up, and nothing came that
\* was not scheduled; and the text was typed once, in one piece, every key
\* let go before the next went down.
\* (main.cpp, run: "A finger resting on glass still reports, every frame")
ScheduleIsPlayed ==
    call.fn = "watch" /\ call.stage = "asleep" =>
        /\ \A h \in Hands : \A id \in DOMAIN call.opt.times[h] :
               OnTime(call, h, id)
        /\ \A k \in DOMAIN call.got : call.got[k].hand \in Hands =>
               call.got[k].id \in DOMAIN call.opt.times[call.got[k].hand]
        /\ DownThenUp(call.got) /\ TextOnTime(call)
====
