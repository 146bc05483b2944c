-------------------------------- MODULE Mixer --------------------------------
(***************************************************************************)
(* The sound of the engine (audio_mix.cpp, thunks_fmod.cpp, audio_win32.cpp*)
(* and audio_switch.cpp): guest threads that start sounds and act on them  *)
(* through channels, and the feeding thread that mixes what plays.         *)
(*                                                                         *)
(* One call of the mixer is one critical section and one action.  An FMOD  *)
(* thunk is more than one: playSound starts the voice, then adds the       *)
(* channel; the others look the channel up, then act on its voice, with    *)
(* nothing held in between.  Volume and attenuation play no part.          *)
(*                                                                         *)
(* Names that InputQueue has as well bear the mixer's name here, for       *)
(* InputSound_proofs to extend both.                                       *)
(***************************************************************************)
EXTENDS Integers, Sequences, FiniteSets

CONSTANTS
  Threads,      \* guest threads
  Sounds,       \* what the engine has loaded
  Streams,      \* those it loaded with createStream
  Length,       \* Sounds -> source frames; 0 for a file that does not decode
  Steps,        \* frequencies: source frames per output frame
  Rate,         \* Sounds -> the step of a clip at the rate of its recording
  Frames,       \* 1024: output frames in a buffer
  Chunk,        \* frames the decoder of a stream hands out at a time
  DefaultLimit, \* 32: g_voice_limit before System::init
  Limits,       \* what System::init may be told
  Positions,    \* where the engine puts a sound
  MaxPlays,     \* bound on the calls of playSound
  Horizon       \* bound on how far a loop may run away from its clip

ASSUME MixerAssumption ==
  /\ IsFiniteSet(Threads) /\ "none" \notin Sounds
  /\ Streams \subseteq Sounds /\ Length \in [Sounds -> Nat]
  /\ 1 \in Steps /\ Steps \subseteq Nat \ {0}
  /\ Rate \in [Sounds -> Steps] /\ Horizon \in Nat
  /\ \A s \in Sounds, n \in Steps : 2 * Length[s] + n <= Horizon
  /\ Frames \in Nat \ {0} /\ Chunk \in Nat \ {0} /\ MaxPlays \in Nat
  /\ Positions \subseteq Nat
  /\ DefaultLimit \in Nat \ {0} /\ Limits \subseteq Nat \ {0}

VARIABLES
  voices,   \* g_voices
  limit,    \* g_voice_limit
  plays,    \* g_started
  channels, \* g_channels: the voice of each, and the play it was made for
  thunk,    \* Threads -> where its thunk is: what it looked up or started
  started,  \* System::init has run
  open,     \* g_device, g_open: the device and its buffers are there
  running,  \* g_running
  feeder    \* the feeding thread: "none", "loop", "render", "ended"

device == <<started, open, running, feeder>>
mixerVars == <<voices, limit, plays, channels, thunk, device>>

Slots == 1 .. Len(voices)

Idle == [at |-> "idle", channel |-> 0, voice |-> 0, play |-> 0, moved |-> FALSE]

MixerInit ==
  /\ voices = <<>> /\ limit = DefaultLimit /\ plays = 0 /\ channels = <<>>
  /\ thunk = [t \in Threads |-> Idle]
  /\ started = FALSE /\ open = FALSE /\ running = FALSE /\ feeder = "none"

-----------------------------------------------------------------------------
(* A stream keeps the place of its decoder and what it has decoded ahead;  *)
(* an effect its position.                                                 *)
Voice(sound, paused, loop) ==
  [sound |-> sound, active |-> TRUE, paused |-> paused, loop |-> loop,
   age |-> plays + 1, position |-> 0, step |-> Rate[sound],
   stream |-> sound \in Streams, read |-> 0, block |-> 0]

(* A voice that is through, its stream closed.  What else is left of it is *)
(* overwritten before it plays again, and shows nothing but to the getters.*)
Quiet ==
  [sound |-> "none", active |-> FALSE, paused |-> FALSE, loop |-> FALSE, age |-> 0,
   position |-> 0, step |-> 1, stream |-> FALSE, read |-> 0, block |-> 0]

Active == {i \in Slots : voices[i].active}

OneShots == {i \in Active : ~voices[i].loop}

First(is) == CHOOSE i \in is : \A j \in is : i <= j

Oldest(is) == CHOOSE i \in is : \A j \in is : voices[i].age <= voices[j].age

(* A voice more than there may be.                                         *)
SlotFor_OneMore ==
  CASE Active # Slots -> First(Slots \ Active)
    [] Active = Slots /\ Len(voices) <= limit -> Len(voices) + 1
    [] Active = Slots /\ Len(voices) > limit /\ OneShots # {} -> Oldest(OneShots)
    [] OTHER -> 0

(* The oldest sound taken, whether it loops or not.                        *)
SlotFor_Oldest ==
  CASE Active # Slots -> First(Slots \ Active)
    [] Active = Slots /\ Len(voices) < limit -> Len(voices) + 1
    [] OTHER -> Oldest(Active)

(* The first slot that is through; else a new one; else, when there are as *)
(* many as there may be, the oldest sound that does not loop.  0 if none.  *)
SlotFor ==
  CASE Active # Slots -> First(Slots \ Active)
    [] Active = Slots /\ Len(voices) < limit -> Len(voices) + 1
    [] Active = Slots /\ Len(voices) >= limit /\ OneShots # {} -> Oldest(OneShots)
    [] OTHER -> 0

(* An effect that does not decode is turned down before a slot is looked   *)
(* for; a stream that does not open has a slot by then, and is quiet in it.*)
Decodes(sound) == Length[sound] > 0

Refused(sound) == SlotFor = 0 \/ (sound \notin Streams /\ ~Decodes(sound))

audio_play(sound, paused, loop) ==
  LET new == IF Decodes(sound) THEN Voice(sound, paused, loop)
             ELSE Quiet IN
  /\ voices' = IF SlotFor > Len(voices) THEN Append(voices, new)
               ELSE [voices EXCEPT ![SlotFor] = new]
  /\ plays' = plays + 1

Starting == {t \in Threads : thunk[t].at = "channel"}

Made(voice, play) ==
  [at |-> "channel", channel |-> 0, voice |-> voice, play |-> play, moved |-> FALSE]

(* playSound, up to the voice.                                             *)
PlaySound(t, sound, paused, loop) ==
  /\ thunk[t].at = "idle" /\ Len(channels) + Cardinality(Starting) < MaxPlays
  /\ IF Refused(sound) THEN UNCHANGED <<voices, plays>>
     ELSE audio_play(sound, paused, loop)
  /\ thunk' = [thunk EXCEPT ![t] =
       IF Refused(sound) \/ ~Decodes(sound) THEN Made(0, 0)
       ELSE Made(SlotFor, plays + 1)]
  /\ UNCHANGED <<limit, channels, device>>

(* The channel made for the sound that was started last.                   *)
AddChannel_Newest(t) ==
  /\ thunk[t].at = "channel"
  /\ channels' = Append(channels,
       [voice |-> IF Active = {} THEN 0
                  ELSE CHOOSE i \in Active : \A j \in Active : voices[j].age <= voices[i].age,
        play |-> thunk[t].play])
  /\ thunk' = [thunk EXCEPT ![t] = Idle]
  /\ UNCHANGED <<voices, limit, plays, device>>

(* The rest of playSound: the channel is added, and the table may move     *)
(* under a thread that has looked one up.                                  *)
AddChannel(t) ==
  /\ thunk[t].at = "channel"
  /\ channels' = Append(channels, [voice |-> thunk[t].voice, play |-> thunk[t].play])
  /\ \E moves \in BOOLEAN :
       thunk' = [u \in Threads |->
         IF u = t THEN Idle
         ELSE IF thunk[u].at = "use" /\ moves THEN [thunk[u] EXCEPT !.moved = TRUE]
         ELSE thunk[u]]
  /\ UNCHANGED <<voices, limit, plays, device>>

-----------------------------------------------------------------------------
(* The other thunks of a channel: it is looked up.  Bound: one thread at a *)
(* time is between this and what it does with the voice.                   *)
LookUp(t, channel) ==
  /\ thunk[t].at = "idle" /\ channel \in 1 .. Len(channels)
  /\ \A u \in Threads : thunk[u].at # "use"
  /\ thunk' = [thunk EXCEPT ![t] = [Idle EXCEPT !.at = "use", !.channel = channel]]
  /\ UNCHANGED <<voices, limit, plays, channels, device>>

(* What the thread finds in the channel: a table that has moved leaves     *)
(* memory that holds anything.                                             *)
VoiceOf(t) ==
  IF thunk[t].moved THEN Slots \cup {0} ELSE {channels[thunk[t].channel].voice}

(* A setter finds its voice, if there is one, and leaves it as v; what it  *)
(* does to one that is through is overwritten before it plays.             *)
Set(t, i, v) ==
  /\ thunk[t].at = "use" /\ i \in VoiceOf(t)
  /\ voices' = IF i \in Active THEN [voices EXCEPT ![i] = v] ELSE voices
  /\ thunk' = [thunk EXCEPT ![t] = Idle]
  /\ UNCHANGED <<limit, plays, channels, device>>

Stop(t, i) == Set(t, i, Quiet)

Pause(t, i, paused) == Set(t, i, [voices[i] EXCEPT !.paused = paused])

Loop(t, i, loop) == Set(t, i, [voices[i] EXCEPT !.loop = loop])

Frequency(t, i, step) == Set(t, i, [voices[i] EXCEPT !.step = step])

(* A stream is sought, if it is that long, and what was decoded ahead goes;*)
(* an effect is put anywhere.                                              *)
SetPosition(t, i, frame) ==
  Set(t, i, IF ~voices[i].stream THEN [voices[i] EXCEPT !.position = frame]
            ELSE IF frame > Length[voices[i].sound] THEN [voices[i] EXCEPT !.block = 0]
            ELSE [voices[i] EXCEPT !.read = frame, !.block = 0])

Thunk(t) ==
  \/ \E s \in Sounds, paused, loop \in BOOLEAN : PlaySound(t, s, paused, loop)
  \/ AddChannel(t)
  \/ \E c \in 1 .. Len(channels) : LookUp(t, c)
  \/ \E i \in 0 .. Len(voices) :
       \/ Stop(t, i)
       \/ \E b \in BOOLEAN : Pause(t, i, b) \/ Loop(t, i, b)
       \/ \E n \in Steps : Frequency(t, i, n)
       \/ \E frame \in Positions : SetPosition(t, i, frame)

-----------------------------------------------------------------------------
(* audio_render, in one critical section.                                  *)

(* One length taken off, once, and on to the next frame.  A loop shorter   *)
(* than its step runs away, and is not followed beyond the horizon.        *)
Back(v) ==
  LET next == v.position - Length[v.sound] + v.step IN
  IF next > Horizon THEN Horizon ELSE next

(* The end of the clip seen a frame late.                                  *)
Frame_Late(v) ==
  LET len == Length[v.sound] IN
  IF ~v.active THEN v
  ELSE IF v.position <= len THEN [v EXCEPT !.position = @ + v.step]
  ELSE IF v.loop THEN [v EXCEPT !.position = Back(v)]
  ELSE Quiet

(* One frame of an effect.                                                 *)
Frame(v) ==
  LET len == Length[v.sound] IN
  IF ~v.active THEN v
  ELSE IF v.position < len THEN [v EXCEPT !.position = @ + v.step]
  ELSE IF v.loop THEN [v EXCEPT !.position = Back(v)]
  ELSE Quiet

Walked(v) ==
  LET walk[n \in 0 .. Frames] == IF n = 0 THEN v ELSE Frame(walk[n - 1])
  IN  walk[Frames]

Need(v) == v.step * Frames + 2

(* stream_fill: the decoder runs ahead, round and round if the sound loops,*)
(* until there is enough; <<>> if the file runs out.                       *)
Filled(v) ==
  LET len == Length[v.sound]
      fill[d \in (0 .. len) \X Nat] ==
        IF d[2] >= Need(v) THEN d
        ELSE IF d[1] < len
             THEN LET got == IF len - d[1] < Chunk THEN len - d[1] ELSE Chunk
                  IN  fill[<<d[1] + got, d[2] + got>>]
        ELSE IF v.loop THEN fill[<<0, d[2]>>]
        ELSE <<>>
  IN  fill[<<v.read, v.block>>]

(* At the end of the file the voice left as it is.                         *)
Streamed_Waits(v) ==
  IF Filled(v) = <<>> THEN v
  ELSE [v EXCEPT !.read = Filled(v)[1], !.block = Filled(v)[2] - v.step * Frames]

(* A stream that has run out is through, with what it had decoded.         *)
Streamed(v) ==
  IF Filled(v) = <<>> THEN Quiet
  ELSE [v EXCEPT !.read = Filled(v)[1], !.block = Filled(v)[2] - v.step * Frames]

Mixed(v) ==
  IF ~v.active \/ v.paused THEN v ELSE IF v.stream THEN Streamed(v) ELSE Walked(v)

Render ==
  /\ feeder = "render" /\ feeder' = "loop"
  /\ voices' = [i \in Slots |-> Mixed(voices[i])]
  /\ UNCHANGED <<limit, plays, channels, thunk, started, open, running>>

(* A buffer has come back, or g_running is off.                            *)
Feed ==
  /\ feeder = "loop" /\ feeder' = IF running THEN "render" ELSE "ended"
  /\ UNCHANGED <<voices, limit, plays, channels, thunk, started, open, running>>

(* There may be no device.                                                 *)
audio_start ==
  /\ open' \in BOOLEAN
  /\ running' = open' /\ feeder' = IF open' THEN "loop" ELSE "none"

(* System::init does its work once.                                        *)
SystemInit(t, n) ==
  /\ thunk[t].at = "idle" /\ ~started /\ started' = TRUE
  /\ limit' = IF n > 128 THEN 128 ELSE n
  /\ audio_start
  /\ UNCHANGED <<voices, plays, channels, thunk>>

(* System::close; two guest threads do not close it at once.               *)
Close(t) ==
  /\ thunk[t].at = "idle" /\ open
  /\ \A u \in Threads : thunk[u].at # "join"
  /\ running' = FALSE /\ thunk' = [thunk EXCEPT ![t] = [Idle EXCEPT !.at = "join"]]
  /\ UNCHANGED <<voices, limit, plays, channels, started, open, feeder>>

(* The feeder is through: the device and its buffers go.                   *)
Joined(t) ==
  /\ thunk[t].at = "join" /\ feeder = "ended"
  /\ feeder' = "none" /\ open' = FALSE
  /\ thunk' = [thunk EXCEPT ![t] = Idle]
  /\ UNCHANGED <<voices, limit, plays, channels, started, running>>

MixerNext ==
  \/ \E t \in Threads :
       Thunk(t) \/ (\E n \in Limits : SystemInit(t, n)) \/ Close(t) \/ Joined(t)
  \/ Feed \/ Render

(* The device keeps taking buffers, and the mixer's lock is had in time.   *)
MixerSpec ==
  /\ MixerInit /\ [][MixerNext]_mixerVars
  /\ WF_mixerVars(Feed) /\ WF_mixerVars(Render)
-----------------------------------------------------------------------------
MaxVoices == IF limit > DefaultLimit THEN limit ELSE DefaultLimit

(* audio.h 88-91: no more voices than System::init asked for, or than there*)
(* were before.  A stream is open exactly while its voice plays, an effect *)
(* or a quiet voice has none.  The buffers are there while the feeder is.  *)
VoicesTyped ==
  /\ voices \in Seq([sound : Sounds \cup {"none"}, active : BOOLEAN, paused : BOOLEAN,
                     loop : BOOLEAN, age : 0 .. MaxPlays, position : Nat,
                     step : Steps, stream : BOOLEAN, read : Nat, block : Nat])
  /\ limit \in Limits \cup {DefaultLimit, 128} /\ Len(voices) <= MaxVoices
  /\ plays \in 0 .. MaxPlays /\ Len(channels) <= MaxPlays
  /\ \A i \in Slots : /\ voices[i].age <= plays
                      /\ voices[i].active <=> voices[i].sound \in Sounds
                      /\ voices[i].stream <=> voices[i].sound \in Streams
  /\ \A c \in 1 .. Len(channels) :
       channels[c] \in [voice : 0 .. Len(voices), play : 0 .. plays]
  /\ \A t \in Threads :
       /\ thunk[t].at \in {"idle", "channel", "use", "join"}
       /\ thunk[t].at = "use" => thunk[t].channel \in 1 .. Len(channels)
       /\ thunk[t].at = "channel" => thunk[t].voice \in 0 .. Len(voices)
  /\ {started, open, running} \subseteq BOOLEAN
  /\ feeder \in {"none", "loop", "render", "ended"}
  /\ open <=> feeder # "none"

(* A channel whose sound still plays is that sound's: though slots are used*)
(* again, a sound may be taken by another thread before playSound has told *)
(* of its channel, and channels are never given back.                      *)
ChannelFindsItsSound ==
  \A c \in 1 .. Len(channels), i \in Slots :
    voices[i].active /\ voices[i].age = channels[c].play => channels[c].voice = i

(* The table of voices is sound: bounded, told by its channels, each stream*)
(* closed when its voice is through, and the feeder never without buffers. *)
VoicesAreSound == VoicesTyped /\ ChannelFindsItsSound

(* audio_mix.cpp 311-313 and NOTES.md 303-308: "a looping sound - which is *)
(* ambience the engine expects to still be there - is never taken".  What  *)
(* ends a sound that loops is a stop of some channel, and nothing else.    *)
LoopsGoOn ==
  [][\A i \in Slots :
       voices[i].active /\ voices[i].loop =>
         \/ voices'[i].active /\ voices'[i].age = voices[i].age
         \/ \E t \in Threads : Stop(t, i)]_mixerVars

(* A loop that one length taken off, once, does not bring back into its    *)
(* clip: it was put beyond the end a second time over, or a single frame   *)
(* of output takes more of it than there is.                               *)
Overshoots(v) ==
  v.loop /\ (v.position >= 2 * Length[v.sound] \/ v.step > Length[v.sound])

(* A sample is read inside its clip, at any frequency if the sound ends    *)
(* there; if it loops, unless it overshoots.                               *)
ReadsInsideClip ==
  [][Render => \A i \in Slots :
       LET v == voices[i] IN
       v.active /\ ~v.paused /\ ~v.stream /\ voices'[i].active =>
         \/ voices'[i].position - v.step \in 0 .. Length[v.sound] - 1
         \/ Overshoots(v)]_mixerVars

Sounding(p) ==
  \E i \in Slots : /\ voices[i].active /\ voices[i].age = p
                   /\ ~voices[i].paused /\ ~voices[i].loop

Rewound(p) ==
  \E i \in Slots : /\ voices[i].age = p /\ voices'[i].age = p
                   /\ \/ voices'[i].position < voices[i].position
                      \/ voices'[i].read < voices[i].read

(* A sound that neither loops nor is paused comes to its end, unless the   *)
(* engine sets it back over and over, or there is no device to play it.    *)
SoundEnds ==
  \A p \in 1 .. MaxPlays :
    <>[](Sounding(p) /\ running) => []<><<Rewound(p)>>_mixerVars
=============================================================================
