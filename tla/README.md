# WarbandRecomp in TLA+

WarbandRecomp runs the Android build of a game on Windows and on the Switch. The
game's 32-bit ARM library is loaded into a guest address space and executed by a
recompiler (dynarmic); everything the library imports (libc, pthreads, GLES, EGL,
FMOD, the NDK) is a *thunk* written in C++ under `src/src`. This directory holds
TLA+ modules of the parts of that program that keep state between calls and of
the algorithms that keep none, TLC configurations that check them on small
instances, and TLAPS proofs of what matters most.

Paths below are relative to the repository's `src/` directory; `thunks_gl.cpp`
and its like are in `src/`.

## 1. The system

### Who runs

| actor | code | what it does |
|---|---|---|
| main thread (guest thread 0) | `main.cpp` `run` | loads the image, starts `android_main` on a guest thread, then loops: window events, input, a watch; in the end stops and joins everybody |
| guest threads 1, 2, ... | `env.cpp` `spawn`, `spawn_call`, `call` | one host thread and one recompiler each; run guest code in slices with an instruction budget, and thunks inside a slice |
| clock thread | `guest_code.cpp` `publish_once` | writes the time into a guest page every 200 us |
| audio feeder | `audio_win32.cpp`, `audio_switch.cpp` | asks the mixer for samples |
| watchdogs | `main.cpp`, `thunks_gl.cpp` | read state and print it |

Guest threads call thunks through `CallSVC`. A thunk runs on the calling guest
thread's host thread. There is no global lock: whatever thunks share they lock
themselves, or do not.

### Components

For each: its state; its operations; whom it touches; what is hard; what makes it
correct.

1. **Guest mutexes** (`thunks_thread.cpp` 20-127, 172-224). *State:* a token in
   the guest's `pthread_mutex_t`; a table of host objects; `held_`, `owner_`,
   `depth_` and a host condition in each. *Operations:* init, lock, trylock,
   unlock, destroy. *Hard:* recursive, released by any thread, created on first
   use from a zero word, spurious wakeups, newcomers overtaking woken sleepers.
   *Correct if:* one holder at a time, two guest mutexes never share a host
   object, no wakeup is lost.
2. **Guest conditions** (129-140, 226-330). *State:* tokens and host conditions.
   *Operations:* init, wait, timedwait (slept in slices of 1 ms), signal,
   broadcast. *Hard:* unlock-and-sleep against signal, deadline against a late
   signal, slices that end before the deadline, a mutex that others let go of while
   its holder sleeps. *Correct if:* no signal is missed, no ETIMEDOUT before its
   time, the mutex comes back as deep as others left it.
3. **Clock page** (`guest_code.cpp` 80-330, 565-640). *State:* a sequence word and
   three time fields in guest memory. *Operations:* the writer's stores; three
   guest routines. *Hard:* lock-free; wrap of the sequence; weak memory; the
   clock stopping. *Correct if:* a reader gets one instant, time never goes back,
   nobody spins for ever.
4. **Guest threads and the life of the process** (`env.cpp` 20-160, 290-400,
   `main.cpp` 240-670, `android_glue.cpp` 100-170, `thunks_thread.cpp` 142-170).
   *State:* the list of guest threads, the list of host threads, the halt flag,
   the engine's handler, where `run` is and which host threads it has started.
   *Operations:* create, slice, fatal, stop, join; load, constructors, start-up
   commands, watch, and every way out. *Hard:* checks of the limit outside the
   lock, a halt cleared just after it was asked for, threads started during the
   shutdown, waits for a mutex or a signal that no stop cuts short, commands sent to
   a handler that may not be there yet, early returns.
   *Correct if:* stacks and monitor suffice, the engine gets its commands in
   order, a stop ends everybody, what threads use outlives them.
5. **Guest heap** (`thunks_libc.cpp` 60-330). *State:* headers, footers and list
   links in guest memory, bins, the tail, a counter. *Operations:* alloc,
   release, resize. *Hard:* boundary tags kept right by every split and merge;
   realloc is three critical sections. *Correct if:* the tags tell the truth, the
   lists hold exactly the free blocks, the guest's blocks are apart.
6. **GL ownership** (`thunks_gl.cpp` 48-72, 345-351, 425-468, 533-683, 704;
   `env.cpp` 456-465; `gl_win32.cpp`, `gl_switch.cpp`). *State:* one lock, an
   owner, a flag, the context current on each thread. *Operations:* the bracket
   around every GL import; the EGL imports. *Hard:* the EGL imports change what
   the bracket looks at, mostly without the lock. *Correct if:* one thread at a
   time in the driver, never without a context, and nobody stuck.
7. **GL call translation** (rest of `thunks_gl.cpp`, `overlay.cpp`). *State:* per
   thread a copy of the bindings and attributes, per buffer its size or indices and
   the answers worked out from them. *Operations:* bind, enable, point, fill,
   delete, draw, present; textures and shader source on their way to the driver.
   *Hard:* the copy belongs to a thread and the bindings to a context; calls that
   are dropped change the copy; names are deleted; the overlay borrows state.
   *Correct if:* copy and driver agree, a draw reads no buffer beyond its end and
   loses nothing it has a right to, uploads read no more than was staged. Some
   hundred and eighty further thunks pass their arguments on.
8. **Input and app glue** (`thunks_input.cpp`, `android_glue.cpp`, the gamepads).
   *State:* a bounded queue of events, what the controller was seen to hold, the
   time of the last key, the handler the engine registered. *Operations:* poll,
   push, pump. *Hard:* pushed by main and by whoever presents or types, keys held
   back by a clock, the oldest dropped when the queue is full, slight moves that are
   not reported, of a finger remembered all the same. *Correct if:* the engine ends
   up believing what the player does, and keys are apart in time. The
   watch loop of `main.cpp` 480-600 adds what the command line scheduled for a run
   without a player: a text, buttons, taps, and the list of what to let go of.
9. **Audio mixer** (`audio_mix.cpp`, `thunks_fmod.cpp`, the feeders). *State:* sounds,
   voices, streams, channel handles, the device and its feeder. *Operations:* play,
   stop, pause, loop, frequency, position, render, init, close. *Hard:* a channel is a
   slot number, slots are reused and stolen, a play is three critical sections, any
   frequency is taken. *Correct if:* handles are right while their sound plays, loops
   are never taken, samples are read inside their clip, sounds end.
10. **Files** (`thunks_fs.cpp`). *State:* a table of descriptors, guest FILE
    objects, the host's FILE behind each, and on the disk the tree the game writes
    to over the tree it only reads. *Operations:* open, close, fopen, fclose,
    remove, rename; on an open file read, write, lseek, fstat and the stdio calls.
    *Hard:* slots and objects are reused, an fopen is several critical sections with
    an allocation between them that no lock guards, a save gets its name by two
    renames that each remove first, the host may refuse one, and the program may
    end anywhere; a size is found by seeking away and back, a transfer is cut at the
    end of the arena. *Correct if:* a handle leads to its file, objects do not leak,
    a save that was committed can be loaded, and a stream is the file it stands for.
11. **ELF loader and address space** (`elf_loader.cpp`, `guest.cpp`, `env.cpp`
    `bind_thunks`). Sequential, before any guest thread runs. *Correct if:* every
    import reaches one answer, whoever imports it and how often; every relocated
    word holds the address it is for; segments do not overlap what they may not.
12. **SVC boundary, AAPCS arguments, formatting** (`env.cpp`, `guest_format.cpp`,
    `thunks_printf.cpp`). A reader of arguments from registers, skipped registers,
    the stack and its padding, or a `va_list`; printf and scanf formats that decide
    how wide the next one is. *Correct if:* every conversion gets the words that
    were passed for it, and stores as many bytes as the object behind it has.
13. **C library** (`thunks_libc.cpp`, `thunks_math.cpp`). Strings, wide strings and
    memory, byte for byte; a tokeniser with a cursor of its own and one with the
    caller's; numbers read from text; tables of characters written into guest memory,
    which the engine reads without a call. *Hard:* every cut at the arena's end, copies
    of at most 4096 characters, counts of words that wrap 32 bits. *Correct if:* memory
    is left as C says, and a character is the same by table and by call.
14. **Guest routines** (`guest_code.cpp`): hand-assembled ARM for memset, strlen,
    strcmp, memcmp, division and rounding. *Correct if:* they do what the host's
    functions of those names do.
15. **JNI** (`jni.cpp`, `android_glue.cpp`). Tokens for members, strings and
    arrays, and a region of 64 KiB they are materialised in and never leave.
16. **Mathematics and runtime helpers** (`thunks_math.cpp`, `thunks_runtime.cpp`):
    the division of double words. The rest of it, **diagnostics** (log, crash
    reports, stall watch, frame captures), **generated thunks** and **stb_vorbis**:
    see section 6.

How they interact: a guest mutex is the lock under every guest condition, and both
are what the engine builds its events from; stopping the guest meets threads
asleep in either. A GL import runs inside a slice, under the GL lock, and what it
believes of the driver depends on which thread's context that is. The heap,
the file table, the mixer and the input queue are each shared by all guest
threads under one lock of their own.

## 2. The modules

| module | models | depends on |
|---|---|---|
| `GuestLock` | the abstract recursive lock: `Acquire`, `Release` | |
| `GuestMutex` | component 1 in detail; implements `GuestLock` | `GuestLock` |
| `GuestCond` | component 2, over `GuestLock` | `GuestLock` |
| `GuestEvent` | the engine's use of a mutex, a flag and a condition (external) | `GuestCond` |
| `TimePage` | component 3, one load or store at a time | |
| `GuestThreads` | component 4: the threads themselves | |
| `LifeCycle` | component 4: `run` around them, from the loader to the return | `GuestThreads` |
| `GuestAllocator` | what an allocator promises its user | |
| `GuestHeap` | component 5; implements `GuestAllocator` | `GuestAllocator` |
| `GlOwnership` | component 6 | |
| `DrawState` | component 7: the copies of bindings, arrays and buffers, and the draw guard | |
| `InputQueue` | component 8: polling, the queue, the pump | |
| `Mixer` | component 9 | |
| `Files` | component 10: handles, and saves across crashes | |
| `GuestFormat`, `GuestScan` | component 12: arguments of printf and scanf | |
| `GuestStrings` | component 13: mem, str and wide functions, tokenisers, and printf's buffer | |
| `GuestStreams` | component 10: transfers and seeks of an open file, any number of calls, one after another | `GuestStrings`, `OneCall` |
| `GuestRoutines` | component 14, instruction by instruction | |
| `GuestNumbers` | components 13, 16: strto*, characters and their tables, division of double words | `GuestRoutines`, `GuestStrings` |
| `GlData` | component 7: staging of textures, repair of shaders | |
| `ElfLoader` | component 11: the image read and linked, an entry a step | `OneCall` |
| `Jni` | component 15, in the region `ElfLoader`'s allocator gives: any number of calls, one after another | `ElfLoader` |
| `OneCall` | one call, or one session of calls, at a time: what was asked and what came back | |
| `WatchLoop` | component 8: scheduled input, an iteration of a loop at a time | `OneCall` |
| `Library` | calls of the modules above from `GuestFormat` on, and what each must answer | those |
| `GuestMutex_proofs`, `GuestHeap_proofs`, `GlOwnership_proofs`, `DrawState_proofs` | theorems | the module of that name |
| `Files_proofs` | theorems | `Files` and `GuestStreams`, whose names are apart |
| `GuestTime_proofs` | theorems | `GuestCond` and `TimePage`, whose names are apart |
| `InputSound_proofs` | theorems | `InputQueue`, `Mixer` and `WatchLoop`, whose names are apart |
| `LifeCycle_proofs` | theorems | `LifeCycle`, `ElfLoader` and `Jni`, whose names are apart |
| `MC...` | instances for TLC | the module of that name |

`PROJECT.json` maps every definition to the lines it stands for. Operators whose
name has an underscore and a word after it (`Unlock_NoDepth`, `Expired_Always`)
are the faulty forms of an operator: a plausible slip that some property must
notice. They are in no specification.

### Grain and correspondence

*GuestMutex.* One action is a read or a write of the guest word, a call into the
token table, or one critical section of `GuestMutex::state_`. `mutex_for` is
`LoadToken`, `CreateToken`, `StoreToken`; nothing holds the three together, and
nothing does in the code. `pthread_mutex_lock` is `TryLock`, then `EnterLock`,
`asleep`, `Recheck`. `owner[k] = NoThread` stands for `held_ == false`. `inside`
is a history variable: whose lock succeeded and was not released. It is what the
guest believes, and mutual exclusion is said of it and not of `owner`, of which
it would be trivially true. The guest may do anything a correct program may:
lock in any order, release a mutex another thread holds, destroy a mutex nobody
uses and initialise it again. A woken thread is `woken` until it looks.

*GuestCond.* The mutex is `GuestLock` itself, since `GuestMutex` implements it.
`wait` unlocks **once** (`depth_` may stay positive), parks, and locks again; it may
be called without the mutex. `Unlock` is anyone's: it takes one level off whoever
holds the mutex, and does nothing to a free one. `capped` records that a sleep was
shorter than what was left to the deadline. `nest` and `due` are history variables:
how deep the caller held the mutex when wait was called, less the levels that others
let go of for it since, and who was asleep when signal was called. A wait returns
with the mutex `nest` deep, and once at least. A tick is a slice (1 ms).

*GuestEvent.* The event of the engine's neosmart library as it uses these thunks:
not under `src/`, marked external. It drives `GuestCond` the way a real program
does, so that "no event is missed" can be said.

*TimePage.* The reader's loads are a set `done`, not a program counter: with
`LoadsInOrder` a load needs all the earlier ones, without it only an earlier load
of the same word, which is what ARM promises when nothing but a branch stands
between. `published`, `settled` and `since` are history variables; `lag` counts
the sequence's increments since the first load.

*GuestThreads.* `Spawn` and `SpawnCall` are the look at the limit, outside the
lock; `Make` (or `MakeFails`) and `Start` are the two critical sections after it.
`Enter` is the clearing of the halt, so a halt asked for before is lost and only
`EndSlice` (the budget) ends the slice. `late` and `raced` are history variables:
the threads started after the shutdown took the list; two creators were between
the look and the push at once. The guest's lock is one lock, which any thread gives
back, with one condition: enough for a thread to wait for something that a stopped
thread took along (`"wait"`), or for a signal that nobody is left to give (`"asleep"`).
`Blocked` is either; neither wait looks at the stop. A wait with a deadline is cut to
slices by itself and is part of the thread's own.

*LifeCycle.* `stage` is where main is in `run`. In the stages of `Calling` main is
inside guest code and is thread 0 of `GuestThreads`: a constructor, a command or
an event may create threads, lock, or fail. `helpers` are the host threads that
run; a thread is stopped and joined in one step, since each looks at its flag many
times a second. `got` is a history variable: the commands the handler was called
for. `tardy` says that main's two hundred looks at the handler went by, `early`
that `run` returned before it started the engine. `~Env` joins once more.

*GuestHeap.* The heap is a record and each function of the C++ class an operator
from record to record; `Take` forgets whatever the allocator had left in a block
it hands out, because the guest may write there. A cell is 8 bytes. Searches go
down the lists as far as `SearchLimit`. `resize` is `ResizeLook`, `ResizeAlloc`,
`ResizeRelease`: three critical sections as in the code.

*GlOwnership.* Each look at `g_context_live` and each store of an EGL import is
its own action. `orderly` is a history variable: every GL call was made with a
surface, and nobody terminated the display. `single` tells the Switch, where a bind
can be refused, from Windows, where a thread takes a spare context at its first
call (`TakesSpare`) and keeps it (`kept`); how many could be made is free.

*DrawState.* A GL thunk runs under the GL lock and is one step. `mine` is the
thread's copy of bindings and attributes, `real` the same record in the context the
driver draws from, `bytes` and `indices` the copies of what buffers hold and
`store` the driver's. `told` and `outdated` are history variables and are the
property's exceptions: a thread one of whose calls was dropped, whose context
somebody else drew with, or whose buffer was deleted in use; a buffer that was
filled while copy and driver disagreed about which. `calls` counts only the calls
of a loader, or of a thread that is no longer `told`, and bounds them.

*InputQueue.* Main's round is `Poll` (one look at the controller), `PushNext` for
each event, `StartPump`, and then `Peek`, `Take`, `Handle` until the queue is
empty, a key has to wait or the guard is reached. `Peek` and `Take` are two
critical sections, as `input_next_is_key` and `input_take_next` are. A place of
a stick or a finger is as wide as the move that is not reported (`Near`), so that
`Counts` is what makes an event; `polled` is what `gamepad_poll` compares its next
look to and `reported` what the last event said: the same of buttons and sticks, of
a finger only that it touches. `gestures` counts what the player did. `Type` is
whoever else pushes. `Handle` is the engine's handler with its calls of the
accessors: `seen` is what it was told of each control. The handed-out event is
one record (`hand`): the ring of 64 in the code is written by the pump alone, and
the handler returns before the next. `spacing`, `slipped` and `overflowed` are
history variables.

*Mixer.* One call of the mixer is one action, since it is one critical section;
`audio_render` is one too. `PlaySound` and `AddChannel` are the two halves of playSound;
`LookUp` and the setters are those of the other thunks. `moved` says that the table of
channels may have moved under a thread that holds a pointer into it: what the thread
finds is then any voice. `Loop` of a sound is free at each play, since Sound::setMode
may change it at any time. A stream is two numbers, the decoder's place and the frames
decoded ahead; `Filled` is the loop that runs the decoder. `Rate` is the step of a clip
at the rate of its recording, `Steps` are the frequencies it may be given, clips shorter
than a step included. A loop then runs away from its clip, by more at each frame: `Back`
stops its position at `Horizon`, beyond every position that is told apart from another.
`channels[c].play` is a history field: the age of the voice it was for.

*Files.* `HostOpen` is the host's fopen, `AddFile` the table's lock, and for
`fopen` the rest is `FoundObject`, or an object from the glue's region: `LoadNext` and
`StoreNext` are the two accesses to its bump pointer, by any number of threads, for
strings and arrays of JNI and for strerror as well as for a FILE, and `ListObject` the
table's entry; `NoRoom` is the other way out. `raced` is a history variable: a pointer
was stored that was not loaded last, so two callers have one object. What follows is
modelled on: the first entry of an object is what `fd_for_guest_file` finds.
`rename` is two calls of the host, `t_rename` and `HostRename`, the second of which may
be `refused`. `Alone` is what the guest is taken to do: it opens no file that it is
writing, and removes none that is open. The engine's
protocol of a save (`stage`) is the one lines 381-385 tell; it goes on whatever a
rename answers. `saved` is what the save tree has under a name: nothing, something
not closed, or the number of a whole save. `held` is what the guest believes it
has open; a file that `NoRoom` left open is not in it. `committed` and `clobbered`
are history variables. The end of the process loses what is in memory; that the
host writes closed files is taken for granted, so the power failing is left out.

*Library and below.* One call at a time: `call` holds what was asked and what came back,
and the next step forgets it. Each component is pure operators, the C functions by name,
from inputs to results; `Library` gives them every input of a small set and states what
the result must be by a definition of its own: slots of the procedure call standard for
formats, functions on addresses for strings, a file with an offset for streams,
arithmetic for divisions. What keeps state from one call to the next is a step at a
time, in the four modules that follow. Characters, pixels and instruction encodings are
named or counted, not spelt. `str` is the copy that `Memory::str` makes, of `MaxString`
characters at most, where a function works on one; the limits on names, formats and
printed texts are left out. `WordSpan` is the number of words in 32 bits of address, at
which the counts of the wide memory functions wrap. Branch offsets and register numbers
of the emitted routines are the code's own.

*GuestStreams.* An open file remembers too, and each call on it is a step of its
session: how it was opened, the stream `f` (the bytes, where it stands, what was put
back, the end-of-file mark, and `last`, by which `defined` tells what C promises), the
byte fgetc gave last, what was asked and what came back. `StreamSpec` is what the
sessions look like from the file's side. `FileCall` is the abstract file, from bytes and
an offset; `FileOf` maps the stream to it.

*ElfLoader.* The image is read as it is loaded: each segment, symbol and relocation, the
end of the segments with the dynamic section, and each of the host's tables is a step.
`call.image` is what has been read, `call.l` what `load` keeps (`hi`, the two
allocators, `imports_`, `data_imports_`, `exports_`, the thunks' names, memory), and
`call.l.error` ends a load that fails. `LoadSpec` is what the program looks like from
the loader's side. The steps read images that a linker writes (`InOrder`, `OneMeaning`,
`Patches`): segments in order and apart, no name that is both defined and imported, or
imported as two things, and no word relocated twice.

*Jni.* Java remembers, so its part of `call` is a session that each call
makes longer by a step: the calls, their answers (`got`) and Java after them.
`members`, `strings`, `arrays`, `copies` and `mem` are the vectors of `jni.cpp`,
`g_string_bytes` and the glue's region; `made` is the map inside `gamepad_field`.
A token is its kind and its number, and the engine may pass any, also one that it
never was given. `JavaSpec` is what the sessions look like from Java's side,
whatever else the program is asked between them.

*WatchLoop.* A run of the loop is a session too: its first round begins with a reading
of the clock, and every iteration of a loop inside the round is a step. The loops for
buttons and those for fingers are one model with two hands: `done` is `pressed` and
`tapped`, `held` is `release_press` and `release_at`, `at` the counter of the loop under
way. An erased entry leaves `at` where it is, as the code does with `r`. `clock[i]` is
the second at which round *i* began, `got` what was pushed so far. A button, a finger or
a character is its place in what the command line scheduled. `ScheduleIsPlayed` is said
at the end of a round, when the loop sleeps, and against the schedule and the clock
alone. `WatchSpec` is what the program looks like from the loop's side.

## 3. The runs

| run | question | answer |
|---|---|---|
| `mutex` | one holder, no lost wakeup, a lock to the guest, nobody left asleep | holds |
| `cond` | honest timeouts, the mutex given up and got back though anyone may unlock it, signals that find a waiter | holds |
| `event` | is an event ever missed, told early, or waited for beyond its deadline | no |
| `time` | does a reader get one instant, do seconds go back, does a stopped clock strand a reader | holds where loads keep their order |
| `threads` | is there room for every thread, does the engine get its commands in order, does what threads use outlive them, does a stop get through | yes, but for what `raced`, `tardy`, `early`, `late` and `Stranded` (asleep for a lock or a signal) name |
| `heap` | tags, lists, accounting, and an allocator to the guest | holds |
| `gl` | one thread in the driver, with a context, served if it owns GL, and back again | holds in orderly programs; `DriverHasContext` in all |
| `draw` | do copies and driver agree, do draws stay inside their buffers, and lose nothing they have a right to | holds, but for what `told` and `outdated` name |
| `library` | formats, strings, numbers, streams, emitted routines, scheduled input, uploads and shaders, the loaded image, Java's strings and arrays: each against its definition | holds on the inputs the code handles; the findings name the others |
| `input` | bounded queue, keys apart, the engine believes what was reported, and learns what the player does | holds, unless the queue overflows, or a finger creeps (`Creeps`) |
| `files` | handles that lead to their file, objects reused, a committed save that survives | holds, but for a rename that moves nothing (`clobbered`) and two threads in the bump pointer (`raced`) |
| `sound` | right handles, loops not cut, samples inside their clip, sounds that end | holds while a device is open, but for loops that `Overshoots` names |

No run expects a violation. Where the code and its words part, the property that
holds excuses the case by name and a finding in `PROJECT.json` describes it.

### Bounds, and why they are enough

- *mutex*: 3 threads (a holder, a sleeper, a newcomer that overtakes it), one
  object, depth 2, two tokens so that it can be destroyed and made anew.
  `Destroy` keeps a token in reserve, so the bound never blocks an init.
- *cond*: 3 threads (waiter, second waiter, who signals or unlocks for them), depth 2,
  deadlines 0 to 2 ticks: past, exactly a slice, and cut to a slice. Symmetric in
  threads; its action properties are too.
- *event*: a waiter without and one with a deadline, a setter that comes or
  stays away, an initialised or a static condition, two spurious wakeups at most.
- *time*: the sequence word wraps at 4 for 2^32; a second has 4 ns and a
  microsecond 2, and time stops at 5, so that updates cross a second, a
  microsecond, or neither. One reader: readers do not touch each other's state.
  `BumpSeq` excludes one thing: a reader suspended between two loads for a whole
  round of the sequence word, over four days.
- *threads*: limits of 3 for 16, and four ids, one more than the limit, so that it
  can be overrun; one command for eight: that it comes once, at its place among the
  stages and before the watch, is checked, and the theorem is about any number of them.
  The program ends, so deadlock is not checked.
- *heap*: 12 cells, wants of 1, 23 and 33 bytes (2, 3 and 5 cells): blocks that
  split, that are too small to split, that merge on both sides, that reach the
  tail, and an arena that is exhausted. Two bins and a search of two, so that a
  list is longer than the search.
- *gl*: one thread that draws and owns the surface, one that loads; the Switch and
  Windows, the latter with one spare context or none, so that a thread may find
  them used up. A program that terminates the display can block for good: deadlock
  is not checked.
- *draw*: one vertex buffer of one or two vertices and one index buffer of two
  units, so that an offset, an index or a buffer too small by one each leaves the
  buffer; an index is one unit, or two as for `glDrawArrays`' guess; one attribute,
  which is also the overlay's; one deletion. The loader makes one call and a thread
  whose copy went wrong one more: enough to move the owner, the binding or the data
  under the other. Those bounds end some behaviours, so deadlock is not checked.
- *library*: formats of four conversions (two registers' parity, the border to the
  stack, its padding); scans of three directives over three characters; an arena of 6
  bytes with lengths to 4, so that every cut at its end happens; copies of three
  characters for 4096, and twelve words for 2^30, with counts just at and above; five
  calls on a file of three bytes with a newline between them, where a read, a write, a
  byte put back and a seek past the end each meet another; memset to 40 bytes at four
  alignments in base-4 words (the code's blocks of 32 and 4 bytes are counted, not
  scaled); words of 8 bits at their borders, double words made of them; text of four
  digits and signs to bases 10 and 16, past what a word holds, with the host's long of
  one word and of two; a character of every class; six rounds of the watch loop over
  every clock of three seconds, with texts up to two characters, two buttons and two
  fingers that are held two rounds: two that are let go of in one round, one after the
  other, and room behind for a round in which nothing is left; shaders of four chunks;
  images of two segments, one of which may end past the limit, three symbols and two
  relocations; four Java calls with a region of twelve bytes: room for the controller's
  array, or for two strings, and for nothing after them.
- *input*: a button, a stick and a finger, so that an event may be held back behind a
  key or not; places 0 to 3, so that a finger goes down, creeps beyond what a move is
  and jumps; three gestures; a queue of three, so that it overflows before the engine
  has its handler; two events a pump, a gap of two ticks, one event of the other thread:
  enough to come between `Peek` and `Take`.
- *sound*: two threads, two plays, a limit of one voice before System::init and of two
  after it: a first play, a free slot, a new slot, a sound taken, a play refused because
  all loop. An effect of two frames, a stream of two, a stream that does not open; two
  frequencies, of which one takes three frames at a step, more than a clip has;
  positions at the start and at twice the length; a horizon of 7, the least the
  assumption allows, which nothing that is told apart lies beyond. A buffer is one
  frame: what happens in a longer one is what happens in several. One thread at a time
  is between looking a channel up and using it: two would touch each other only through
  the voices.

- *files*: two threads, two slots, room for two FILE objects, so that slots are
  reused with and without an object, by two threads at once, and the room runs out,
  what JNI allocates included; three saves and two crashes: a save, one that a crash
  or a refused rename interrupts, and the next over what it left. A run is not followed beyond the step that makes `raced` true (`Promised`): it never
  becomes false, and nothing is claimed after it. Runs that end there are no deadlock, so
  deadlock is not checked.

### Fairness

The host schedules its threads: a thread that can step inside a thunk does (WF on
thunk steps). A lock that is released again and again is got in the end (SF on
acquiring it in `GlOwnership`): host mutexes make no formal promise of this, and
only `ImportsReturn` needs it. A slice has a budget of instructions, so it ends
even if the guest goes on creating threads and locking (SF `EndSlice`), and with it
ends a call by main once the guest has failed (SF `CallReturns`); the watch loop
ends with its time (SF `LeaveWatch`); main's other steps are its own (WF).
Time passes (WF `Tick`, through
`Clock` in `GuestEvent`). Main goes round its loop and the
engine's handler returns (WF `Main` in `InputQueue`); the device takes buffers and
the feeder gets the mixer's lock, held for a few lines by everybody else (WF `Feed`
and `Render` in `Mixer`). No fairness is assumed of the guest: it need not call, nor
release what it holds; spurious wakeups need not come.

## 4. What is proved

The proof modules follow one scheme: an inductive invariant, one lemma per
action, one step per conjunct the action can disturb, and a PTL step.

**`GuestMutex_proofs`**, from `MutexAssumption` and `Threads`, `Objects` of any
size. `MutualExclusion` is not inductive: that a second thread does not get in
depends on it having come to the same host object. `IInv` adds: who holds a
token is who is `inside` the object (for initialised ones), a thread in a thunk
has the token its object's word has, tokens in words are below `made` and
different, and a free token with sleepers has somebody awake. From it follow
`TypeCorrect`, `MutualExclusionHolds`, `NoAliasingHolds`,
`NoStrandedSleeperHolds`, and `ImplementsLockHolds`: every step of the thunks is
a step of the abstract lock or a stutter.

**`GuestTime_proofs`**, of `GuestCond`, for threads and conditions of any number and a
lock taken any number of times. Its three properties speak of a step, and each step is
justified by what an earlier one left: `Locking` says how a thread stands to the mutex
in each part of a wait (a wait gives up one level of a lock, so a thread that holds it
twice sleeps with it, until others have let go of what `nest` no longer counts), from
which follows `WaitRestoresLockHolds`; `Clocks` that a sleep not cut to a slice does not
end before its deadline, hence `TimeoutIsHonestHolds`; `TokensUnique` and `InitAlone`
that a signal looks where the waiters of its condition sleep, hence
`SignalReachesHolds`.

**`GuestTime_proofs`**, of `TimePage`, from `TimeAssumption`, for any number of readers
and any even `SeqMod`. With `LoadsInOrder`, the invariant ties what a reader has loaded
to the number of increments since: while `lag` is 0 the fields it loaded are those of
the settled instant, and once it is more the second load cannot equal the first, since
fewer than `SeqMod` increments have been. `ClockReadsOneInstant` follows. Without
`LoadsInOrder` the claim is false: TLC finds the two instants within seconds when run
`time` is given `LoadsInOrder = FALSE`. `SecondsNeverGoBackHolds` needs no order of
loads: the seconds in the page never decrease, and no reader has been told more than
they are (`SecondsInv`).

**`LifeCycle_proofs`**, from `SizesAgree`: the monitor has at least as many places as
pthread_create allows threads, and the arena at least as many stacks (in the code
each is sixteen by default). `Fits` says what a thread between the look at the limit
and make_thread still knows of their number when nobody raced, which is
`RoomUnlessRacedHolds`. `Told` follows the commands through the stages of main:
`EngineIsToldHolds`. `Accounted` says in which of the lists each running thread is
(the group's or the one that `join_all` took; what the group's has afterwards is `late`),
and which helpers a stage may still have: `NobodyOutlivesTheArenaHolds`.

**`LifeCycle_proofs`**, of `Jni`, from `JniAssumption` (the region does not begin at
address 0; Java answers with text and words) and `SessionAssumption` (what a call is),
for any calls, any number of them and a region of any size. `EngineCanTrustJava` speaks
of every answer of a session at its end. What makes it inductive, `SessionInv`, says of
every map Java keeps which call put each entry there: a member is one that was asked for
under that number (`MembersAsked`), strings and the calls that made them are one to one
(`StringsMade`), an array was read through a member of its name (`ArraysRead`,
`ArraysMade`, `ArraysAnswered`), and a pointer is the copy of its token
(`PointersKept`). Of the region, `CopiesKept` says that each copy lies below `next` and
shows its text or words: a new copy begins at `next` or above, so no other copy changes
(`CopyLeaves`, `CopyStays`), and no two have one address (`CopyIsBelow`). That a refusal
means a full region survives every later call because `next` only grows (`FullStays`).
Each call's `Outcome` is one lemma (`Dispatched`), and what a call leaves as it was is
another (`OutcomeGrows`).

**`LifeCycle_proofs`**, of `ElfLoader`, from `LoaderAssumption` (the image's region, the
trampolines and the imported objects lie one after another, aligned as the allocators
align) and `ImageAssumption` (what an entry of an image is), for any image, any regions
and any tables. `LoadedImageIsLinked` speaks of the image at the end of a load; its
invariant, `WellLoaded`, of every step. `InMemory` says what has been written: the words
of the segments and one trampoline for each name, with its number. `SegmentsApart` and
`EndsAtHi` say that the image ends below `ImageLimit` once the segments are read, so no
trampoline is a word of the image. `Patching` then holds when the tables are bound as it
did when a relocation was applied: a word no relocation names is the file's, another is
`Meant`, and neither a later relocation, which names another word, nor a table touches
it. `Imported` says which of the three a name was given, and `ThunksInRoom` that the
number in a trampoline leads back to the name; with `TablesIn`, that the last table put
in wins, this is what `CallSVC` finds. The regions are filled from the left with no room
between (`BumpAlloc` skips less than an alignment), so a load that finds none has the
reason `HasReason` asks for.

**`GuestHeap_proofs`**, for arenas, lists, bins and requests of any size and any number
of threads. `HeapIsSound` walks the heap from header to header, and what a call leaves
cannot be read off a walk. The invariant is about the set of `Blocks` instead: they tile
the arena from the base to the top (`Tiles`), their headers tell the truth of their
neighbours (`Tags`), no two free ones touch (`Apart`), and the bins thread the free
ones, each in the bin of its size (`Lists`). Tilings and lists are proved about
separately. A split, and each of the ways in which a release joins its neighbours,
replaces what lies between two ends of blocks (`MergeTiles`, `SplitTiles`, `CutTiles`,
`GrowTiles`), and a list changes by one block at a time. That the recursive walk returns
the set that the lemmas speak of (`BlocksAre`) is the definition of a function over a
finite climb (`Climbs`), not an induction over data. `OwnedInv` relates the used blocks
to the guest's and counts their cells, for `live()`. `ResizesInv` is what a thread
between two critical sections of `resize` may rely on. `ImplementsAllocatorHolds`: every
step of the heap is a step of `GuestAllocator` or a stutter, so what the guest holds is
as large as it asked, inside the arena and apart.

**`GlOwnership_proofs`**, from `GlAssumption`, for any threads, any of which may make
and destroy the surface, on both platforms and with any number of spare contexts.
`DriverHasContext` is inductive but for types, and holds of every program: a step
that takes a thread's context is that thread's own, and not one it makes in the
driver. `DriverUnderLock` and `OwnerIsServed` need `Bracket` (in an orderly program
whoever is past `Enter` has the lock, and whoever is in the bracket a surface) and
`Intact` (a surface has its context, nobody is about to destroy it, no context has
been deleted); without the first a thread could come into the driver by `EnterEarly`,
without the second an owner could be refused though it was served before.

**`DrawState_proofs`**, from `DrawAssumption`, for any threads, attributes, buffers and
data and any number of frames. `CopiesAgree` is inductive with the types: a copy and
the context it copies change in the same step or the thread is no longer `told`.
`DrawsStayInsideHolds` and `NothingCorrectIsLostHolds`, what the guard lets through
and what it stops, need `Known` as well: of a buffer that is not `outdated` the
thunks know its size or its indices, and a largest index they remember
for a range is that range's.

**`Files_proofs`**, for any threads, names and number of files, saves and crashes.
`HandlesMatchTableHolds` needs to know of every slot who has it: `SlotsHaveOwners`
(a slot is that of one handle, or of one thread between the two halves of fopen) and
`ObjectsLead` (a FILE object and its slot lead to each other), and of every object on
its way from the bump pointer to a slot that it is one thread's and new
(`ObjectsAreNew`). That holds until two threads were in the bump pointer at once; the
invariant is `raced \/ ...`, and `raced` stays. `SaveSurvivesHolds`
needs what is on the disk under each of the three names in every stage of a save and
after a crash in it: who may have the new file open (`SaveIsWritten`), which rename a
stage has under way (`SaveIsRenamed`), and that a slot without a file has a backup at
least as new as the last commit, but for the losses named in section 5 (`SaveIsWhole`).

Of `GuestStreams`, from `StreamAssumption` (what a file holds and what a call is) and
`StringsAssumption`, for any file, any calls and any number of them. `OpenFileIsAFile`
says of every step of a session that the call gave, and left behind, what it would on a
file of bytes with one offset. A stream has two things such a file has not, and
`Simulates` says what they are worth: a byte that was put back is the one that stands at
the offset (`BackIs`), and the byte the caller may put back is the one before it, with
nothing put back yet (`HandIs`); so what there is to read is always the file from its
offset on (`RestIs`). Every call is one lemma (`ServedRead` to `ServedUngetc`); a line is
the longer argument, since `std::fgets` looks for the newline before it reads and the
file is read first and then cut (`LineIs`). The proof does not use `defined`: with the
host's FILE of the model a program that does not seek between reading and writing is
served too, but C promises it nothing and the property does not claim it.

**`InputSound_proofs`**, of `InputQueue`, from `InputAssumption`, for any finite sets of
controls, any places, any capacity of the queue and any number of gestures and typed
characters. `QueueIsSound` speaks of the quiet moments, and at all times of what the
next look is compared to (`Remembers`). `WillBelieve` says of every moment what makes
them right: the last event of a control that is on its way - in `gamepad_poll`'s hands,
else in the queue, else in the handler's hands, else what the engine was told - is what
was reported of it. That needs the order of the queue, and that `Poll` starts only when
nothing is left to push. `KnownKeysAreSpacedHolds` rests on `Paced`: the pump's clock is
never ahead of the time since the last key, while no key slipped through untimed.

Of `Mixer`, from `MixerAssumption`, for any finite set of threads, any sounds, lengths,
frequencies and limits, and any number of frames in a buffer and of plays.
`ChannelFindsItsSound` is not inductive: between the two halves of playSound the play a
channel will be made for is known to its thread only, and another thread may take the
voice meanwhile. `ChannelsKnow` says that a channel, and a thread about to add one, knows
the voice its play was given, and that nobody else's voice has that play; `Evolves` is
the fact of every step it rests on, that a voice keeps its play, falls quiet, or is given
a play nobody had. `Counted` (no play without a channel, added or about to be) bounds the
plays, and `Bounded` the voices, by the larger of the two limits there have been.
Rendering and decoding are recursive functions; what is needed of them is of one
execution (`FrameIs`, `Walks`, `Fills`: a finite climb, the decoder by
its distance to enough or to the end of its file).
`LoopsGoOnHolds` follows from `SlotForIs`, that the voice for a new sound is quiet, new, or
a one-shot's, and `ReadsInsideClipHolds` from `MixedIs`, the last frame that a buffer
reads of an effect. Frequencies are any, steps longer than a clip included. What is
claimed of a loop is claimed until it leaves its clip by more than the one length the code
takes off (`Overshoots`): by a position of twice the length, or by such a step. `Horizon`
bounds positions only; the assumption that twice a length and a step do not exceed it is
what keeps a loop that is outside of it apart from one that is inside.

Of `WatchLoop`, from `WatchAssumption`, for any texts, schedules and clocks, a finger
held any positive number of rounds, and any number of rounds. `ScheduleIsPlayed` speaks
of the end of a round, and most of a round lies between. `Played` says at each step what
one entry has come to - not begun (`NotYet`), down (`StillHeld`) or up again (`LetUp`) -
and how often each kind of event has been pushed of it; `LookedAt` and `PassedAt` count
the rounds in which the loops have come past the entry and past its place among what is
held. At the end of a round both are the rounds there were, and `Played` is what the
schedule asks for (`PlayedIsOnTime`). Erasing an entry moves those behind it one place
down while the loop stands where it stood, so each of them is still ahead of it, and
those before keep their places (`SamePlace`). `TextTold` is the same for the text, and
`DownThenUp` the order.

**Only model-checked.** All liveness (`EveryoneFinishes`, `StoppedClockStillReads`,
`StopEndsEveryThread`, `ImportsReturn`, `PlayerIsSeen`, `SoundEnds`), because TLAPS does
not reason about fairness here. `GuestEvent`, the engine's use of the two primitives. Of
the library `FormatsFindTheirArguments`, `StringsAreC`, `RoutinesAgree` and
`DriverGetsItsData`: what a fold or a recursive operator computes over a string or a
format is an induction over data, which is out of the prover's reach. That `Library`'s
behaviours are among those of `JavaSpec`, `LoadSpec`, `StreamSpec` and `WatchSpec` is
plain from its next-state relation, and not proved because the module has recursive
operators.

## 5. Where the code and its words part

Each of these is a finding in `PROJECT.json`, with both lines; none has a run of its
own, and the property next to it is stated so that it holds.

- Threads: neither a wait for a mutex nor an untimed wait for a condition looks at the
  stop, so a thread in one is joined for ever (`Stranded`); two first uses of a static
  mutex at once are inside together, and a static condition has the same race
  (`MutualExclusion` and `SignalReaches` speak of initialised ones; `event` uses a
  static condition under its mutex, which is safe); what pthread_create stores for a
  thread is what pthread_self answers in another; the second caller of pthread_once is
  told it is done while the first still runs.
- Clock and exit: the reader of the clock page relies on an order of loads that ARM
  does not keep; early returns of `run` leave the clock running when the arena goes
  (`early`); a comment says zero where `kFingerHeldTicks` is twenty rounds.
- GL: the halves of the bracket look at the surface each for itself; the draw guard
  calls the driver without `ready()`; `glDrawArrays` is guarded by indices it does
  not use; a draw whose indices lie outside the element buffer is reported and goes
  on; the overlay does not restore its attribute, tests and blending; staged rows
  have no padding for GL_UNPACK_ALIGNMENT; a `highp` loop counter is not repaired,
  nor one behind the words `for (` in a comment.
- Files and memory: rename deletes its destination before it knows that it can rename,
  which after a crash between the two renames of a save, or when the host refuses one,
  costs the only save (`clobbered`); the memory of FILE objects, of JNI's strings and of
  strerror comes from a bump pointer without a lock, so that two files may have one
  object (`raced`); flags of `open` that no mode of fopen means; `fwrite` and `lseek`
  answer success whatever the host said; malloc of the last seven sizes wraps.
- Input and sound: a key pushed between `Peek` and `Take` is not paced; a finger that
  moves a pixel or less between two looks is not reported, however far it gets
  (`Creeps`); a looping effect put beyond twice its length, or played at a frequency that
  takes more of it in a frame than there is, is read outside its samples
  (`Overshoots`); a pointer into the
  table of channels is used after the lock is gone; without a device sounds never end.
- Numbers and strings: what works on a copy of its text (strcoll, strxfrm, strcasecmp,
  basename, atoi, strtoll) sees 4096 characters of it; counts of wide characters wrap 32
  bits, so that wmemcpy of 2^30 copies none and wmemset goes round; `wcsxfrm` leaves a
  string that is cut, or just fits, without its end; `strtol` cuts a number the guest's
  long cannot hold where it should saturate, on hosts with a longer long; the least
  double word by -1 traps on some hosts.
- Loader and formats: a weak import is never null; `%jd` and `%n` of sscanf store
  four bytes whatever they were asked for.

Others were read, and the properties leave them out by name:

- A file that there is no room to make a FILE object for stays open in its slot.
- Appending to a file that only the extracted tree has starts an empty one.
- Creators that race pass the limit of sixteen together (`raced`).
- With `--threads` below 16 the monitor is smaller than pthread_create's limit:
  `RoomUnlessRaced` fails at once when `MaxThreads < SpawnLimit`.
- A thread started in the last slice of another is not joined by `run` (`late`).
- `eglTerminate` during a GL import leaves the lock taken (`orderly`).
- On the Switch `eglMakeCurrent` moves ownership though the driver refused.
- Java answers with a look at `g_strings` that it uses after the lock is gone; a
  session is the calls of one thread at a time, where nothing comes in between.

## 6. Not modelled, and why

- *The guest's machine code and the recompiler.* External; what the engine does is
  modelled where a component is driven by it (`GuestEvent`, the save of `Files`).
- *Pass-through thunks.* Some hundred and eighty GL thunks, mathematics, strcmp and
  its like hand their arguments to the host function of the same name; there is no
  state or control of this program in them. The same goes for
  what the host does with digits in formatting.
- *The GLSL translation of Windows, frame captures, getters.* Text to text, or
  reading only.
- *Directories, stat by name and mkdir; loading of sounds and their level.* They
  change no state the modelled operations read, but for what is on the disk.
- *Log, crash reports, stall watch, GL watchdog.* They read state and print it, and
  end the process at most; that the two watches end before what they read does is in
  `LifeCycle`.
- *Generated thunks and stb_vorbis.* Generated and vendored.
- *The looper and AInputQueue thunks.* The engine never attaches them.

Sizes in `GuestHeap` are those that do not wrap 32 bits. Misuse by the guest (double
free, unlock of a destroyed mutex) is not an input.

## 7. Plan

Done: every module of section 2, and the proofs of the ten components of section 4:
every safety and action property that a run checks is a theorem, except the four of
the library named there. The liveness properties stay with TLC.
