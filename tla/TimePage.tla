------------------------------- MODULE TimePage -------------------------------
(***************************************************************************)
(* The clock page (src/src/guest_code.cpp, build_clock and publish_once).  *)
(*                                                                         *)
(* A host thread publishes the time into guest memory every 200us; guest   *)
(* threads read it with a dozen ARM instructions and no call into the      *)
(* host.  The page is a seqlock: a sequence word, odd while the fields are *)
(* being written, then seconds, nanoseconds and microseconds.              *)
(*                                                                         *)
(* One action is one load or one store of a word.  Init, Next, Spec and    *)
(* vars bear the page's name here: GuestTime_proofs extends GuestCond too. *)
(***************************************************************************)
EXTENDS Naturals

CONSTANTS
  Readers,      \* guest threads
  PerSec,       \* nanoseconds in a second
  PerUsec,      \* nanoseconds in a microsecond
  SeqMod,       \* 2^32: the sequence word wraps to 0 there
  MaxNs,        \* bound on the time
  LoadsInOrder  \* TRUE on x64; on AArch64 two loads of different words
                \* with no barrier between them may be done in any order

ASSUME TimeAssumption ==
  /\ PerSec \in Nat \ {0} /\ PerUsec \in Nat \ {0}
  /\ SeqMod \in Nat \ {0} /\ SeqMod % 2 = 0
  /\ PerSec \div PerUsec \in Nat \ {0}
  /\ MaxNs \in Nat
  /\ LoadsInOrder \in BOOLEAN

Sec(n)  == n \div PerSec
Nsec(n) == n % PerSec
Usec(n) == (n \div PerUsec) % (PerSec \div PerUsec)

Calls == {"clock_gettime", "gettimeofday", "time"}

(* The loads of the two seqlock readers, in program order.                 *)
Loads == {"seq1", "sec", "sub", "seq2"}

Before(x) == CASE x = "seq1" -> {}
               [] x = "sec"  -> {"seq1"}
               [] x = "sub"  -> {"seq1", "sec"}
               [] x = "seq2" -> {"seq1", "sec", "sub"}

(* What must be loaded before x.  Two loads of one word keep their order   *)
(* on every machine; a test and a branch between two loads order nothing.  *)
Needed(x) == IF LoadsInOrder THEN Before(x)
                             ELSE {y \in Before(x) : x = "seq2" /\ y = "seq1"}

VARIABLES
  seq, sec, nsec, usec,  \* the page
  ns,        \* the time the writer sampled last
  writer,    \* what publish_once does next
  settled,   \* the time that was settled on the page last
  published, \* every time that was ever settled on it
  call,      \* Readers -> the routine the reader is in, or "none"
  done,      \* Readers -> the loads of this attempt that were performed
  s1,        \* Readers -> r3, the sequence it saw first
  s2,        \* Readers -> ip, the sequence it saw last
  gotSec,    \* Readers -> the seconds it loaded
  gotSub,    \* Readers -> the nanoseconds or microseconds it loaded
  lag,       \* Readers -> sequence increments since it loaded s1
  since,     \* Readers -> the time settled when it made the call
  last       \* Readers -> the seconds its last call returned

page       == <<seq, sec, nsec, usec>>
writerVars == <<page, ns, writer, settled, published>>
readerVars == <<call, done, s1, s2, gotSec, gotSub, since, last>>
pageVars == <<writerVars, readerVars, lag>>

Odd(n) == n % 2 = 1

Wrap(n) == IF n >= SeqMod THEN n - SeqMod ELSE n

InFlight == {r \in Readers : "seq1" \in done[r]}

Idle == writer \in {"sleeping", "stopped"}

-----------------------------------------------------------------------------
(* start_clock publishes once before any guest thread runs.                *)
PageInit ==
  /\ ns \in 0 .. MaxNs
  /\ seq = Wrap(2) /\ sec = Sec(ns) /\ nsec = Nsec(ns) /\ usec = Usec(ns)
  /\ writer = "sleeping"
  /\ settled = ns /\ published = {ns}
  /\ call   = [r \in Readers |-> "none"]
  /\ done   = [r \in Readers |-> {}]
  /\ s1     = [r \in Readers |-> 0]
  /\ s2     = [r \in Readers |-> 0]
  /\ gotSec = [r \in Readers |-> 0]
  /\ gotSub = [r \in Readers |-> 0]
  /\ lag    = [r \in Readers |-> 0]
  /\ since  = [r \in Readers |-> 0]
  /\ last   = [r \in Readers |-> 0]

(* A store of the sequence word.  No reader is suspended so long that the  *)
(* word comes round to the value it saw: that takes SeqMod / 2 updates of  *)
(* the page, more than four days.                                          *)
BumpSeq ==
  /\ \A r \in InFlight : lag[r] + 1 < SeqMod
  /\ seq' = Wrap(seq + 1)
  /\ lag' = [r \in Readers |-> IF r \in InFlight THEN lag[r] + 1 ELSE lag[r]]

(* A clock that may be set back.                                           *)
Begin_WallClock(n) ==
  /\ writer = "sleeping"
  /\ ns' = n
  /\ BumpSeq
  /\ writer' = "sec"
  /\ UNCHANGED <<sec, nsec, usec, settled, published, readerVars>>

(* publish_once: sample the clock, make the sequence odd, write the        *)
(* fields, make it even.  The release fences keep the stores in order.     *)
Begin(n) ==
  /\ writer = "sleeping"
  /\ n >= ns /\ ns' = n
  /\ BumpSeq
  /\ writer' = "sec"
  /\ UNCHANGED <<sec, nsec, usec, settled, published, readerVars>>

WriteSec ==
  /\ writer = "sec" /\ writer' = "nsec"
  /\ sec' = Sec(ns)
  /\ UNCHANGED <<seq, nsec, usec, ns, settled, published, readerVars, lag>>

WriteNsec ==
  /\ writer = "nsec" /\ writer' = "usec"
  /\ nsec' = Nsec(ns)
  /\ UNCHANGED <<seq, sec, usec, ns, settled, published, readerVars, lag>>

WriteUsec ==
  /\ writer = "usec" /\ writer' = "settle"
  /\ usec' = Usec(ns)
  /\ UNCHANGED <<seq, sec, nsec, ns, settled, published, readerVars, lag>>

Settle ==
  /\ writer = "settle" /\ writer' = "sleeping"
  /\ BumpSeq
  /\ settled' = ns /\ published' = published \cup {ns}
  /\ UNCHANGED <<sec, nsec, usec, ns, readerVars>>

(* The flag looked at in the middle of an update.                          *)
Stop_Anywhere ==
  /\ writer # "stopped" /\ writer' = "stopped"
  /\ UNCHANGED <<page, ns, settled, published, readerVars, lag>>

(* stop_clock: the loop looks at the flag between two updates.             *)
Stop ==
  /\ writer = "sleeping" /\ writer' = "stopped"
  /\ UNCHANGED <<page, ns, settled, published, readerVars, lag>>

Writer ==
  \/ \E n \in 0 .. MaxNs : Begin(n)
  \/ WriteSec \/ WriteNsec \/ WriteUsec \/ Settle \/ Stop

-----------------------------------------------------------------------------
Start(r, c) ==
  /\ call[r] = "none"
  /\ call'  = [call EXCEPT ![r] = c]
  /\ since' = [since EXCEPT ![r] = settled]
  /\ UNCHANGED <<writerVars, done, s1, s2, gotSec, gotSub, lag, last>>

(* What an attempt leaves behind when it is given up or over.              *)
Forget(r) ==
  /\ done'   = [done EXCEPT ![r] = {}]
  /\ s1'     = [s1 EXCEPT ![r] = 0]
  /\ s2'     = [s2 EXCEPT ![r] = 0]
  /\ gotSec' = [gotSec EXCEPT ![r] = 0]
  /\ gotSub' = [gotSub EXCEPT ![r] = 0]
  /\ lag'    = [lag EXCEPT ![r] = 0]

SubField(r) == IF call[r] = "clock_gettime" THEN nsec ELSE usec

(* One load of an attempt.                                                 *)
Load(r, x) ==
  /\ call[r] \in {"clock_gettime", "gettimeofday"}
  /\ x \notin done[r] /\ Needed(x) \subseteq done[r]
  /\ "seq1" \in done[r] => ~Odd(s1[r])
  /\ done' = [done EXCEPT ![r] = @ \cup {x}]
  /\ CASE x = "seq1" -> /\ s1'  = [s1 EXCEPT ![r] = seq]
                        /\ lag' = [lag EXCEPT ![r] = 0]
                        /\ UNCHANGED <<s2, gotSec, gotSub>>
       [] x = "sec"  -> /\ gotSec' = [gotSec EXCEPT ![r] = sec]
                        /\ UNCHANGED <<s1, s2, gotSub, lag>>
       [] x = "sub"  -> /\ gotSub' = [gotSub EXCEPT ![r] = SubField(r)]
                        /\ UNCHANGED <<s1, s2, gotSec, lag>>
       [] x = "seq2" -> /\ s2' = [s2 EXCEPT ![r] = seq]
                        /\ UNCHANGED <<s1, gotSec, gotSub, lag>>
  /\ UNCHANGED <<writerVars, call, since, last>>

(* The two backward branches: a write was in progress, or the sequence     *)
(* moved.                                                                  *)
Retry(r) ==
  /\ \/ "seq1" \in done[r] /\ Odd(s1[r])
     \/ done[r] = Loads /\ s1[r] # s2[r]
  /\ Forget(r)
  /\ UNCHANGED <<writerVars, call, since, last>>

Over(r, seconds) ==
  /\ call'  = [call EXCEPT ![r] = "none"]
  /\ since' = [since EXCEPT ![r] = 0]
  /\ last'  = [last EXCEPT ![r] = seconds]
  /\ Forget(r)
  /\ UNCHANGED writerVars

(* The same even sequence on both sides: gotSec and gotSub are the answer. *)
Agrees_AnyEvenPair(r) == done[r] = Loads /\ ~Odd(s1[r])

Agrees(r) == done[r] = Loads /\ ~Odd(s1[r]) /\ s1[r] = s2[r]

Return(r) == Agrees(r) /\ Over(r, gotSec[r])

(* time() is one load of the seconds.                                      *)
Time(r) == call[r] = "time" /\ Over(r, sec)

ReaderStep(r) ==
  (\E x \in Loads : Load(r, x)) \/ Retry(r) \/ Return(r) \/ Time(r)

PageNext ==
  \/ Writer
  \/ \E r \in Readers : ReaderStep(r) \/ \E c \in Calls : Start(r, c)

Fairness == \A r \in Readers : WF_pageVars(ReaderStep(r))

PageSpec == PageInit /\ [][PageNext]_pageVars /\ Fairness
-----------------------------------------------------------------------------
(* The page holds a time or the half of one, the sequence word is odd      *)
(* exactly while publish_once writes, and an attempt is a set of loads.    *)
TypeOK ==
  /\ seq \in 0 .. SeqMod - 1 /\ sec \in Nat /\ nsec \in Nat /\ usec \in Nat
  /\ ns \in Nat /\ settled \in Nat /\ published \subseteq Nat
  /\ writer \in {"sleeping", "stopped", "sec", "nsec", "usec", "settle"}
  /\ Odd(seq) <=> ~Idle
  /\ call   \in [Readers -> Calls \cup {"none"}]
  /\ done   \in [Readers -> SUBSET Loads]
  /\ s1     \in [Readers -> 0 .. SeqMod - 1]
  /\ s2     \in [Readers -> 0 .. SeqMod - 1]
  /\ gotSec \in [Readers -> Nat]
  /\ gotSub \in [Readers -> Nat]
  /\ lag    \in [Readers -> 0 .. SeqMod - 1]
  /\ since  \in [Readers -> Nat]
  /\ last   \in [Readers -> Nat]

(* guest_code.cpp 93-95: a reader that sees the same even sequence on both *)
(* sides returns the two fields of one instant that publish_once settled,  *)
(* and of none that was out of date when the guest made the call.          *)
ReadsOneInstant ==
  \A r \in Readers : Agrees(r) =>
    \E n \in published :
      /\ n >= since[r]
      /\ gotSec[r] = Sec(n)
      /\ gotSub[r] = IF call[r] = "clock_gettime" THEN Nsec(n) ELSE Usec(n)

(* Whichever of the three routines a thread calls, and though time() may   *)
(* read the seconds of an update that is not settled yet, the seconds it   *)
(* is told never go back.                                                  *)
SecondsNeverGoBack == [][\A r \in Readers : last'[r] >= last[r]]_pageVars

(* stop_clock leaves the page settled: guest threads that are still        *)
(* reading the clock after it get an answer and do not spin on an odd word.*)
StoppedClockStillReads ==
  \A r \in Readers :
    writer = "stopped" /\ call[r] # "none" ~> call[r] = "none"
=============================================================================
