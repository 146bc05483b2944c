-------------------------- MODULE InputSound_proofs --------------------------
(***************************************************************************)
(* Theorems about InputQueue, Mixer and WatchLoop: what the player does    *)
(* reaches the engine, what the engine plays reaches the player, and what  *)
(* the command line schedules for a player who is not there.  The three    *)
(* share nothing but this module.                                          *)
(*                                                                         *)
(* InputQueue, for any buttons, sticks and values, a queue of any capacity *)
(* and any number of typed characters: the queue is sound, and the keys    *)
(* pump_input knows of keep their distance.  That the engine believes what *)
(* was reported once all is quiet is not inductive.  WillBelieve says it   *)
(* of every moment: of a control the last event on its way - in            *)
(* gamepad_poll's hands, else in the queue, else in the handler's hands -  *)
(* is what was reported of it.                                             *)
(*                                                                         *)
(* Mixer and WatchLoop are introduced further down.                        *)
(***************************************************************************)
EXTENDS InputQueue, Mixer, WatchLoop, FiniteSetTheorems,
        SequenceTheorems, WellFoundedInduction, TLAPS

(* What gamepad_poll pushes, and what anybody does.                        *)
Reports == [control : Controls, value : Values]
Said    == Reports \cup [control : {Char}, value : {0, 1}]

InputTypes ==
  /\ TypeOK
  /\ todo \in Seq(Reports) /\ queue \in Seq(Said) /\ hand \in Said
  /\ pc \in {"take", "handle"} => rounds < Guard

Says(s, c) == \E i \in 1 .. Len(s) : s[i].control = c

SaysLast(s, c, v) ==
  \E i \in 1 .. Len(s) : /\ s[i] = [control |-> c, value |-> v]
                         /\ \A j \in i + 1 .. Len(s) : s[j].control # c

(* What the engine knows of a control once the handler returns.            *)
Knows(c) == IF pc = "handle" THEN Told(hand, c) ELSE seen[c]

OnItsWay(c, v) ==
  \/ SaysLast(todo, c, v)
  \/ ~Says(todo, c) /\ SaysLast(queue, c, v)
  \/ ~Says(todo, c) /\ ~Says(queue, c) /\ Knows(c) = v

WillBelieve == ~overflowed => \A c \in Controls : OnItsWay(c, reported[c])

(* A key that is about to be taken for one is in time; and while no key    *)
(* slipped through, the pump's clock is no later than the keys'.           *)
Paced ==
  /\ pc = "take" /\ isKey => ago = Gap
  /\ ~slipped => ago <= spacing

InputInv == InputTypes /\ WillBelieve /\ Remembers /\ Paced

-----------------------------------------------------------------------------
(* Facts about sequences of events.                                        *)
LEMMA AppendSays ==
  ASSUME NEW S, NEW s \in Seq(S), NEW e \in S, NEW c, NEW v
  PROVE  /\ e = [control |-> c, value |-> v] => SaysLast(Append(s, e), c, v)
         /\ e.control # c => /\ Says(Append(s, e), c) <=> Says(s, c)
                             /\ SaysLast(s, c, v) => SaysLast(Append(s, e), c, v)
  <1> DEFINE a == Append(s, e)
  <1>1. /\ Len(a) = Len(s) + 1 /\ a[Len(s) + 1] = e /\ Len(s) \in Nat
        /\ \A i \in 1 .. Len(s) : a[i] = s[i]
    BY AppendProperties
  <1> HIDE DEF a
  <1>2. ASSUME e = [control |-> c, value |-> v] PROVE SaysLast(a, c, v)
    <2>1. Len(s) + 1 \in 1 .. Len(a) /\ Len(s) + 1 + 1 .. Len(a) = {}
      BY <1>1
    <2> QED
      BY <1>1, <1>2, <2>1 DEF SaysLast
  <1>3. ASSUME e.control # c PROVE Says(a, c) <=> Says(s, c)
    BY <1>1, <1>3 DEF Says
  <1>4. ASSUME e.control # c, SaysLast(s, c, v) PROVE SaysLast(a, c, v)
    <2>1. PICK i \in 1 .. Len(s) :
            /\ s[i] = [control |-> c, value |-> v]
            /\ \A j \in i + 1 .. Len(s) : s[j].control # c
      BY <1>4 DEF SaysLast
    <2>2. i \in 1 .. Len(a) /\ a[i] = [control |-> c, value |-> v]
      BY <1>1, <2>1
    <2>3. ASSUME NEW j \in i + 1 .. Len(a) PROVE a[j].control # c
      BY <1>1, <1>4, <2>1
    <2> QED
      BY <2>2, <2>3 DEF SaysLast
  <1> QED
    BY <1>2, <1>3, <1>4 DEF a

LEMMA TailSays ==
  ASSUME NEW S, NEW s \in Seq(S), s # <<>>, NEW c, NEW v
  PROVE  /\ SaysLast(s, c, v) =>
              \/ SaysLast(Tail(s), c, v)
              \/ ~Says(Tail(s), c) /\ Head(s) = [control |-> c, value |-> v]
         /\ ~Says(s, c) => ~Says(Tail(s), c) /\ Head(s).control # c
  <1> DEFINE r == Tail(s)
  <1>1. /\ Len(s) \in Nat \ {0} /\ Len(r) = Len(s) - 1 /\ Head(s) = s[1]
        /\ \A i \in 1 .. Len(r) : r[i] = s[i + 1]
    BY HeadTailProperties, EmptySeq, LenProperties
  <1> HIDE DEF r
  <1>2. ASSUME ~Says(s, c) PROVE ~Says(r, c) /\ Head(s).control # c
    BY <1>1, <1>2 DEF Says
  <1>3. ASSUME SaysLast(s, c, v)
        PROVE  \/ SaysLast(r, c, v)
               \/ ~Says(r, c) /\ Head(s) = [control |-> c, value |-> v]
    <2>1. PICK i \in 1 .. Len(s) :
            /\ s[i] = [control |-> c, value |-> v]
            /\ \A j \in i + 1 .. Len(s) : s[j].control # c
      BY <1>3 DEF SaysLast
    <2>2. ASSUME NEW k \in 1 .. Len(r), k > i - 1 PROVE r[k].control # c
      <3>1. k + 1 \in i + 1 .. Len(s)
        BY <1>1, <2>2
      <3> QED
        BY <1>1, <2>1, <3>1
    <2>3. CASE i = 1
      BY <1>1, <2>1, <2>2, <2>3 DEF Says
    <2>4. CASE i # 1
      <3>1. i - 1 \in 1 .. Len(r) /\ r[i - 1] = [control |-> c, value |-> v]
        BY <1>1, <2>1, <2>4
      <3>2. \A k \in (i - 1) + 1 .. Len(r) : r[k].control # c
        BY <1>1, <2>2
      <3> QED
        BY <3>1, <3>2 DEF SaysLast
    <2> QED
      BY <2>3, <2>4
  <1> QED
    BY <1>2, <1>3 DEF r

LEMMA SetToSeqIs ==
  ASSUME NEW S, IsFiniteSet(S)
  PROVE  /\ SetToSeq(S) \in Seq(S)
         /\ \A e \in S : \E i \in 1 .. Len(SetToSeq(S)) : SetToSeq(S)[i] = e
         /\ \A i, j \in 1 .. Len(SetToSeq(S)) :
              SetToSeq(S)[i] = SetToSeq(S)[j] => i = j
  <1> DEFINE D == 1 .. Cardinality(S)
             q == SetToSeq(S)
  <1>1. Cardinality(S) \in Nat
    BY FS_CardinalityType
  <1>2. PICK f : f \in Bijection(D, S)
    BY FS_CardinalityType DEF ExistsBijection
  <1>3. f \in [D -> S] /\ IsInjective(f)
    BY <1>2 DEF Bijection, Injection
  <1>4. q \in [D -> S] /\ IsInjective(q)
    BY <1>3 DEF SetToSeq
  <1>5. q \in Injection(D, S)
    BY <1>4 DEF Injection
  <1>6. IsFiniteSet(D) /\ Cardinality(D) = Cardinality(S)
    BY <1>1, FS_Interval
  <1>7. q \in Surjection(D, S)
    BY <1>5, <1>6, FS_Injection
  <1> HIDE DEF q
  <1>8. Len(q) = Cardinality(S) /\ q \in Seq(S)
    BY <1>1, <1>4
  <1>9. \A e \in S : \E i \in D : q[i] = e
    BY <1>7 DEF Surjection
  <1>10. \A i, j \in D : q[i] = q[j] => i = j
    BY <1>4 DEF IsInjective
  <1> QED
    BY <1>1, <1>8, <1>9, <1>10 DEF q

-----------------------------------------------------------------------------
(* What a look at the pad makes of it: one event of each control whose     *)
(* move counts, and of no other.                                           *)
LEMMA ConcatSays ==
  ASSUME NEW S, NEW s \in Seq(S), NEW t \in Seq(S), NEW c, NEW v
  PROVE  /\ SaysLast(t, c, v) => SaysLast(s \o t, c, v)
         /\ ~Says(t, c) /\ SaysLast(s, c, v) => SaysLast(s \o t, c, v)
         /\ ~Says(s, c) /\ ~Says(t, c) => ~Says(s \o t, c)
  <1> DEFINE w == s \o t
  <1>1. /\ Len(s) \in Nat /\ Len(t) \in Nat /\ Len(w) = Len(s) + Len(t)
        /\ \A i \in 1 .. Len(w) :
             w[i] = IF i <= Len(s) THEN s[i] ELSE t[i - Len(s)]
    BY ConcatProperties, LenProperties
  <1> HIDE DEF w
  <1>2. ASSUME SaysLast(t, c, v) PROVE SaysLast(w, c, v)
    <2>1. PICK i \in 1 .. Len(t) : /\ t[i] = [control |-> c, value |-> v]
                                   /\ \A j \in i + 1 .. Len(t) : t[j].control # c
      BY <1>2 DEF SaysLast
    <2>2. /\ i + Len(s) \in 1 .. Len(w) /\ ~(i + Len(s) <= Len(s))
          /\ i + Len(s) - Len(s) = i
      BY <1>1
    <2>3. w[i + Len(s)] = [control |-> c, value |-> v]
      BY <1>1, <2>1, <2>2
    <2>4. ASSUME NEW j \in i + Len(s) + 1 .. Len(w) PROVE w[j].control # c
      <3>1. /\ j - Len(s) \in i + 1 .. Len(t) /\ ~(j <= Len(s))
            /\ j \in 1 .. Len(w)
        BY <1>1
      <3> QED
        BY <1>1, <2>1, <3>1
    <2> QED
      BY <2>2, <2>3, <2>4 DEF SaysLast
  <1>3. ASSUME ~Says(t, c), SaysLast(s, c, v) PROVE SaysLast(w, c, v)
    <2>1. PICK i \in 1 .. Len(s) : /\ s[i] = [control |-> c, value |-> v]
                                   /\ \A j \in i + 1 .. Len(s) : s[j].control # c
      BY <1>3 DEF SaysLast
    <2>2. i \in 1 .. Len(w) /\ w[i] = [control |-> c, value |-> v]
      BY <1>1, <2>1
    <2>3. ASSUME NEW j \in i + 1 .. Len(w) PROVE w[j].control # c
      <3>1. CASE j <= Len(s)
        BY <1>1, <2>1, <3>1
      <3>2. CASE ~(j <= Len(s))
        <4>1. j - Len(s) \in 1 .. Len(t) /\ j \in 1 .. Len(w)
          BY <1>1, <3>2
        <4> QED
          BY <1>1, <1>3, <3>2, <4>1 DEF Says
      <3> QED
        BY <3>1, <3>2
    <2> QED
      BY <2>2, <2>3 DEF SaysLast
  <1>4. ASSUME ~Says(s, c), ~Says(t, c) PROVE ~Says(w, c)
    <2>1. ASSUME NEW i \in 1 .. Len(w) PROVE w[i].control # c
      <3>1. CASE i <= Len(s)
        BY <1>1, <1>4, <3>1 DEF Says
      <3>2. CASE ~(i <= Len(s))
        <4>1. i - Len(s) \in 1 .. Len(t)
          BY <1>1, <3>2
        <4> QED
          BY <1>1, <1>4, <3>2, <4>1 DEF Says
      <3> QED
        BY <3>1, <3>2
    <2> QED
      BY <2>1 DEF Says
  <1> QED
    BY <1>2, <1>3, <1>4 DEF w

LEMMA EventsSay ==
  ASSUME InputTypes, NEW cs, cs \subseteq Controls, IsFiniteSet(cs)
  PROVE  /\ EventsOf(cs) \in Seq(Reports)
         /\ \A c \in Controls :
              IF c \in cs THEN SaysLast(EventsOf(cs), c, pad[c])
                          ELSE ~Says(EventsOf(cs), c)
  <1> DEFINE E == {[control |-> c, value |-> pad[c]] : c \in cs}
             s == SetToSeq(E)
  <1>1. EventsOf(cs) = s
    BY DEF EventsOf
  <1>2. IsFiniteSet(E)
    <2> DEFINE f == [c \in cs |-> [control |-> c, value |-> pad[c]]]
    <2>1. f \in Surjection(cs, E)
      BY DEF Surjection
    <2> HIDE DEF f, E
    <2> QED
      BY <2>1, FS_Surjection
  <1>3. /\ E \subseteq Reports
        /\ \A e \in E : e.control \in cs /\ e.value = pad[e.control]
        /\ \A c \in cs : [control |-> c, value |-> pad[c]] \in E
    BY DEF Reports, InputTypes, TypeOK
  <1> HIDE DEF E
  <1>4. /\ s \in Seq(E)
        /\ \A e \in E : \E i \in 1 .. Len(s) : s[i] = e
        /\ \A i, j \in 1 .. Len(s) : s[i] = s[j] => i = j
    BY <1>2, SetToSeqIs
  <1> HIDE DEF s
  <1>5. /\ s \in Seq(Reports) /\ Len(s) \in Nat
        /\ \A i \in 1 .. Len(s) : s[i] \in E /\ s[i] \in Reports
    BY <1>3, <1>4, SeqMonotonic, ElementOfSeq, LenProperties
  <1>6. ASSUME NEW c, c \notin cs PROVE ~Says(s, c)
    BY <1>3, <1>5, <1>6 DEF Says
  <1>7. ASSUME NEW c \in cs PROVE SaysLast(s, c, pad[c])
    <2> DEFINE e == [control |-> c, value |-> pad[c]]
    <2>1. PICK i \in 1 .. Len(s) : s[i] = e
      BY <1>3, <1>4
    <2>2. ASSUME NEW j \in i + 1 .. Len(s), s[j].control = c PROVE FALSE
      <3>1. j \in 1 .. Len(s) /\ i # j
        BY <1>5
      <3>2. s[j] = e
        <4>1. s[j] \in Reports /\ s[j].value = pad[c]
          BY <1>3, <1>5, <2>2, <3>1
        <4> QED
          BY <2>2, <4>1 DEF Reports
      <3> QED
        BY <1>4, <2>1, <3>1, <3>2
    <2> QED
      BY <2>1, <2>2 DEF SaysLast
  <1> QED
    BY <1>1, <1>5, <1>6, <1>7

LEMMA Polled ==
  ASSUME InputTypes, Poll
  PROVE  /\ todo' \in Seq(Reports)
         /\ \A c \in Controls :
              IF c \in Moved(Controls) THEN SaysLast(todo', c, pad[c])
                                       ELSE ~Says(todo', c)
  <1> DEFINE b == EventsOf(Moved(Buttons))
             k == EventsOf(Moved(Sticks))
             f == EventsOf(Moved(Fingers))
  <1>1. ASSUME NEW cs, cs \in {Buttons, Sticks, Fingers}
        PROVE  /\ EventsOf(Moved(cs)) \in Seq(Reports)
               /\ \A c \in Controls :
                    IF c \in Moved(cs)
                    THEN SaysLast(EventsOf(Moved(cs)), c, pad[c])
                    ELSE ~Says(EventsOf(Moved(cs)), c)
    <2>1. IsFiniteSet(cs) /\ cs \subseteq Controls
      BY <1>1, InputAssumption DEF InputAssumption, Controls
    <2>2. IsFiniteSet(Moved(cs)) /\ Moved(cs) \subseteq Controls
      BY <2>1, FS_Subset DEF Moved
    <2> QED
      BY <2>2, EventsSay
  <1>2. todo' = (b \o k) \o f
    BY DEF Poll
  <1>3. /\ b \in Seq(Reports) /\ k \in Seq(Reports) /\ f \in Seq(Reports)
        /\ \A c \in Controls :
             /\ IF c \in Moved(Buttons) THEN SaysLast(b, c, pad[c]) ELSE ~Says(b, c)
             /\ IF c \in Moved(Sticks) THEN SaysLast(k, c, pad[c]) ELSE ~Says(k, c)
             /\ IF c \in Moved(Fingers) THEN SaysLast(f, c, pad[c]) ELSE ~Says(f, c)
    BY <1>1
  <1> HIDE DEF b, k, f
  <1>4. b \o k \in Seq(Reports) /\ (b \o k) \o f \in Seq(Reports)
    BY <1>3, ConcatProperties
  <1>5. ASSUME NEW c \in Controls
        PROVE  IF c \in Moved(Controls) THEN SaysLast((b \o k) \o f, c, pad[c])
                                        ELSE ~Says((b \o k) \o f, c)
    <2>1. /\ c \in Moved(Controls) <=> \/ c \in Moved(Buttons)
                                      \/ c \in Moved(Sticks)
                                      \/ c \in Moved(Fingers)
          /\ c \in Moved(Buttons) => /\ c \notin Moved(Sticks)
                                    /\ c \notin Moved(Fingers)
          /\ c \in Moved(Sticks) => c \notin Moved(Fingers)
      BY InputAssumption DEF InputAssumption, Moved, Controls
    <2>2. /\ SaysLast(k, c, pad[c]) => SaysLast(b \o k, c, pad[c])
          /\ ~Says(k, c) /\ SaysLast(b, c, pad[c]) => SaysLast(b \o k, c, pad[c])
          /\ ~Says(b, c) /\ ~Says(k, c) => ~Says(b \o k, c)
      BY <1>3, ConcatSays
    <2>3. /\ SaysLast(f, c, pad[c]) => SaysLast((b \o k) \o f, c, pad[c])
          /\ ~Says(f, c) /\ SaysLast(b \o k, c, pad[c]) =>
               SaysLast((b \o k) \o f, c, pad[c])
          /\ ~Says(b \o k, c) /\ ~Says(f, c) => ~Says((b \o k) \o f, c)
      BY <1>3, <1>4, ConcatSays
    <2>4. CASE c \in Moved(Buttons)
      BY <1>3, <2>1, <2>2, <2>3, <2>4
    <2>5. CASE c \in Moved(Sticks)
      BY <1>3, <2>1, <2>2, <2>3, <2>5
    <2>6. CASE c \in Moved(Fingers)
      BY <1>3, <2>1, <2>3, <2>6
    <2>7. CASE c \notin Moved(Controls)
      BY <1>3, <2>1, <2>2, <2>3, <2>7
    <2> QED
      BY <2>1, <2>4, <2>5, <2>6, <2>7
  <1> QED
    BY <1>2, <1>4, <1>5

-----------------------------------------------------------------------------
(* A push that makes no room leaves the queue longer by the event; of what *)
(* it drops nothing is said but that the queue overflowed.                 *)
LEMMA Pushed ==
  ASSUME InputTypes, NEW e \in Said, Push(e)
  PROVE  /\ queue' \in Seq(Said) /\ Len(queue') <= Cap /\ queue' # <<>>
         /\ overflowed' \in BOOLEAN /\ (overflowed => overflowed')
         /\ ~overflowed' => queue' = Append(queue, e)
  <1> USE DEF InputTypes, TypeOK
  <1>1. Cap \in Nat /\ Cap > 0 /\ Len(queue) \in Nat
    BY InputAssumption, LenProperties DEF InputAssumption
  <1>2. CASE Len(queue) < Cap
    <2>1. queue' = Append(queue, e) /\ overflowed' = overflowed
      BY <1>1, <1>2 DEF Push
    <2> QED
      BY <1>1, <1>2, <2>1, AppendProperties
  <1>3. CASE Len(queue) >= Cap
    <2>1. queue # <<>>
      BY <1>1, <1>3, EmptySeq
    <2>2. Tail(queue) \in Seq(Said) /\ Len(Tail(queue)) = Len(queue) - 1
      BY <2>1, HeadTailProperties
    <2>3. queue' = Append(Tail(queue), e) /\ overflowed' = TRUE
      BY <1>1, <1>3 DEF Push
    <2> QED
      BY <1>1, <2>2, <2>3, AppendProperties
  <1> QED
    BY <1>1, <1>2, <1>3

LEMMA SubTypes ==
  /\ Said \subseteq Events /\ Reports \subseteq Said /\ Reports \subseteq Events
  /\ Nothing \in Said
  /\ \A v \in {0, 1} : [control |-> Char, value |-> v] \in Said
  /\ \A c \in Controls : c # Char
  /\ Seq(Said) \subseteq Seq(Events) /\ Seq(Reports) \subseteq Seq(Events)
  <1>1. /\ Said \subseteq Events /\ Reports \subseteq Said /\ Reports \subseteq Events
        /\ Nothing \in Said
        /\ \A v \in {0, 1} : [control |-> Char, value |-> v] \in Said
    BY DEF Said, Reports, Events, Nothing, Values
  <1>2. \A c \in Controls : c # Char
    BY InputAssumption DEF InputAssumption, Controls
  <1> QED
    BY <1>1, <1>2, SeqMonotonic

-----------------------------------------------------------------------------
(* The types.                                                              *)
LEMMA TypesHold ==
  InputTypes /\ [Next]_vars => InputTypes'
  <1> SUFFICES ASSUME InputTypes, [Next]_vars PROVE InputTypes'
    OBVIOUS
  <1> USE DEF InputTypes, TypeOK
  <1>0. /\ Guard \in Nat \ {0} /\ Gap \in Nat \ {0} /\ MaxTyped \in Nat
        /\ MaxGestures \in Nat /\ Cap \in Nat \ {0}
    BY InputAssumption DEF InputAssumption
  <1>1. CASE Poll
    <2>1. todo' \in Seq(Reports)
      BY <1>1, Polled
    <2>2. /\ polled' \in [Controls -> Values] /\ reported' \in [Controls -> Values]
      BY <1>1 DEF Poll
    <2> QED
      BY <1>1, <2>1, <2>2, SubTypes DEF Poll, pumpVars, engineVars
  <1>2. CASE PushNext
    <2>1. Head(todo) \in Reports /\ Tail(todo) \in Seq(Reports)
      BY <1>2, HeadTailProperties DEF PushNext
    <2>2. /\ queue' \in Seq(Said) /\ Len(queue') <= Cap /\ overflowed' \in BOOLEAN
      BY <1>2, <2>1, Pushed, SubTypes DEF PushNext
    <2> QED
      BY <1>2, <2>1, <2>2, SubTypes DEF PushNext, padVars, pumpVars, engineVars
  <1>3. CASE StartPump
    BY <1>0, <1>3 DEF StartPump, padVars, engineVars
  <1>4. CASE Peek
    <2>1. pc' = "poll" \/ (pc' = "take" /\ rounds # Guard)
      BY <1>4 DEF Peek
    <2>2. isKey' \in BOOLEAN
      BY <1>4 DEF Peek, KeyIsNext
    <2> QED
      <3>1. /\ pc = "peek" /\ hand' = hand /\ seen' = seen
            /\ UNCHANGED <<padVars, todo, queue, registered, rounds, ago,
                           spacing, slipped, typed, overflowed>>
        BY <1>4 DEF Peek, engineVars
      <3>2. hand' = Nothing /\ todo = <<>>
        BY <3>1
      <3>3. rounds # Guard => rounds < Guard
        BY <1>0
      <3> QED
        BY <2>1, <2>2, <3>1, <3>2, <3>3 DEF padVars
  <1>5. CASE Take
    <2>1. /\ hand' \in Said /\ queue' \in Seq(Said) /\ Len(queue') <= Cap
      <3>1. /\ Head(queue) \in Said /\ Tail(queue) \in Seq(Said)
            /\ Len(Tail(queue)) = Len(queue) - 1 /\ Len(queue) \in Nat
        BY <1>5, HeadTailProperties, LenProperties DEF Take
      <3> QED
        BY <1>0, <1>5, <3>1 DEF Take
    <2>2. ago' \in 0 .. Gap /\ spacing' \in 0 .. Gap /\ slipped' \in BOOLEAN
      <3>1. /\ ago' = IF isKey THEN 0 ELSE ago
            /\ \/ spacing' = 0 /\ slipped' = ~isKey
               \/ spacing' = spacing /\ slipped' = slipped
        BY <1>5 DEF Take
      <3>2. slipped' \in BOOLEAN
        BY <3>1
      <3>3. ago' \in 0 .. Gap
        BY <1>0, <3>1
      <3>4. spacing' \in 0 .. Gap
        BY <1>0, <3>1
      <3> QED
        BY <3>2, <3>3, <3>4
    <2> QED
      BY <1>5, <2>1, <2>2, SubTypes DEF Take, padVars
  <1>6. CASE TakeNothing
    BY <1>6 DEF TakeNothing, padVars, pumpVars, engineVars
  <1>7. CASE Handle
    <2>1. rounds' \in 0 .. Guard
      BY <1>0, <1>7 DEF Handle
    <2>2. seen' \in [Controls -> Values]
      <3>1. \A c \in Controls : Told(hand, c) \in Values
        BY SubTypes DEF Told, Said, Reports
      <3> QED
        BY <1>7, <3>1 DEF Handle
    <2> QED
      BY <1>7, <2>1, <2>2, SubTypes DEF Handle, padVars
  <1>8. CASE Type
    <2>1. 1 - (typed % 2) \in {0, 1}
      BY <1>0
    <2>2. [control |-> Char, value |-> 1 - (typed % 2)] \in Said
      BY <2>1, SubTypes
    <2>3. /\ queue' \in Seq(Said) /\ Len(queue') <= Cap /\ overflowed' \in BOOLEAN
      BY <1>8, <2>2, Pushed DEF Type
    <2>4. typed' \in 0 .. MaxTyped
      BY <1>0, <1>8 DEF Type
    <2> QED
      BY <1>8, <2>3, <2>4, SubTypes DEF Type, padVars, pumpVars, engineVars
  <1>9. CASE Player
    <2>1. pad' \in [Controls -> Values] /\ gestures' \in 0 .. MaxGestures
      BY <1>0, <1>9 DEF Player, May, Values
    <2> QED
      BY <1>9, <2>1 DEF Player, pumpVars, engineVars
  <1>10. CASE Register
    BY <1>10 DEF Register, padVars, pumpVars, engineVars
  <1>11. CASE Tick
    BY <1>0, <1>11 DEF Tick, Later, padVars, engineVars
  <1>12. CASE UNCHANGED vars
    BY <1>12 DEF vars, padVars, pumpVars, engineVars
  <1> QED
    BY <1>1, <1>2, <1>3, <1>4, <1>5, <1>6, <1>7, <1>8, <1>9, <1>10, <1>11, <1>12
    DEF Next, Main

-----------------------------------------------------------------------------
(* What the engine will believe.                                           *)
LEMMA WillBelieveHolds ==
  InputTypes /\ WillBelieve /\ [Next]_vars => WillBelieve'
  <1> SUFFICES ASSUME InputTypes, WillBelieve, [Next]_vars, ~overflowed',
                      NEW c \in Controls
               PROVE  OnItsWay(c, reported[c])'
    BY DEF WillBelieve
  <1> DEFINE v == reported[c]
  <1>0. /\ todo \in Seq(Reports) /\ queue \in Seq(Said) /\ queue \in Seq(Events)
        /\ pad \in [Controls -> Values] /\ reported \in [Controls -> Values]
        /\ overflowed \in BOOLEAN /\ (todo # <<>> => pc = "push")
    BY DEF InputTypes, TypeOK
  <1>1. ASSUME ~overflowed PROVE OnItsWay(c, v)
    BY <1>1 DEF WillBelieve
  <1>2. ASSUME UNCHANGED <<todo, queue, overflowed>>, reported'[c] = v,
               Knows(c)' = Knows(c)
        PROVE  OnItsWay(c, reported[c])'
    BY <1>1, <1>2 DEF OnItsWay, Says, SaysLast
  <1>3. ASSUME Poll PROVE OnItsWay(c, reported[c])'
    <2>1. /\ todo = <<>> /\ pc # "handle" /\ pc' # "handle"
          /\ UNCHANGED <<queue, overflowed, seen, hand>>
          /\ reported'[c] = IF c \in Moved(Controls) THEN pad[c] ELSE v
      BY <1>0, <1>3 DEF Poll, engineVars
    <2>2. Knows(c)' = Knows(c)
      BY <2>1 DEF Knows
    <2>3. CASE c \in Moved(Controls)
      BY <1>3, <2>1, <2>3, Polled DEF OnItsWay
    <2>4. CASE c \notin Moved(Controls)
      <3>1. ~Says(todo', c)
        BY <1>3, <2>4, Polled
      <3>2. ~SaysLast(todo, c, v)
        BY <2>1 DEF SaysLast
      <3> QED
        BY <1>1, <2>1, <2>2, <2>4, <3>1, <3>2 DEF OnItsWay, Says, SaysLast
    <2> QED
      BY <2>3, <2>4
  <1>4. ASSUME NEW e \in Said, Push(e), e.control # c, UNCHANGED todo,
               reported'[c] = v, Knows(c)' = Knows(c)
        PROVE  OnItsWay(c, reported[c])'
    <2>1. queue' = Append(queue, e) /\ ~overflowed
      BY <1>4, Pushed
    <2>2. /\ Says(queue', c) <=> Says(queue, c)
          /\ SaysLast(queue, c, v) => SaysLast(queue', c, v)
      BY <1>0, <1>4, <2>1, AppendSays
    <2>3. /\ Says(todo', c) <=> Says(todo, c)
          /\ SaysLast(todo, c, v) => SaysLast(todo', c, v)
      BY <1>4
    <2> QED
      BY <1>1, <1>4, <2>1, <2>2, <2>3 DEF OnItsWay, Says, SaysLast
  <1>5. ASSUME PushNext PROVE OnItsWay(c, reported[c])'
    <2> DEFINE e == Head(todo)
    <2>1. e \in Reports /\ e \in Said /\ todo' = Tail(todo) /\ todo # <<>>
      BY <1>0, <1>5, HeadTailProperties, SubTypes DEF PushNext
    <2> HIDE DEF e
    <2>2. queue' = Append(queue, e) /\ ~overflowed
      BY <1>5, <2>1, Pushed DEF PushNext, e
    <2>3. Knows(c)' = Knows(c) /\ reported'[c] = v
      BY <1>5 DEF PushNext, padVars, Knows, Told, engineVars
    <2>4. /\ e = [control |-> c, value |-> v] => SaysLast(queue', c, v)
          /\ e.control # c => /\ Says(queue', c) <=> Says(queue, c)
                              /\ SaysLast(queue, c, v) => SaysLast(queue', c, v)
      BY <1>0, <2>1, <2>2, AppendSays
    <2>5. /\ SaysLast(todo, c, v) =>
               \/ SaysLast(todo', c, v)
               \/ ~Says(todo', c) /\ e = [control |-> c, value |-> v]
          /\ ~Says(todo, c) => ~Says(todo', c) /\ e.control # c
      BY <1>0, <2>1, TailSays DEF e
    <2> DEFINE way(t, q, k) == \/ SaysLast(t, c, v)
                               \/ ~Says(t, c) /\ SaysLast(q, c, v)
                               \/ ~Says(t, c) /\ ~Says(q, c) /\ k = v
    <2>6. way(todo, queue, Knows(c))
      BY <1>1, <2>2 DEF OnItsWay
    <2>7. way(todo', queue', Knows(c))
      BY <2>4, <2>5, <2>6
    <2> QED
      BY <2>3, <2>7 DEF OnItsWay, Says, SaysLast
  <1>6. ASSUME Take PROVE OnItsWay(c, reported[c])'
    <2>1. /\ hand' = Head(queue) /\ queue' = Tail(queue) /\ queue # <<>>
          /\ pc = "take" /\ pc' = "handle"
          /\ UNCHANGED <<todo, overflowed, reported, seen>>
      BY <1>6 DEF Take, padVars
    <2>2. /\ SaysLast(queue, c, v) =>
               \/ SaysLast(queue', c, v)
               \/ ~Says(queue', c) /\ hand' = [control |-> c, value |-> v]
          /\ ~Says(queue, c) => ~Says(queue', c) /\ hand'.control # c
      BY <1>0, <2>1, TailSays
    <2>3. /\ hand' = [control |-> c, value |-> v] => Knows(c)' = v
          /\ hand'.control # c => Knows(c)' = Knows(c)
      BY <2>1 DEF Knows, Told
    <2> DEFINE way(t, q, k) == \/ SaysLast(t, c, v)
                               \/ ~Says(t, c) /\ SaysLast(q, c, v)
                               \/ ~Says(t, c) /\ ~Says(q, c) /\ k = v
    <2>4. way(todo, queue, Knows(c))
      BY <1>1, <2>1 DEF OnItsWay
    <2>5. way(todo, queue', Knows(c)')
      BY <2>2, <2>3, <2>4
    <2> QED
      BY <2>1, <2>5 DEF OnItsWay, Says, SaysLast
  <1>7. ASSUME Handle PROVE OnItsWay(c, reported[c])'
    <2>1. Knows(c)' = Knows(c)
      BY <1>7 DEF Handle, Knows
    <2> QED
      BY <1>2, <1>7, <2>1 DEF Handle, padVars
  <1>8. ASSUME Type PROVE OnItsWay(c, reported[c])'
    <2> DEFINE e == [control |-> Char, value |-> 1 - (typed % 2)]
    <2>1. 1 - (typed % 2) \in {0, 1}
      BY InputAssumption DEF InputAssumption, InputTypes, TypeOK
    <2>2. e \in Said /\ e.control # c
      BY <2>1, SubTypes
    <2>3. Push(e) /\ UNCHANGED todo /\ reported'[c] = v
      BY <1>8 DEF Type, padVars
    <2>4. Knows(c)' = Knows(c)
      BY <1>8 DEF Type, Knows, Told, engineVars
    <2> QED
      BY <1>4, <2>2, <2>3, <2>4
  <1>9. ASSUME \/ StartPump \/ Peek \/ TakeNothing \/ Player \/ Register \/ Tick
               \/ UNCHANGED vars
        PROVE  OnItsWay(c, reported[c])'
    <2>1. UNCHANGED <<todo, queue, overflowed>> /\ reported'[c] = v
      BY <1>9 DEF StartPump, Peek, TakeNothing, Player, Register, Tick, vars,
                  padVars, engineVars, pumpVars
    <2>2. UNCHANGED <<seen, hand>> /\ (pc = "handle" <=> pc' = "handle")
      BY <1>9 DEF StartPump, Peek, TakeNothing, Player, Register, Tick, vars,
                  padVars, engineVars, pumpVars
    <2>3. Knows(c)' = Knows(c)
      BY <2>2 DEF Knows, Told
    <2> QED
      BY <1>2, <2>1, <2>3
  <1> QED
    BY <1>3, <1>5, <1>6, <1>7, <1>8, <1>9 DEF Next, Main

-----------------------------------------------------------------------------
(* The pace of the keys.                                                   *)
LEMMA PacedHolds ==
  InputTypes /\ Paced /\ [Next]_vars =>
    Paced' /\ (TakesKey /\ isKey /\ ~slipped => spacing = Gap)
  <1> SUFFICES ASSUME InputTypes, Paced, [Next]_vars
               PROVE  Paced' /\ (TakesKey /\ isKey /\ ~slipped => spacing = Gap)
    OBVIOUS
  <1>0. /\ Gap \in Nat \ {0} /\ ago \in 0 .. Gap /\ spacing \in 0 .. Gap
        /\ isKey \in BOOLEAN /\ slipped \in BOOLEAN
    BY InputAssumption DEF InputAssumption, InputTypes, TypeOK
  <1>1. CASE Peek
    <2>1. UNCHANGED <<ago, spacing, slipped>> /\ pc = "peek"
      BY <1>1 DEF Peek
    <2>2. pc' = "take" /\ isKey' => ago = Gap
      BY <1>0, <1>1 DEF Peek
    <2> QED
      BY <2>1, <2>2 DEF Paced, TakesKey
  <1>2. CASE Take
    <2>1. pc = "take" /\ pc' = "handle" /\ ago' = IF isKey THEN 0 ELSE ago
      BY <1>2 DEF Take
    <2>2. IF Kind(hand'.control) = "key"
          THEN spacing' = 0 /\ slipped' = ~isKey
          ELSE UNCHANGED <<spacing, slipped>>
      BY <1>2 DEF Take
    <2>3. ~slipped' => ago' <= spacing'
      <3>1. CASE isKey
        BY <1>0, <2>1, <2>2, <3>1
      <3>2. CASE ~isKey
        BY <1>0, <2>1, <2>2, <3>2 DEF Paced
      <3> QED
        BY <3>1, <3>2
    <2>4. isKey /\ ~slipped => spacing = Gap
      BY <1>0, <2>1 DEF Paced
    <2> QED
      BY <2>1, <2>3, <2>4 DEF Paced
  <1>3. CASE Tick
    <2>1. /\ UNCHANGED <<pc, isKey, slipped>>
          /\ ago' = Later(ago) /\ spacing' = Later(spacing)
      BY <1>3 DEF Tick
    <2>2. /\ ago = Gap => ago' = Gap
          /\ ago <= spacing => ago' <= spacing'
      BY <1>0, <2>1 DEF Later
    <2> QED
      BY <2>1, <2>2 DEF Paced, TakesKey
  <1>4. CASE Poll \/ PushNext \/ StartPump \/ TakeNothing \/ Handle
    BY <1>4 DEF Poll, PushNext, StartPump, TakeNothing, Handle, pumpVars,
                Paced, TakesKey
  <1>5. CASE Type \/ Player \/ Register \/ UNCHANGED vars
    BY <1>5 DEF Type, Player, Register, vars, pumpVars, Paced, TakesKey
  <1> QED
    BY <1>1, <1>2, <1>3, <1>4, <1>5 DEF Next, Main

-----------------------------------------------------------------------------
(* What is compared to the next look at the pad.                           *)
LEMMA RemembersHolds ==
  InputTypes /\ Remembers /\ [Next]_vars => Remembers'
  <1> SUFFICES ASSUME InputTypes, Remembers, [Next]_vars, NEW c \in Controls
               PROVE  IF c \in Fingers THEN polled'[c] = 0 <=> reported'[c] = 0
                                       ELSE polled'[c] = reported'[c]
    BY DEF Remembers
  <1>1. CASE Poll
    <2>1. /\ polled'[c] = IF c \in Sticks \ Moved(Sticks) THEN polled[c] ELSE pad[c]
          /\ reported'[c] = IF c \in Moved(Controls) THEN pad[c] ELSE reported[c]
      BY <1>1 DEF Poll
    <2>2. c \in Moved(Controls) <=> Counts(c, polled[c], pad[c])
      BY DEF Moved
    <2>3. c \in Sticks => (c \in Moved(Sticks) <=> c \in Moved(Controls))
      BY DEF Moved
    <2>4. IF c \in Fingers THEN polled[c] = 0 <=> reported[c] = 0
                           ELSE polled[c] = reported[c]
      BY DEF Remembers
    <2>5. CASE c \in Moved(Controls)
      BY <2>1, <2>3, <2>5
    <2>6. CASE c \notin Moved(Controls)
      <3>1. CASE c \in Sticks
        <4>1. c \notin Fingers
          BY <3>1, InputAssumption DEF InputAssumption
        <4> QED
          BY <2>1, <2>3, <2>4, <2>6, <3>1, <4>1
      <3>2. CASE c \in Buttons
        <4>1. c \notin Fingers /\ c \notin Sticks /\ polled[c] = pad[c]
          BY <2>2, <2>6, <3>2, InputAssumption DEF InputAssumption, Counts
        <4> QED
          BY <2>1, <2>4, <2>6, <4>1
      <3>3. CASE c \in Fingers
        <4>1. c \notin Sticks /\ (polled[c] = 0 <=> pad[c] = 0)
          BY <2>2, <2>6, <3>3, InputAssumption DEF InputAssumption, Counts
        <4> QED
          BY <2>1, <2>4, <2>6, <3>3, <4>1
      <3> QED
        BY <3>1, <3>2, <3>3 DEF Controls
    <2> QED
      BY <2>5, <2>6
  <1>2. CASE UNCHANGED <<polled, reported>>
    BY <1>2 DEF Remembers
  <1>3. CASE ~Poll
    <2>1. UNCHANGED <<polled, reported>>
      BY <1>3 DEF Next, Main, PushNext, StartPump, Peek, Take, TakeNothing,
                  Handle, Type, Player, Register, Tick, vars, padVars
    <2> QED
      BY <1>2, <2>1
  <1> QED
    BY <1>1, <1>3

-----------------------------------------------------------------------------
LEMMA InitHolds == Init => InputInv
  <1> SUFFICES ASSUME Init PROVE InputInv
    OBVIOUS
  <1>1. /\ 0 \in Values /\ Gap \in Nat /\ Guard \in Nat /\ Cap \in Nat
        /\ MaxTyped \in Nat /\ MaxGestures \in Nat
    BY InputAssumption DEF InputAssumption, Values
  <1>2. InputTypes
    <2>1. Rest \in [Controls -> Values]
      BY <1>1 DEF Rest
    <2>2. /\ todo \in Seq(Reports) /\ queue \in Seq(Said) /\ Len(queue) = 0
          /\ todo \in Seq(Events) /\ queue \in Seq(Events)
      BY EmptySeq DEF Init
    <2> QED
      <3>1. /\ pad = Rest /\ polled = Rest /\ reported = Rest /\ seen = Rest
            /\ pc = "poll" /\ hand = Nothing /\ todo = <<>>
            /\ registered = FALSE /\ isKey = FALSE
            /\ slipped = FALSE /\ overflowed = FALSE
            /\ rounds = 0 /\ gestures = 0 /\ typed = 0 /\ ago = Gap /\ spacing = Gap
        BY DEF Init
      <3>2. /\ rounds \in 0 .. Guard /\ ago \in 0 .. Gap /\ spacing \in 0 .. Gap
            /\ gestures \in 0 .. MaxGestures /\ typed \in 0 .. MaxTyped
            /\ Len(queue) <= Cap
        BY <1>1, <2>2, <3>1
      <3>3. TypeOK
        BY <2>1, <2>2, <3>1, <3>2, SubTypes DEF TypeOK
      <3> QED
        BY <2>2, <3>1, <3>3, SubTypes DEF InputTypes
  <1>3. WillBelieve
    BY DEF Init, WillBelieve, OnItsWay, Says, SaysLast, Knows, Rest
  <1>4. Paced
    BY <1>1 DEF Init, Paced
  <1>5. Remembers
    BY DEF Init, Remembers, Rest
  <1> QED
    BY <1>2, <1>3, <1>4, <1>5 DEF InputInv

LEMMA StepHolds == InputInv /\ [Next]_vars => InputInv'
  BY TypesHold, WillBelieveHolds, RemembersHolds, PacedHolds DEF InputInv

(* InputInv is inductive, whatever moves gamepad_poll takes for too slight *)
(* to report.                                                              *)
THEOREM InputInvariant == Spec => []InputInv
  BY InitHolds, StepHolds, PTL DEF Spec

(* QueueIsSound: the queue is bounded, and once it is empty, and nothing is*)
(* on its way to it or in the handler, the engine believes of every control*)
(* what was reported of it, unless the queue overflowed; and what the next *)
(* look at the pad is compared to is what was reported, of a finger whether*)
(* it touches.                                                             *)
THEOREM QueueIsSoundHolds == Spec => []QueueIsSound
  <1>1. InputInv => QueueIsSound
    <2> SUFFICES ASSUME InputInv, queue = <<>>, todo = <<>>, pc # "handle", ~overflowed
                 PROVE  seen = reported
      BY DEF InputInv, InputTypes, QueueIsSound, QuietMeansSeen
    <2>1. ASSUME NEW c \in Controls PROVE seen[c] = reported[c]
      BY <2>1 DEF InputInv, WillBelieve, OnItsWay, Says, SaysLast, Knows
    <2>2. seen \in [Controls -> Values] /\ reported \in [Controls -> Values]
      BY DEF InputInv, InputTypes, TypeOK
    <2> QED
      BY <2>1, <2>2
  <1> QED
    BY <1>1, InputInvariant, PTL

(* KnownKeysAreSpaced: between two keys that pump_input took for keys lies *)
(* the whole gap, whatever was pushed in between and by whom.              *)
THEOREM KnownKeysAreSpacedHolds == Spec => KnownKeysAreSpaced
  <1>1. InputInv /\ [Next]_vars =>
          [TakesKey /\ isKey /\ ~slipped => spacing = Gap]_vars
    BY PacedHolds DEF InputInv
  <1> QED
    BY <1>1, InputInvariant, PTL DEF Spec, KnownKeysAreSpaced

-----------------------------------------------------------------------------
(***************************************************************************)
(* Mixer, for any threads, sounds, streams and frequencies, any limit of   *)
(* voices and any number of plays.                                         *)
(*                                                                         *)
(* That a channel whose sound plays is that sound's is not inductive: the  *)
(* channel is added a step after the voice was started, and by then others *)
(* may have started theirs.  ChannelsKnow says it of the thread in between *)
(* as well, and that no play is still to be given is Evolves: a step gives *)
(* a voice either the play it had or a new one.                            *)
(*                                                                         *)
(* What a buffer of the device does to a voice is computed by recursive    *)
(* functions.  FrameIs is one frame of an effect, Walks all of them; Fills *)
(* is the decoder of a stream, which is through because each turn gets it  *)
(* nearer to enough or to the end of its file.                             *)
(***************************************************************************)
(* A voice; one that plays has something to play, and knows which play it  *)
(* is; a decoder is inside its file.                                       *)
Record ==
  [sound : Sounds \cup {"none"}, active : BOOLEAN, paused : BOOLEAN,
   loop : BOOLEAN, age : 0 .. MaxPlays, position : Nat, step : Steps,
   stream : BOOLEAN, read : Nat, block : Nat]

Voices ==
  {v \in Record :
     /\ v.active <=> v.sound \in Sounds
     /\ v.stream <=> v.sound \in Streams
     /\ v.active => v.age > 0 /\ Length[v.sound] > 0 /\ v.read <= Length[v.sound]}

Thunks == [at : {"idle", "channel", "use", "join"}, channel : Nat, voice : Nat,
           play : Nat, moved : BOOLEAN]

MixerTypes ==
  /\ voices \in Seq(Voices) /\ channels \in Seq([voice : Nat, play : Nat])
  /\ limit \in Nat \ {0} /\ limit \in Limits \cup {DefaultLimit, 128}
  /\ plays \in Nat /\ thunk \in [Threads -> Thunks]
  /\ {started, open, running} \subseteq BOOLEAN
  /\ feeder \in {"none", "loop", "render", "ended"}

(* No play without a channel, added or to be.                              *)
Counted ==
  /\ plays <= Len(channels) + Cardinality(Starting)
  /\ Len(channels) + Cardinality(Starting) <= MaxPlays

Bounded ==
  /\ Len(voices) <= MaxVoices /\ (~started => limit = DefaultLimit)
  /\ \A i \in Slots : voices[i].age <= plays

(* A channel, and a thread that is about to add one, knows the voice its   *)
(* play was given, which nobody else's play has.                           *)
Known(k, vs, n) ==
  /\ k.voice \in 0 .. Len(vs) /\ k.play <= n
  /\ \A i \in 1 .. Len(vs) : vs[i].active /\ vs[i].age = k.play => k.voice = i

ChannelsKnow ==
  /\ \A c \in 1 .. Len(channels) : Known(channels[c], voices, plays)
  /\ \A t \in Starting : Known(thunk[t], voices, plays)
  /\ \A t \in Threads : thunk[t].at = "use" => thunk[t].channel \in 1 .. Len(channels)

Device == /\ open <=> feeder # "none"
          /\ ~started => ~open

MixerInv == MixerTypes /\ Counted /\ Bounded /\ ChannelsKnow /\ Device

-----------------------------------------------------------------------------
(* Voices.                                                                 *)
LEMMA Constants ==
  /\ IsFiniteSet(Threads) /\ "none" \notin Sounds /\ Streams \subseteq Sounds
  /\ \A s \in Sounds : Length[s] \in Nat
  /\ Steps \subseteq Nat /\ 1 \in Steps /\ \A n \in Steps : n > 0
  /\ Horizon \in Nat /\ \A s \in Sounds : Rate[s] \in Steps
  /\ \A s \in Sounds, n \in Steps : 2 * Length[s] + n <= Horizon
  /\ Frames \in Nat /\ Frames > 0 /\ Chunk \in Nat /\ Chunk > 0
  /\ MaxPlays \in Nat /\ Positions \subseteq Nat
  /\ DefaultLimit \in Nat /\ DefaultLimit > 0
  /\ \A n \in Limits : n \in Nat /\ n > 0
  BY MixerAssumption DEF MixerAssumption

LEMMA Fields ==
  ASSUME NEW v \in Voices
  PROVE  /\ v \in Record /\ v.sound \in Sounds \cup {"none"}
         /\ v.active \in BOOLEAN /\ v.paused \in BOOLEAN
         /\ v.loop \in BOOLEAN /\ v.stream \in BOOLEAN
         /\ v.age \in 0 .. MaxPlays /\ v.age \in Nat /\ v.position \in Nat
         /\ v.step \in Steps /\ v.step \in Nat /\ v.step > 0
         /\ v.read \in Nat /\ v.block \in Nat
         /\ v.active <=> v.sound \in Sounds
         /\ v.stream <=> v.sound \in Streams
         /\ v.active => /\ Length[v.sound] \in Nat /\ Length[v.sound] > 0
                        /\ 2 * Length[v.sound] + v.step <= Horizon
                        /\ v.read <= Length[v.sound] /\ v.age > 0
  <1>1. /\ v \in Record
        /\ v.active <=> v.sound \in Sounds
        /\ v.stream <=> v.sound \in Streams
        /\ v.active => v.age > 0 /\ Length[v.sound] > 0 /\ v.read <= Length[v.sound]
    <2> DEFINE P(w) == /\ w.active <=> w.sound \in Sounds
                       /\ w.stream <=> w.sound \in Streams
                       /\ w.active => /\ w.age > 0 /\ Length[w.sound] > 0
                                      /\ w.read <= Length[w.sound]
    <2>1. Voices = {w \in Record : P(w)}
      BY DEF Voices
    <2> HIDE DEF P
    <2>2. v \in Record /\ P(v)
      BY <2>1
    <2> QED
      BY <2>2 DEF P
  <1>2. /\ v.sound \in Sounds \cup {"none"}
        /\ v.active \in BOOLEAN /\ v.paused \in BOOLEAN
        /\ v.loop \in BOOLEAN /\ v.stream \in BOOLEAN
        /\ v.age \in 0 .. MaxPlays /\ v.position \in Nat
        /\ v.step \in Steps /\ v.read \in Nat /\ v.block \in Nat
    <2>0. v \in Record
      BY <1>1
    <2>1. /\ v.sound \in Sounds \cup {"none"} /\ v.age \in 0 .. MaxPlays
          /\ v.position \in Nat /\ v.step \in Steps /\ v.read \in Nat
          /\ v.block \in Nat
      BY ONLY <2>0 DEF Record
    <2>2. /\ v.active \in BOOLEAN /\ v.paused \in BOOLEAN
          /\ v.loop \in BOOLEAN /\ v.stream \in BOOLEAN
      BY ONLY <2>0 DEF Record
    <2> QED
      BY <2>1, <2>2
  <1>3. v.age \in Nat /\ v.step \in Nat /\ v.step > 0
    <2>1. v.age \in 0 .. MaxPlays /\ v.step \in Steps
      BY <1>2
    <2>2. v.age \in Nat
      BY <2>1, MixerAssumption DEF MixerAssumption
    <2>3. v.step \in Nat \ {0}
      BY <2>1, MixerAssumption DEF MixerAssumption
    <2> QED
      BY <2>2, <2>3
  <1>4. v.active => /\ Length[v.sound] \in Nat
                    /\ 2 * Length[v.sound] + v.step <= Horizon
    BY <1>1, <1>2, Constants
  <1> QED
    BY <1>1, <1>2, <1>3, <1>4

LEMMA QuietIs ==
  /\ Quiet \in Voices /\ ~Quiet.active /\ Quiet.age = 0
  <1>1. Quiet \in Record
    BY Constants DEF Quiet, Record
  <1>2. Quiet.sound \notin Sounds /\ Quiet.sound \notin Streams /\ ~Quiet.stream
    BY Constants DEF Quiet
  <1> QED
    BY <1>1, <1>2 DEF Voices, Quiet

LEMMA LeastNat ==
  ASSUME NEW S, S \subseteq Nat, S # {}
  PROVE  \E i \in S : \A j \in S : i <= j
  <1>1. PICK x \in S : \A y \in S : ~(<<y, x>> \in OpToRel(<, Nat))
    BY WFMin, NatLessThanWellFounded
  <1>2. \A y \in S : ~(y < x)
    BY <1>1 DEF OpToRel
  <1> QED
    BY <1>2

(* What a frame does to an effect: it moves it, or ends it if it may.      *)
LEMMA FrameIs ==
  ASSUME NEW v \in Voices
  PROVE  /\ Frame(v) \in Voices
         /\ \/ Frame(v) = v /\ ~v.active
            \/ Frame(v) = Quiet /\ v.active /\ ~v.loop
            \/ \E p \in Nat :
                 /\ Frame(v) = [v EXCEPT !.position = p] /\ v.active
                 /\ \/ p - v.step = v.position /\ v.position < Length[v.sound]
                    \/ v.loop /\ p = Back(v) /\ v.position >= Length[v.sound]
  <1> DEFINE len == Length[v.sound]
  <1>0. /\ v \in Record /\ v.position \in Nat /\ v.step \in Nat
        /\ v.active => v.sound \in Sounds /\ len \in Nat
        /\ v.active \in BOOLEAN /\ v.loop \in BOOLEAN
    BY Constants DEF Voices, Record
  <1>1. ASSUME NEW p \in Nat PROVE [v EXCEPT !.position = p] \in Voices
    <2> DEFINE w == [v EXCEPT !.position = p]
    <2>1. /\ w.sound = v.sound /\ w.active = v.active /\ w.stream = v.stream
          /\ w.age = v.age /\ w.read = v.read
      BY <1>0 DEF Record
    <2>2. w \in Record
      BY <1>0 DEF Record
    <2> HIDE DEF w
    <2>3. w \in Voices
      BY <2>1, <2>2 DEF Voices
    <2> QED
      BY <2>3 DEF w
  <1>2. CASE ~v.active
    BY <1>2 DEF Frame
  <1>3. CASE v.active /\ v.position < len
    <2> DEFINE p == v.position + v.step
    <2>1. Frame(v) = [v EXCEPT !.position = p]
      BY <1>0, <1>3 DEF Frame, Record
    <2>2. p \in Nat /\ p - v.step = v.position
      BY <1>0
    <2> QED
      BY <1>1, <1>3, <2>1, <2>2
  <1>4. CASE v.active /\ ~(v.position < len) /\ v.loop
    <2> DEFINE p == Back(v)
    <2>1. Frame(v) = [v EXCEPT !.position = p]
      BY <1>0, <1>4 DEF Frame, Record
    <2>2. p \in Nat /\ v.position >= len
      BY <1>0, <1>4, Constants DEF Back
    <2> QED
      BY <1>1, <1>4, <2>1, <2>2
  <1>5. CASE v.active /\ ~(v.position < len) /\ ~v.loop
    <2>1. Frame(v) = Quiet
      BY <1>5 DEF Frame
    <2> QED
      BY <1>5, <2>1, QuietIs
  <1> QED
    BY <1>0, <1>2, <1>3, <1>4, <1>5

(* A walk exists, and it stays where each of its frames does.              *)
LEMMA Walks ==
  ASSUME NEW L, NEW v \in L, NEW M, M \subseteq L,
         \A w \in L : Frame(w) \in M
  PROVE  Walked(v) \in M
  <1> DEFINE g == [w \in L |-> Frame(w)]
             Right(f, n) == f[n] = IF n = 0 THEN v ELSE g[f[n - 1]]
             Good(k) == \E f \in [0 .. Frames -> L] :
                          \A n \in 0 .. Frames : n <= k => Right(f, n)
             S == {k \in Nat : ~Good(k)}
  <1>0. g \in [L -> L] /\ Frames \in Nat /\ Frames > 0
    BY Constants
  <1>1. Good(0)
    <2> DEFINE f == [n \in 0 .. Frames |-> v]
    <2>1. f \in [0 .. Frames -> L] /\ \A n \in 0 .. Frames : n <= 0 => Right(f, n)
      OBVIOUS
    <2> QED
      BY <2>1
  <1> HIDE DEF g
  <1>2. ASSUME NEW k \in Nat, Good(k) PROVE Good(k + 1)
    <2>1. PICK f \in [0 .. Frames -> L] :
            \A n \in 0 .. Frames : n <= k => Right(f, n)
      BY <1>2
    <2>2. CASE k + 1 > Frames
      BY <1>0, <2>1, <2>2
    <2>3. CASE k + 1 <= Frames
      <3> DEFINE e == [f EXCEPT ![k + 1] = g[f[k]]]
      <3>1. k \in 0 .. Frames /\ k + 1 \in 0 .. Frames
        BY <1>0, <2>3
      <3>2. e \in [0 .. Frames -> L]
        BY <1>0, <3>1
      <3>3. ASSUME NEW n \in 0 .. Frames, n <= k + 1 PROVE Right(e, n)
        <4>1. CASE n = k + 1
          <5>1. e[n] = g[f[k]] /\ e[k] = f[k] /\ n - 1 = k /\ n # 0
            BY <3>1, <4>1
          <5> QED
            BY <5>1
        <4>2. CASE n <= k
          <5>1. e[n] = f[n] /\ (n # 0 => e[n - 1] = f[n - 1])
            BY <3>1, <4>2
          <5> QED
            BY <2>1, <4>2, <5>1
        <4> QED
          BY <3>3, <4>1, <4>2
      <3> QED
        BY <3>2, <3>3
    <2> QED
      BY <1>0, <2>2, <2>3
  <1> HIDE DEF Good
  <1>3. S = {}
    <2> SUFFICES ASSUME S # {} PROVE FALSE
      OBVIOUS
    <2>1. PICK k \in S : \A j \in S : k <= j
      BY LeastNat
    <2>2. k # 0 /\ k \in Nat
      BY <1>1
    <2>3. k - 1 \in Nat /\ k - 1 \notin S
      BY <2>1, <2>2
    <2>4. Good((k - 1) + 1)
      BY <1>2, <2>3
    <2> QED
      BY <2>2, <2>4
  <1>4. Good(Frames)
    BY <1>0, <1>3
  <1>5. PICK f \in [0 .. Frames -> L] : \A n \in 0 .. Frames : Right(f, n)
    BY <1>0, <1>4 DEF Good
  <1> DEFINE Is(h) == h = [n \in 0 .. Frames |-> IF n = 0 THEN v ELSE Frame(h[n - 1])]
             walk == CHOOSE h : Is(h)
  <1>6. Is(f)
    <2>1. ASSUME NEW n \in 0 .. Frames
          PROVE  f[n] = IF n = 0 THEN v ELSE Frame(f[n - 1])
      <3>1. CASE n = 0
        BY <1>5, <3>1
      <3>2. CASE n # 0
        <4>1. f[n - 1] \in L
          BY <1>0, <3>2
        <4>2. g[f[n - 1]] = Frame(f[n - 1])
          BY <4>1 DEF g
        <4> QED
          BY <1>5, <3>2, <4>2
      <3> QED
        BY <3>1, <3>2
    <2> QED
      BY <2>1
  <1>7. Walked(v) = walk[Frames]
    BY DEF Walked
  <1> HIDE DEF Is
  <1>8. Is(walk)
    BY <1>6
  <1> HIDE DEF walk
  <1>9. \A n \in 0 .. Frames : walk[n] = IF n = 0 THEN v ELSE Frame(walk[n - 1])
    BY <1>8 DEF Is
  <1> DEFINE B == {n \in 0 .. Frames : walk[n] \notin L}
  <1>10. B = {}
    <2> SUFFICES ASSUME B # {} PROVE FALSE
      OBVIOUS
    <2>0. B \subseteq Nat
      BY <1>0
    <2>1. PICK n \in B : \A j \in B : n <= j
      BY <2>0, LeastNat
    <2>2. n # 0 /\ n \in 0 .. Frames
      BY <1>0, <1>9
    <2>3. n - 1 \in 0 .. Frames /\ n - 1 \notin B
      BY <1>0, <2>1, <2>2
    <2>4. Frame(walk[n - 1]) \in L
      BY <2>3
    <2> QED
      BY <1>9, <2>2, <2>4
  <1>11. Frames \in 0 .. Frames /\ Frames - 1 \in 0 .. Frames /\ Frames # 0
    BY <1>0
  <1>12. walk[Frames] = Frame(walk[Frames - 1]) /\ walk[Frames - 1] \in L
    BY <1>9, <1>10, <1>11
  <1> QED
    BY <1>7, <1>12

(* The decoder runs ahead far enough, or to the end of a file that is not  *)
(* to be played again.                                                     *)
LEMMA Fills ==
  ASSUME NEW v \in Voices, v.active, v.stream
  PROVE  \/ Filled(v) = <<>> /\ ~v.loop
         \/ /\ Filled(v)[1] \in 0 .. Length[v.sound]
            /\ Filled(v)[2] \in Nat /\ Filled(v)[2] >= Need(v)
            /\ Filled(v) # <<>>
  <1> DEFINE len == Length[v.sound]
             need == Need(v)
             D == (0 .. len) \X Nat
             Full == {d \in D : d[2] >= need}
             Val == Full \cup {x \in {<<>>} : ~v.loop}
             got(d) == IF len - d[1] < Chunk THEN len - d[1] ELSE Chunk
             Step(f, d) == IF d[2] >= need THEN d
                           ELSE IF d[1] < len THEN f[<<d[1] + got(d), d[2] + got(d)>>]
                           ELSE IF v.loop THEN f[<<0, d[2]>>]
                           ELSE <<>>
             far(d) == 2 * (need - d[2]) + (IF d[1] < len THEN 0 ELSE 1)
             Within(d, k) == d[2] >= need \/ far(d) <= k
             Good(k) == \E f \in [D -> Val] :
                          \A d \in D : Within(d, k) => f[d] = Step(f, d)
             S == {k \in Nat : ~Good(k)}
  <1>0. /\ len \in Nat /\ len > 0 /\ need \in Nat /\ Chunk \in Nat /\ Chunk > 0
        /\ v.loop \in BOOLEAN /\ v.read \in 0 .. len /\ v.block \in Nat
    <2>1. /\ v \in Record /\ v.sound \in Sounds /\ v.step \in Nat
          /\ len > 0 /\ v.read <= len /\ Frames \in Nat
      BY Constants DEF Voices, Record
    <2>2. v.step * Frames \in Nat
      BY <2>1
    <2>3. need \in Nat
      BY <2>2 DEF Need
    <2> QED
      BY <2>1, <2>3, Constants DEF Record
  <1> HIDE DEF len, need
  (* One turn of the decoder comes nearer to enough.                       *)
  <1>1. ASSUME NEW d \in D, ~(d[2] >= need)
        PROVE  /\ far(d) \in Nat /\ far(d) > 0
               /\ d[1] < len =>
                    LET e == <<d[1] + got(d), d[2] + got(d)>> IN
                      e \in D /\ (e[2] >= need \/ far(e) < far(d))
               /\ ~(d[1] < len) =>
                    LET e == <<0, d[2]>> IN e \in D /\ far(e) < far(d)
    <2>1. d[1] \in 0 .. len /\ d[2] \in Nat /\ d[2] < need
      BY <1>0, <1>1
    <2>2. far(d) \in Nat /\ far(d) > 0
      BY <1>0, <2>1
    <2>3. ASSUME d[1] < len
          PROVE  LET e == <<d[1] + got(d), d[2] + got(d)>> IN
                   e \in D /\ (e[2] >= need \/ far(e) < far(d))
      <3> DEFINE n == got(d)
                 e == <<d[1] + n, d[2] + n>>
      <3>1. n \in Nat /\ n > 0 /\ d[1] + n \in 0 .. len
        BY <1>0, <2>1, <2>3
      <3> HIDE DEF n
      <3>2. e \in D /\ e[1] = d[1] + n /\ e[2] = d[2] + n
        BY <2>1, <3>1
      <3> HIDE DEF e
      <3>3. far(e) < far(d)
        BY <1>0, <2>1, <2>3, <3>1, <3>2
      <3> QED
        BY <3>2, <3>3 DEF n, e
    <2>4. ASSUME ~(d[1] < len)
          PROVE  LET e == <<0, d[2]>> IN e \in D /\ far(e) < far(d)
      BY <1>0, <2>1, <2>4
    <2> QED
      BY <2>2, <2>3, <2>4
  <1>2. <<0, need>> \in Full
    BY <1>0
  <1>3. Good(0)
    <2> DEFINE f == [d \in D |-> IF d[2] >= need THEN d ELSE <<0, need>>]
    <2>1. f \in [D -> Val]
      BY <1>2
    <2>2. \A d \in D : Within(d, 0) => f[d] = Step(f, d)
      <3> SUFFICES ASSUME NEW d \in D, Within(d, 0) PROVE f[d] = Step(f, d)
        OBVIOUS
      <3>1. d[2] >= need
        <4> SUFFICES ASSUME ~(d[2] >= need) PROVE FALSE
          OBVIOUS
        <4>1. far(d) \in Nat /\ far(d) > 0
          BY <1>1
        <4>2. far(d) <= 0
          OBVIOUS
        <4> HIDE DEF far
        <4> QED
          BY <4>1, <4>2
      <3> QED
        BY <3>1
    <2> HIDE DEF f, Step, Within, Val, D
    <2> QED
      BY <2>1, <2>2
  <1>4. ASSUME NEW k \in Nat, Good(k) PROVE Good(k + 1)
    <2>1. PICK f \in [D -> Val] : \A d \in D : Within(d, k) => f[d] = Step(f, d)
      BY <1>4
    <2> DEFINE h == [d \in D |-> IF Within(d, k) THEN f[d]
                                 ELSE IF Step(f, d) \in Val THEN Step(f, d)
                                 ELSE f[d]]
    <2>2. h \in [D -> Val]
      <3> HIDE DEF Step, Within, Val, D
      <3> QED
        OBVIOUS
    <2>3. ASSUME NEW d \in D, Within(d, k + 1) PROVE h[d] = Step(h, d)
      <3>1. CASE d[2] >= need
        <4>1. h[d] = f[d] /\ f[d] = d
          BY <2>1, <3>1
        <4> QED
          BY <3>1, <4>1
      <3>2. CASE ~(d[2] >= need) /\ d[1] < len
        <4> DEFINE e == <<d[1] + got(d), d[2] + got(d)>>
        <4>1. e \in D /\ Within(e, k)
          <5>1. /\ e \in D /\ (e[2] >= need \/ far(e) < far(d))
                /\ far(d) \in Nat
            BY <1>1, <3>2
          <5>2. far(d) <= k + 1
            BY <2>3, <3>2
          <5> HIDE DEF e
          <5>3. ~(e[2] >= need) => far(e) \in Nat
            BY <1>1, <5>1
          <5> HIDE DEF far, D
          <5> QED
            BY <5>1, <5>2, <5>3
        <4>2. Step(h, d) = h[e] /\ Step(f, d) = f[e]
          BY <3>2
        <4> HIDE DEF e, Step
        <4>3. h[e] = f[e] /\ f[e] \in Val
          BY <2>1, <4>1
        <4> HIDE DEF Val, D, Within
        <4>4. h[d] = f[e]
          BY <2>1, <4>2, <4>3
        <4> QED
          BY <4>2, <4>3, <4>4
      <3>3. CASE ~(d[2] >= need) /\ ~(d[1] < len) /\ v.loop
        <4> DEFINE e == <<0, d[2]>>
        <4>1. e \in D /\ Within(e, k)
          <5>1. /\ e \in D /\ (e[2] >= need \/ far(e) < far(d))
                /\ far(d) \in Nat
            BY <1>1, <3>3
          <5>2. far(d) <= k + 1
            BY <2>3, <3>3
          <5> HIDE DEF e
          <5>3. ~(e[2] >= need) => far(e) \in Nat
            BY <1>1, <5>1
          <5> HIDE DEF far, D
          <5> QED
            BY <5>1, <5>2, <5>3
        <4>2. Step(h, d) = h[e] /\ Step(f, d) = f[e]
          BY <3>3
        <4> HIDE DEF e, Step
        <4>3. h[e] = f[e] /\ f[e] \in Val
          BY <2>1, <4>1
        <4> HIDE DEF Val, D, Within
        <4>4. h[d] = f[e]
          BY <2>1, <4>2, <4>3
        <4> QED
          BY <4>2, <4>3, <4>4
      <3>4. CASE ~(d[2] >= need) /\ ~(d[1] < len) /\ ~v.loop
        <4>1. Step(h, d) = <<>> /\ Step(f, d) = <<>> /\ <<>> \in Val
          BY <3>4
        <4> HIDE DEF Val, D, Within, Step
        <4>2. h[d] = <<>>
          BY <2>1, <4>1
        <4> QED
          BY <4>1, <4>2
      <3> QED
        BY <1>0, <3>1, <3>2, <3>3, <3>4
    <2> HIDE DEF h, Step, Within, Val, D
    <2> QED
      BY <2>2, <2>3
  <1>5. \A k \in Nat : Good(k)
    <2> HIDE DEF Good
    <2> SUFFICES ASSUME S # {} PROVE FALSE
      OBVIOUS
    <2>1. PICK k \in S : \A j \in S : k <= j
      BY LeastNat
    <2>2. k # 0 /\ k \in Nat
      BY <1>3
    <2>3. k - 1 \in Nat /\ k - 1 \notin S
      BY <2>1, <2>2
    <2>4. Good((k - 1) + 1)
      BY <1>4, <2>3
    <2> QED
      BY <2>2, <2>4
  <1>6. \A d \in D : Within(d, 2 * need + 1)
    BY <1>0
  <1>7. PICK f \in [D -> Val] : \A d \in D : f[d] = Step(f, d)
    <2>1. 2 * need + 1 \in Nat
      BY <1>0
    <2>2. Good(2 * need + 1)
      BY <1>5, <2>1
    <2> HIDE DEF Step, Within, Val, D
    <2> QED
      BY <1>6, <2>2
  <1> DEFINE Is(h) == h = [d \in D |-> Step(h, d)]
             fill == CHOOSE h : Is(h)
  <1>8. Is(f)
    <2> HIDE DEF Step, D, Val
    <2> QED
      BY <1>7
  <1>9. Filled(v) = fill[<<v.read, v.block>>]
    BY DEF Filled, len, need
  <1> HIDE DEF Is
  <1>10. Is(fill)
    BY <1>8
  <1> HIDE DEF fill
  <1>11. \A d \in D : fill[d] = Step(fill, d)
    <2> HIDE DEF Step, D
    <2> QED
      BY <1>10 DEF Is
  (* It gives what Val says, whatever else it might be.                    *)
  <1> DEFINE B == {k \in Nat : \E d \in D : /\ ~(d[2] >= need) /\ far(d) = k
                                            /\ fill[d] \notin Val}
  <1>12. \A d \in D : d[2] >= need => fill[d] \in Val
    BY <1>11
  <1>13. B = {}
    <2> SUFFICES ASSUME B # {} PROVE FALSE
      OBVIOUS
    <2>0. B \subseteq Nat
      OBVIOUS
    <2> HIDE DEF B
    <2>1. PICK k \in B : \A j \in B : k <= j
      BY <2>0, LeastNat
    <2>2. PICK d \in D : ~(d[2] >= need) /\ far(d) = k /\ fill[d] \notin Val
      BY <2>1 DEF B
    <2>3. ASSUME NEW e \in D, e[2] >= need \/ far(e) < far(d) PROVE fill[e] \in Val
      <3>1. CASE e[2] >= need
        BY <1>12, <3>1
      <3>2. CASE ~(e[2] >= need)
        <4>1. far(e) \in Nat /\ far(e) < k /\ k \in Nat
          BY <1>1, <2>0, <2>2, <2>3, <3>2
        <4>2. far(e) \notin B
          <5> HIDE DEF far
          <5> QED
            BY <2>1, <4>1
        <4> QED
          BY <3>2, <4>1, <4>2 DEF B
      <3> QED
        BY <3>1, <3>2
    <2>4. CASE d[1] < len
      <3> DEFINE e == <<d[1] + got(d), d[2] + got(d)>>
      <3>1. e \in D /\ (e[2] >= need \/ far(e) < far(d))
        BY <1>1, <2>2, <2>4
      <3>2. fill[d] = fill[e]
        BY <1>11, <2>2, <2>4
      <3> HIDE DEF e
      <3>3. fill[e] \in Val
        BY <2>3, <3>1
      <3> QED
        BY <2>2, <3>2, <3>3
    <2>5. CASE ~(d[1] < len) /\ v.loop
      <3> DEFINE e == <<0, d[2]>>
      <3>1. e \in D /\ far(e) < far(d)
        BY <1>1, <2>2, <2>5
      <3>2. fill[d] = fill[e]
        BY <1>11, <2>2, <2>5
      <3> HIDE DEF e
      <3>3. fill[e] \in Val
        BY <2>3, <3>1
      <3> QED
        BY <2>2, <3>2, <3>3
    <2>6. CASE ~(d[1] < len) /\ ~v.loop
      <3>1. fill[d] = <<>>
        BY <1>11, <2>2, <2>6
      <3> QED
        BY <2>2, <2>6, <3>1
    <2> QED
      BY <1>0, <2>4, <2>5, <2>6
  <1>14. ASSUME NEW d \in D PROVE fill[d] \in Val
    <2>1. CASE d[2] >= need
      BY <1>12, <2>1
    <2>2. CASE ~(d[2] >= need)
      <3>1. far(d) \in Nat
        BY <1>1, <2>2
      <3> QED
        BY <1>13, <2>2, <3>1
    <2> QED
      BY <2>1, <2>2
  <1>15. <<v.read, v.block>> \in D
    BY <1>0
  <1>16. Filled(v) \in Val
    <2> HIDE DEF D, Val
    <2> QED
      BY <1>9, <1>14, <1>15
  <1>17. ASSUME NEW d \in Full
         PROVE  d[1] \in 0 .. len /\ d[2] \in Nat /\ d[2] >= need /\ d # <<>>
    OBVIOUS
  <1> QED
    BY <1>16, <1>17 DEF len, need

(* What a buffer of the device does to a voice.  A loop goes on; a sample  *)
(* is read inside its clip, unless the sound overshoots.                   *)
Follows(w, v) ==
  /\ w.age <= v.age
  /\ w.active => v.active /\ w.age = v.age
  /\ v.active /\ v.loop => w.active

LEMMA WalkedIs ==
  ASSUME NEW v \in Voices, v.active
  PROVE  /\ Walked(v) \in Voices /\ Follows(Walked(v), v)
         /\ Walked(v).active /\ ~Overshoots(v) =>
              Walked(v).position - v.step \in 0 .. Length[v.sound] - 1
  <1> DEFINE len == Length[v.sound]
             Kin(w) == /\ Follows(w, v)
                       /\ w.active => /\ w.sound = v.sound /\ w.loop = v.loop
                                      /\ w.step = v.step
                                      /\ ~Overshoots(v) /\ w.loop => w.position < 2 * len
             Inside(w) == w.active /\ ~Overshoots(v) => w.position - v.step \in 0 .. len - 1
             L == {w \in Voices : Kin(w)}
             M == {w \in L : Inside(w)}
  <1>0. /\ len \in Nat /\ v.step \in Nat /\ v.position \in Nat
        /\ v.age \in Nat /\ v.loop \in BOOLEAN
        /\ Horizon \in Nat /\ 2 * len + v.step <= Horizon
        /\ ~Overshoots(v) /\ v.loop => v.step <= len
    BY Fields, Constants DEF Overshoots
  <1>1. v \in L
    BY <1>0 DEF Follows, Overshoots
  <1>2. ASSUME NEW w \in L PROVE Frame(w) \in M
    <2>0. /\ w \in Voices /\ w \in Record /\ Kin(w)
          /\ w.position \in Nat /\ w.age \in Nat /\ w.active \in BOOLEAN
          /\ w.step \in Nat
      BY Fields
    <2>1. Frame(w) \in Voices
      BY <2>0, FrameIs
    <2>2. CASE Frame(w) = w /\ ~w.active
      BY <2>0, <2>2
    <2>3. CASE Frame(w) = Quiet /\ w.active /\ ~w.loop
      <3>1. Quiet.age = 0 /\ ~Quiet.active /\ ~v.loop
        BY <2>0, <2>3, QuietIs
      <3>2. Kin(Quiet) /\ Inside(Quiet)
        BY <1>0, <3>1 DEF Follows
      <3> HIDE DEF Kin, Inside
      <3> QED
        BY <2>1, <2>3, <3>2
    <2>4. ASSUME NEW p \in Nat, Frame(w) = [w EXCEPT !.position = p], w.active,
                 \/ p - w.step = w.position /\ w.position < Length[w.sound]
                 \/ w.loop /\ p = Back(w) /\ w.position >= Length[w.sound]
          PROVE  Frame(w) \in M
      <3> DEFINE x == Frame(w)
      <3>1. /\ x.active /\ x.age = w.age /\ x.sound = w.sound /\ x.loop = w.loop
            /\ x.step = w.step /\ x.position = p
        BY <2>0, <2>4 DEF Record
      <3>2. w.sound = v.sound /\ w.step = v.step /\ w.loop = v.loop
        BY <2>0, <2>4
      <3>3. ASSUME ~Overshoots(v)
            PROVE  p - v.step \in 0 .. len - 1 /\ (v.loop => p < 2 * len)
        <4>1. w.loop => w.position < 2 * len
          BY <2>0, <2>4, <3>3
        <4>2. CASE p - w.step = w.position /\ w.position < Length[w.sound]
          BY <1>0, <2>0, <3>2, <3>3, <4>2
        <4>3. CASE w.loop /\ p = Back(w) /\ w.position >= Length[w.sound]
          <5>1. p = w.position - len + v.step
            BY <1>0, <2>0, <3>2, <4>1, <4>3 DEF Back
          <5> QED
            BY <1>0, <2>0, <3>2, <3>3, <4>1, <4>3, <5>1
        <4> QED
          BY <2>4, <4>2, <4>3
      <3> HIDE DEF x
      <3>4. Kin(x) /\ Inside(x)
        <4>1. Follows(x, v)
          BY <2>0, <2>4, <3>1 DEF Follows
        <4> QED
          BY <3>1, <3>2, <3>3, <4>1
      <3> HIDE DEF Kin, Inside
      <3> QED
        BY <2>1, <3>4 DEF x
    <2> HIDE DEF M, L
    <2> QED
      BY <2>0, <2>2, <2>3, <2>4, FrameIs
  <1>3. M \subseteq L
    OBVIOUS
  <1> HIDE DEF M, L
  <1>4. Walked(v) \in M
    BY <1>1, <1>2, <1>3, Walks
  <1> QED
    BY <1>4 DEF L, M

LEMMA StreamedIs ==
  ASSUME NEW v \in Voices, v.active, v.stream
  PROVE  Streamed(v) \in Voices /\ Follows(Streamed(v), v)
  <1>0. /\ v \in Record /\ v.sound \in Sounds /\ v.age \in Nat /\ v.loop \in BOOLEAN
        /\ v.step \in Nat /\ Frames \in Nat /\ Length[v.sound] \in Nat
    BY Constants, Fields
  <1>1. CASE Filled(v) = <<>> /\ ~v.loop
    <2>1. Streamed(v) = Quiet
      BY <1>1 DEF Streamed
    <2> QED
      BY <1>0, <1>1, <2>1, QuietIs DEF Follows
  <1>2. CASE /\ Filled(v)[1] \in 0 .. Length[v.sound]
             /\ Filled(v)[2] \in Nat /\ Filled(v)[2] >= Need(v)
             /\ Filled(v) # <<>>
    <2> DEFINE r == Filled(v)[1]
               b == Filled(v)[2] - v.step * Frames
               w == [v EXCEPT !.read = r, !.block = b]
    <2>1. v.step * Frames \in Nat
      BY <1>0
    <2>2. b \in Nat
      BY <1>2, <2>1 DEF Need
    <2>3. r \in Nat /\ r <= Length[v.sound]
      BY <1>0, <1>2
    <2>4. Streamed(v) = w
      BY <1>2 DEF Streamed
    <2> HIDE DEF r, b
    <2>5. /\ w.sound = v.sound /\ w.active = v.active /\ w.stream = v.stream
          /\ w.age = v.age /\ w.read = r /\ w \in Record
      BY <1>0, <2>2, <2>3 DEF Record
    <2> HIDE DEF w
    <2>6. w \in Voices
      BY <2>3, <2>5 DEF Voices
    <2>7. Follows(w, v)
      BY <1>0, <2>5 DEF Follows
    <2> QED
      BY <2>4, <2>6, <2>7
  <1> QED
    BY <1>1, <1>2, Fills

LEMMA MixedIs ==
  ASSUME NEW v \in Voices
  PROVE  /\ Mixed(v) \in Voices /\ Follows(Mixed(v), v)
         /\ v.active /\ ~v.paused /\ ~v.stream /\ Mixed(v).active /\ ~Overshoots(v) =>
              Mixed(v).position - v.step \in 0 .. Length[v.sound] - 1
  <1>0. /\ v.active \in BOOLEAN /\ v.paused \in BOOLEAN /\ v.stream \in BOOLEAN
        /\ v.age \in Nat
    BY Fields
  <1>1. CASE ~v.active \/ v.paused
    BY <1>0, <1>1 DEF Mixed, Follows
  <1>2. CASE v.active /\ ~v.paused /\ v.stream
    <2>1. Mixed(v) = Streamed(v)
      BY <1>2 DEF Mixed
    <2> QED
      BY <1>2, <2>1, StreamedIs
  <1>3. CASE v.active /\ ~v.paused /\ ~v.stream
    <2>1. Mixed(v) = Walked(v)
      BY <1>3 DEF Mixed
    <2> QED
      BY <1>3, <2>1, WalkedIs
  <1> QED
    BY <1>0, <1>1, <1>2, <1>3

-----------------------------------------------------------------------------
(* The table of voices.                                                    *)
LEMMA TableIs ==
  ASSUME MixerTypes
  PROVE  /\ Len(voices) \in Nat /\ Len(channels) \in Nat
         /\ Slots = 1 .. Len(voices)
         /\ \A i \in Slots : voices[i] \in Voices
         /\ \A c \in 1 .. Len(channels) : channels[c] \in [voice : Nat, play : Nat]
         /\ \A t \in Threads : thunk[t] \in Thunks
  <1>1. voices \in Seq(Voices) /\ channels \in Seq([voice : Nat, play : Nat])
    BY DEF MixerTypes
  <1>2. Len(voices) \in Nat /\ Len(channels) \in Nat
    BY <1>1, LenProperties
  <1>3. \A i \in 1 .. Len(voices) : voices[i] \in Voices
    BY <1>1, ElementOfSeq
  <1>4. \A c \in 1 .. Len(channels) : channels[c] \in [voice : Nat, play : Nat]
    BY <1>1, ElementOfSeq
  <1>5. \A t \in Threads : thunk[t] \in Thunks
    BY DEF MixerTypes
  <1> QED
    BY <1>2, <1>3, <1>4, <1>5 DEF Slots

(* Where a sound may go, and what is there: nothing, or what does not loop.*)
LEMMA SlotForIs ==
  ASSUME MixerTypes
  PROVE  \/ SlotFor = 0
         \/ SlotFor \in Slots \ Active
         \/ SlotFor \in OneShots
         \/ SlotFor = Len(voices) + 1 /\ Len(voices) < limit
  <1>0. /\ Slots \subseteq Nat /\ Len(voices) \in Nat /\ limit \in Nat
        /\ Active \subseteq Slots /\ OneShots \subseteq Active
        /\ \A i \in Slots : voices[i].age \in Nat
    BY TableIs, Fields DEF MixerTypes, Active, OneShots
  <1>1. CASE Active # Slots
    <2> DEFINE F == Slots \ Active
    <2>1. F \subseteq Nat /\ F # {}
      BY <1>0, <1>1
    <2>2. \E i \in F : \A j \in F : i <= j
      BY <2>1, LeastNat
    <2>3. First(F) \in F
      BY <2>2 DEF First
    <2>4. SlotFor = First(F)
      BY <1>1 DEF SlotFor
    <2> QED
      BY <2>3, <2>4
  <1>2. CASE Active = Slots /\ Len(voices) < limit
    <2>1. SlotFor = Len(voices) + 1
      BY <1>0, <1>2 DEF SlotFor
    <2> QED
      BY <1>2, <2>1
  <1>3. CASE Active = Slots /\ ~(Len(voices) < limit) /\ OneShots # {}
    <2> DEFINE A == {voices[i].age : i \in OneShots}
    <2>1. A \subseteq Nat /\ A # {}
      BY <1>0, <1>3
    <2>2. PICK a \in A : \A b \in A : a <= b
      BY <2>1, LeastNat
    <2>3. \E i \in OneShots : \A j \in OneShots : voices[i].age <= voices[j].age
      BY <2>2
    <2>4. Oldest(OneShots) \in OneShots
      BY <2>3 DEF Oldest
    <2>5. SlotFor = Oldest(OneShots)
      BY <1>0, <1>3 DEF SlotFor
    <2> QED
      BY <2>4, <2>5
  <1>4. CASE Active = Slots /\ ~(Len(voices) < limit) /\ OneShots = {}
    BY <1>0, <1>4 DEF SlotFor
  <1> QED
    BY <1>1, <1>2, <1>3, <1>4

(* What every step leaves of the table: a voice that plays plays what it   *)
(* played, or the play that is new.                                        *)
Evolves ==
  /\ voices' \in Seq(Voices) /\ plays' \in Nat /\ plays <= plays'
  /\ Len(voices) <= Len(voices')
  /\ \A i \in 1 .. Len(voices') :
       /\ voices'[i].age <= plays'
       /\ voices'[i].active =>
            \/ i \in Slots /\ voices[i].active /\ voices'[i].age = voices[i].age
            \/ voices'[i].age = plays + 1

LoopsGo ==
  \A i \in Slots :
    voices[i].active /\ voices[i].loop =>
      \/ voices'[i].active /\ voices'[i].age = voices[i].age
      \/ \E t \in Threads : Stop(t, i)

LEMMA KnownOn ==
  ASSUME MixerTypes, Evolves
  PROVE  \A k : k.play \in Nat /\ Known(k, voices, plays) => Known(k, voices', plays')
  <1> SUFFICES ASSUME NEW k, k.play \in Nat, Known(k, voices, plays)
               PROVE  Known(k, voices', plays')
    OBVIOUS
  <1>1. Len(voices) \in Nat /\ Len(voices') \in Nat /\ plays \in Nat
    BY LenProperties DEF MixerTypes, Evolves
  <1>2. k.voice \in 0 .. Len(voices') /\ k.play <= plays' /\ k.play # plays + 1
    BY <1>1 DEF Known, Evolves
  <1>3. ASSUME NEW i \in 1 .. Len(voices'),
               voices'[i].active, voices'[i].age = k.play
        PROVE  k.voice = i
    BY <1>2, <1>3 DEF Known, Evolves, Slots
  <1> QED
    BY <1>2, <1>3 DEF Known

LEMMA SoundPlayed ==
  ASSUME MixerTypes, Counted, Bounded, NEW t \in Threads, NEW sound \in Sounds,
         NEW paused \in BOOLEAN, NEW loop \in BOOLEAN,
         PlaySound(t, sound, paused, loop)
  PROVE  /\ Evolves /\ LoopsGo /\ plays' <= plays + 1
         /\ Len(voices') <= MaxVoices
         /\ thunk'[t].at = "channel"
         /\ thunk'[t] \in Thunks /\ Known(thunk'[t], voices', plays')
         /\ \A u \in Threads \ {t} : thunk'[u] = thunk[u]
  <1> DEFINE s == SlotFor
             new == IF Decodes(sound) THEN Voice(sound, paused, loop) ELSE Quiet
             n == Len(voices)
  <1>0. /\ n \in Nat /\ plays \in Nat /\ thunk \in [Threads -> Thunks]
        /\ voices \in Seq(Voices) /\ limit \in Nat /\ DefaultLimit \in Nat
        /\ limit <= MaxVoices /\ MaxVoices \in Nat /\ n <= MaxVoices
        /\ \A i \in Slots : /\ voices[i] \in Voices /\ voices[i].age \in Nat
                            /\ voices[i].age <= plays
                            /\ voices[i].active => voices[i].age > 0
    BY TableIs, Fields, Constants DEF MixerTypes, MaxVoices, Bounded
  <1>1. plays + 1 <= MaxPlays
    <2>1. IsFiniteSet(Starting)
      BY Constants, FS_Subset DEF Starting
    <2>2. Cardinality(Starting) \in Nat
      BY <2>1, FS_CardinalityType
    <2> QED
      BY <1>0, <2>2, TableIs, Constants DEF Counted, PlaySound
  <1>2. /\ new \in Voices
        /\ new.age <= plays + 1
        /\ new.active => new.age = plays + 1
    <2>1. CASE Decodes(sound)
      <3> DEFINE v == Voice(sound, paused, loop)
      <3>1. /\ v.sound = sound /\ v.active = TRUE /\ v.age = plays + 1
            /\ v.stream = (sound \in Streams) /\ v.read = 0
        BY DEF Voice
      <3>2. v \in Record
        <4>1. plays + 1 \in 0 .. MaxPlays
          BY <1>0, <1>1, Constants
        <4>2. /\ sound \in Sounds \cup {"none"} /\ Rate[sound] \in Steps /\ 0 \in Nat
              /\ (sound \in Streams) \in BOOLEAN
          BY Constants
        <4>3. PICK b \in BOOLEAN : b <=> sound \in Streams
          <5>1. CASE sound \in Streams
            BY <5>1
          <5>2. CASE sound \notin Streams
            BY <5>2
          <5> QED
            BY <5>1, <5>2
        <4>4. v = [sound |-> sound, active |-> TRUE, paused |-> paused,
                   loop |-> loop, age |-> plays + 1, position |-> 0,
                   step |-> Rate[sound], stream |-> b, read |-> 0, block |-> 0]
          BY <4>3 DEF Voice
        <4> HIDE DEF v
        <4> QED
          BY ONLY <4>1, <4>2, <4>3, <4>4, paused \in BOOLEAN, loop \in BOOLEAN
             DEF Record
      <3>3. Length[sound] \in Nat /\ Length[sound] > 0
        BY <2>1, Constants DEF Decodes
      <3> HIDE DEF v
      <3>4. v \in Voices
        <4>1. v.active <=> v.sound \in Sounds
          BY <3>1
        <4>2. v.stream <=> v.sound \in Streams
          BY <3>1
        <4>3. v.age > 0 /\ Length[v.sound] > 0 /\ v.read <= Length[v.sound]
          BY <1>0, <3>1, <3>3
        <4> QED
          BY <3>2, <4>1, <4>2, <4>3 DEF Voices
      <3> QED
        BY <1>0, <2>1, <3>1, <3>4 DEF v
    <2>2. CASE ~Decodes(sound)
      BY <1>0, <2>2, QuietIs
    <2> QED
      BY <2>1, <2>2
  <1>3. s \in Nat
    BY <1>0, SlotForIs DEF Slots, Active, OneShots
  <1> DEFINE told == IF Refused(sound) \/ ~Decodes(sound)
                     THEN Made(0, 0) ELSE Made(s, plays + 1)
  <1>4. /\ thunk'[t] = told /\ \A u \in Threads \ {t} : thunk'[u] = thunk[u]
    BY <1>0 DEF PlaySound
  <1>5. told.at = "channel" /\ told \in Thunks
    <2>1. \A v, p \in Nat : Made(v, p) \in Thunks /\ Made(v, p).at = "channel"
      BY DEF Made, Thunks
    <2>2. told = Made(0, 0) \/ told = Made(s, plays + 1)
      OBVIOUS
    <2>3. plays + 1 \in Nat
      BY <1>0
    <2> HIDE DEF told, s
    <2> QED
      BY <1>3, <2>1, <2>2, <2>3
  <1>6. /\ Refused(sound) \/ ~Decodes(sound) => told.voice = 0 /\ told.play = 0
        /\ ~Refused(sound) /\ Decodes(sound) => told.voice = s /\ told.play = plays + 1
    BY DEF Made
  <1> HIDE DEF told
  <1>7. CASE Refused(sound)
    <2>1. UNCHANGED <<voices, plays>>
      BY <1>7 DEF PlaySound
    <2>2. Evolves /\ LoopsGo
      BY <1>0, <2>1 DEF Evolves, LoopsGo, Slots
    <2>3. Known(told, voices', plays')
      BY <1>0, <1>6, <1>7, <2>1 DEF Known, Slots
    <2> QED
      BY <1>0, <1>4, <1>5, <2>1, <2>2, <2>3
  <1>8. CASE ~Refused(sound)
    <2> HIDE DEF new
    <2>1. /\ plays' = plays + 1 /\ s # 0
          /\ voices' = IF s > n THEN Append(voices, new)
                       ELSE [voices EXCEPT ![s] = new]
      BY <1>8 DEF PlaySound, audio_play, Refused, new
    <2> DEFINE w == voices'
    <2>2. /\ w \in Seq(Voices) /\ n <= Len(w) /\ Len(w) <= MaxVoices
          /\ s \in 1 .. Len(w) /\ w[s] = new
          /\ \A i \in 1 .. Len(w) : i # s => i \in 1 .. n /\ w[i] = voices[i]
          /\ s \in 1 .. n => ~(voices[s].active /\ voices[s].loop)
      <3>1. CASE s = n + 1 /\ n < limit
        <4>1. w = Append(voices, new)
          BY <1>0, <2>1, <3>1
        <4>2. /\ w \in Seq(Voices) /\ Len(w) = n + 1 /\ w[n + 1] = new
              /\ \A i \in 1 .. n : w[i] = voices[i]
          BY <1>0, <1>2, <4>1, AppendProperties
        <4> QED
          BY <1>0, <3>1, <4>2
      <3>2. CASE s \in Slots \ Active \/ s \in OneShots
        <4>1. s \in 1 .. n /\ ~(s > n)
          BY <1>0, <3>2 DEF Slots, Active, OneShots
        <4>2. w = [voices EXCEPT ![s] = new]
          BY <2>1, <4>1
        <4>3. /\ w \in Seq(Voices) /\ Len(w) = n /\ w[s] = new
              /\ \A i \in 1 .. n : i # s => w[i] = voices[i]
          BY <1>0, <1>2, <4>1, <4>2, ExceptSeq
        <4>4. ~(voices[s].active /\ voices[s].loop)
          BY <3>2, <4>1 DEF Slots, Active, OneShots
        <4> QED
          BY <1>0, <4>1, <4>3, <4>4
      <3> QED
        BY <2>1, <3>1, <3>2, SlotForIs
    <2>3. ASSUME NEW i \in 1 .. Len(w)
          PROVE  /\ w[i].age <= plays + 1
                 /\ w[i].active =>
                      \/ i \in Slots /\ voices[i].active /\ w[i].age = voices[i].age
                      \/ i = s /\ w[i].age = plays + 1
                 /\ i # s => w[i].age <= plays
      <3>1. CASE i = s
        BY <1>2, <2>2, <3>1
      <3>2. CASE i # s
        BY <1>0, <2>2, <3>2 DEF Slots
      <3> QED
        BY <3>1, <3>2
    <2>4. Evolves
      BY <1>0, <2>1, <2>2, <2>3 DEF Evolves
    <2>5. LoopsGo
      <3> SUFFICES ASSUME NEW i \in Slots, voices[i].active, voices[i].loop
                   PROVE  w[i].active /\ w[i].age = voices[i].age
        BY DEF LoopsGo
      <3>1. i \in 1 .. Len(w) /\ i # s
        BY <1>0, <2>2 DEF Slots
      <3> QED
        BY <2>2, <3>1
    <2>6. Known(told, voices', plays')
      <3>1. CASE Decodes(sound)
        BY <1>0, <1>6, <1>8, <2>1, <2>2, <2>3, <3>1 DEF Known
      <3>2. CASE ~Decodes(sound)
        <4>1. \A i \in 1 .. Len(w) : w[i].active => w[i].age > 0
          BY <1>0, <2>3
        <4>2. Len(w) \in Nat
          BY <2>2, LenProperties
        <4> QED
          BY <1>0, <1>6, <2>1, <3>2, <4>1, <4>2 DEF Known
      <3> QED
        BY <3>1, <3>2
    <2> QED
      BY <1>0, <1>4, <1>5, <2>1, <2>2, <2>4, <2>5, <2>6
  <1> QED
    BY <1>7, <1>8

(* A step that leaves the voices alone.                                    *)
LEMMA VoicesKept ==
  ASSUME MixerTypes, Bounded, UNCHANGED <<voices, plays>>
  PROVE  Evolves /\ LoopsGo
  <1>1. /\ Len(voices) \in Nat /\ plays \in Nat /\ voices \in Seq(Voices)
        /\ \A i \in Slots : voices[i].age <= plays
    BY TableIs DEF MixerTypes, Bounded
  <1>2. Evolves
    BY <1>1 DEF Evolves, Slots
  <1>3. LoopsGo
    BY DEF LoopsGo
  <1> QED
    BY <1>2, <1>3

(* A call that is not playSound's: nobody starts a sound, no channel is    *)
(* added.                                                                  *)
Calls ==
  /\ thunk' \in [Threads -> Thunks]
  /\ \A u \in Threads :
       /\ thunk'[u].at = "channel" <=> thunk[u].at = "channel"
       /\ thunk'[u].at = "channel" => thunk'[u] = thunk[u]
       /\ thunk'[u].at = "use" => thunk'[u].channel \in 1 .. Len(channels)

LEMMA CallKeeps ==
  ASSUME MixerTypes, Counted, ChannelsKnow, Evolves, Calls, UNCHANGED <<plays, channels>>
  PROVE  Counted' /\ ChannelsKnow'
  <1>1. Starting' = Starting
    BY DEF Calls, Starting
  <1>2. Counted'
    BY <1>1 DEF Counted
  <1>3. ASSUME NEW c \in 1 .. Len(channels') PROVE Known(channels'[c], voices', plays')
    <2>1. /\ c \in 1 .. Len(channels) /\ channels'[c] = channels[c]
          /\ channels[c].play \in Nat
      BY <1>3, TableIs
    <2>2. Known(channels[c], voices, plays)
      BY <2>1 DEF ChannelsKnow
    <2> QED
      BY <2>1, <2>2, KnownOn
  <1>4. ASSUME NEW u \in Starting' PROVE Known(thunk'[u], voices', plays')
    <2>1. u \in Starting /\ u \in Threads /\ thunk'[u] = thunk[u] /\ thunk[u].play \in Nat
      BY <1>1, <1>4, TableIs DEF Starting, Calls, Thunks
    <2>2. Known(thunk[u], voices, plays)
      BY <2>1 DEF ChannelsKnow
    <2> QED
      BY <2>1, <2>2, KnownOn
  <1>5. \A u \in Threads : thunk'[u].at = "use" => thunk'[u].channel \in 1 .. Len(channels')
    BY DEF Calls
  <1> QED
    BY <1>2, <1>3, <1>4, <1>5 DEF ChannelsKnow

LEMMA IdleIs == Idle \in Thunks /\ Idle.at = "idle"
  BY DEF Idle, Thunks

(* A thread that neither was nor is starting a sound.                      *)
LEMMA OneCalls ==
  ASSUME MixerTypes, ChannelsKnow, NEW t \in Threads, NEW k \in Thunks,
         thunk[t].at # "channel", k.at # "channel",
         k.at = "use" => k.channel \in 1 .. Len(channels),
         thunk' = [thunk EXCEPT ![t] = k]
  PROVE  Calls
  <1>1. thunk \in [Threads -> Thunks] /\ thunk' \in [Threads -> Thunks]
    BY DEF MixerTypes
  <1>2. ASSUME NEW u \in Threads
        PROVE  /\ thunk'[u].at = "channel" <=> thunk[u].at = "channel"
               /\ thunk'[u].at = "channel" => thunk'[u] = thunk[u]
               /\ thunk'[u].at = "use" => thunk'[u].channel \in 1 .. Len(channels)
    <2>1. thunk'[u] = IF u = t THEN k ELSE thunk[u]
      BY <1>1
    <2> QED
      BY <2>1 DEF ChannelsKnow
  <1> QED
    BY <1>1, <1>2 DEF Calls

LEMMA NobodyCalls ==
  ASSUME MixerTypes, ChannelsKnow, UNCHANGED thunk
  PROVE  Calls
  BY DEF MixerTypes, ChannelsKnow, Calls

-----------------------------------------------------------------------------
(* The steps of playSound.                                                 *)
LEMMA PlayKeeps ==
  ASSUME MixerInv, NEW t \in Threads, NEW sound \in Sounds,
         NEW paused \in BOOLEAN, NEW loop \in BOOLEAN,
         PlaySound(t, sound, paused, loop)
  PROVE  MixerInv' /\ LoopsGo
  <1>0. /\ MixerTypes /\ Counted /\ Bounded /\ ChannelsKnow /\ Device
        /\ UNCHANGED <<limit, channels, started, open, running, feeder>>
        /\ thunk[t].at = "idle" /\ Len(channels) + Cardinality(Starting) < MaxPlays
    BY DEF MixerInv, PlaySound, device
  <1>1. /\ Evolves /\ LoopsGo /\ plays' <= plays + 1
        /\ Len(voices') <= MaxVoices
        /\ thunk'[t].at = "channel"
        /\ thunk'[t] \in Thunks /\ Known(thunk'[t], voices', plays')
        /\ \A u \in Threads \ {t} : thunk'[u] = thunk[u]
    BY <1>0, SoundPlayed
  <1>2. MixerTypes'
    <2>1. thunk' \in [Threads -> Thunks]
      <3>1. thunk' = [u \in Threads |-> thunk'[u]]
        BY <1>0 DEF MixerTypes, PlaySound
      <3>2. \A u \in Threads : thunk'[u] \in Thunks
        BY <1>0, <1>1, TableIs
      <3> QED
        BY <3>1, <3>2
    <2>2. voices' \in Seq(Voices) /\ plays' \in Nat
      BY <1>1 DEF Evolves
    <2> QED
      BY <1>0, <2>1, <2>2 DEF MixerTypes
  <1>3. Counted'
    <2>1. Starting' = Starting \cup {t} /\ t \notin Starting
      BY <1>0, <1>1 DEF Starting
    <2>2. IsFiniteSet(Starting) /\ Cardinality(Starting) \in Nat
      BY Constants, FS_Subset, FS_CardinalityType DEF Starting
    <2>3. Cardinality(Starting') = Cardinality(Starting) + 1
      BY <2>1, <2>2, FS_AddElement
    <2>4. plays \in Nat /\ plays' \in Nat /\ Len(channels) \in Nat /\ MaxPlays \in Nat
      BY <1>0, <1>1, TableIs, Constants DEF MixerTypes, Evolves
    <2> QED
      BY <1>0, <1>1, <2>2, <2>3, <2>4 DEF Counted
  <1>4. Bounded'
    <2>1. MaxVoices' = MaxVoices
      BY <1>0 DEF MaxVoices
    <2>2. \A i \in 1 .. Len(voices') : voices'[i].age <= plays'
      BY <1>1 DEF Evolves
    <2> QED
      BY <1>0, <1>1, <2>1, <2>2 DEF Bounded, Slots
  <1>5. ChannelsKnow'
    <2>1. ASSUME NEW c \in 1 .. Len(channels')
          PROVE  Known(channels'[c], voices', plays')
      <3>1. /\ c \in 1 .. Len(channels) /\ channels'[c] = channels[c]
            /\ channels[c].play \in Nat
        BY <1>0, <2>1, TableIs
      <3>2. Known(channels[c], voices, plays)
        BY <1>0, <3>1 DEF ChannelsKnow
      <3> QED
        BY <1>0, <1>1, <3>1, <3>2, KnownOn
    <2>2. ASSUME NEW u \in Starting' PROVE Known(thunk'[u], voices', plays')
      <3>1. CASE u = t
        BY <1>1, <3>1
      <3>2. CASE u # t
        <4>1. u \in Starting /\ u \in Threads /\ thunk'[u] = thunk[u] /\ thunk[u].play \in Nat
          BY <1>0, <1>1, <2>2, <3>2, TableIs DEF Starting, Thunks
        <4>2. Known(thunk[u], voices, plays)
          BY <1>0, <4>1 DEF ChannelsKnow
        <4> QED
          BY <1>0, <1>1, <4>1, <4>2, KnownOn
      <3> QED
        BY <3>1, <3>2
    <2>3. \A u \in Threads : thunk'[u].at = "use" => thunk'[u].channel \in 1 .. Len(channels')
      BY <1>0, <1>1 DEF ChannelsKnow
    <2> QED
      BY <2>1, <2>2, <2>3 DEF ChannelsKnow
  <1>6. Device'
    BY <1>0 DEF Device
  <1> QED
    BY <1>1, <1>2, <1>3, <1>4, <1>5, <1>6 DEF MixerInv

LEMMA AddKeeps ==
  ASSUME MixerInv, NEW t \in Threads, AddChannel(t)
  PROVE  MixerInv' /\ LoopsGo
  <1> DEFINE new == [voice |-> thunk[t].voice, play |-> thunk[t].play]
             n == Len(channels)
  <1>0. /\ MixerTypes /\ Counted /\ Bounded /\ ChannelsKnow /\ Device
        /\ UNCHANGED <<voices, plays, limit, started, open, running, feeder>>
        /\ thunk[t].at = "channel" /\ channels' = Append(channels, new)
    BY DEF MixerInv, AddChannel, device
  <1>1. Evolves /\ LoopsGo
    BY <1>0, VoicesKept
  <1>2. PICK moves \in BOOLEAN :
          thunk' = [u \in Threads |->
            IF u = t THEN Idle
            ELSE IF thunk[u].at = "use" /\ moves THEN [thunk[u] EXCEPT !.moved = TRUE]
            ELSE thunk[u]]
    BY DEF AddChannel
  <1>3. thunk'[t] = Idle /\ thunk'[t].at = "idle" /\ thunk'[t] \in Thunks
    BY <1>2, IdleIs
  <1>4. ASSUME NEW u \in Threads, u # t
        PROVE  /\ thunk'[u] \in Thunks /\ thunk'[u].at = thunk[u].at
               /\ thunk'[u].channel = thunk[u].channel
               /\ thunk[u].at = "channel" => thunk'[u] = thunk[u]
    <2>1. thunk[u] \in Thunks
      BY <1>0, TableIs
    <2>2. thunk'[u] = IF thunk[u].at = "use" /\ moves THEN [thunk[u] EXCEPT !.moved = TRUE]
                   ELSE thunk[u]
      BY <1>2, <1>4
    <2>3. CASE thunk[u].at = "use" /\ moves
      <3>1. thunk'[u] = [thunk[u] EXCEPT !.moved = TRUE]
        BY <2>2, <2>3
      <3> QED
        BY <2>1, <2>3, <3>1 DEF Thunks
    <2>4. CASE ~(thunk[u].at = "use" /\ moves)
      BY <2>1, <2>2, <2>4
    <2> QED
      BY <2>3, <2>4
  <1>5. /\ new \in [voice : Nat, play : Nat] /\ n \in Nat
        /\ channels \in Seq([voice : Nat, play : Nat])
    BY <1>0, TableIs DEF MixerTypes, Thunks
  <1>6. /\ channels' \in Seq([voice : Nat, play : Nat]) /\ Len(channels') = n + 1
        /\ channels'[n + 1] = new /\ \A c \in 1 .. n : channels'[c] = channels[c]
    BY <1>0, <1>5, AppendProperties
  <1>7. MixerTypes'
    <2>1. thunk' \in [Threads -> Thunks]
      <3>1. thunk' = [u \in Threads |-> thunk'[u]]
        BY <1>2
      <3>2. \A u \in Threads : thunk'[u] \in Thunks
        BY <1>3, <1>4
      <3> QED
        BY <3>1, <3>2
    <2> QED
      BY <1>0, <1>6, <2>1 DEF MixerTypes
  <1>8. Starting' = Starting \ {t} /\ t \in Starting
    BY <1>0, <1>3, <1>4 DEF Starting
  <1>9. Counted'
    <2>1. IsFiniteSet(Starting) /\ Cardinality(Starting) \in Nat
      BY Constants, FS_Subset, FS_CardinalityType DEF Starting
    <2>2. Cardinality(Starting') = Cardinality(Starting) - 1
      BY <1>8, <2>1, FS_RemoveElement
    <2> QED
      BY <1>0, <1>5, <1>6, <2>1, <2>2 DEF Counted, MixerTypes
  <1>10. Bounded' /\ Device'
    <2>1. Bounded'
      BY <1>0 DEF Bounded, MaxVoices, Slots
    <2>2. Device'
      BY <1>0 DEF Device
    <2> QED
      BY <2>1, <2>2
  <1>11. ChannelsKnow'
    <2>1. Known(thunk[t], voices, plays)
      BY <1>0, <1>8 DEF ChannelsKnow
    <2>2. Known(new, voices, plays)
      BY <2>1 DEF Known
    <2>3. \A c \in 1 .. Len(channels') : Known(channels'[c], voices', plays')
      <3> SUFFICES ASSUME NEW c \in 1 .. n + 1
                   PROVE  Known(channels'[c], voices, plays)
        BY <1>0, <1>6
      <3>1. CASE c = n + 1
        BY <1>6, <2>2, <3>1
      <3>2. CASE c \in 1 .. n
        BY <1>0, <1>6, <3>2 DEF ChannelsKnow
      <3> QED
        BY <1>5, <3>1, <3>2
    <2>4. ASSUME NEW u \in Starting' PROVE Known(thunk'[u], voices', plays')
      <3>1. u \in Starting /\ u \in Threads /\ u # t
        BY <1>8, <2>4 DEF Starting
      <3>2. thunk'[u] = thunk[u]
        BY <1>4, <3>1 DEF Starting
      <3> QED
        BY <1>0, <3>1, <3>2 DEF ChannelsKnow
    <2>5. ASSUME NEW u \in Threads, thunk'[u].at = "use"
          PROVE  thunk'[u].channel \in 1 .. Len(channels')
      <3>1. u # t /\ thunk[u].at = "use" /\ thunk'[u].channel = thunk[u].channel
        BY <1>3, <1>4, <2>5
      <3>2. thunk[u].channel \in 1 .. n
        BY <1>0, <3>1 DEF ChannelsKnow
      <3> QED
        BY <1>5, <1>6, <3>1, <3>2
    <2> QED
      BY <2>3, <2>4, <2>5 DEF ChannelsKnow
  <1> QED
    BY <1>1, <1>7, <1>9, <1>10, <1>11 DEF MixerInv

-----------------------------------------------------------------------------
(* The other thunks.                                                       *)
LEMMA LookKeeps ==
  ASSUME MixerInv, NEW t \in Threads, NEW c \in 1 .. Len(channels), LookUp(t, c)
  PROVE  MixerInv' /\ LoopsGo
  <1> DEFINE k == [Idle EXCEPT !.at = "use", !.channel = c]
  <1>0. /\ MixerTypes /\ Counted /\ Bounded /\ ChannelsKnow /\ Device
        /\ UNCHANGED <<voices, limit, plays, channels, started, open, running, feeder>>
        /\ thunk[t].at = "idle" /\ thunk' = [thunk EXCEPT ![t] = k]
    BY DEF MixerInv, LookUp, device
  <1>1. Evolves /\ LoopsGo
    BY <1>0, VoicesKept
  <1>2. k \in Thunks /\ k.at = "use" /\ k.channel = c
    <2>1. c \in Nat
      BY <1>0, TableIs
    <2> QED
      BY <2>1 DEF Idle, Thunks
  <1> HIDE DEF k
  <1>3. Calls
    BY <1>0, <1>2, OneCalls
  <1>4. MixerTypes'
    BY <1>0, <1>3 DEF MixerTypes, Calls
  <1>5. Counted' /\ ChannelsKnow'
    BY <1>0, <1>1, <1>3, CallKeeps
  <1>6. Bounded'
    BY <1>0 DEF Bounded, MaxVoices, Slots
  <1>7. Device'
    BY <1>0 DEF Device
  <1> QED
    BY <1>1, <1>4, <1>5, <1>6, <1>7 DEF MixerInv

(* What a setter may leave in a voice: the same play, unless it is Stop's. *)
LEMMA SetKeeps ==
  ASSUME MixerInv, NEW t \in Threads, NEW i \in 0 .. Len(voices), NEW v, Set(t, i, v),
         i \in Active => /\ v \in Voices
                         /\ \/ v.active /\ v.age = voices[i].age
                            \/ v = Quiet /\ Stop(t, i)
  PROVE  MixerInv' /\ LoopsGo
  <1>0. /\ MixerTypes /\ Counted /\ Bounded /\ ChannelsKnow /\ Device
        /\ UNCHANGED <<limit, plays, channels, started, open, running, feeder>>
        /\ thunk[t].at = "use" /\ thunk' = [thunk EXCEPT ![t] = Idle]
        /\ voices' = IF i \in Active THEN [voices EXCEPT ![i] = v] ELSE voices
    BY DEF MixerInv, Set, device
  <1>1. Calls
    BY <1>0, IdleIs, OneCalls
  <1>2. Evolves /\ LoopsGo /\ Len(voices') = Len(voices)
    <2>1. CASE i \notin Active
      <3>1. UNCHANGED <<voices, plays>>
        BY <1>0, <2>1
      <3> QED
        BY <1>0, <3>1, VoicesKept
    <2>2. CASE i \in Active
      <3>1. /\ i \in Slots /\ voices[i].active /\ voices \in Seq(Voices)
            /\ Slots = 1 .. Len(voices) /\ plays \in Nat /\ Len(voices) \in Nat
            /\ \A j \in Slots : voices[j].age \in Nat /\ voices[j].age <= plays
        BY <1>0, <2>2, TableIs, Fields DEF Active, MixerTypes, Bounded
      <3>2. voices' = [voices EXCEPT ![i] = v]
        BY <1>0, <2>2
      <3>3. /\ voices' \in Seq(Voices) /\ Len(voices') = Len(voices)
            /\ voices'[i] = v
            /\ \A j \in Slots : j # i => voices'[j] = voices[j]
        BY <2>2, <3>1, <3>2, ExceptSeq
      <3>4. ASSUME NEW j \in Slots
            PROVE  /\ voices'[j].age <= plays
                   /\ voices'[j].active =>
                        voices[j].active /\ voices'[j].age = voices[j].age
        <4>1. CASE j = i
          BY <2>2, <3>1, <3>3, <4>1, QuietIs
        <4>2. CASE j # i
          BY <3>1, <3>3, <4>2
        <4> QED
          BY <4>1, <4>2
      <3>5. Evolves
        BY <1>0, <3>1, <3>3, <3>4 DEF Evolves
      <3>6. LoopsGo
        <4> SUFFICES ASSUME NEW j \in Slots, voices[j].active, voices[j].loop
                     PROVE  \/ voices'[j].active /\ voices'[j].age = voices[j].age
                            \/ \E u \in Threads : Stop(u, j)
          BY DEF LoopsGo
        <4>1. CASE j = i
          BY <2>2, <3>3, <4>1
        <4>2. CASE j # i
          BY <3>3, <4>2
        <4> QED
          BY <4>1, <4>2
      <3> QED
        BY <3>3, <3>5, <3>6
    <2> QED
      BY <2>1, <2>2
  <1>3. MixerTypes'
    BY <1>0, <1>1, <1>2 DEF MixerTypes, Calls, Evolves
  <1>4. Counted' /\ ChannelsKnow'
    BY <1>0, <1>1, <1>2, CallKeeps
  <1>5. Bounded'
    <2>1. MaxVoices' = MaxVoices
      BY <1>0 DEF MaxVoices
    <2>2. \A j \in 1 .. Len(voices') : voices'[j].age <= plays'
      BY <1>2 DEF Evolves
    <2> QED
      BY <1>0, <1>2, <2>1, <2>2 DEF Bounded, Slots
  <1>6. Device'
    BY <1>0 DEF Device
  <1> QED
    BY <1>2, <1>3, <1>4, <1>5, <1>6 DEF MixerInv

(* A voice with one of its fields set.                                     *)
SamePlay(w, v) == w \in Voices /\ w.active /\ w.age = v.age

LEMMA FieldSet ==
  ASSUME NEW v \in Voices, v.active
  PROVE  /\ \A b \in BOOLEAN : SamePlay([v EXCEPT !.paused = b], v)
         /\ \A b \in BOOLEAN : SamePlay([v EXCEPT !.loop = b], v)
         /\ \A n \in Steps : SamePlay([v EXCEPT !.step = n], v)
         /\ \A p \in Nat : SamePlay([v EXCEPT !.position = p], v)
         /\ SamePlay([v EXCEPT !.block = 0], v)
         /\ \A p \in Nat : p <= Length[v.sound] =>
              SamePlay([v EXCEPT !.read = p, !.block = 0], v)
  <1>0. /\ v \in Record /\ v.active \in BOOLEAN /\ v.read \in Nat
        /\ v.active <=> v.sound \in Sounds
        /\ v.stream <=> v.sound \in Streams
        /\ v.active => v.age > 0 /\ Length[v.sound] > 0 /\ v.read <= Length[v.sound]
    BY Fields
  <1> DEFINE Alike(w, p) == /\ w \in Record /\ w.sound = v.sound
                            /\ w.active = v.active /\ w.stream = v.stream
                            /\ w.age = v.age /\ w.read = p
  <1>1. ASSUME NEW p \in Nat, p <= Length[v.sound], NEW w, Alike(w, p)
        PROVE  SamePlay(w, v)
    <2>1. w \in Voices
      BY <1>0, <1>1 DEF Voices
    <2> QED
      BY <1>1, <2>1 DEF SamePlay
  <1>2. ASSUME NEW b \in BOOLEAN PROVE Alike([v EXCEPT !.paused = b], v.read)
    BY <1>0 DEF Record
  <1>3. ASSUME NEW b \in BOOLEAN PROVE Alike([v EXCEPT !.loop = b], v.read)
    BY <1>0 DEF Record
  <1>4. ASSUME NEW n \in Steps PROVE Alike([v EXCEPT !.step = n], v.read)
    BY <1>0 DEF Record
  <1>5. ASSUME NEW p \in Nat PROVE Alike([v EXCEPT !.position = p], v.read)
    BY <1>0 DEF Record
  <1>6. Alike([v EXCEPT !.block = 0], v.read)
    BY <1>0 DEF Record
  <1>7. ASSUME NEW p \in Nat PROVE Alike([v EXCEPT !.read = p, !.block = 0], p)
    BY <1>0 DEF Record
  <1> HIDE DEF Alike
  <1>8. \A w : Alike(w, v.read) => SamePlay(w, v)
    BY <1>0, <1>1
  <1> QED
    BY <1>1, <1>2, <1>3, <1>4, <1>5, <1>6, <1>7, <1>8

LEMMA SettersKeep ==
  ASSUME MixerInv, NEW t \in Threads, NEW i \in 0 .. Len(voices),
         \/ Stop(t, i)
         \/ \E b \in BOOLEAN : Pause(t, i, b) \/ Loop(t, i, b)
         \/ \E n \in Steps : Frequency(t, i, n)
         \/ \E frame \in Positions : SetPosition(t, i, frame)
  PROVE  MixerInv' /\ LoopsGo
  <1>0. MixerTypes /\ \A j \in Active : /\ voices[j] \in Voices /\ voices[j].active
                                   /\ Length[voices[j].sound] \in Nat
    BY TableIs, Fields DEF MixerInv, Active
  <1>1. CASE Stop(t, i)
    <2>1. Set(t, i, Quiet)
      BY <1>1 DEF Stop
    <2> QED
      BY <1>1, <2>1, QuietIs, SetKeeps
  <1>2. ASSUME NEW b \in BOOLEAN, Pause(t, i, b) PROVE MixerInv' /\ LoopsGo
    <2> DEFINE v == [voices[i] EXCEPT !.paused = b]
    <2>1. Set(t, i, v)
      BY <1>2 DEF Pause
    <2>2. i \in Active => SamePlay(v, voices[i])
      BY <1>0, FieldSet
    <2> HIDE DEF v
    <2> QED
      BY <2>1, <2>2, SetKeeps DEF SamePlay
  <1>3. ASSUME NEW b \in BOOLEAN, Loop(t, i, b) PROVE MixerInv' /\ LoopsGo
    <2> DEFINE v == [voices[i] EXCEPT !.loop = b]
    <2>1. Set(t, i, v)
      BY <1>3 DEF Loop
    <2>2. i \in Active => SamePlay(v, voices[i])
      BY <1>0, FieldSet
    <2> HIDE DEF v
    <2> QED
      BY <2>1, <2>2, SetKeeps DEF SamePlay
  <1>4. ASSUME NEW n \in Steps, Frequency(t, i, n) PROVE MixerInv' /\ LoopsGo
    <2> DEFINE v == [voices[i] EXCEPT !.step = n]
    <2>1. Set(t, i, v)
      BY <1>4 DEF Frequency
    <2>2. i \in Active => SamePlay(v, voices[i])
      BY <1>0, FieldSet
    <2> HIDE DEF v
    <2> QED
      BY <2>1, <2>2, SetKeeps DEF SamePlay
  <1>5. ASSUME NEW frame \in Positions, SetPosition(t, i, frame) PROVE MixerInv' /\ LoopsGo
    <2> DEFINE v == IF ~voices[i].stream THEN [voices[i] EXCEPT !.position = frame]
                    ELSE IF frame > Length[voices[i].sound]
                         THEN [voices[i] EXCEPT !.block = 0]
                    ELSE [voices[i] EXCEPT !.read = frame, !.block = 0]
    <2>1. Set(t, i, v)
      BY <1>5 DEF SetPosition
    <2>2. ASSUME i \in Active PROVE SamePlay(v, voices[i])
      <3>1. frame \in Nat
        BY Constants
      <3>2. CASE ~voices[i].stream
        BY <1>0, <2>2, <3>1, <3>2, FieldSet
      <3>3. CASE voices[i].stream /\ frame > Length[voices[i].sound]
        BY <1>0, <2>2, <3>1, <3>3, FieldSet
      <3>4. CASE voices[i].stream /\ ~(frame > Length[voices[i].sound])
        <4>1. frame <= Length[voices[i].sound]
          BY <1>0, <2>2, <3>1, <3>4
        <4> QED
          BY <1>0, <2>2, <3>1, <3>4, <4>1, FieldSet
      <3> QED
        BY <3>2, <3>3, <3>4
    <2> HIDE DEF v
    <2> QED
      BY <2>1, <2>2, SetKeeps DEF SamePlay
  <1> QED
    BY <1>1, <1>2, <1>3, <1>4, <1>5

-----------------------------------------------------------------------------
(* The device.                                                             *)
LEMMA InitKeeps ==
  ASSUME MixerInv, NEW t \in Threads, NEW n \in Limits, SystemInit(t, n)
  PROVE  MixerInv' /\ LoopsGo
  <1>0. /\ MixerTypes /\ Counted /\ Bounded /\ ChannelsKnow /\ Device
        /\ UNCHANGED <<voices, plays, channels, thunk>>
        /\ ~started /\ started' = TRUE /\ limit' = IF n > 128 THEN 128 ELSE n
        /\ open' \in BOOLEAN /\ running' = open'
        /\ feeder' = IF open' THEN "loop" ELSE "none"
    BY DEF MixerInv, SystemInit, audio_start
  <1>1. Evolves /\ LoopsGo /\ Calls
    BY <1>0, VoicesKept, NobodyCalls
  <1>2. limit' \in Nat \ {0} /\ limit' \in Limits \cup {DefaultLimit, 128}
    BY <1>0, Constants
  <1>3. MixerTypes'
    <2>1. {started', open', running'} \subseteq BOOLEAN
      BY <1>0
    <2>2. feeder' \in {"none", "loop", "render", "ended"}
      BY <1>0
    <2> QED
      BY <1>0, <1>2, <2>1, <2>2 DEF MixerTypes
  <1>4. Counted' /\ ChannelsKnow'
    BY <1>0, <1>1, CallKeeps
  <1>5. Bounded'
    <2>1. Len(voices) <= DefaultLimit /\ Len(voices) \in Nat
      BY <1>0, TableIs DEF Bounded, MaxVoices
    <2>2. Len(voices') <= MaxVoices'
      BY <1>0, <1>2, <2>1, Constants DEF MaxVoices
    <2> QED
      BY <1>0, <2>2 DEF Bounded, Slots
  <1>6. Device'
    BY <1>0 DEF Device
  <1> QED
    BY <1>1, <1>3, <1>4, <1>5, <1>6 DEF MixerInv

LEMMA CloseKeeps ==
  ASSUME MixerInv, NEW t \in Threads, Close(t) \/ Joined(t)
  PROVE  MixerInv' /\ LoopsGo
  <1> DEFINE k == IF Close(t) THEN [Idle EXCEPT !.at = "join"] ELSE Idle
  <1>0. /\ MixerTypes /\ Counted /\ Bounded /\ ChannelsKnow /\ Device
        /\ UNCHANGED <<voices, limit, plays, channels, started>>
    BY DEF MixerInv, Close, Joined
  <1>1. Evolves /\ LoopsGo
    BY <1>0, VoicesKept
  <1>2. /\ [Idle EXCEPT !.at = "join"] \in Thunks
        /\ [Idle EXCEPT !.at = "join"].at = "join"
    BY DEF Idle, Thunks
  <1>3. Calls
    <2>1. CASE Close(t)
      BY <1>0, <1>2, <2>1, OneCalls DEF Close
    <2>2. CASE Joined(t)
      BY <1>0, <2>2, IdleIs, OneCalls DEF Joined
    <2> QED
      BY <2>1, <2>2
  <1>4. /\ Device' /\ {started', open', running'} \subseteq BOOLEAN
        /\ feeder' \in {"none", "loop", "render", "ended"}
    <2>1. CASE Close(t)
      <3>1. /\ running' = FALSE /\ started' = started /\ open' = open
            /\ feeder' = feeder
        BY <2>1 DEF Close
      <3>2. Device'
        BY <1>0, <3>1 DEF Device
      <3>3. /\ feeder' \in {"none", "loop", "render", "ended"}
            /\ {started', open', running'} \subseteq BOOLEAN
        BY <1>0, <3>1 DEF MixerTypes
      <3> QED
        BY <3>2, <3>3
    <2>2. CASE Joined(t)
      <3>1. /\ feeder' = "none" /\ open' = FALSE
            /\ running' = running /\ started' = started
        BY <2>2 DEF Joined
      <3>2. {started', open', running'} \subseteq BOOLEAN
        BY <1>0, <3>1 DEF MixerTypes
      <3> QED
        BY <3>1, <3>2 DEF Device
    <2> QED
      BY <2>1, <2>2
  <1>5. MixerTypes'
    BY <1>0, <1>3, <1>4 DEF MixerTypes, Calls
  <1>6. Counted' /\ ChannelsKnow'
    BY <1>0, <1>1, <1>3, CallKeeps
  <1>7. Bounded'
    BY <1>0 DEF Bounded, MaxVoices, Slots
  <1> QED
    BY <1>1, <1>4, <1>5, <1>6, <1>7 DEF MixerInv

LEMMA FeedKeeps ==
  ASSUME MixerInv, Feed
  PROVE  MixerInv' /\ LoopsGo
  <1>0. /\ MixerTypes /\ Counted /\ Bounded /\ ChannelsKnow /\ Device
        /\ UNCHANGED <<voices, limit, plays, channels, thunk, started, open, running>>
        /\ feeder = "loop" /\ feeder' \in {"render", "ended"}
    BY DEF MixerInv, Feed
  <1>1. Evolves /\ LoopsGo /\ Calls
    BY <1>0, VoicesKept, NobodyCalls
  <1>2. MixerTypes' /\ Device'
    BY <1>0 DEF MixerTypes, Device
  <1>3. Counted' /\ ChannelsKnow'
    BY <1>0, <1>1, CallKeeps
  <1>4. Bounded'
    BY <1>0 DEF Bounded, MaxVoices, Slots
  <1> QED
    BY <1>1, <1>2, <1>3, <1>4 DEF MixerInv

LEMMA RenderKeeps ==
  ASSUME MixerInv, Render
  PROVE  MixerInv' /\ LoopsGo
  <1>0. /\ MixerTypes /\ Counted /\ Bounded /\ ChannelsKnow /\ Device
        /\ UNCHANGED <<limit, plays, channels, thunk, started, open, running>>
        /\ feeder = "render" /\ feeder' = "loop"
        /\ voices' = [i \in Slots |-> Mixed(voices[i])]
    BY DEF MixerInv, Render
  <1>1. /\ Slots = 1 .. Len(voices) /\ Len(voices) \in Nat /\ plays \in Nat
        /\ \A i \in Slots : /\ voices[i] \in Voices /\ voices[i].age \in Nat
                            /\ voices[i].age <= plays
    BY <1>0, TableIs, Fields DEF MixerTypes, Bounded
  <1>2. /\ voices' \in Seq(Voices) /\ Len(voices') = Len(voices)
        /\ \A i \in Slots : voices'[i] = Mixed(voices[i])
    <2>1. voices' \in [1 .. Len(voices) -> Voices]
      BY <1>0, <1>1, MixedIs
    <2>2. voices' \in Seq(Voices) /\ Len(voices') = Len(voices)
      BY <1>1, <2>1, SeqDef, LenProperties
    <2> QED
      BY <1>0, <2>2
  <1>3. \A i \in Slots : voices'[i] \in Voices /\ Follows(voices'[i], voices[i])
    BY <1>1, <1>2, MixedIs
  <1>4. Evolves
    <2>1. ASSUME NEW i \in 1 .. Len(voices')
          PROVE  /\ voices'[i].age <= plays
                 /\ voices'[i].active =>
                      i \in Slots /\ voices[i].active /\ voices'[i].age = voices[i].age
      <3>1. i \in Slots
        BY <1>1, <1>2
      <3>2. voices'[i].age \in Nat
        BY <1>3, <3>1, Fields
      <3> QED
        BY <1>1, <1>3, <3>1, <3>2 DEF Follows
    <2> QED
      BY <1>0, <1>1, <1>2, <2>1 DEF Evolves
  <1>5. LoopsGo
    BY <1>3 DEF LoopsGo, Follows
  <1>6. Calls
    BY <1>0, NobodyCalls
  <1>7. MixerTypes' /\ Device'
    BY <1>0, <1>2 DEF MixerTypes, Device
  <1>8. Counted' /\ ChannelsKnow'
    BY <1>0, <1>4, <1>6, CallKeeps
  <1>9. Bounded'
    <2>1. MaxVoices' = MaxVoices
      BY <1>0 DEF MaxVoices
    <2>2. \A i \in 1 .. Len(voices') : voices'[i].age <= plays'
      BY <1>4 DEF Evolves
    <2> QED
      BY <1>0, <1>2, <2>1, <2>2 DEF Bounded, Slots
  <1> QED
    BY <1>4, <1>5, <1>7, <1>8, <1>9 DEF MixerInv

-----------------------------------------------------------------------------
LEMMA MixerInitHolds == MixerInit => MixerInv
  <1> SUFFICES ASSUME MixerInit PROVE MixerInv
    OBVIOUS
  <1>0. /\ voices = <<>> /\ channels = <<>> /\ plays = 0 /\ limit = DefaultLimit
        /\ thunk = [t \in Threads |-> Idle] /\ started = FALSE /\ open = FALSE
        /\ running = FALSE /\ feeder = "none" /\ Len(voices) = 0 /\ Len(channels) = 0
    BY DEF MixerInit
  <1>1. Slots = {} /\ Starting = {}
    BY <1>0, IdleIs DEF Slots, Starting
  <1>2. MixerTypes
    <2>1. thunk \in [Threads -> Thunks]
      BY <1>0, IdleIs
    <2>2. voices \in Seq(Voices) /\ channels \in Seq([voice : Nat, play : Nat])
      BY <1>0, EmptySeq
    <2>3. limit \in Nat \ {0} /\ limit \in Limits \cup {DefaultLimit, 128}
      BY <1>0, Constants
    <2> QED
      BY <1>0, <2>1, <2>2, <2>3 DEF MixerTypes
  <1>3. Counted
    BY <1>0, <1>1, FS_EmptySet, Constants DEF Counted
  <1>4. Bounded
    BY <1>0, <1>1, Constants DEF Bounded, MaxVoices
  <1>5. ChannelsKnow
    BY <1>0, <1>1, IdleIs DEF ChannelsKnow
  <1>6. Device
    BY <1>0 DEF Device
  <1> QED
    BY <1>2, <1>3, <1>4, <1>5, <1>6 DEF MixerInv

LEMMA MixerStepHolds == MixerInv /\ [MixerNext]_mixerVars => MixerInv' /\ [LoopsGo]_mixerVars
  <1>1. ASSUME MixerInv, UNCHANGED mixerVars PROVE MixerInv'
    <2>1. UNCHANGED <<voices, limit, plays, channels, thunk, started, open, running, feeder>>
      BY <1>1 DEF mixerVars, device
    <2> QED
      BY <1>1, <2>1 DEF MixerInv, MixerTypes, Counted, Starting, Bounded, MaxVoices, Slots,
                        ChannelsKnow, Device
  <1>2. ASSUME MixerInv, NEW t \in Threads, Thunk(t) PROVE MixerInv' /\ LoopsGo
    BY <1>2, PlayKeeps, AddKeeps, LookKeeps, SettersKeep DEF Thunk
  <1>3. ASSUME MixerInv, MixerNext PROVE MixerInv' /\ LoopsGo
    BY <1>2, <1>3, InitKeeps, CloseKeeps, FeedKeeps, RenderKeeps DEF MixerNext
  <1> QED
    BY <1>1, <1>3

(* MixerInv is inductive.                                                  *)
THEOREM MixerInvariant == MixerSpec => []MixerInv
  <1>1. MixerInv /\ [MixerNext]_mixerVars => MixerInv'
    BY MixerStepHolds
  <1> QED
    BY MixerInitHolds, <1>1, PTL DEF MixerSpec

(* VoicesAreSound: there are no more voices than there may be, a stream is *)
(* open exactly while its voice plays, a channel whose sound plays is that *)
(* sound's, and the feeder is never without buffers.                       *)
THEOREM VoicesAreSoundHolds == MixerSpec => []VoicesAreSound
  <1>1. MixerInv => VoicesAreSound
    <2> SUFFICES ASSUME MixerInv PROVE VoicesAreSound
      OBVIOUS
    <2>0. MixerTypes /\ Counted /\ Bounded /\ ChannelsKnow /\ Device
      BY DEF MixerInv
    <2>1. /\ IsFiniteSet(Starting) /\ Cardinality(Starting) \in Nat
          /\ Len(voices) \in Nat /\ Len(channels) \in Nat
          /\ plays \in Nat /\ MaxPlays \in Nat
      BY <2>0, Constants, FS_Subset, FS_CardinalityType, TableIs DEF Starting, MixerTypes
    <2>2. voices \in Seq(Record)
      <3>1. Voices \subseteq Record
        BY DEF Voices
      <3> QED
        BY <2>0, <3>1, SeqMonotonic DEF MixerTypes
    <2>3. plays \in 0 .. MaxPlays /\ Len(channels) <= MaxPlays
      BY <2>0, <2>1 DEF Counted
    <2>4. \A i \in Slots : /\ voices[i].age <= plays
                           /\ voices[i].active <=> voices[i].sound \in Sounds
                           /\ voices[i].stream <=> voices[i].sound \in Streams
      BY <2>0, TableIs, Fields DEF Bounded
    <2>5. \A c \in 1 .. Len(channels) :
            channels[c] \in [voice : 0 .. Len(voices), play : 0 .. plays]
      <3> SUFFICES ASSUME NEW c \in 1 .. Len(channels)
                   PROVE  channels[c] \in [voice : 0 .. Len(voices), play : 0 .. plays]
        OBVIOUS
      <3>1. channels[c] \in [voice : Nat, play : Nat]
        BY <2>0, TableIs
      <3>2. channels[c].voice \in 0 .. Len(voices) /\ channels[c].play \in 0 .. plays
        BY <2>0, <2>1, <3>1 DEF ChannelsKnow, Known
      <3> QED
        BY <3>1, <3>2
    <2>6. \A t \in Threads :
            /\ thunk[t].at \in {"idle", "channel", "use", "join"}
            /\ thunk[t].at = "use" => thunk[t].channel \in 1 .. Len(channels)
            /\ thunk[t].at = "channel" => thunk[t].voice \in 0 .. Len(voices)
      BY <2>0, TableIs DEF Thunks, ChannelsKnow, Known, Starting
    <2>7. VoicesTyped
      BY <2>0, <2>2, <2>3, <2>4, <2>5, <2>6
         DEF VoicesTyped, Record, MixerTypes, Bounded, Device
    <2>8. ChannelFindsItsSound
      BY <2>0 DEF ChannelsKnow, Known, Slots, ChannelFindsItsSound
    <2> QED
      BY <2>7, <2>8 DEF VoicesAreSound
  <1> QED
    BY <1>1, MixerInvariant, PTL

(* LoopsGoOn: a sound that loops keeps its voice, whoever needs one, until *)
(* some channel is stopped.                                                *)
THEOREM LoopsGoOnHolds == MixerSpec => LoopsGoOn
  <1>1. MixerInv /\ [MixerNext]_mixerVars => [LoopsGo]_mixerVars
    BY MixerStepHolds
  <1>2. MixerSpec => [][LoopsGo]_mixerVars
    BY <1>1, MixerInvariant, PTL DEF MixerSpec
  <1> QED
    BY <1>2 DEF LoopsGoOn, LoopsGo

(* ReadsInsideClip: at any frequency and from any position, an effect is   *)
(* read inside its clip, but for a loop that overshoots.                   *)
THEOREM ReadsInsideClipHolds == MixerSpec => ReadsInsideClip
  <1> DEFINE Reads ==
        Render => \A i \in Slots :
          LET v == voices[i] IN
          v.active /\ ~v.paused /\ ~v.stream /\ voices'[i].active =>
            \/ voices'[i].position - v.step \in 0 .. Length[v.sound] - 1
            \/ Overshoots(v)
  <1>1. MixerInv /\ [MixerNext]_mixerVars => [Reads]_mixerVars
    <2> SUFFICES ASSUME MixerInv, Render, NEW i \in Slots,
                        NEW v, v = voices[i], v.active, ~v.paused, ~v.stream,
                        voices'[i].active
                 PROVE  \/ voices'[i].position - v.step \in 0 .. Length[v.sound] - 1
                        \/ Overshoots(v)
      OBVIOUS
    <2>1. v \in Voices /\ voices'[i] = Mixed(v)
      BY TableIs DEF MixerInv, Render
    <2> QED
      BY <2>1, MixedIs
  <1> QED
    BY <1>1, MixerInvariant, PTL DEF MixerSpec, ReadsInsideClip

-----------------------------------------------------------------------------
(***************************************************************************)
(* WatchLoop, for any texts, schedules and clocks, a finger held for any   *)
(* number of rounds, and any number of rounds.                             *)
(*                                                                         *)
(* ScheduleIsPlayed speaks of the end of a round.  Played is what one      *)
(* entry of the schedule has come to at every step of a round: not begun   *)
(* (NotYet), down (StillHeld) or up again (LetUp), with the events that    *)
(* have been pushed of it.  LookedAt and PassedAt count the rounds whose   *)
(* loops have come past the entry, and past its place among what is held;  *)
(* at the end of a round both are the rounds there have been, which makes  *)
(* Played what ScheduleIsPlayed says (PlayedIsOnTime).  An entry that is   *)
(* erased moves the others, and SamePlace says that nobody is passed over  *)
(* for it.                                                                 *)
(***************************************************************************)
Pushes == [round : Nat, hand : Hands \cup {"key"},
           what : {"down", "move", "up"}, id : Nat]

Loops == [fn : {"watch"}, opt : Options, clock : Seq(Readings),
          stage : {"asleep", "text", "schedule", "held"}, hand : Hands,
          at : Nat \ {0}, text_sent : BOOLEAN,
          done : [Hands -> SUBSET Nat],
          held : [Hands -> Seq([id : Nat, tick : Nat])], got : Seq(Pushes)]

(* The rounds in which the loops have come past an entry of the schedule,  *)
(* and past the r-th of what is held.                                      *)
TurnOver(w, h) ==
  \/ w.stage = "asleep"
  \/ /\ w.stage \in {"schedule", "held"} /\ w.hand = "finger"
     /\ h = "button"

Through(w, passed) == IF passed THEN This(w) ELSE This(w) - 1

LookedAt(w, h, id) ==
  Through(w, \/ TurnOver(w, h)
             \/ (w.stage = "schedule" /\ w.hand = h /\ id < w.at)
             \/ (w.stage = "held" /\ w.hand = h))

PassedAt(w, h, r) ==
  Through(w, \/ TurnOver(w, h)
             \/ (w.stage = "held" /\ w.hand = h /\ r < w.at))

(* How often each kind of event has happened to an entry.                  *)
Heard(w, h, id, down, move, up) ==
  /\ Happens(w.got, h, "down", id, down)
  /\ Happens(w.got, h, "move", id, IF h = "finger" THEN move ELSE {})
  /\ Happens(w.got, h, "up", id, up)

Absent(w, h, id) == \A r \in DOMAIN w.held[h] : w.held[h][r].id # id

Start(w, h, id) == Begins(w.clock, w.opt.times[h][id])

NotYet(w, h, id) ==
  /\ id \notin w.done[h] /\ Absent(w, h, id)
  /\ \A i \in 1 .. LookedAt(w, h, id) : w.clock[i] < w.opt.times[h][id]
  /\ Heard(w, h, id, {}, {}, {})

HeldSince(w, h, id, i, r) ==
  /\ id \in w.done[h] /\ i \in Start(w, h, id) /\ i <= LookedAt(w, h, id)
  /\ r \in DOMAIN w.held[h]
  /\ w.held[h][r] = [id |-> id, tick |-> i + kFingerHeldTicks]
  /\ \A q \in DOMAIN w.held[h] : w.held[h][q].id = id => q = r
  /\ i - 1 <= PassedAt(w, h, r)
  /\ PassedAt(w, h, r) < i + kFingerHeldTicks
  /\ Heard(w, h, id, {i}, i .. PassedAt(w, h, r), {})

StillHeld(w, h, id) == \E i, r \in Nat : HeldSince(w, h, id, i, r)

UpAgain(w, h, id, i) ==
  /\ id \in w.done[h] /\ i \in Start(w, h, id) /\ Absent(w, h, id)
  /\ i + kFingerHeldTicks <= This(w)
  /\ Heard(w, h, id, {i}, HeldFrom(i), {i + kFingerHeldTicks})

LetUp(w, h, id) == \E i \in Nat : UpAgain(w, h, id, i)

Played(w, h, id) == NotYet(w, h, id) \/ StillHeld(w, h, id) \/ LetUp(w, h, id)

(* The same of the text.                                                   *)
TextAt(w) == Through(w, w.stage # "text")

Untyped(w) ==
  /\ w.opt.typed = <<>>
        \/ \A i \in 1 .. TextAt(w) : w.clock[i] < w.opt.typed_at
  /\ \A j \in DOMAIN w.got : w.got[j].hand # "key"

TypedOnce(w) ==
  /\ w.opt.typed # <<>>
  /\ \E i \in Begins(w.clock, w.opt.typed_at), n \in 0 .. Len(w.got) :
       TypedAfter(w.got, n, w.opt.typed, i)

TextTold(w) == IF w.text_sent THEN TypedOnce(w) ELSE Untyped(w)

OnlyScheduled(w) ==
  /\ \A k \in DOMAIN w.got :
       w.got[k].hand \in Hands =>
         w.got[k].id \in DOMAIN w.opt.times[w.got[k].hand]
  /\ \A h \in Hands : \A r \in DOMAIN w.held[h] :
       w.held[h][r].id \in DOMAIN w.opt.times[h]

Playing(w) ==
  /\ w \in Loops
  /\ w.stage # "asleep" => This(w) > 0
  /\ OnlyScheduled(w) /\ TextTold(w) /\ DownThenUp(w.got)
  /\ \A h \in Hands : \A id \in DOMAIN w.opt.times[h] : Played(w, h, id)

WatchInv == call.fn = "watch" => Playing(call)

-----------------------------------------------------------------------------
(* What each step of a round makes of the loop.                            *)
LEMMA RoundBegun ==
  ASSUME NEW w \in Loops, NEW now \in Readings
  PROVE  LET v == BeginRound(w, now)
         IN /\ v \in Loops
            /\ v.opt = w.opt /\ v.clock = Append(w.clock, now)
            /\ v.stage = "text" /\ v.text_sent = w.text_sent
            /\ v.done = w.done /\ v.held = w.held /\ v.got = w.got
  <1>1. Append(w.clock, now) \in Seq(Readings)
    BY DEF Loops
  <1> QED
    BY <1>1 DEF Loops, BeginRound

LEMMA StrokesTyped ==
  ASSUME NEW w \in Loops
  PROVE  /\ KeyStrokes(w) \in Seq(Pushes)
         /\ Len(KeyStrokes(w)) = 2 * Len(w.opt.typed)
         /\ w.opt.typed \in Seq(Nat)
         /\ \A k \in DOMAIN KeyStrokes(w) : KeyStrokes(w)[k].hand = "key"
         /\ \A k \in DOMAIN w.opt.typed :
              /\ KeyStrokes(w)[2 * k - 1] = Event(w, "key", "down", w.opt.typed[k])
              /\ KeyStrokes(w)[2 * k] = Event(w, "key", "up", w.opt.typed[k])
  <1> DEFINE t == w.opt.typed
             n == Len(t)
  <1>1. t \in Seq(Nat) /\ n \in Nat /\ DOMAIN t = 1 .. n
    BY WatchAssumption DEF Loops, Options
  <1>2. This(w) \in Nat
    BY DEF Loops, This
  <1>3. ASSUME NEW k \in 1 .. 2 * n PROVE KeyStrokes(w)[k] \in Pushes
    <2>1. (k + 1) \div 2 \in DOMAIN t
      BY <1>1
    <2>2. t[(k + 1) \div 2] \in Nat
      BY <1>1, <2>1
    <2> QED
      BY <1>2, <2>2 DEF KeyStrokes, Event, Pushes
  <1>4. KeyStrokes(w) \in [1 .. 2 * n -> Pushes]
    BY <1>3 DEF KeyStrokes
  <1>5. KeyStrokes(w) \in Seq(Pushes) /\ Len(KeyStrokes(w)) = 2 * n
    BY <1>1, <1>4
  <1>6. ASSUME NEW k \in DOMAIN t
        PROVE  /\ KeyStrokes(w)[2 * k - 1] = Event(w, "key", "down", t[k])
               /\ KeyStrokes(w)[2 * k] = Event(w, "key", "up", t[k])
    <2>1. 2 * k - 1 \in 1 .. 2 * n /\ 2 * k \in 1 .. 2 * n /\ k \in Nat
      BY <1>1
    <2>2. (2 * k - 1) % 2 = 1
      BY <2>1
    <2>3. (2 * k) % 2 = 0
      BY <2>1
    <2>4. (2 * k - 1 + 1) \div 2 = k
      BY <2>1
    <2>5. (2 * k + 1) \div 2 = k
      BY <2>1
    <2>6. KeyStrokes(w)[2 * k - 1] = Event(w, "key", "down", t[k])
      BY <2>1, <2>2, <2>4 DEF KeyStrokes
    <2>7. KeyStrokes(w)[2 * k] = Event(w, "key", "up", t[k])
      <3>1. ASSUME NEW m \in 1 .. 2 * n, m % 2 = 0, (m + 1) \div 2 = k
            PROVE  KeyStrokes(w)[m] = Event(w, "key", "up", t[k])
        BY <3>1 DEF KeyStrokes
      <3> QED
        BY <2>1, <2>3, <2>5, <3>1
    <2> QED
      BY <2>6, <2>7
  <1>7. \A k \in DOMAIN KeyStrokes(w) : KeyStrokes(w)[k].hand = "key"
    BY DEF KeyStrokes, Event
  <1> QED
    BY <1>1, <1>5, <1>6, <1>7

LEMMA TextTyped ==
  ASSUME NEW w \in Loops
  PROVE  LET v   == TypeText(w)
             due == /\ w.opt.typed # <<>> /\ ~w.text_sent
                    /\ Now(w) >= w.opt.typed_at
         IN /\ v \in Loops
            /\ v.opt = w.opt /\ v.clock = w.clock
            /\ v.stage = "schedule" /\ v.hand = "button" /\ v.at = 1
            /\ v.text_sent = (w.text_sent \/ due)
            /\ v.done = w.done /\ v.held = w.held
            /\ v.got = IF due THEN w.got \o KeyStrokes(w) ELSE w.got
  <1> DEFINE got == w.got \o KeyStrokes(w)
  <1>1. got \in Seq(Pushes)
    <2>1. KeyStrokes(w) \in Seq(Pushes) /\ w.got \in Seq(Pushes)
      BY StrokesTyped DEF Loops
    <2> QED
      BY <2>1, ConcatProperties
  <1>2. "button" \in Hands /\ 1 \in Nat \ {0}
    BY DEF Hands
  <1> QED
    BY <1>1, <1>2 DEF Loops, TypeText

LEMMA HandsTyped ==
  ASSUME NEW w \in Loops, NEW h \in Hands
  PROVE  /\ w.held[h] \in Seq([id : Nat, tick : Nat])
         /\ w.done[h] \in SUBSET Nat
         /\ w.opt.times[h] \in Seq(Seconds)
         /\ DOMAIN w.opt.times[h] = 1 .. Len(w.opt.times[h])
  <1>1. w.opt.times[h] \in Sequences(Seconds, MaxScheduled)
    BY DEF Loops, Options
  <1>2. PICK k \in 0 .. MaxScheduled : w.opt.times[h] \in [1 .. k -> Seconds]
    BY <1>1 DEF Sequences
  <1>3. k \in Nat
    BY <1>2, WatchAssumption
  <1> QED
    BY <1>2, <1>3 DEF Loops

LEMMA EntryIs ==
  ASSUME NEW w \in Loops, NEW h \in Hands, NEW r \in DOMAIN w.held[h]
  PROVE  w.held[h][r].id \in Nat /\ w.held[h][r].tick \in Nat
  <1>1. ASSUME NEW S, NEW s \in Seq(S), NEW k \in DOMAIN s PROVE s[k] \in S
    BY <1>1
  <1>2. w.held[h] \in Seq([id : Nat, tick : Nat])
    BY HandsTyped
  <1>3. w.held[h][r] \in [id : Nat, tick : Nat]
    BY <1>1, <1>2
  <1> QED
    BY <1>3

LEMMA NowIs ==
  ASSUME NEW w \in Loops, This(w) > 0
  PROVE  /\ This(w) \in Nat /\ Now(w) \in Readings /\ Now(w) \in Int
         /\ This(w) \in DOMAIN w.clock
  <1>1. w.clock \in Seq(Readings)
    BY DEF Loops
  <1>2. This(w) \in Nat /\ This(w) \in DOMAIN w.clock
    BY <1>1 DEF This
  <1>3. Now(w) \in Readings
    BY <1>1, <1>2 DEF Now
  <1> QED
    BY <1>2, <1>3, WatchAssumption

LEMMA EntryScheduled ==
  ASSUME NEW w \in Loops, w.at \in DOMAIN w.opt.times[w.hand]
  PROVE  LET v   == Schedule(w)
             h   == w.hand
             due == w.at \notin w.done[h] /\ Now(w) >= w.opt.times[h][w.at]
             e   == [id |-> w.at, tick |-> This(w) + kFingerHeldTicks]
         IN /\ v \in Loops
            /\ v.opt = w.opt /\ v.clock = w.clock /\ v.stage = w.stage
            /\ v.hand = h /\ v.at = w.at + 1 /\ v.text_sent = w.text_sent
            /\ \A g \in Hands \ {h} : /\ v.done[g] = w.done[g]
                                      /\ v.held[g] = w.held[g]
            /\ IF due
               THEN /\ v.done[h] = w.done[h] \cup {w.at}
                    /\ v.held[h] = Append(w.held[h], e)
                    /\ v.got = Append(w.got, Event(w, h, "down", w.at))
               ELSE v.done = w.done /\ v.held = w.held /\ v.got = w.got
  <1> DEFINE h == w.hand
             e == [id |-> w.at, tick |-> This(w) + kFingerHeldTicks]
             due == w.at \notin w.done[h] /\ Now(w) >= w.opt.times[h][w.at]
             done == [w.done EXCEPT ![h] = @ \cup {w.at}]
             held == [w.held EXCEPT ![h] = Append(@, e)]
             got == Append(w.got, Event(w, h, "down", w.at))
  <1>1. /\ h \in Hands /\ w.at \in Nat \ {0} /\ This(w) \in Nat
        /\ w.at + 1 \in Nat \ {0}
    BY DEF Loops, This
  <1>2. w.held[h] \in Seq([id : Nat, tick : Nat]) /\ w.done[h] \in SUBSET Nat
    BY <1>1, HandsTyped
  <1>3. e \in [id : Nat, tick : Nat]
    BY <1>1, WatchAssumption
  <1>4. Append(w.held[h], e) \in Seq([id : Nat, tick : Nat])
    BY <1>2, <1>3
  <1>5. held \in [Hands -> Seq([id : Nat, tick : Nat])]
    BY <1>1, <1>4 DEF Loops
  <1>6. done \in [Hands -> SUBSET Nat]
    BY <1>1, <1>2 DEF Loops
  <1>7. Event(w, h, "down", w.at) \in Pushes
    BY <1>1 DEF Event, Pushes
  <1>8. got \in Seq(Pushes)
    BY <1>7 DEF Loops
  <1>9. /\ held[h] = Append(w.held[h], e) /\ done[h] = w.done[h] \cup {w.at}
        /\ \A g \in Hands \ {h} : done[g] = w.done[g] /\ held[g] = w.held[g]
    BY <1>1 DEF Loops
  <1>10. CASE due
    <2>1. Schedule(w) = [w EXCEPT !.at = w.at + 1, !.done = done,
                                  !.held = held, !.got = got]
      BY <1>10 DEF Schedule, Loops
    <2> HIDE DEF e, done, held, got
    <2>2. Schedule(w) \in Loops
      BY <1>1, <1>5, <1>6, <1>8, <2>1 DEF Loops
    <2>3. LET v == Schedule(w)
          IN /\ v.opt = w.opt /\ v.clock = w.clock /\ v.stage = w.stage
             /\ v.hand = h /\ v.at = w.at + 1 /\ v.text_sent = w.text_sent
             /\ v.done = done /\ v.held = held /\ v.got = got
      BY <2>1 DEF Loops
    <2> QED
      BY <1>9, <1>10, <2>2, <2>3 DEF got, e
  <1>11. CASE ~due
    BY <1>1, <1>11 DEF Schedule, Loops
  <1> QED
    BY <1>10, <1>11

LEMMA LoopsTurn ==
  ASSUME NEW w \in Loops
  PROVE  /\ LET v == Scheduled(w)
            IN /\ v \in Loops
               /\ v.opt = w.opt /\ v.clock = w.clock /\ v.stage = "held"
               /\ v.hand = w.hand /\ v.at = 1
               /\ v.text_sent = w.text_sent
               /\ v.done = w.done /\ v.held = w.held /\ v.got = w.got
         /\ LET v == AllHeld(w)
            IN /\ v \in Loops
               /\ v.opt = w.opt /\ v.clock = w.clock /\ v.at = 1
               /\ w.hand = "button" => /\ v.stage = "schedule"
                                       /\ v.hand = "finger"
               /\ w.hand # "button" => v.stage = "asleep"
               /\ v.text_sent = w.text_sent
               /\ v.done = w.done /\ v.held = w.held /\ v.got = w.got
  <1>1. 1 \in Nat \ {0} /\ "button" \in Hands /\ "finger" \in Hands
    BY DEF Hands
  <1>2. Scheduled(w) \in Loops
    BY <1>1 DEF Loops, Scheduled
  <1>3. AllHeld(w) \in Loops
    BY <1>1 DEF Loops, AllHeld
  <1>4. LET v == Scheduled(w)
        IN /\ v.opt = w.opt /\ v.clock = w.clock /\ v.stage = "held"
           /\ v.hand = w.hand /\ v.at = 1 /\ v.text_sent = w.text_sent
           /\ v.done = w.done /\ v.held = w.held /\ v.got = w.got
    BY DEF Loops, Scheduled
  <1>5. CASE w.hand = "button"
    BY <1>2, <1>3, <1>4, <1>5 DEF Loops, AllHeld
  <1>6. CASE w.hand # "button"
    BY <1>2, <1>3, <1>4, <1>6 DEF Loops, AllHeld
  <1> QED
    BY <1>5, <1>6

LEMMA HeldOn ==
  ASSUME NEW w \in Loops, w.at \in DOMAIN w.held[w.hand]
  PROVE  LET v  == Hold(w)
             id == w.held[w.hand][w.at].id
         IN /\ v \in Loops
            /\ v.opt = w.opt /\ v.clock = w.clock /\ v.stage = w.stage
            /\ v.hand = w.hand /\ v.at = w.at + 1
            /\ v.text_sent = w.text_sent
            /\ v.done = w.done /\ v.held = w.held
            /\ v.got = IF w.hand = "button" THEN w.got
                       ELSE Append(w.got, Event(w, w.hand, "move", id))
  <1> DEFINE id == w.held[w.hand][w.at].id
             got == Append(w.got, Event(w, w.hand, "move", id))
  <1>1. /\ w.hand \in Hands /\ w.at \in Nat \ {0} /\ This(w) \in Nat
        /\ w.at + 1 \in Nat \ {0}
    BY DEF Loops, This
  <1>2. id \in Nat
    BY <1>1, EntryIs
  <1>3. Event(w, w.hand, "move", id) \in Pushes
    BY <1>1, <1>2 DEF Event, Pushes
  <1>4. got \in Seq(Pushes)
    BY <1>3 DEF Loops
  <1>5. Hold(w) = [w EXCEPT !.at = w.at + 1,
                            !.got = IF w.hand = "button" THEN w.got ELSE got]
    BY DEF Hold, Loops
  <1> HIDE DEF got
  <1>6. /\ Hold(w) \in Loops
        /\ LET v == Hold(w)
           IN /\ v.opt = w.opt /\ v.clock = w.clock /\ v.stage = w.stage
              /\ v.hand = w.hand /\ v.at = w.at + 1
              /\ v.text_sent = w.text_sent
              /\ v.done = w.done /\ v.held = w.held
              /\ v.got = IF w.hand = "button" THEN w.got ELSE got
    BY <1>1, <1>4, <1>5 DEF Loops
  <1> QED
    BY <1>6 DEF got

(* Sequences, by their elements.                                           *)
LEMMA AppendIs ==
  ASSUME NEW S, NEW s \in Seq(S), NEW e \in S, NEW c, c = Append(s, e)
  PROVE  \A k \in DOMAIN c : (k \in DOMAIN s /\ c[k] = s[k]) \/ c[k] = e
  OBVIOUS

LEMMA ConcatIs ==
  ASSUME NEW S, NEW a \in Seq(S), NEW b \in Seq(S)
  PROVE  LET c == a \o b
         IN /\ c \in Seq(S) /\ Len(c) = Len(a) + Len(b)
            /\ DOMAIN c = 1 .. Len(a) + Len(b)
            /\ \A k \in 1 .. Len(a) : c[k] = a[k]
            /\ \A k \in 1 .. Len(b) : c[Len(a) + k] = b[k]
  <1> DEFINE c == a \o b
  <1>1. /\ c \in Seq(S) /\ Len(c) = Len(a) + Len(b)
        /\ \A k \in 1 .. Len(a) + Len(b) :
             c[k] = IF k <= Len(a) THEN a[k] ELSE b[k - Len(a)]
        /\ Len(a) \in Nat /\ Len(b) \in Nat
    BY ConcatProperties
  <1> HIDE DEF c
  <1>2. \A k \in 1 .. Len(b) : /\ Len(a) + k \in 1 .. Len(a) + Len(b)
                               /\ ~(Len(a) + k <= Len(a))
                               /\ Len(a) + k - Len(a) = k
    BY <1>1
  <1>3. \A k \in 1 .. Len(b) : c[Len(a) + k] = b[k]
    BY <1>1, <1>2
  <1>4. \A k \in 1 .. Len(a) : c[k] = a[k]
    BY <1>1
  <1>5. DOMAIN c = 1 .. Len(a) + Len(b)
    BY <1>1
  <1> QED
    BY <1>1, <1>3, <1>4, <1>5 DEF c

LEMMA RemoveAtIs ==
  ASSUME NEW S, NEW s \in Seq(S), NEW n \in 1 .. Len(s)
  PROVE  /\ RemoveAt(s, n) \in Seq(S) /\ Len(RemoveAt(s, n)) = Len(s) - 1
         /\ \A k \in 1 .. Len(s) - 1 :
              RemoveAt(s, n)[k] = IF k < n THEN s[k] ELSE s[k + 1]
  <1> DEFINE a == SubSeq(s, 1, n - 1)
             b == SubSeq(s, n + 1, Len(s))
  <1>1. Len(s) \in Nat /\ n \in Nat
    OBVIOUS
  <1>2. /\ a \in Seq(S) /\ Len(a) = n - 1
        /\ \A k \in 1 .. n - 1 : a[k] = s[k]
    BY <1>1, SubSeqProperties
  <1>3. /\ b \in Seq(S) /\ Len(b) = Len(s) - n
        /\ \A k \in 1 .. Len(s) - n : b[k] = s[n + k]
    BY <1>1, SubSeqProperties
  <1> HIDE DEF a, b
  <1> DEFINE c == a \o b
  <1>4. /\ c \in Seq(S) /\ Len(c) = Len(a) + Len(b)
        /\ \A k \in 1 .. Len(a) : c[k] = a[k]
        /\ \A k \in 1 .. Len(b) : c[Len(a) + k] = b[k]
    <2>1. a \in Seq(S) /\ b \in Seq(S)
      BY <1>2, <1>3
    <2> QED
      BY <2>1, ConcatIs
  <1>5. RemoveAt(s, n) = c
    BY DEF RemoveAt, a, b
  <1> HIDE DEF c
  <1>6. Len(c) = Len(s) - 1
    BY <1>1, <1>2, <1>3, <1>4
  <1>7. ASSUME NEW k \in 1 .. Len(s) - 1
        PROVE  c[k] = IF k < n THEN s[k] ELSE s[k + 1]
    <2>1. CASE k < n
      <3>1. k \in 1 .. Len(a) /\ k \in 1 .. n - 1
        BY <1>1, <1>2, <2>1
      <3> QED
        BY <1>2, <1>4, <2>1, <3>1
    <2>2. CASE ~(k < n)
      <3> DEFINE j == k - n + 1
      <3>1. j \in 1 .. Len(s) - n /\ n - 1 + j = k /\ n + j = k + 1
        BY <1>1, <2>2
      <3> HIDE DEF j
      <3>2. c[n - 1 + j] = b[j] /\ b[j] = s[n + j]
        BY <1>2, <1>3, <1>4, <3>1
      <3> QED
        BY <2>2, <3>1, <3>2
    <2> QED
      BY <2>1, <2>2
  <1> QED
    BY <1>4, <1>5, <1>6, <1>7

LEMMA ErasedIs ==
  ASSUME NEW S, NEW s \in Seq(S), NEW n \in DOMAIN s,
         NEW q \in DOMAIN RemoveAt(s, n)
  PROVE  \E r \in DOMAIN s : r # n /\ RemoveAt(s, n)[q] = s[r]
  <1> DEFINE c == RemoveAt(s, n)
             l == Len(s)
  <1>2. l \in Nat /\ DOMAIN s = 1 .. l /\ n \in 1 .. l
    OBVIOUS
  <1>1. /\ c \in Seq(S) /\ Len(c) = l - 1
        /\ \A k \in 1 .. l - 1 : c[k] = IF k < n THEN s[k] ELSE s[k + 1]
    BY <1>2, RemoveAtIs
  <1> HIDE DEF c, l
  <1>3. q \in 1 .. l - 1
    BY <1>1, <1>2 DEF c
  <1>4. CASE q < n
    BY <1>1, <1>2, <1>3, <1>4 DEF c
  <1>5. CASE ~(q < n)
    <2>1. q + 1 \in DOMAIN s /\ q + 1 # n
      BY <1>2, <1>3, <1>5
    <2> QED
      BY <1>1, <1>3, <1>5, <2>1 DEF c
  <1> QED
    BY <1>4, <1>5

LEMMA LetGoIs ==
  ASSUME NEW w \in Loops, w.at \in DOMAIN w.held[w.hand]
  PROVE  LET v  == LetGo(w)
             h  == w.hand
             id == w.held[h][w.at].id
         IN /\ v \in Loops
            /\ v.opt = w.opt /\ v.clock = w.clock /\ v.stage = w.stage
            /\ v.hand = h /\ v.at = w.at /\ v.text_sent = w.text_sent
            /\ v.done = w.done
            /\ \A g \in Hands \ {h} : v.held[g] = w.held[g]
            /\ v.held[h] = RemoveAt(w.held[h], w.at)
            /\ v.got = Append(w.got, Event(w, h, "up", id))
  <1> DEFINE h == w.hand
             id == w.held[h][w.at].id
             held == [w.held EXCEPT ![h] = RemoveAt(@, w.at)]
             got == Append(w.got, Event(w, h, "up", id))
  <1>1. /\ h \in Hands /\ w.at \in Nat \ {0} /\ This(w) \in Nat
        /\ w.at \in 1 .. Len(w.held[h])
        /\ w.held[h] \in Seq([id : Nat, tick : Nat])
    <2>1. h \in Hands /\ w.at \in Nat \ {0} /\ This(w) \in Nat
      BY DEF Loops, This
    <2> QED
      BY <2>1, HandsTyped
  <1>2. id \in Nat
    BY <1>1, EntryIs
  <1>3. RemoveAt(w.held[h], w.at) \in Seq([id : Nat, tick : Nat])
    BY <1>1, RemoveAtIs
  <1>4. /\ held \in [Hands -> Seq([id : Nat, tick : Nat])]
        /\ held[h] = RemoveAt(w.held[h], w.at)
        /\ \A g \in Hands \ {h} : held[g] = w.held[g]
    BY <1>1, <1>3 DEF Loops
  <1>5. Event(w, h, "up", id) \in Pushes
    BY <1>1, <1>2 DEF Event, Pushes
  <1>6. got \in Seq(Pushes)
    BY <1>5 DEF Loops
  <1>7. LetGo(w) = [w EXCEPT !.held = held, !.got = got]
    BY DEF LetGo, Loops
  <1> HIDE DEF held, got
  <1>8. /\ LetGo(w) \in Loops
        /\ LET v == LetGo(w)
           IN /\ v.opt = w.opt /\ v.clock = w.clock /\ v.stage = w.stage
              /\ v.hand = h /\ v.at = w.at /\ v.text_sent = w.text_sent
              /\ v.done = w.done /\ v.held = held /\ v.got = got
    BY <1>4, <1>6, <1>7 DEF Loops
  <1> QED
    BY <1>4, <1>8 DEF got

-----------------------------------------------------------------------------
(* What a push changes of how often events have happened.                  *)
LEMMA HappensElse ==
  ASSUME NEW s \in Seq(Pushes), NEW t \in Seq(Pushes), NEW R,
         NEW h, NEW what, NEW id,
         \A k \in DOMAIN t :
           ~(t[k].hand = h /\ t[k].what = what /\ t[k].id = id),
         Happens(s, h, what, id, R)
  PROVE  Happens(s \o t, h, what, id, R)
  <1> DEFINE Is(e) == e.hand = h /\ e.what = what /\ e.id = id
             c == s \o t
  <1>1. /\ Len(c) = Len(s) + Len(t) /\ DOMAIN c = 1 .. Len(s) + Len(t)
        /\ \A k \in 1 .. Len(s) : c[k] = s[k]
        /\ \A k \in Len(s) + 1 .. Len(s) + Len(t) : c[k] = t[k - Len(s)]
        /\ Len(s) \in Nat /\ Len(t) \in Nat /\ DOMAIN s = 1 .. Len(s)
        /\ DOMAIN t = 1 .. Len(t)
    BY ConcatProperties
  <1>2. ASSUME NEW k \in DOMAIN c, Is(c[k])
        PROVE  k \in DOMAIN s /\ c[k] = s[k]
    <2>1. CASE k \in 1 .. Len(s)
      BY <1>1, <2>1
    <2>2. CASE k \notin 1 .. Len(s)
      <3>1. k - Len(s) \in DOMAIN t /\ c[k] = t[k - Len(s)]
        BY <1>1, <2>2
      <3> QED
        BY <1>2, <3>1
    <2> QED
      BY <2>1, <2>2
  <1>3. {k \in DOMAIN c : Is(c[k])} = {k \in DOMAIN s : Is(s[k])}
    <2>1. \A k \in DOMAIN s : k \in DOMAIN c /\ c[k] = s[k]
      BY <1>1
    <2> HIDE DEF c
    <2> QED
      BY <1>2, <2>1
  <1>4. \A k \in DOMAIN s : c[k] = s[k]
    BY <1>1
  <1> HIDE DEF c
  <1>5. Happens(c, h, what, id, R)
    BY <1>3, <1>4 DEF Happens
  <1> QED
    BY <1>5 DEF c

LEMMA AppendElse ==
  ASSUME NEW s \in Seq(Pushes), NEW e \in Pushes, NEW R,
         NEW h, NEW what, NEW id,
         ~(e.hand = h /\ e.what = what /\ e.id = id),
         Happens(s, h, what, id, R)
  PROVE  Happens(Append(s, e), h, what, id, R)
  <1>1. Append(s, e) = s \o <<e>> /\ <<e>> \in Seq(Pushes)
    BY AppendIsConcat
  <1>2. \A k \in DOMAIN <<e>> : <<e>>[k] = e
    OBVIOUS
  <1> QED
    BY <1>1, <1>2, HappensElse

LEMMA AppendOnce ==
  ASSUME NEW s \in Seq(Pushes), NEW e \in Pushes, NEW R, e.round \notin R,
         Happens(s, e.hand, e.what, e.id, R)
  PROVE  Happens(Append(s, e), e.hand, e.what, e.id, R \cup {e.round})
  <1> DEFINE Is(x) == x.hand = e.hand /\ x.what = e.what /\ x.id = e.id
             c == Append(s, e)
             n == Len(s)
             old == {k \in DOMAIN s : Is(s[k])}
             new == {k \in DOMAIN c : Is(c[k])}
  <1>1. /\ DOMAIN c = 1 .. n + 1 /\ c[n + 1] = e /\ n \in Nat
        /\ DOMAIN s = 1 .. n /\ \A k \in 1 .. n : c[k] = s[k]
    OBVIOUS
  <1>2. new = old \cup {n + 1} /\ n + 1 \notin old
    BY <1>1
  <1>3. \A k \in old : c[k] = s[k]
    BY <1>1
  <1>4. {s[k].round : k \in old} = R
    BY DEF Happens
  <1>5. \A j, k \in old : s[j].round = s[k].round => j = k
    BY DEF Happens
  <1>6. c[n + 1].round = e.round
    BY <1>1
  <1> HIDE DEF c, old, n
  <1>7. {c[k].round : k \in new} = R \cup {e.round}
    BY <1>2, <1>3, <1>4, <1>6
  <1>8. \A k \in old : c[k].round \in R
    BY <1>3, <1>4
  <1>9. \A j, k \in new : c[j].round = c[k].round => j = k
    BY <1>2, <1>3, <1>5, <1>6, <1>8
  <1>10. Happens(c, e.hand, e.what, e.id, R \cup {e.round})
    BY <1>7, <1>9 DEF Happens
  <1> QED
    BY <1>10 DEF c

LEMMA NeverHappens ==
  ASSUME NEW s, NEW h, NEW what, NEW id, Happens(s, h, what, id, {}),
         NEW k \in DOMAIN s
  PROVE  ~(s[k].hand = h /\ s[k].what = what /\ s[k].id = id)
  BY DEF Happens

(* What is heard of one entry when another is pushed.                      *)
LEMMA OtherHeard ==
  ASSUME NEW w \in Loops, NEW v \in Loops, NEW h, NEW id,
         NEW e \in Pushes, v.got = Append(w.got, e),
         e.hand # h \/ e.id # id,
         NEW d, NEW m, NEW u, Heard(w, h, id, d, m, u)
  PROVE  Heard(v, h, id, d, m, u)
  <1>1. w.got \in Seq(Pushes)
    BY DEF Loops
  <1> QED
    BY <1>1, AppendElse DEF Heard

LEMMA KeysHeard ==
  ASSUME NEW w \in Loops, NEW v \in Loops, NEW h \in Hands, NEW id,
         v.got = w.got \o KeyStrokes(w),
         NEW d, NEW m, NEW u, Heard(w, h, id, d, m, u)
  PROVE  Heard(v, h, id, d, m, u)
  <1>1. w.got \in Seq(Pushes) /\ KeyStrokes(w) \in Seq(Pushes)
    BY StrokesTyped DEF Loops
  <1>2. \A k \in DOMAIN KeyStrokes(w) : KeyStrokes(w)[k].hand # h
    BY StrokesTyped DEF Hands
  <1> QED
    BY <1>1, <1>2, HappensElse DEF Heard

(* An entry is where it was when nothing has passed it.                    *)
LEMMA RoundsAre ==
  ASSUME NEW w \in Loops, w.stage # "asleep" => This(w) > 0, NEW h, NEW k
  PROVE  /\ This(w) \in Nat /\ DOMAIN w.clock = 1 .. This(w)
         /\ LookedAt(w, h, k) \in Nat /\ PassedAt(w, h, k) \in Nat
         /\ LookedAt(w, h, k) <= This(w) /\ PassedAt(w, h, k) <= This(w)
  <1>1. This(w) \in Nat /\ DOMAIN w.clock = 1 .. This(w)
    BY DEF Loops, This
  <1>2. w.stage = "asleep" => TurnOver(w, h)
    BY DEF TurnOver
  <1> QED
    BY <1>1, <1>2 DEF LookedAt, PassedAt, Through

(* An entry's place may move; what else may change leaves it as it is.     *)
Only(w, h, id, r) ==
  \A q \in DOMAIN w.held[h] : w.held[h][q].id = id => q = r

SamePlace(w, v, h, id) ==
  /\ Absent(w, h, id) => Absent(v, h, id)
  /\ \A r \in DOMAIN w.held[h] :
       w.held[h][r].id = id /\ Only(w, h, id, r) =>
         \E q \in DOMAIN v.held[h] :
           /\ v.held[h][q] = w.held[h][r] /\ Only(v, h, id, q)
           /\ PassedAt(v, h, q) = PassedAt(w, h, r)

SameHeard(w, v, h, id) ==
  \A d, m, u : Heard(w, h, id, d, m, u) => Heard(v, h, id, d, m, u)

SameClock(w, v) ==
  /\ This(w) <= This(v) /\ v.opt = w.opt
  /\ \A i \in 1 .. This(w) : v.clock[i] = w.clock[i]

InRound(w) == w.stage # "asleep" => This(w) > 0

LEMMA NothingMoved ==
  ASSUME NEW w, NEW v, NEW h, NEW id, v.held[h] = w.held[h],
         \A r \in DOMAIN w.held[h] :
           w.held[h][r].id = id => PassedAt(v, h, r) = PassedAt(w, h, r)
  PROVE  SamePlace(w, v, h, id)
  BY DEF SamePlace, Absent, Only

LEMMA EntryAdded ==
  ASSUME NEW w \in Loops, NEW v, NEW h \in Hands, NEW id,
         NEW e \in [id : Nat, tick : Nat], e.id # id,
         v.held[h] = Append(w.held[h], e),
         \A r \in DOMAIN w.held[h] : PassedAt(v, h, r) = PassedAt(w, h, r)
  PROVE  SamePlace(w, v, h, id)
  <1> DEFINE s == w.held[h]
             c == v.held[h]
             n == Len(s)
  <1>1. s \in Seq([id : Nat, tick : Nat])
    BY HandsTyped
  <1>2. /\ n \in Nat /\ DOMAIN s = 1 .. n /\ DOMAIN c = 1 .. n + 1
        /\ c[n + 1] = e /\ \A k \in 1 .. n : c[k] = s[k]
    BY <1>1
  <1> HIDE DEF s, c, n
  <1>3. \A k \in DOMAIN c : c[k].id = id => k \in DOMAIN s /\ c[k] = s[k]
    BY <1>2
  <1>4. \A k \in DOMAIN s : k \in DOMAIN c /\ c[k] = s[k]
    BY <1>2
  <1> QED
    BY <1>3, <1>4 DEF SamePlace, Absent, Only, s, c

LEMMA EntryErased ==
  ASSUME NEW w \in Loops, NEW v, NEW h \in Hands, NEW id,
         NEW n \in DOMAIN w.held[h], w.held[h][n].id # id,
         v.held[h] = RemoveAt(w.held[h], n),
         \A r \in DOMAIN w.held[h] : r < n =>
           PassedAt(v, h, r) = PassedAt(w, h, r),
         \A r \in DOMAIN w.held[h] : n < r =>
           PassedAt(v, h, r - 1) = PassedAt(w, h, r)
  PROVE  SamePlace(w, v, h, id)
  <1> DEFINE s == w.held[h]
             c == v.held[h]
             l == Len(s)
             New(r) == IF r < n THEN r ELSE r - 1
             Old(q) == IF q < n THEN q ELSE q + 1
  <1>1. s \in Seq([id : Nat, tick : Nat])
    BY HandsTyped
  <1>2. l \in Nat /\ DOMAIN s = 1 .. l /\ n \in 1 .. l
    BY <1>1
  <1>3. /\ Len(c) = l - 1 /\ DOMAIN c = 1 .. l - 1
        /\ \A k \in 1 .. l - 1 : c[k] = IF k < n THEN s[k] ELSE s[k + 1]
    <2>1. c = RemoveAt(s, n)
      OBVIOUS
    <2>2. /\ RemoveAt(s, n) \in Seq([id : Nat, tick : Nat])
          /\ Len(RemoveAt(s, n)) = l - 1
          /\ \A k \in 1 .. l - 1 :
               RemoveAt(s, n)[k] = IF k < n THEN s[k] ELSE s[k + 1]
      BY <1>1, <1>2, RemoveAtIs
    <2> HIDE DEF c
    <2> QED
      BY <2>1, <2>2
  <1> HIDE DEF s, c, l
  <1>4. ASSUME NEW r \in DOMAIN s, r # n
        PROVE  New(r) \in DOMAIN c /\ c[New(r)] = s[r] /\ Old(New(r)) = r
    BY <1>2, <1>3, <1>4
  <1>5. ASSUME NEW q \in DOMAIN c
        PROVE  Old(q) \in DOMAIN s /\ c[q] = s[Old(q)] /\ New(Old(q)) = q
    BY <1>2, <1>3
  <1>6. ASSUME NEW r \in DOMAIN s, r # n
        PROVE  PassedAt(v, h, New(r)) = PassedAt(w, h, r)
    BY <1>2, <1>6 DEF s
  <1> HIDE DEF New, Old
  <1>7. ASSUME Absent(w, h, id) PROVE Absent(v, h, id)
    BY <1>5, <1>7 DEF Absent, s, c
  <1>8. ASSUME NEW r \in DOMAIN s, s[r].id = id, Only(w, h, id, r)
        PROVE  \E q \in DOMAIN c :
                 /\ c[q] = s[r] /\ Only(v, h, id, q)
                 /\ PassedAt(v, h, q) = PassedAt(w, h, r)
    <2>1. r # n
      BY <1>8 DEF s
    <2>2. Only(v, h, id, New(r))
      BY <1>5, <1>8 DEF Only, s, c
    <2> QED
      BY <1>4, <1>6, <2>1, <2>2
  <1> QED
    BY <1>7, <1>8 DEF SamePlace, s, c

LEMMA BeginsStay ==
  ASSUME NEW w \in Loops, NEW v \in Loops, SameClock(w, v), NEW second,
         NEW i \in Begins(w.clock, second)
  PROVE  i \in Begins(v.clock, second) /\ i \in 1 .. This(w)
  <1>1. /\ This(w) \in Nat /\ DOMAIN w.clock = 1 .. This(w)
        /\ This(v) \in Nat /\ DOMAIN v.clock = 1 .. This(v)
    BY DEF Loops, This
  <1> QED
    BY <1>1 DEF SameClock, Begins

LEMMA PlayedStays ==
  ASSUME NEW w \in Loops, NEW v \in Loops, NEW h \in Hands, NEW id,
         InRound(w), InRound(v), SameClock(w, v), SameHeard(w, v, h, id),
         SamePlace(w, v, h, id), id \in v.done[h] <=> id \in w.done[h],
         LookedAt(w, h, id) <= LookedAt(v, h, id),
         id \notin w.done[h] =>
           \A i \in LookedAt(w, h, id) + 1 .. LookedAt(v, h, id) :
             v.clock[i] < v.opt.times[h][id],
         Played(w, h, id)
  PROVE  Played(v, h, id)
  <1>1. /\ This(w) \in Nat /\ DOMAIN w.clock = 1 .. This(w)
        /\ LookedAt(w, h, id) \in Nat /\ LookedAt(w, h, id) <= This(w)
    BY RoundsAre DEF InRound
  <1>2. /\ This(v) \in Nat /\ DOMAIN v.clock = 1 .. This(v)
        /\ LookedAt(v, h, id) \in Nat /\ LookedAt(v, h, id) <= This(v)
    BY RoundsAre DEF InRound
  <1>3. ASSUME NEW i \in Start(w, h, id) PROVE i \in Start(v, h, id)
    BY BeginsStay DEF Start, SameClock
  <1>4. Absent(w, h, id) => Absent(v, h, id)
    BY DEF SamePlace
  <1>5. CASE NotYet(w, h, id)
    <2>1. \A i \in 1 .. LookedAt(v, h, id) : v.clock[i] < v.opt.times[h][id]
      <3> SUFFICES ASSUME NEW i \in 1 .. LookedAt(v, h, id)
                   PROVE  v.clock[i] < v.opt.times[h][id]
        OBVIOUS
      <3>1. CASE i <= LookedAt(w, h, id)
        BY <1>1, <1>5, <3>1 DEF NotYet, SameClock
      <3>2. CASE ~(i <= LookedAt(w, h, id))
        <4>1. i \in LookedAt(w, h, id) + 1 .. LookedAt(v, h, id)
          BY <1>1, <1>2, <3>2
        <4> QED
          BY <1>5, <4>1 DEF NotYet
      <3> QED
        BY <3>1, <3>2
    <2>2. Heard(v, h, id, {}, {}, {})
      BY <1>5 DEF NotYet, SameHeard
    <2> QED
      BY <1>4, <1>5, <2>1, <2>2 DEF NotYet, Played
  <1>6. CASE StillHeld(w, h, id)
    <2>1. PICK i \in Nat, r \in Nat : HeldSince(w, h, id, i, r)
      BY <1>6 DEF StillHeld
    <2>2. /\ r \in DOMAIN w.held[h] /\ Only(w, h, id, r)
          /\ w.held[h][r] = [id |-> id, tick |-> i + kFingerHeldTicks]
      BY <2>1 DEF HeldSince, Only
    <2>3. PICK q \in DOMAIN v.held[h] :
            /\ v.held[h][q] = w.held[h][r] /\ Only(v, h, id, q)
            /\ PassedAt(v, h, q) = PassedAt(w, h, r)
      BY <2>2 DEF SamePlace
    <2>4. Heard(v, h, id, {i}, i .. PassedAt(w, h, r), {})
      BY <2>1 DEF HeldSince, SameHeard
    <2>5. i <= LookedAt(v, h, id)
      BY <1>1, <1>2, <2>1 DEF HeldSince
    <2>6. HeldSince(v, h, id, i, q)
      BY <1>3, <2>1, <2>2, <2>3, <2>4, <2>5 DEF HeldSince, Only
    <2>7. q \in Nat
      BY HandsTyped
    <2> QED
      BY <2>6, <2>7 DEF Played, StillHeld
  <1>7. CASE LetUp(w, h, id)
    <2>1. PICK i \in Nat : UpAgain(w, h, id, i)
      BY <1>7 DEF LetUp
    <2>2. i + kFingerHeldTicks <= This(v)
      BY <1>1, <1>2, <2>1, WatchAssumption DEF UpAgain, SameClock
    <2>3. Heard(v, h, id, {i}, HeldFrom(i), {i + kFingerHeldTicks})
      BY <2>1 DEF UpAgain, SameHeard
    <2>4. UpAgain(v, h, id, i)
      BY <1>3, <1>4, <2>1, <2>2, <2>3 DEF UpAgain
    <2> QED
      BY <2>4 DEF Played, LetUp
  <1> QED
    BY <1>5, <1>6, <1>7 DEF Played

LEMMA TextStays ==
  ASSUME NEW w \in Loops, NEW v \in Loops, InRound(w), SameClock(w, v),
         TextAt(v) = TextAt(w), v.text_sent = w.text_sent,
         \/ v.got = w.got
         \/ \E e \in Pushes : e.hand # "key" /\ v.got = Append(w.got, e),
         TextTold(w)
  PROVE  TextTold(v)
  <1> DEFINE n == Len(w.got)
  <1>1. /\ n \in Nat /\ DOMAIN w.got = 1 .. n
        /\ Len(v.got) \in Nat /\ n <= Len(v.got)
        /\ DOMAIN v.got = 1 .. Len(v.got)
        /\ \A j \in 1 .. n : v.got[j] = w.got[j]
        /\ \A j \in DOMAIN v.got : v.got[j].hand = "key" => j \in 1 .. n
    <2>1. w.got \in Seq(Pushes) /\ v.got \in Seq(Pushes)
      BY DEF Loops
    <2>2. CASE v.got = w.got
      BY <2>1, <2>2
    <2>3. CASE \E e \in Pushes : e.hand # "key" /\ v.got = Append(w.got, e)
      BY <2>1, <2>3
    <2> QED
      BY <2>2, <2>3
  <1>2. /\ This(w) \in Nat /\ TextAt(w) <= This(w) /\ TextAt(w) \in Int
        /\ This(v) \in Nat
    BY DEF TextAt, Through, Loops, This
  <1>3. CASE w.text_sent
    <2>1. TypedOnce(w)
      BY <1>3 DEF TextTold
    <2>2. PICK i \in Begins(w.clock, w.opt.typed_at), m \in 0 .. n :
            TypedAfter(w.got, m, w.opt.typed, i)
      BY <2>1 DEF TypedOnce
    <2>3. i \in Begins(v.clock, w.opt.typed_at)
      BY BeginsStay
    <2>4. TypedAfter(v.got, m, w.opt.typed, i)
      <3> DEFINE t == w.opt.typed
      <3>1. t \in Seq(Nat) /\ DOMAIN t = 1 .. Len(t) /\ Len(t) \in Nat
        BY StrokesTyped
      <3> HIDE DEF t, n
      <3>2. /\ \A k \in DOMAIN t : m + 2 * k \in DOMAIN w.got
            /\ \A k \in DOMAIN t :
                 w.got[m + 2 * k - 1] = [round |-> i, hand |-> "key",
                                         what |-> "down", id |-> t[k]]
            /\ \A k \in DOMAIN t :
                 w.got[m + 2 * k] = [round |-> i, hand |-> "key",
                                     what |-> "up", id |-> t[k]]
            /\ \A j \in DOMAIN w.got :
                 w.got[j].hand = "key" => j \in m + 1 .. m + 2 * Len(t)
        BY <2>2 DEF TypedAfter, t
      <3>3. ASSUME NEW k \in DOMAIN t
            PROVE  m + 2 * k \in 1 .. n /\ m + 2 * k - 1 \in 1 .. n
        <4>1. k \in Nat /\ k >= 1 /\ m \in Nat /\ n \in Nat
          BY <1>1, <3>1
        <4>2. m + 2 * k \in 1 .. n
          BY <1>1, <3>2
        <4> QED
          BY <4>1, <4>2
      <3>4. \A k \in DOMAIN t : /\ m + 2 * k \in DOMAIN v.got
                                /\ v.got[m + 2 * k - 1] = w.got[m + 2 * k - 1]
                                /\ v.got[m + 2 * k] = w.got[m + 2 * k]
        BY <1>1, <3>3
      <3>5. \A j \in DOMAIN v.got :
              v.got[j].hand = "key" => j \in m + 1 .. m + 2 * Len(t)
        BY <1>1, <3>2
      <3> QED
        BY <3>2, <3>4, <3>5 DEF TypedAfter, t
    <2>5. m \in 0 .. Len(v.got)
      BY <1>1
    <2> QED
      BY <1>3, <2>1, <2>3, <2>4, <2>5 DEF TextTold, TypedOnce, SameClock
  <1>4. CASE ~w.text_sent
    <2>1. Untyped(w)
      BY <1>4 DEF TextTold
    <2>2. \A j \in DOMAIN v.got : v.got[j].hand # "key"
      BY <1>1, <2>1 DEF Untyped
    <2>3. ASSUME NEW i \in 1 .. TextAt(v), w.opt.typed # <<>>
          PROVE  v.clock[i] < w.opt.typed_at
      BY <1>2, <2>1, <2>3 DEF Untyped, SameClock
    <2> QED
      BY <1>4, <2>2, <2>3 DEF TextTold, Untyped, SameClock
  <1> QED
    BY <1>3, <1>4

LEMMA OrderStays ==
  ASSUME NEW s \in Seq(Pushes), NEW e \in Pushes, DownThenUp(s),
         \A k \in DOMAIN s :
           e.hand \in Hands /\ s[k].hand = e.hand /\ s[k].id = e.id =>
             <<e.what, s[k].what>> \notin Sequel
  PROVE  DownThenUp(Append(s, e))
  <1> DEFINE c == Append(s, e)
             n == Len(s)
  <1>1. /\ DOMAIN c = 1 .. n + 1 /\ c[n + 1] = e /\ n \in Nat
        /\ DOMAIN s = 1 .. n /\ \A k \in 1 .. n : c[k] = s[k]
    OBVIOUS
  <1> HIDE DEF c, n
  <1>2. <<e.what, e.what>> \notin Sequel
    BY DEF Sequel
  <1>3. ASSUME NEW j \in 1 .. n + 1, NEW k \in 1 .. n + 1,
               c[j].hand \in Hands, c[j].hand = c[k].hand,
               c[j].id = c[k].id, <<c[j].what, c[k].what>> \in Sequel
        PROVE  j < k
    <2>1. CASE j \in 1 .. n /\ k \in 1 .. n
      BY <1>1, <1>3, <2>1 DEF DownThenUp
    <2>2. CASE j \in 1 .. n /\ k = n + 1
      BY <1>1, <2>2
    <2>3. CASE j = n + 1 /\ k \in 1 .. n
      BY <1>1, <1>3, <2>3
    <2>4. CASE j = n + 1 /\ k = n + 1
      BY <1>1, <1>2, <1>3, <2>4
    <2> QED
      BY <1>1, <2>1, <2>2, <2>3, <2>4
  <1> QED
    BY <1>1, <1>3 DEF DownThenUp, c

-----------------------------------------------------------------------------
(* Every step keeps what has been played.                                  *)
LEMMA RoundKeeps ==
  ASSUME NEW w, Playing(w), w.stage = "asleep", NEW now \in Readings
  PROVE  Playing(BeginRound(w, now))
  <1> DEFINE v == BeginRound(w, now)
  <1>1. w \in Loops /\ InRound(w)
    BY DEF Playing, InRound
  <1>2. /\ v \in Loops /\ v.opt = w.opt /\ v.clock = Append(w.clock, now)
        /\ v.stage = "text" /\ v.text_sent = w.text_sent
        /\ v.done = w.done /\ v.held = w.held /\ v.got = w.got
    BY <1>1, RoundBegun
  <1> HIDE DEF v
  <1>3. /\ This(w) \in Nat /\ This(v) = This(w) + 1
        /\ \A i \in 1 .. This(w) : v.clock[i] = w.clock[i]
    <2>1. w.clock \in Seq(Readings)
      BY <1>1 DEF Loops
    <2> QED
      BY <1>2, <2>1 DEF This
  <1>4. InRound(v) /\ SameClock(w, v) /\ TextAt(v) = TextAt(w)
    <2>1. InRound(v)
      BY <1>3 DEF InRound
    <2>2. SameClock(w, v)
      <3>1. v.opt = w.opt
        BY <1>2
      <3>2. This(w) <= This(v)
        BY <1>3
      <3> QED
        BY <1>3, <3>1, <3>2 DEF SameClock
    <2>3. TextAt(v) = TextAt(w)
      BY <1>2, <1>3 DEF TextAt, Through
    <2> QED
      BY <2>1, <2>2, <2>3
  <1>5. TextTold(v)
    BY <1>1, <1>2, <1>4, TextStays DEF Playing
  <1>6. ASSUME NEW h \in Hands, NEW id \in DOMAIN w.opt.times[h]
        PROVE  Played(v, h, id)
    <2>1. /\ LookedAt(v, h, id) = LookedAt(w, h, id)
          /\ LookedAt(w, h, id) = This(w)
          /\ \A r : PassedAt(v, h, r) = PassedAt(w, h, r)
      BY <1>2, <1>3 DEF LookedAt, PassedAt, Through, TurnOver
    <2>2. SamePlace(w, v, h, id)
      BY <1>2, <2>1, NothingMoved
    <2>3. SameHeard(w, v, h, id)
      BY <1>2 DEF SameHeard, Heard
    <2>4. Played(w, h, id)
      BY DEF Playing
    <2> QED
      BY <1>1, <1>2, <1>3, <1>4, <2>1, <2>2, <2>3, <2>4, PlayedStays
  <1> QED
    BY <1>2, <1>4, <1>5, <1>6 DEF Playing, OnlyScheduled, InRound, v

LEMMA TextKeeps ==
  ASSUME NEW w, Playing(w), w.stage = "text"
  PROVE  Playing(TypeText(w))
  <1> DEFINE v == TypeText(w)
             t == w.opt.typed
             n == Len(w.got)
             l == Len(t)
             due == t # <<>> /\ ~w.text_sent /\ Now(w) >= w.opt.typed_at
  <1>1. w \in Loops /\ InRound(w) /\ This(w) > 0
    BY DEF Playing, InRound
  <1>2. /\ v \in Loops /\ v.opt = w.opt /\ v.clock = w.clock
        /\ v.stage = "schedule" /\ v.hand = "button" /\ v.at = 1
        /\ v.text_sent = (w.text_sent \/ due)
        /\ v.done = w.done /\ v.held = w.held
        /\ v.got = IF due THEN w.got \o KeyStrokes(w) ELSE w.got
    BY <1>1, TextTyped
  <1>3. /\ This(v) = This(w) /\ This(w) \in Nat /\ TextAt(w) = This(w) - 1
        /\ TextAt(v) = This(w) /\ DOMAIN w.clock = 1 .. This(w)
        /\ Now(w) = w.clock[This(w)]
    BY <1>1, <1>2 DEF TextAt, Through, This, Now, Loops
  <1>4. /\ w.got \in Seq(Pushes) /\ KeyStrokes(w) \in Seq(Pushes)
        /\ t \in Seq(Nat) /\ Len(KeyStrokes(w)) = 2 * Len(t)
        /\ \A k \in DOMAIN KeyStrokes(w) : KeyStrokes(w)[k].hand = "key"
    BY <1>1, StrokesTyped DEF Loops
  <1> HIDE DEF v, due
  <1>0. /\ n \in Nat /\ l \in Nat /\ DOMAIN w.got = 1 .. n
        /\ DOMAIN t = 1 .. l /\ DOMAIN KeyStrokes(w) = 1 .. 2 * l
        /\ Len(KeyStrokes(w)) = 2 * l
    BY <1>4
  <1>5. due => /\ DOMAIN v.got = 1 .. n + 2 * l
               /\ Len(v.got) = n + 2 * l
               /\ \A k \in 1 .. n : v.got[k] = w.got[k]
               /\ \A k \in 1 .. 2 * l : v.got[n + k] = KeyStrokes(w)[k]
    <2>1. ASSUME due PROVE v.got = w.got \o KeyStrokes(w)
      BY <1>2, <2>1
    <2> DEFINE b == KeyStrokes(w)
               c == w.got \o b
    <2>2. /\ DOMAIN c = 1 .. n + 2 * l
          /\ Len(c) = n + 2 * l
          /\ \A k \in 1 .. n : c[k] = w.got[k]
          /\ \A k \in 1 .. 2 * l : c[n + k] = KeyStrokes(w)[k]
      <3> DEFINE m == Len(b)
      <3>1. w.got \in Seq(Pushes) /\ b \in Seq(Pushes)
        BY <1>4
      <3> HIDE DEF b
      <3>2. /\ Len(c) = n + m /\ DOMAIN c = 1 .. n + m
            /\ \A k \in 1 .. n : c[k] = w.got[k]
            /\ \A k \in 1 .. m : c[n + k] = b[k]
        BY <3>1, ConcatIs
      <3>3. m = 2 * l
        BY <1>0 DEF b
      <3> HIDE DEF c, m, n, l
      <3> QED
        BY <3>2, <3>3 DEF b
    <2> QED
      BY <2>1, <2>2
  <1> HIDE DEF n, l
  <1>6. due => \A k \in DOMAIN v.got : v.got[k].hand \in Hands =>
                 k \in DOMAIN w.got /\ v.got[k] = w.got[k]
    <2> SUFFICES ASSUME due, NEW k \in DOMAIN v.got, v.got[k].hand \in Hands
                 PROVE  k \in DOMAIN w.got /\ v.got[k] = w.got[k]
      OBVIOUS
    <2>1. CASE k \in 1 .. n
      BY <1>0, <1>5, <2>1
    <2>2. CASE k \notin 1 .. n
      <3>1. k - n \in 1 .. 2 * l /\ n + (k - n) = k
        BY <1>0, <1>5, <2>2
      <3>2. v.got[k] = KeyStrokes(w)[k - n] /\ k - n \in DOMAIN KeyStrokes(w)
        BY <1>0, <1>5, <3>1
      <3>3. v.got[k].hand = "key"
        BY <1>4, <3>2
      <3> QED
        BY <3>3 DEF Hands
    <2> QED
      BY <2>1, <2>2
  <1>7. InRound(v) /\ SameClock(w, v)
    BY <1>1, <1>2, <1>3 DEF InRound, SameClock
  <1>8. OnlyScheduled(v) /\ DownThenUp(v.got)
    <2>1. OnlyScheduled(w) /\ DownThenUp(w.got)
      BY DEF Playing
    <2>2. CASE due
      <3>1. OnlyScheduled(v)
        BY <1>2, <1>6, <2>1, <2>2 DEF OnlyScheduled
      <3>2. DownThenUp(v.got)
        BY <1>6, <2>1, <2>2 DEF DownThenUp
      <3> QED
        BY <3>1, <3>2
    <2>3. CASE ~due
      BY <1>2, <2>1, <2>3 DEF OnlyScheduled
    <2> QED
      BY <2>2, <2>3
  <1>9. TextTold(v)
    <2>1. CASE due
      <3>1. Untyped(w) /\ t # <<>> /\ Now(w) >= w.opt.typed_at
        BY <2>1 DEF due, Playing, TextTold
      <3>2. This(w) \in Begins(v.clock, w.opt.typed_at)
        BY <1>1, <1>2, <1>3, <3>1 DEF Begins, Untyped
      <3>3. ASSUME NEW k \in DOMAIN t
            PROVE  /\ n + 2 * k \in DOMAIN v.got
                   /\ v.got[n + 2 * k - 1] = Event(w, "key", "down", t[k])
                   /\ v.got[n + 2 * k] = Event(w, "key", "up", t[k])
        <4>1. /\ 2 * k - 1 \in 1 .. 2 * l /\ 2 * k \in 1 .. 2 * l
              /\ n + (2 * k - 1) = n + 2 * k - 1
              /\ n + 2 * k \in 1 .. n + 2 * l
          BY <1>0
        <4>2. /\ KeyStrokes(w)[2 * k - 1] = Event(w, "key", "down", t[k])
              /\ KeyStrokes(w)[2 * k] = Event(w, "key", "up", t[k])
          BY <1>1, StrokesTyped
        <4> QED
          BY <1>5, <2>1, <4>1, <4>2
      <3>4. ASSUME NEW j \in DOMAIN v.got, v.got[j].hand = "key"
            PROVE  j \in n + 1 .. n + 2 * l
        <4>1. j \notin DOMAIN w.got
          BY <1>0, <1>5, <2>1, <3>1, <3>4 DEF Untyped
        <4> QED
          BY <1>0, <1>5, <2>1, <4>1
      <3>5. TypedAfter(v.got, n, t, This(w))
        BY <3>3, <3>4 DEF TypedAfter, Event, l
      <3>6. n \in 0 .. Len(v.got) /\ n \in 0 .. Len(w.got)
        BY <1>0, <1>5, <2>1 DEF n
      <3>7. v.text_sent
        BY <1>2, <2>1
      <3> QED
        BY <1>2, <3>1, <3>2, <3>5, <3>6, <3>7 DEF TextTold, TypedOnce
    <2>2. CASE ~due /\ w.text_sent
      BY <1>2, <2>2 DEF Playing, TextTold, TypedOnce
    <2>3. CASE ~due /\ ~w.text_sent
      <3>1. Untyped(w) /\ v.text_sent = FALSE /\ v.got = w.got
        BY <1>2, <2>3 DEF Playing, TextTold
      <3>2. t = <<>> \/ Now(w) < w.opt.typed_at
        <4>1. Now(w) \in Int /\ w.opt.typed_at \in Int
          BY <1>1, NowIs, WatchAssumption DEF Loops, Options
        <4> QED
          BY <2>3, <4>1 DEF due
      <3>3. t # <<>> => \A i \in 1 .. This(w) : w.clock[i] < w.opt.typed_at
        BY <1>1, <1>3, <3>1, <3>2 DEF Untyped
      <3> QED
        BY <1>2, <1>3, <3>1, <3>3 DEF TextTold, Untyped
    <2> QED
      BY <2>1, <2>2, <2>3
  <1>10. ASSUME NEW h \in Hands, NEW id \in DOMAIN w.opt.times[h]
         PROVE  Played(v, h, id)
    <2>1. id \in Nat \ {0}
      BY <1>1, HandsTyped
    <2>2. /\ LookedAt(v, h, id) = LookedAt(w, h, id)
          /\ LookedAt(w, h, id) = This(w) - 1
          /\ \A r : PassedAt(v, h, r) = PassedAt(w, h, r)
      BY <1>2, <1>3, <2>1 DEF LookedAt, PassedAt, Through, TurnOver
    <2>3. SamePlace(w, v, h, id)
      BY <1>2, <2>2, NothingMoved
    <2>4. SameHeard(w, v, h, id)
      <3>1. CASE due
        BY <1>1, <1>2, <3>1, KeysHeard DEF SameHeard
      <3>2. CASE ~due
        BY <1>2, <3>2 DEF SameHeard, Heard
      <3> QED
        BY <3>1, <3>2
    <2>5. Played(w, h, id)
      BY DEF Playing
    <2> QED
      BY <1>1, <1>2, <1>3, <1>7, <2>2, <2>3, <2>4, <2>5, PlayedStays
  <1> QED
    BY <1>2, <1>7, <1>8, <1>9, <1>10 DEF Playing, InRound, v

LEMMA TurnKeeps ==
  ASSUME NEW w, Playing(w), NEW v \in Loops,
         \/ /\ w.stage = "schedule" /\ w.at \notin DOMAIN w.opt.times[w.hand]
            /\ v = Scheduled(w)
         \/ /\ w.stage = "held" /\ w.at \notin DOMAIN w.held[w.hand]
            /\ v = AllHeld(w)
  PROVE  Playing(v)
  <1>1. w \in Loops /\ InRound(w) /\ This(w) > 0
    BY DEF Playing, InRound
  <1>2. /\ v.opt = w.opt /\ v.clock = w.clock /\ v.at = 1
        /\ v.text_sent = w.text_sent
        /\ v.done = w.done /\ v.held = w.held /\ v.got = w.got
    BY <1>1, LoopsTurn
  <1>3. /\ w.stage = "schedule" => v.stage = "held" /\ v.hand = w.hand
        /\ (w.stage = "held" /\ w.hand = "button")
              => v.stage = "schedule" /\ v.hand = "finger"
        /\ (w.stage = "held" /\ w.hand = "finger") => v.stage = "asleep"
        /\ w.hand \in {"button", "finger"} /\ w.at \in Nat \ {0}
    <2>1. w.hand \in {"button", "finger"} /\ w.at \in Nat \ {0}
      BY <1>1 DEF Loops, Hands
    <2>2. CASE w.stage = "schedule"
      <3>1. v = Scheduled(w)
        BY <2>2
      <3> QED
        BY <1>1, <2>1, <2>2, <3>1, LoopsTurn
    <2>3. CASE w.stage = "held"
      <3>1. v = AllHeld(w)
        BY <2>3
      <3> QED
        BY <1>1, <2>1, <2>3, <3>1, LoopsTurn
    <2> QED
      BY <2>1, <2>2, <2>3
  <1>4. /\ This(v) = This(w) /\ This(w) \in Nat
        /\ InRound(v) /\ SameClock(w, v)
    BY <1>1, <1>2 DEF This, InRound, SameClock, Loops
  <1>5. TextTold(v)
    <2>1. TextAt(v) = TextAt(w)
      BY <1>3, <1>4 DEF TextAt, Through
    <2> QED
      BY <1>1, <1>2, <1>4, <2>1, TextStays DEF Playing
  <1>6. ASSUME NEW h \in Hands, NEW id \in DOMAIN w.opt.times[h]
        PROVE  Played(v, h, id)
    <2>1. id \in 1 .. Len(w.opt.times[h]) /\ Len(w.opt.times[h]) \in Nat
      BY <1>1, HandsTyped
    <2>2. ASSUME w.stage = "schedule", w.hand = h PROVE id < w.at
      <3>1. w.at \notin 1 .. Len(w.opt.times[h])
        BY <1>1, <2>2, HandsTyped
      <3> QED
        BY <1>3, <2>1, <3>1
    <2>3. LookedAt(v, h, id) = LookedAt(w, h, id)
      BY <1>3, <1>4, <2>1, <2>2, <1>2
         DEF LookedAt, Through, TurnOver, Hands
    <2>4. ASSUME NEW r \in DOMAIN w.held[h]
          PROVE  PassedAt(v, h, r) = PassedAt(w, h, r)
      <3>1. /\ r \in 1 .. Len(w.held[h]) /\ Len(w.held[h]) \in Nat
            /\ DOMAIN w.held[h] = 1 .. Len(w.held[h])
        <4>1. w.held[h] \in Seq([id : Nat, tick : Nat])
          BY <1>1, HandsTyped
        <4> QED
          BY <4>1
      <3>2. ASSUME w.stage = "held", w.hand = h PROVE r < w.at
        <4>1. w.at \notin 1 .. Len(w.held[h])
          BY <3>1, <3>2
        <4> QED
          BY <1>3, <3>1, <4>1
      <3> QED
        BY <1>2, <1>3, <1>4, <3>1, <3>2
           DEF PassedAt, Through, TurnOver, Hands
    <2>5. SamePlace(w, v, h, id)
      BY <1>2, <2>4, NothingMoved
    <2>6. SameHeard(w, v, h, id)
      BY <1>2 DEF SameHeard, Heard
    <2>7. /\ LookedAt(w, h, id) \in Nat /\ Played(w, h, id)
      BY <1>1, RoundsAre DEF Playing, InRound
    <2> QED
      BY <1>1, <1>2, <1>4, <2>3, <2>5, <2>6, <2>7, PlayedStays
  <1> QED
    BY <1>2, <1>4, <1>5, <1>6 DEF Playing, OnlyScheduled, InRound

(* What a push about one entry leaves of the others.                       *)
LEMMA OthersPlayed ==
  ASSUME NEW w \in Loops, NEW v \in Loops, NEW h \in Hands, NEW id,
         InRound(w), InRound(v), SameClock(w, v),
         \/ v.got = w.got
         \/ \E e \in Pushes : /\ e.hand # h \/ e.id # id
                              /\ v.got = Append(w.got, e),
         SamePlace(w, v, h, id), id \in v.done[h] <=> id \in w.done[h],
         LookedAt(v, h, id) = LookedAt(w, h, id), Played(w, h, id)
  PROVE  Played(v, h, id)
  <1>1. SameHeard(w, v, h, id)
    <2>1. CASE v.got = w.got
      BY <2>1 DEF SameHeard, Heard
    <2>2. CASE v.got # w.got
      BY <2>2, OtherHeard DEF SameHeard
    <2> QED
      BY <2>1, <2>2
  <1>2. LookedAt(w, h, id) \in Nat
    BY RoundsAre DEF InRound
  <1> QED
    BY <1>1, <1>2, PlayedStays

LEMMA SameRound ==
  ASSUME NEW w \in Loops, NEW v \in Loops, w.stage # "asleep",
         InRound(w), v.opt = w.opt, v.clock = w.clock
  PROVE  /\ This(w) \in Nat \ {0} /\ This(v) = This(w)
         /\ InRound(v) /\ SameClock(w, v)
         /\ DOMAIN w.clock = 1 .. This(w) /\ Now(w) = w.clock[This(w)]
  BY DEF This, InRound, SameClock, Loops, Now

LEMMA NobodyHeard ==
  ASSUME NEW w \in Loops, NEW h \in Hands, NEW id,
         Heard(w, h, id, {}, {}, {}), NEW k \in DOMAIN w.got
  PROVE  ~(w.got[k].hand = h /\ w.got[k].id = id)
  <1>1. w.got[k] \in Pushes
    BY DEF Loops
  <1>2. w.got[k].what \in {"down", "move", "up"}
    BY <1>1 DEF Pushes
  <1>3. \A what \in {"down", "move", "up"} : Happens(w.got, h, what, id, {})
    BY DEF Heard
  <1> QED
    BY <1>2, <1>3, NeverHappens

LEMMA ScheduledPlayed ==
  ASSUME NEW w, Playing(w), w.stage = "schedule",
         w.at \in DOMAIN w.opt.times[w.hand],
         w.at \notin w.done[w.hand],
         Now(w) >= w.opt.times[w.hand][w.at]
  PROVE  /\ NotYet(w, w.hand, w.at)
         /\ StillHeld(Schedule(w), w.hand, w.at)
  <1> DEFINE v == Schedule(w)
             h == w.hand
             id == w.at
             r == Len(w.held[h]) + 1
             i == This(w)
             e == Event(w, h, "down", id)
  <1>1. w \in Loops /\ InRound(w) /\ h \in Hands
    BY DEF Playing, InRound, Loops
  <1>2. /\ v \in Loops /\ v.opt = w.opt /\ v.clock = w.clock
        /\ v.stage = "schedule" /\ v.hand = h /\ v.at = id + 1
        /\ v.done[h] = w.done[h] \cup {id}
        /\ v.held[h] = Append(w.held[h],
                              [id |-> id, tick |-> i + kFingerHeldTicks])
        /\ v.got = Append(w.got, e)
    BY <1>1, EntryScheduled
  <1>3. /\ i \in Nat \ {0} /\ This(v) = i /\ DOMAIN w.clock = 1 .. i
        /\ Now(w) = w.clock[i]
    BY <1>1, <1>2, SameRound
  <1>4. id \in Nat \ {0} /\ w.held[h] \in Seq([id : Nat, tick : Nat])
    BY <1>1, HandsTyped DEF Loops
  <1>5. NotYet(w, h, id)
    BY <1>1 DEF Playing, Played, StillHeld, HeldSince, LetUp, UpAgain
  <1> HIDE DEF v, e
  <1>6. LookedAt(w, h, id) = i - 1 /\ LookedAt(v, h, id) = i
    BY <1>1, <1>2, <1>3, <1>4 DEF LookedAt, Through, TurnOver, Hands
  <1>7. PassedAt(v, h, r) = i - 1
    BY <1>1, <1>2, <1>3 DEF PassedAt, Through, TurnOver, Hands
  <1>8. i \in Start(v, h, id)
    <2>1. \A j \in 1 .. i - 1 : w.clock[j] < w.opt.times[h][id]
      BY <1>5, <1>6 DEF NotYet
    <2>2. i \in DOMAIN v.clock /\ v.clock[i] >= v.opt.times[h][id]
      BY <1>2, <1>3
    <2> QED
      BY <1>2, <2>1, <2>2 DEF Start, Begins
  <1>9. Heard(v, h, id, {i}, i .. i - 1, {})
    <2>1. /\ e \in Pushes /\ e.hand = h /\ e.what = "down" /\ e.id = id
          /\ e.round = i
      BY <1>1, <1>3, <1>4 DEF e, Event, Pushes
    <2>2. w.got \in Seq(Pushes)
      BY <1>1 DEF Loops
    <2>3. Heard(w, h, id, {}, {}, {})
      BY <1>5 DEF NotYet
    <2>4. Happens(v.got, h, "down", id, {} \cup {i})
      BY <1>2, <2>1, <2>2, <2>3, AppendOnce DEF Heard
    <2>5. Happens(v.got, h, "move", id, {}) /\ Happens(v.got, h, "up", id, {})
      BY <1>2, <2>1, <2>2, <2>3, AppendElse DEF Heard
    <2>6. i .. i - 1 = {} /\ {} \cup {i} = {i}
      BY <1>3
    <2> QED
      BY <2>4, <2>5, <2>6 DEF Heard
  <1>10. /\ r \in DOMAIN v.held[h] /\ r \in Nat
         /\ v.held[h][r] = [id |-> id, tick |-> i + kFingerHeldTicks]
         /\ \A q \in DOMAIN v.held[h] : v.held[h][q].id = id => q = r
    <2> DEFINE s == w.held[h]
               c == v.held[h]
    <2>1. /\ DOMAIN s = 1 .. Len(s) /\ Len(s) \in Nat
          /\ DOMAIN c = 1 .. Len(s) + 1
          /\ c[r] = [id |-> id, tick |-> i + kFingerHeldTicks]
          /\ \A k \in 1 .. Len(s) : c[k] = s[k]
      BY <1>2, <1>4
    <2>2. \A k \in 1 .. Len(s) : s[k].id # id
      BY <1>5, <2>1 DEF NotYet, Absent
    <2>3. r = Len(s) + 1
      OBVIOUS
    <2> HIDE DEF s, c, r
    <2>4. /\ r \in DOMAIN c /\ r \in Nat
          /\ \A q \in DOMAIN c : c[q].id = id => q = r
      BY <2>1, <2>2, <2>3
    <2> QED
      BY <2>1, <2>4 DEF c
  <1> HIDE DEF r
  <1>11. HeldSince(v, h, id, i, r)
    <2>1. id \in v.done[h] /\ i <= LookedAt(v, h, id)
      BY <1>2, <1>3, <1>6
    <2>2. /\ i - 1 <= PassedAt(v, h, r)
          /\ PassedAt(v, h, r) < i + kFingerHeldTicks
      BY <1>3, <1>7, WatchAssumption
    <2>3. Heard(v, h, id, {i}, i .. PassedAt(v, h, r), {})
      BY <1>7, <1>9
    <2> QED
      BY <1>8, <1>10, <2>1, <2>2, <2>3 DEF HeldSince
  <1> QED
    BY <1>3, <1>5, <1>10, <1>11 DEF StillHeld, v

LEMMA ScheduleKeeps ==
  ASSUME NEW w, Playing(w), w.stage = "schedule",
         w.at \in DOMAIN w.opt.times[w.hand]
  PROVE  Playing(Schedule(w))
  <1> DEFINE v == Schedule(w)
             h == w.hand
             due == w.at \notin w.done[h] /\ Now(w) >= w.opt.times[h][w.at]
             e == Event(w, h, "down", w.at)
             entry == [id |-> w.at, tick |-> This(w) + kFingerHeldTicks]
  <1>1. w \in Loops /\ InRound(w) /\ This(w) > 0 /\ h \in Hands
    BY DEF Playing, InRound, Loops
  <1>2. /\ v \in Loops /\ v.opt = w.opt /\ v.clock = w.clock
        /\ v.stage = "schedule" /\ v.hand = h /\ v.at = w.at + 1
        /\ v.text_sent = w.text_sent
        /\ \A g \in Hands \ {h} : v.done[g] = w.done[g] /\ v.held[g] = w.held[g]
    BY <1>1, EntryScheduled
  <1>3. due => /\ v.done[h] = w.done[h] \cup {w.at}
               /\ v.held[h] = Append(w.held[h], entry)
               /\ v.got = Append(w.got, e)
    BY <1>1, EntryScheduled
  <1>4. ~due => v.done = w.done /\ v.held = w.held /\ v.got = w.got
    BY <1>1, EntryScheduled
  <1>5. due => NotYet(w, h, w.at) /\ StillHeld(v, h, w.at)
    BY ScheduledPlayed
  <1>6. w.at \in Nat \ {0} /\ This(w) \in Nat
    BY <1>1 DEF Loops, This
  <1>7. /\ e \in Pushes /\ e.hand = h /\ e.id = w.at /\ e.what = "down"
        /\ e.hand # "key"
    BY <1>1, <1>6 DEF e, Event, Pushes, Hands
  <1>8. entry \in [id : Nat, tick : Nat] /\ entry.id = w.at
    BY <1>6, WatchAssumption
  <1> HIDE DEF v, due, e, entry
  <1>9. /\ This(v) = This(w) /\ InRound(v) /\ SameClock(w, v)
        /\ DOMAIN w.clock = 1 .. This(w) /\ Now(w) = w.clock[This(w)]
    BY <1>1, <1>2, SameRound
  <1>10. w.got \in Seq(Pushes) /\ OnlyScheduled(w) /\ DownThenUp(w.got)
    BY <1>1 DEF Loops, Playing
  <1>11. TextTold(v)
    <2>1. TextAt(v) = TextAt(w)
      BY <1>2, <1>9 DEF TextAt, Through
    <2>2. TextTold(w)
      BY DEF Playing
    <2>3. v.got = w.got \/ v.got = Append(w.got, e)
      BY <1>3, <1>4
    <2> QED
      BY <1>1, <1>2, <1>7, <1>9, <2>1, <2>2, <2>3, TextStays
  <1>12. OnlyScheduled(v)
    <2>1. CASE due
      <3>1. \A k \in DOMAIN v.got : v.got[k].hand \in Hands =>
              v.got[k].id \in DOMAIN w.opt.times[v.got[k].hand]
        <4>1. \A k \in DOMAIN v.got :
                \/ k \in DOMAIN w.got /\ v.got[k] = w.got[k]
                \/ v.got[k] = e
          BY <1>3, <1>7, <1>10, <2>1, AppendIs
        <4> QED
          BY <1>7, <1>10, <4>1 DEF OnlyScheduled
      <3>2. \A r \in DOMAIN v.held[h] :
              v.held[h][r].id \in DOMAIN w.opt.times[h]
        <4>1. w.held[h] \in Seq([id : Nat, tick : Nat])
          BY <1>1, HandsTyped
        <4>2. \A r \in DOMAIN v.held[h] :
                \/ r \in DOMAIN w.held[h] /\ v.held[h][r] = w.held[h][r]
                \/ v.held[h][r] = entry
          <5>1. v.held[h] = Append(w.held[h], entry)
            BY <1>3, <2>1
          <5> QED
            BY <1>8, <4>1, <5>1, AppendIs
        <4> QED
          BY <1>1, <1>8, <1>10, <4>2 DEF OnlyScheduled
      <3>3. \A g \in Hands \ {h} : \A r \in DOMAIN v.held[g] :
              v.held[g][r].id \in DOMAIN w.opt.times[g]
        BY <1>2, <1>10 DEF OnlyScheduled
      <3> QED
        BY <1>2, <3>1, <3>2, <3>3 DEF OnlyScheduled
    <2>2. CASE ~due
      BY <1>2, <1>4, <1>10, <2>2 DEF OnlyScheduled
    <2> QED
      BY <2>1, <2>2
  <1>13. DownThenUp(v.got)
    <2>1. CASE due
      <3>1. \A k \in DOMAIN w.got : ~(w.got[k].hand = h /\ w.got[k].id = w.at)
        BY <1>1, <1>5, <2>1, NobodyHeard DEF NotYet
      <3> QED
        BY <1>3, <1>7, <1>10, <2>1, <3>1, OrderStays
    <2>2. CASE ~due
      BY <1>4, <1>10, <2>2
    <2> QED
      BY <2>1, <2>2
  <1>14. ASSUME NEW g \in Hands, NEW id \in DOMAIN w.opt.times[g]
         PROVE  Played(v, g, id)
    <2>1. id \in Nat \ {0} /\ Played(w, g, id)
      BY <1>1, HandsTyped DEF Playing
    <2>2. \A r : PassedAt(v, g, r) = PassedAt(w, g, r)
      BY <1>2, <1>9 DEF PassedAt, Through, TurnOver
    <2>3. CASE g # h \/ id # w.at
      <3>1. LookedAt(v, g, id) = LookedAt(w, g, id)
        BY <1>2, <1>6, <1>9, <2>1, <2>3 DEF LookedAt, Through, TurnOver
      <3>2. SamePlace(w, v, g, id)
        <4>1. CASE v.held[g] = w.held[g]
          BY <2>2, <4>1, NothingMoved
        <4>2. CASE g = h /\ due
          <5>1. entry.id # id
            BY <1>8, <2>3, <4>2
          <5> QED
            BY <1>1, <1>3, <1>8, <2>2, <4>2, <5>1, EntryAdded
        <4> QED
          BY <1>2, <1>4, <4>1, <4>2
      <3>3. id \in v.done[g] <=> id \in w.done[g]
        BY <1>2, <1>3, <1>4, <2>3
      <3>4. \/ v.got = w.got
            \/ \E x \in Pushes : /\ x.hand # g \/ x.id # id
                                 /\ v.got = Append(w.got, x)
        BY <1>3, <1>4, <1>7, <2>3
      <3> QED
        BY <1>1, <1>2, <1>9, <2>1, <3>1, <3>2, <3>3, <3>4, OthersPlayed
    <2>4. CASE g = h /\ id = w.at /\ due
      BY <1>5, <2>4 DEF Played
    <2>5. CASE g = h /\ id = w.at /\ ~due
      <3>1. LookedAt(w, g, id) = This(w) - 1 /\ LookedAt(v, g, id) = This(w)
        BY <1>1, <1>2, <1>6, <1>9, <2>5 DEF LookedAt, Through, TurnOver, Hands
      <3>2. id \notin w.done[g] => v.clock[This(w)] < v.opt.times[g][id]
        <4>1. w.opt.times[g][id] \in Int /\ Now(w) \in Int
          <5>1. w.opt.times[g] \in Seq(Seconds)
            BY <1>1, HandsTyped
          <5>2. w.opt.times[g][id] \in Seconds
            BY <5>1
          <5> QED
            BY <1>1, <5>2, NowIs, WatchAssumption
        <4> QED
          BY <1>2, <1>9, <2>5, <4>1 DEF due
      <3>3. This(w) - 1 + 1 .. This(w) = {This(w)} /\ This(w) - 1 <= This(w)
        BY <1>6
      <3>4. SamePlace(w, v, g, id)
        BY <1>4, <2>2, <2>5, NothingMoved
      <3>5. SameHeard(w, v, g, id)
        BY <1>4, <2>5 DEF SameHeard, Heard
      <3>6. id \in v.done[g] <=> id \in w.done[g]
        BY <1>4, <2>5
      <3> QED
        BY <1>1, <1>2, <1>9, <2>1, <3>1, <3>2, <3>3, <3>4, <3>5, <3>6, PlayedStays
    <2> QED
      BY <2>3, <2>4, <2>5
  <1> QED
    BY <1>2, <1>9, <1>11, <1>12, <1>13, <1>14 DEF Playing, InRound, v

(* What the loop over what is held stands on.                              *)
LEMMA TickIs ==
  ASSUME NEW w, NEW h, NEW id, NEW i, NEW r, HeldSince(w, h, id, i, r)
  PROVE  w.held[h][r].tick = i + kFingerHeldTicks
  <1>1. w.held[h][r] = [id |-> id, tick |-> i + kFingerHeldTicks]
    BY DEF HeldSince
  <1> QED
    BY <1>1

LEMMA HeldEntry ==
  ASSUME NEW w, Playing(w), w.stage = "held", w.at \in DOMAIN w.held[w.hand]
  PROVE  LET h  == w.hand
             id == w.held[h][w.at].id
         IN /\ id \in DOMAIN w.opt.times[h] /\ id \in Nat
            /\ \E i \in Nat : /\ HeldSince(w, h, id, i, w.at)
                              /\ i <= This(w)
            /\ PassedAt(w, h, w.at) = This(w) - 1
            /\ This(w) \in Nat \ {0}
  <1> DEFINE h == w.hand
             id == w.held[h][w.at].id
  <1>1. /\ w \in Loops /\ InRound(w) /\ h \in Hands /\ This(w) \in Nat \ {0}
    BY DEF Playing, InRound, Loops, This
  <1>2. id \in DOMAIN w.opt.times[h] /\ id \in Nat
    BY <1>1, EntryIs DEF Playing, OnlyScheduled
  <1>3. ~Absent(w, h, id)
    BY DEF Absent
  <1>4. StillHeld(w, h, id)
    BY <1>1, <1>2, <1>3 DEF Playing, Played, NotYet, LetUp, UpAgain
  <1>5. PICK i \in Nat, r \in Nat : HeldSince(w, h, id, i, r)
    BY <1>4 DEF StillHeld
  <1>6. r = w.at
    BY <1>5 DEF HeldSince
  <1>7. LookedAt(w, h, id) = This(w) /\ PassedAt(w, h, w.at) = This(w) - 1
    <2>1. w.at \in Nat
      BY <1>1 DEF Loops
    <2> QED
      BY <1>1, <2>1 DEF LookedAt, PassedAt, Through, TurnOver, Hands
  <1>8. i <= This(w)
    BY <1>5, <1>7 DEF HeldSince
  <1> QED
    BY <1>1, <1>2, <1>5, <1>6, <1>7, <1>8

LEMMA HoldKeeps ==
  ASSUME NEW w, Playing(w), w.stage = "held", w.at \in DOMAIN w.held[w.hand],
         This(w) < w.held[w.hand][w.at].tick
  PROVE  Playing(Hold(w))
  <1> DEFINE v == Hold(w)
             h == w.hand
             own == w.held[h][w.at].id
             e == Event(w, h, "move", own)
             now == This(w)
  <1>1. w \in Loops /\ InRound(w) /\ h \in Hands
    BY DEF Playing, InRound, Loops
  <1>2. /\ v \in Loops /\ v.opt = w.opt /\ v.clock = w.clock
        /\ v.stage = "held" /\ v.hand = h /\ v.at = w.at + 1
        /\ v.text_sent = w.text_sent /\ v.done = w.done /\ v.held = w.held
        /\ v.got = IF h = "button" THEN w.got ELSE Append(w.got, e)
    BY <1>1, HeldOn
  <1>3. /\ own \in DOMAIN w.opt.times[h] /\ own \in Nat
        /\ PassedAt(w, h, w.at) = now - 1 /\ now \in Nat \ {0}
    BY HeldEntry
  <1>4. PICK i \in Nat : HeldSince(w, h, own, i, w.at) /\ i <= now
    BY HeldEntry
  <1>5. w.at \in Nat \ {0}
    BY <1>1 DEF Loops
  <1>6. /\ e \in Pushes /\ e.hand = h /\ e.id = own /\ e.what = "move"
        /\ e.hand # "key" /\ e.round = now
    BY <1>1, <1>3 DEF Event, Pushes, Hands
  <1>7. now < i + kFingerHeldTicks
    <2>1. w.held[h][w.at].tick = i + kFingerHeldTicks
      BY <1>4, TickIs
    <2> QED
      BY <2>1
  <1> HIDE DEF v, own, e
  <1>8. /\ This(v) = now /\ InRound(v) /\ SameClock(w, v)
        /\ DOMAIN w.clock = 1 .. now
    BY <1>1, <1>2, SameRound
  <1>9. w.got \in Seq(Pushes) /\ OnlyScheduled(w) /\ DownThenUp(w.got)
    BY <1>1 DEF Loops, Playing
  <1>10. v.got = w.got \/ v.got = Append(w.got, e)
    BY <1>2
  <1> HIDE DEF now
  <1>11. TextTold(v)
    <2>1. TextAt(v) = TextAt(w)
      BY <1>2, <1>8 DEF TextAt, Through, now
    <2>2. TextTold(w)
      BY DEF Playing
    <2> QED
      BY <1>1, <1>2, <1>6, <1>8, <1>10, <2>1, <2>2, TextStays
  <1>12. OnlyScheduled(v)
    <2>1. \A k \in DOMAIN v.got :
            \/ k \in DOMAIN w.got /\ v.got[k] = w.got[k]
            \/ v.got[k] = e
      <3>1. CASE v.got = w.got
        BY <3>1
      <3>2. CASE v.got = Append(w.got, e)
        BY <1>6, <1>9, <3>2, AppendIs
      <3> QED
        BY <1>10, <3>1, <3>2
    <2> QED
      BY <1>2, <1>3, <1>6, <1>9, <2>1 DEF OnlyScheduled
  <1>13. DownThenUp(v.got)
    <2>1. \A k \in DOMAIN w.got :
            ~(w.got[k].hand = h /\ w.got[k].what = "up" /\ w.got[k].id = own)
      BY <1>4, NeverHappens DEF HeldSince, Heard
    <2>2. \A k \in DOMAIN w.got :
            w.got[k].hand = h /\ w.got[k].id = own =>
              <<"move", w.got[k].what>> \notin Sequel
      BY <2>1 DEF Sequel
    <2>3. DownThenUp(Append(w.got, e))
      BY <1>6, <1>9, <2>2, OrderStays
    <2> QED
      BY <1>9, <1>10, <2>3
  <1>14. StillHeld(v, h, own)
    <2>1. PassedAt(v, h, w.at) = now
      BY <1>1, <1>2, <1>3, <1>5, <1>8 DEF PassedAt, Through, TurnOver, Hands
    <2>2. LookedAt(v, h, own) = now
      BY <1>1, <1>2, <1>3, <1>8 DEF LookedAt, Through, TurnOver, Hands
    <2>3. Heard(v, h, own, {i}, i .. now, {})
      <3>1. Heard(w, h, own, {i}, i .. now - 1, {})
        BY <1>3, <1>4 DEF HeldSince
      <3>2. now \notin i .. now - 1 /\ i .. now = (i .. now - 1) \cup {now}
        BY <1>3, <1>4
      <3>3. CASE h = "button"
        BY <1>2, <3>1, <3>3 DEF Heard
      <3>4. CASE h = "finger"
        <4>1. v.got = Append(w.got, e)
          BY <1>2, <3>4
        <4>2. Happens(v.got, h, "move", own, (i .. now - 1) \cup {now})
          <5>1. Happens(w.got, e.hand, e.what, e.id, i .. now - 1)
            BY <1>6, <3>1, <3>4 DEF Heard
          <5>2. e.round \notin i .. now - 1
            BY <1>6, <3>2
          <5>3. Happens(Append(w.got, e), e.hand, e.what, e.id,
                        (i .. now - 1) \cup {e.round})
            BY <1>6, <1>9, <5>1, <5>2, AppendOnce
          <5> QED
            BY <1>6, <4>1, <5>3
        <4>3. Happens(v.got, h, "down", own, {i})
          BY <1>6, <1>9, <3>1, <4>1, AppendElse DEF Heard
        <4>4. Happens(v.got, h, "up", own, {})
          BY <1>6, <1>9, <3>1, <4>1, AppendElse DEF Heard
        <4>5. Happens(v.got, h, "move", own, i .. now)
          BY <3>2, <4>2
        <4> QED
          BY <3>4, <4>3, <4>4, <4>5 DEF Heard
      <3> QED
        BY <1>1, <3>3, <3>4 DEF Hands
    <2>4. i \in Start(v, h, own)
      BY <1>2, <1>4 DEF HeldSince, Start
    <2>5. i - 1 <= now
      BY <1>3, <1>4
    <2>6. HeldSince(v, h, own, i, w.at)
      BY <1>2, <1>4, <1>7, <2>1, <2>2, <2>3, <2>4, <2>5 DEF HeldSince
    <2> QED
      BY <1>5, <2>6 DEF StillHeld
  <1>15. ASSUME NEW g \in Hands, NEW id \in DOMAIN w.opt.times[g]
         PROVE  Played(v, g, id)
    <2>1. CASE g = h /\ id = own
      BY <1>14, <2>1 DEF Played
    <2>2. CASE g # h \/ id # own
      <3>1. LookedAt(v, g, id) = LookedAt(w, g, id)
        BY <1>2, <1>8 DEF LookedAt, Through, TurnOver, now
      <3>2. ASSUME NEW r \in DOMAIN w.held[g], w.held[g][r].id = id
            PROVE  PassedAt(v, g, r) = PassedAt(w, g, r)
        <4>1. g = h => r # w.at
          BY <2>2, <3>2 DEF own
        <4>2. r \in Nat
          <5>1. w.held[g] \in Seq([id : Nat, tick : Nat])
            BY <1>1, HandsTyped
          <5> QED
            BY <5>1
        <4> QED
          BY <1>2, <1>5, <1>8, <4>1, <4>2 DEF PassedAt, Through, TurnOver, now
      <3>3. SamePlace(w, v, g, id)
        BY <1>2, <3>2, NothingMoved
      <3>4. \/ v.got = w.got
            \/ \E x \in Pushes : /\ x.hand # g \/ x.id # id
                                 /\ v.got = Append(w.got, x)
        BY <1>6, <1>10, <2>2
      <3>5. Played(w, g, id)
        BY DEF Playing
      <3> QED
        BY <1>1, <1>2, <1>8, <3>1, <3>3, <3>4, <3>5, OthersPlayed
    <2> QED
      BY <2>1, <2>2
  <1> QED
    BY <1>2, <1>8, <1>11, <1>12, <1>13, <1>15 DEF Playing, InRound, v

LEMMA LetGoKeeps ==
  ASSUME NEW w, Playing(w), w.stage = "held", w.at \in DOMAIN w.held[w.hand],
         ~(This(w) < w.held[w.hand][w.at].tick)
  PROVE  Playing(LetGo(w))
  <1> DEFINE v == LetGo(w)
             h == w.hand
             own == w.held[h][w.at].id
             e == Event(w, h, "up", own)
             now == This(w)
  <1>1. w \in Loops /\ InRound(w) /\ h \in Hands
    BY DEF Playing, InRound, Loops
  <1>2. /\ v \in Loops /\ v.opt = w.opt /\ v.clock = w.clock
        /\ v.stage = "held" /\ v.hand = h /\ v.at = w.at
        /\ v.text_sent = w.text_sent /\ v.done = w.done
        /\ \A g \in Hands \ {h} : v.held[g] = w.held[g]
        /\ v.held[h] = RemoveAt(w.held[h], w.at)
        /\ v.got = Append(w.got, e)
    BY <1>1, LetGoIs
  <1>3. /\ own \in DOMAIN w.opt.times[h] /\ own \in Nat
        /\ PassedAt(w, h, w.at) = now - 1 /\ now \in Nat \ {0}
    BY HeldEntry
  <1>4. PICK i \in Nat : HeldSince(w, h, own, i, w.at) /\ i <= now
    BY HeldEntry
  <1>5. w.at \in Nat \ {0}
    BY <1>1 DEF Loops
  <1>6. /\ e \in Pushes /\ e.hand = h /\ e.id = own /\ e.what = "up"
        /\ e.hand # "key" /\ e.round = now
    BY <1>1, <1>3 DEF Event, Pushes, Hands
  <1>7. now = i + kFingerHeldTicks
    <2>1. now - 1 < i + kFingerHeldTicks
      BY <1>3, <1>4 DEF HeldSince
    <2>2. ~(now < i + kFingerHeldTicks)
      <3>1. w.held[h][w.at].tick = i + kFingerHeldTicks
        BY <1>4, TickIs
      <3> QED
        BY <3>1
    <2> QED
      BY <1>3, <1>4, <2>1, <2>2, WatchAssumption
  <1> HIDE DEF v, own, e
  <1>8. /\ This(v) = now /\ InRound(v) /\ SameClock(w, v)
        /\ DOMAIN w.clock = 1 .. now
    BY <1>1, <1>2, SameRound
  <1>9. w.got \in Seq(Pushes) /\ OnlyScheduled(w) /\ DownThenUp(w.got)
    BY <1>1 DEF Loops, Playing
  <1>10. /\ w.held[h] \in Seq([id : Nat, tick : Nat])
         /\ DOMAIN w.held[h] = 1 .. Len(w.held[h])
         /\ w.at \in DOMAIN w.held[h]
    BY <1>1, HandsTyped
  <1>11. ASSUME NEW q \in DOMAIN v.held[h]
         PROVE  \E r \in DOMAIN w.held[h] : /\ r # w.at
                                            /\ v.held[h][q] = w.held[h][r]
    <2>1. q \in DOMAIN RemoveAt(w.held[h], w.at)
      BY <1>2
    <2>2. \E r \in DOMAIN w.held[h] :
            r # w.at /\ RemoveAt(w.held[h], w.at)[q] = w.held[h][r]
      <3> DEFINE s == w.held[h]
                 n == w.at
      <3>1. s \in Seq([id : Nat, tick : Nat]) /\ n \in DOMAIN s
            /\ q \in DOMAIN RemoveAt(s, n)
        BY <1>10, <2>1
      <3> HIDE DEF s, n
      <3>2. \E r \in DOMAIN s : r # n /\ RemoveAt(s, n)[q] = s[r]
        BY <3>1, ErasedIs
      <3> QED
        BY <3>2 DEF s, n
    <2> QED
      BY <1>2, <2>2
  <1> HIDE DEF now
  <1>12. TextTold(v)
    <2>1. TextAt(v) = TextAt(w)
      BY <1>2, <1>8 DEF TextAt, Through, now
    <2>2. TextTold(w)
      BY DEF Playing
    <2> QED
      BY <1>1, <1>2, <1>6, <1>8, <2>1, <2>2, TextStays
  <1>13. OnlyScheduled(v)
    <2>1. \A k \in DOMAIN v.got :
            \/ k \in DOMAIN w.got /\ v.got[k] = w.got[k]
            \/ v.got[k] = e
      BY <1>2, <1>6, <1>9, AppendIs
    <2>2. \A k \in DOMAIN v.got : v.got[k].hand \in Hands =>
            v.got[k].id \in DOMAIN w.opt.times[v.got[k].hand]
      BY <1>3, <1>6, <1>9, <2>1 DEF OnlyScheduled
    <2>3. \A r \in DOMAIN v.held[h] : v.held[h][r].id \in DOMAIN w.opt.times[h]
      BY <1>1, <1>9, <1>11 DEF OnlyScheduled
    <2>4. \A g \in Hands \ {h} : \A r \in DOMAIN v.held[g] :
            v.held[g][r].id \in DOMAIN w.opt.times[g]
      BY <1>2, <1>9 DEF OnlyScheduled
    <2> QED
      BY <1>2, <2>2, <2>3, <2>4 DEF OnlyScheduled
  <1>14. DownThenUp(v.got)
    <2>1. \A what : <<"up", what>> \notin Sequel
      BY DEF Sequel
    <2> QED
      BY <1>2, <1>6, <1>9, <2>1, OrderStays
  <1>15. LetUp(v, h, own)
    <2>1. Heard(w, h, own, {i}, HeldFrom(i), {})
      <3>1. now - 1 = i + kFingerHeldTicks - 1
        BY <1>3, <1>7, WatchAssumption
      <3> QED
        BY <1>3, <1>4, <3>1 DEF HeldSince, HeldFrom
    <2>2. Heard(v, h, own, {i}, HeldFrom(i), {i + kFingerHeldTicks})
      <3>1. Happens(v.got, h, "up", own, {} \cup {now})
        BY <1>2, <1>6, <1>9, <2>1, AppendOnce DEF Heard
      <3>2. Happens(v.got, h, "down", own, {i})
        BY <1>2, <1>6, <1>9, <2>1, AppendElse DEF Heard
      <3>3. Happens(v.got, h, "move", own,
                    IF h = "finger" THEN HeldFrom(i) ELSE {})
        BY <1>2, <1>6, <1>9, <2>1, AppendElse DEF Heard
      <3>4. {} \cup {now} = {i + kFingerHeldTicks}
        BY <1>7
      <3> QED
        BY <3>1, <3>2, <3>3, <3>4 DEF Heard
    <2>3. Absent(v, h, own)
      BY <1>4, <1>11 DEF Absent, HeldSince
    <2>4. i \in Start(v, h, own) /\ own \in v.done[h]
      BY <1>2, <1>4 DEF HeldSince, Start
    <2>5. i + kFingerHeldTicks <= This(v)
      BY <1>3, <1>7, <1>8
    <2> QED
      BY <2>2, <2>3, <2>4, <2>5 DEF LetUp, UpAgain
  <1>16. ASSUME NEW g \in Hands, NEW id \in DOMAIN w.opt.times[g]
         PROVE  Played(v, g, id)
    <2>1. CASE g = h /\ id = own
      BY <1>15, <2>1 DEF Played
    <2>2. CASE g # h \/ id # own
      <3>1. LookedAt(v, g, id) = LookedAt(w, g, id)
        BY <1>2, <1>8 DEF LookedAt, Through, TurnOver, now
      <3>2. SamePlace(w, v, g, id)
        <4>1. CASE g # h
          <5>1. \A r : PassedAt(v, g, r) = PassedAt(w, g, r)
            BY <1>2, <1>8, <4>1 DEF PassedAt, Through, TurnOver, now
          <5> QED
            BY <1>2, <4>1, <5>1, NothingMoved
        <4>2. CASE g = h
          <5>1. \A r : PassedAt(v, h, r) = PassedAt(w, h, r)
            BY <1>2, <1>8 DEF PassedAt, Through, TurnOver, now
          <5>2. \A r \in DOMAIN w.held[h] : w.at < r =>
                  PassedAt(v, h, r - 1) = PassedAt(w, h, r)
            <6>1. \A r \in DOMAIN w.held[h] : r \in Nat
              BY <1>10
            <6> QED
              BY <1>2, <1>5, <1>8, <6>1 DEF PassedAt, Through, TurnOver, now
          <5>3. w.held[h][w.at].id # id
            BY <2>2, <4>2 DEF own
          <5> QED
            BY <1>1, <1>2, <1>10, <4>2, <5>1, <5>2, <5>3, EntryErased
        <4> QED
          BY <4>1, <4>2
      <3>3. \E x \in Pushes : /\ x.hand # g \/ x.id # id
                              /\ v.got = Append(w.got, x)
        BY <1>2, <1>6, <2>2
      <3>4. Played(w, g, id)
        BY DEF Playing
      <3> QED
        BY <1>1, <1>2, <1>8, <3>1, <3>2, <3>3, <3>4, OthersPlayed
    <2> QED
      BY <2>1, <2>2
  <1> QED
    BY <1>2, <1>8, <1>12, <1>13, <1>14, <1>16 DEF Playing, InRound, v

LEMMA WatchingPlays ==
  ASSUME NEW opt \in Options
  PROVE  Playing(Watching(opt))
  <1> DEFINE w == Watching(opt)
  <1>1. w \in Loops
    <2>1. 1 \in Nat \ {0} /\ "button" \in Hands
      BY DEF Hands
    <2>2. /\ <<>> \in Seq(Readings) /\ <<>> \in Seq(Pushes)
          /\ <<>> \in Seq([id : Nat, tick : Nat])
      OBVIOUS
    <2> QED
      BY <2>1, <2>2 DEF Watching, Loops
  <1>2. /\ w.opt = opt /\ w.clock = <<>> /\ w.stage = "asleep"
        /\ w.got = <<>> /\ ~w.text_sent
        /\ \A h \in Hands : w.done[h] = {} /\ w.held[h] = <<>>
    BY DEF Watching
  <1> HIDE DEF w
  <1>3. This(w) = 0 /\ DOMAIN w.got = {}
    BY <1>2 DEF This
  <1>4. \A h \in Hands : DOMAIN w.held[h] = {}
    BY <1>2
  <1>5. OnlyScheduled(w) /\ DownThenUp(w.got)
    BY <1>3, <1>4 DEF OnlyScheduled, DownThenUp
  <1>6. TextTold(w)
    <2>1. TextAt(w) = 0
      BY <1>2, <1>3 DEF TextAt, Through
    <2>2. \A i \in 1 .. TextAt(w) : FALSE
      BY <2>1
    <2> QED
      BY <1>2, <1>3, <2>2 DEF TextTold, Untyped
  <1>7. ASSUME NEW h \in Hands, NEW id \in DOMAIN w.opt.times[h]
        PROVE  Played(w, h, id)
    <2>1. LookedAt(w, h, id) = 0
      BY <1>2, <1>3 DEF LookedAt, Through, TurnOver
    <2>2. \A i \in 1 .. LookedAt(w, h, id) : FALSE
      BY <2>1
    <2>3. \A what : Happens(w.got, h, what, id, {})
      BY <1>3 DEF Happens
    <2>4. Heard(w, h, id, {}, {}, {})
      BY <2>3 DEF Heard
    <2> QED
      BY <1>2, <1>4, <2>2, <2>4 DEF Played, NotYet, Absent
  <1> QED
    BY <1>1, <1>2, <1>5, <1>6, <1>7 DEF Playing, w

LEMMA WatchKeeps ==
  ASSUME WatchInv, Watch
  PROVE  WatchInv'
  <1> USE DEF WatchInv
  <1>1. ASSUME call = NoCall, NEW opt \in Options, Called(Watching(opt))
        PROVE  Playing(call')
    BY <1>1, WatchingPlays DEF Called
  <1>2. ASSUME call.fn = "watch", call.stage = "asleep",
               NEW now \in Readings, Called(BeginRound(call, now))
        PROVE  Playing(call')
    BY <1>2, RoundKeeps DEF Called
  <1>3. ASSUME call.fn = "watch", call.stage = "text", Called(TypeText(call))
        PROVE  Playing(call')
    BY <1>3, TextKeeps DEF Called
  <1>4. ASSUME call.fn = "watch", call.stage = "schedule",
               call.at \in DOMAIN call.opt.times[call.hand],
               Called(Schedule(call))
        PROVE  Playing(call')
    BY <1>4, ScheduleKeeps DEF Called
  <1>5. ASSUME call.fn = "watch", call.stage = "schedule",
               call.at \notin DOMAIN call.opt.times[call.hand],
               Called(Scheduled(call))
        PROVE  Playing(call')
    <2>1. call \in Loops
      BY <1>5 DEF Playing
    <2>2. Scheduled(call) \in Loops
      BY <2>1, LoopsTurn
    <2> QED
      BY <1>5, <2>2, TurnKeeps DEF Called
  <1>6. ASSUME call.fn = "watch", call.stage = "held",
               call.at \in DOMAIN call.held[call.hand], Called(Held(call))
        PROVE  Playing(call')
    <2>1. CASE This(call) < call.held[call.hand][call.at].tick
      BY <1>6, <2>1, HoldKeeps DEF Called, Held
    <2>2. CASE ~(This(call) < call.held[call.hand][call.at].tick)
      BY <1>6, <2>2, LetGoKeeps DEF Called, Held
    <2> QED
      BY <2>1, <2>2
  <1>7. ASSUME call.fn = "watch", call.stage = "held",
               call.at \notin DOMAIN call.held[call.hand],
               Called(AllHeld(call))
        PROVE  Playing(call')
    <2>1. call \in Loops
      BY <1>7 DEF Playing
    <2>2. AllHeld(call) \in Loops
      BY <2>1, LoopsTurn
    <2> QED
      BY <1>7, <2>2, TurnKeeps DEF Called
  <1> QED
    BY <1>1, <1>2, <1>3, <1>4, <1>5, <1>6, <1>7 DEF Watch

(* At the end of a round Played is OnTime.                                 *)
LEMMA FirstIs ==
  ASSUME NEW w \in Loops, NEW second \in Int, NEW i \in Begins(w.clock, second)
  PROVE  Begins(w.clock, second) = {i}
  <1>1. DOMAIN w.clock = 1 .. This(w) /\ This(w) \in Nat
    BY DEF Loops, This
  <1>2. ASSUME NEW k \in DOMAIN w.clock PROVE w.clock[k] \in Int
    <2>1. w.clock \in Seq(Readings)
      BY DEF Loops
    <2>2. w.clock[k] \in Readings
      BY <2>1
    <2> QED
      BY <2>2, WatchAssumption
  <1>3. ASSUME NEW j \in Begins(w.clock, second), NEW k \in Begins(w.clock, second)
        PROVE  ~(j < k)
    <2>1. /\ j \in 1 .. This(w) /\ k \in 1 .. This(w)
          /\ w.clock[j] \in Int /\ w.clock[j] >= second
      BY <1>1, <1>2 DEF Begins
    <2>2. ASSUME j < k PROVE FALSE
      <3>1. w.clock[j] < second
        BY <1>1, <2>1, <2>2 DEF Begins
      <3> QED
        BY <2>1, <3>1
    <2> QED
      BY <2>2
  <1>4. ASSUME NEW j \in Begins(w.clock, second) PROVE j = i
    <2>1. j \in Int /\ i \in Int
      BY <1>1 DEF Begins
    <2> QED
      BY <1>3, <2>1
  <1> QED
    BY <1>4

LEMMA PlayedIsOnTime ==
  ASSUME NEW w, Playing(w), w.stage = "asleep",
         NEW h \in Hands, NEW id \in DOMAIN w.opt.times[h]
  PROVE  OnTime(w, h, id)
  <1> DEFINE n == This(w)
             second == w.opt.times[h][id]
             begin == Begins(w.clock, second)
             during == IF h = "finger" THEN UNION {HeldFrom(i) : i \in begin}
                       ELSE {}
             end == {i + kFingerHeldTicks : i \in begin}
  <1>1. w \in Loops /\ Played(w, h, id)
    BY DEF Playing
  <1>2. /\ n \in Nat /\ DOMAIN w.clock = 1 .. n
        /\ \A k : LookedAt(w, h, k) = n /\ PassedAt(w, h, k) = n
    BY <1>1 DEF Loops, This, LookedAt, PassedAt, Through, TurnOver
  <1>3. second \in Int
    <2>1. w.opt.times[h] \in Seq(Seconds)
      BY <1>1, HandsTyped
    <2>2. second \in Seconds
      BY <2>1
    <2> QED
      BY <2>2, WatchAssumption
  <1>4. ASSUME NEW down, NEW move, NEW up, Heard(w, h, id, down, move, up),
               begin = down, during \cap 1 .. n = (IF h = "finger" THEN move ELSE {}),
               end \cap 1 .. n = up
        PROVE  OnTime(w, h, id)
    BY <1>2, <1>4 DEF OnTime, Heard
  <1>5. CASE NotYet(w, h, id)
    <2>1. ASSUME NEW i \in begin PROVE FALSE
      <3>1. w.clock[i] < second /\ w.clock[i] >= second /\ i \in DOMAIN w.clock
        BY <1>2, <1>5 DEF NotYet, Begins
      <3>2. w.clock \in Seq(Readings)
        BY <1>1 DEF Loops
      <3>3. w.clock[i] \in Readings
        BY <3>1, <3>2
      <3>4. w.clock[i] \in Int
        BY <3>3, WatchAssumption
      <3> HIDE DEF second
      <3> QED
        BY <1>3, <3>1, <3>4
    <2>2. begin = {}
      BY <2>1
    <2> HIDE DEF begin
    <2>3. during \cap 1 .. n = {} /\ end \cap 1 .. n = {}
      BY <2>2
    <2> QED
      BY <1>4, <1>5, <2>2, <2>3 DEF NotYet
  <1> HIDE DEF n, second
  <1>6. ASSUME NEW i \in Nat, i \in Start(w, h, id)
        PROVE  /\ begin = {i}
               /\ during = (IF h = "finger" THEN HeldFrom(i) ELSE {})
               /\ end = {i + kFingerHeldTicks}
    <2>1. begin = {i}
      BY <1>1, <1>3, <1>6, FirstIs DEF Start, second
    <2> HIDE DEF begin
    <2>2. {HeldFrom(j) : j \in begin} = {HeldFrom(i)}
      BY <2>1
    <2> QED
      BY <2>1, <2>2
  <1> HIDE DEF begin, during, end
  <1>7. CASE StillHeld(w, h, id)
    <2>1. PICK i \in Nat, r \in Nat : HeldSince(w, h, id, i, r)
      BY <1>7 DEF StillHeld
    <2>2. Heard(w, h, id, {i}, i .. n, {}) /\ i - 1 <= n /\ n < i + kFingerHeldTicks
      BY <1>2, <2>1 DEF HeldSince
    <2>3. i \in Start(w, h, id) /\ i \in 1 .. n
      BY <1>2, <2>1 DEF HeldSince, Start, Begins
    <2>4. HeldFrom(i) \cap 1 .. n = i .. n
      BY <1>2, <2>2, <2>3, WatchAssumption DEF HeldFrom
    <2>5. {i + kFingerHeldTicks} \cap 1 .. n = {}
      BY <1>2, <2>2, <2>3, WatchAssumption
    <2>6. during \cap 1 .. n = (IF h = "finger" THEN i .. n ELSE {})
      BY <1>6, <2>3, <2>4
    <2> QED
      BY <1>4, <1>6, <2>2, <2>3, <2>5, <2>6
  <1>8. CASE LetUp(w, h, id)
    <2>1. PICK i \in Nat : UpAgain(w, h, id, i)
      BY <1>8 DEF LetUp
    <2>2. /\ Heard(w, h, id, {i}, HeldFrom(i), {i + kFingerHeldTicks})
          /\ i \in Start(w, h, id) /\ i + kFingerHeldTicks <= n
      BY <2>1 DEF UpAgain, n
    <2>3. i \in 1 .. n
      BY <1>2, <2>2 DEF Start, Begins
    <2>4. HeldFrom(i) \cap 1 .. n = HeldFrom(i)
      BY <1>2, <2>2, <2>3, WatchAssumption DEF HeldFrom
    <2>5. {i + kFingerHeldTicks} \cap 1 .. n = {i + kFingerHeldTicks}
      BY <1>2, <2>2, <2>3, WatchAssumption
    <2>6. during \cap 1 .. n = (IF h = "finger" THEN HeldFrom(i) ELSE {})
      BY <1>6, <2>2, <2>4
    <2> QED
      BY <1>4, <1>6, <2>2, <2>5, <2>6
  <1> QED
    BY <1>1, <1>5, <1>7, <1>8 DEF Played

LEMMA ToldIsOnTime ==
  ASSUME NEW w, Playing(w), w.stage = "asleep"
  PROVE  TextOnTime(w)
  <1>1. w \in Loops /\ TextTold(w)
    BY DEF Playing
  <1>2. /\ This(w) \in Nat /\ DOMAIN w.clock = 1 .. This(w)
        /\ TextAt(w) = This(w)
    BY <1>1 DEF Loops, This, TextAt, Through
  <1>3. CASE w.text_sent
    BY <1>1, <1>3 DEF TextTold, TypedOnce, TextOnTime
  <1>4. CASE ~w.text_sent
    <2>1. Untyped(w)
      BY <1>1, <1>4 DEF TextTold
    <2>2. ASSUME NEW i \in Begins(w.clock, w.opt.typed_at),
                 w.opt.typed # <<>>
          PROVE  FALSE
      <3>1. i \in DOMAIN w.clock /\ w.clock[i] >= w.opt.typed_at
        BY DEF Begins
      <3>2. w.clock[i] < w.opt.typed_at
        BY <1>2, <2>1, <2>2, <3>1 DEF Untyped
      <3>3. w.opt.typed_at \in Int
        BY <1>1, WatchAssumption DEF Loops, Options
      <3>4. w.clock \in Seq(Readings)
        BY <1>1 DEF Loops
      <3>5. w.clock[i] \in Readings
        BY <3>1, <3>4
      <3>6. w.clock[i] \in Int
        BY <3>5, WatchAssumption
      <3> DEFINE a == w.clock[i]
                 b == w.opt.typed_at
      <3> HIDE DEF a, b
      <3>7. a \in Int /\ b \in Int /\ a >= b /\ a < b
        BY <3>1, <3>2, <3>3, <3>6 DEF a, b
      <3> QED
        BY <3>7
    <2> QED
      BY <2>1, <2>2 DEF Untyped, TextOnTime
  <1> QED
    BY <1>3, <1>4

(* ScheduleIsPlayed: after every round of the watch loop the buttons, the  *)
(* fingers and the text have been played as the command line asks.         *)
THEOREM LoopPlaysSchedule == WatchSpec => []ScheduleIsPlayed
  <1>1. call = NoCall => WatchInv
    BY DEF NoCall, WatchInv
  <1>2. WatchInv /\ [Watch \/ call'.fn # "watch"]_call => WatchInv'
    <2> SUFFICES ASSUME WatchInv, [Watch \/ call'.fn # "watch"]_call
                 PROVE  WatchInv'
      OBVIOUS
    <2>1. CASE Watch
      BY <2>1, WatchKeeps
    <2>2. CASE call'.fn # "watch"
      BY <2>2 DEF WatchInv
    <2>3. CASE UNCHANGED call
      BY <2>3 DEF WatchInv
    <2> QED
      BY <2>1, <2>2, <2>3
  <1>3. WatchInv => ScheduleIsPlayed
    <2> SUFFICES ASSUME WatchInv, call.fn = "watch", call.stage = "asleep"
                 PROVE  /\ \A h \in Hands :
                             \A id \in DOMAIN call.opt.times[h] :
                               OnTime(call, h, id)
                        /\ OnlyScheduled(call)
                        /\ DownThenUp(call.got) /\ TextOnTime(call)
      BY DEF ScheduleIsPlayed, OnlyScheduled
    <2>1. Playing(call)
      BY DEF WatchInv
    <2> QED
      BY <2>1, PlayedIsOnTime, ToldIsOnTime DEF Playing
  <1> QED
    BY <1>1, <1>2, <1>3, PTL DEF WatchSpec
=============================================================================
