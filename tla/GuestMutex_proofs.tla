-------------------------- MODULE GuestMutex_proofs --------------------------
(***************************************************************************)
(* Proofs about GuestMutex, for every set of threads and objects.          *)
(***************************************************************************)
EXTENDS GuestMutex, TLAPS

(* The stages in which tok[t] is the token mutex_for found or made.        *)
Engaged(t) == pc[t] \in {"store", "act", "lock", "asleep", "woken"}

(* A host object serves one guest mutex: two words, a word and a thread,   *)
(* or two threads that know the same token are about the same object.      *)
TokensUnique ==
  /\ \A o, p \in Objects : word[o] = word[p] /\ word[o] # 0 => o = p
  /\ \A o \in Objects, t \in Threads :
        Engaged(t) /\ tok[t] = word[o] => obj[t] = o
  /\ \A t, u \in Threads :
        Engaged(t) /\ Engaged(u) /\ tok[t] = tok[u] => obj[t] = obj[u]

(* Tokens in use have been handed out, and what has not been handed out    *)
(* is free.                                                                *)
TokensMade ==
  /\ \A o \in Objects : word[o] <= made
  /\ \A t \in Threads : Engaged(t) => tok[t] \in 1 .. made
  /\ \A k \in Tokens : k > made => owner[k] = NoThread /\ depth[k] = 0

(* A token created and not yet stored is known to its creator alone.       *)
TokenPrivate ==
  \A t \in Threads : pc[t] = "store" =>
     /\ owner[tok[t]] = NoThread /\ depth[tok[t]] = 0
     /\ \A o \in Objects : word[o] # tok[t]
     /\ \A u \in Threads \ {t} : Engaged(u) => tok[u] # tok[t]

(* What holds of a thread in a thunk for an object the guest initialises:  *)
(* only pthread_mutex_init runs before the object is ready, alone, and     *)
(* whoever comes later finds the token it stored.                          *)
CallFits(t, o) ==
  /\ ready[o] <=> op[t] # "init"
  /\ pc[t] \in {"create", "store"} => word[o] = 0 /\ ~ready[o]
  /\ pc[t] \in {"act", "lock", "asleep", "woken"}
        => word[o] # 0 /\ tok[t] = word[o]
  /\ ~ready[o] => \A u \in Threads \ {t} : pc[u] = "guest" \/ obj[u] # o
  /\ op[t] = "init" => pc[t] \in {"load", "create", "store", "act"}
  /\ op[t] = "init" /\ pc[t] = "load" => word[o] = 0

InitAlone ==
  \A o \in Objects \ StaticInit :
     /\ ready[o] => word[o] # 0
     /\ word[o] = 0 => inside[o] = {}
     /\ ~ready[o] => inside[o] = {}
     /\ \A t \in Threads : pc[t] # "guest" /\ obj[t] = o => CallFits(t, o)

(* Who is inside an initialised mutex is who its host object says.         *)
InsideIsOwner ==
  \A o \in Objects \ StaticInit :
     word[o] # 0 =>
        inside[o] = IF owner[word[o]] = NoThread THEN {} ELSE {owner[word[o]]}

(* A host object counts at least one when it is held and none when free.   *)
DepthMatches ==
  \A k \in Tokens : (owner[k] = NoThread) <=> (depth[k] = 0)

(* Only pthread_mutex_lock reaches the blocking GuestMutex::lock.            *)
LockersLock ==
  \A t \in Threads : pc[t] \in {"lock", "asleep", "woken"} => op[t] = "lock"

IInv ==
  /\ TypeOK /\ TokensUnique /\ TokensMade /\ TokenPrivate
  /\ InitAlone /\ InsideIsOwner /\ DepthMatches /\ LockersLock
-----------------------------------------------------------------------------
USE MutexAssumption DEF Tokens, Stages, Ops

LEMMA InitInvariant == Init => IInv
  <1> SUFFICES ASSUME Init PROVE IInv
    OBVIOUS
  <1>1. TypeOK
    BY DEF Init, TypeOK
  <1>2. TokensUnique /\ TokenPrivate
    BY DEF Init, TokensUnique, TokenPrivate, Engaged
  <1>3. TokensMade /\ DepthMatches /\ InsideIsOwner
    BY DEF Init, TokensMade, DepthMatches, InsideIsOwner, Engaged
  <1>4. InitAlone
    BY DEF Init, InitAlone, CallFits
  <1>5. LockersLock
    BY DEF Init, LockersLock
  <1> QED
    BY <1>1, <1>2, <1>3, <1>4, <1>5 DEF IInv

LEMMA CallInitInvariant ==
  ASSUME IInv, NEW t \in Threads, NEW o \in Objects, CallInit(t, o)
  PROVE  IInv'
  <1> USE DEF IInv, CallInit, InCall, hostVars
  <1>1. TypeOK'
    BY DEF TypeOK
  <1>2. TokensUnique'
    BY DEF TypeOK, TokensUnique, TokensMade, Engaged
  <1>3. TokensMade'
    BY DEF TypeOK, TokensMade, Engaged
  <1>4. TokenPrivate'
    BY DEF TypeOK, TokensMade, TokenPrivate, Engaged
  <1>5. InitAlone'
    BY DEF TypeOK, InitAlone, CallFits
  <1>6. InsideIsOwner'
    BY DEF TypeOK, TokensUnique, InitAlone, CallFits, InsideIsOwner, Engaged
  <1>7. DepthMatches'
    BY DEF TypeOK, DepthMatches
  <1>8. LockersLock'
    BY DEF TypeOK, LockersLock
  <1> QED
    BY <1>1, <1>2, <1>3, <1>4, <1>5, <1>6, <1>7, <1>8

LEMMA CallOpInvariant ==
  ASSUME IInv, NEW t \in Threads, NEW o \in Objects,
         NEW f \in Ops \ {"init"}, CallOp(t, o, f)
  PROVE  IInv'
  <1> USE DEF IInv, CallOp, memoryVars, hostVars
  <1>1. TypeOK'
    BY DEF TypeOK
  <1>2. TokensUnique'
    BY DEF TypeOK, TokensUnique, Engaged
  <1>3. TokensMade'
    BY DEF TypeOK, TokensMade, Engaged
  <1>4. TokenPrivate'
    BY DEF TypeOK, TokensMade, TokenPrivate, Engaged
  <1>5. InitAlone'
    BY DEF TypeOK, InitAlone, CallFits
  <1>6. InsideIsOwner'
    BY DEF TypeOK, TokensUnique, InitAlone, CallFits, InsideIsOwner, Engaged
  <1>7. DepthMatches'
    BY DEF TypeOK, DepthMatches
  <1>8. LockersLock'
    BY DEF TypeOK, LockersLock
  <1> QED
    BY <1>1, <1>2, <1>3, <1>4, <1>5, <1>6, <1>7, <1>8

LEMMA DestroyInvariant ==
  ASSUME IInv, NEW t \in Threads, NEW o \in Objects, Destroy(t, o)
  PROVE  IInv'
  <1> USE DEF IInv, Destroy, InCall, hostVars
  <1>1. TypeOK'
    BY DEF TypeOK
  <1>2. TokensUnique'
    BY DEF TypeOK, TokensUnique, Engaged
  <1>3. TokensMade'
    BY DEF TypeOK, TokensMade, Engaged
  <1>4. TokenPrivate'
    BY DEF TypeOK, TokensMade, TokenPrivate, Engaged
  <1>5. InitAlone'
    BY DEF TypeOK, InitAlone, CallFits
  <1>6. InsideIsOwner'
    BY DEF TypeOK, TokensUnique, InitAlone, CallFits, InsideIsOwner, Engaged
  <1>7. DepthMatches'
    BY DEF TypeOK, DepthMatches
  <1>8. LockersLock'
    BY DEF TypeOK, LockersLock
  <1> QED
    BY <1>1, <1>2, <1>3, <1>4, <1>5, <1>6, <1>7, <1>8

LEMMA LoadTokenInvariant ==
  ASSUME IInv, NEW t \in Threads, LoadToken(t)
  PROVE  IInv'
  <1> DEFINE o == obj[t]
  <1> USE DEF IInv, LoadToken, memoryVars, callVars, hostVars
  <1>a. o \in Objects /\ word[o] \in 0 .. MaxTokens
    BY DEF TypeOK
  <1>b. CASE word[o] = 0
    <2>1. pc' = [pc EXCEPT ![t] = "create"] /\ UNCHANGED tok
      BY <1>b
    <2>2. TypeOK' /\ LockersLock'
      BY <2>1 DEF TypeOK, LockersLock
    <2>3. TokensUnique' /\ TokensMade'
      BY <2>1 DEF TypeOK, TokensUnique, TokensMade, Engaged
    <2>4. TokenPrivate'
      BY <2>1 DEF TypeOK, TokenPrivate, Engaged
    <2>5. InitAlone'
      BY <1>b, <2>1 DEF TypeOK, InitAlone, CallFits
    <2>6. InsideIsOwner' /\ DepthMatches'
      BY DEF InsideIsOwner, DepthMatches
    <2> QED
      BY <2>2, <2>3, <2>4, <2>5, <2>6
  <1>c. CASE word[o] # 0
    <2>1. pc' = [pc EXCEPT ![t] = "act"] /\ tok' = [tok EXCEPT ![t] = word[o]]
      BY <1>c
    <2>2. TypeOK' /\ LockersLock'
      BY <1>a, <2>1 DEF TypeOK, LockersLock
    <2>3. TokensUnique'
      BY <1>a, <1>c, <2>1 DEF TypeOK, TokensUnique, Engaged
    <2>4. TokensMade'
      BY <1>a, <1>c, <2>1 DEF TypeOK, TokensMade, Engaged
    <2>5. TokenPrivate'
      BY <1>a, <2>1 DEF TypeOK, TokenPrivate, Engaged
    <2>6. InitAlone'
      BY <1>c, <2>1 DEF TypeOK, InitAlone, CallFits
    <2>7. InsideIsOwner' /\ DepthMatches'
      BY DEF InsideIsOwner, DepthMatches
    <2> QED
      BY <2>2, <2>3, <2>4, <2>5, <2>6, <2>7
  <1> QED
    BY <1>b, <1>c

(* The new token exceeds every token handed out before, so it is private.  *)
LEMMA CreateTokenInvariant ==
  ASSUME IInv, NEW t \in Threads, CreateToken(t)
  PROVE  IInv'
  <1> USE DEF IInv, CreateToken, callVars, hostVars
  <1>1. TypeOK'
    <2>1. made' \in 0 .. MaxTokens /\ made + 1 \in 0 .. MaxTokens
      BY DEF TypeOK
    <2>0. TypeOK /\ pc' = [pc EXCEPT ![t] = "store"]
          /\ tok' = [tok EXCEPT ![t] = made + 1]
      OBVIOUS
    <2>2. pc' \in [Threads -> Stages] /\ tok' \in [Threads -> 0 .. MaxTokens]
      BY ONLY <2>0, <2>1 DEF TypeOK, Stages
    <2>3. TypeOK /\ UNCHANGED <<word, ready, owner, depth, op, obj, inside>>
      OBVIOUS
    <2> QED
      BY ONLY <2>1, <2>2, <2>3 DEF TypeOK
  <1>2. TokensUnique'
    BY DEF TypeOK, TokensUnique, Engaged, TokensMade
  <1>3. TokensMade'
    BY DEF TypeOK, TokensMade, Engaged
  <1>4. TokenPrivate'
    BY DEF TypeOK, TokensMade, TokenPrivate, Engaged
  <1>5. InitAlone'
    BY DEF TypeOK, InitAlone, CallFits
  <1>6. InsideIsOwner'
    BY DEF TypeOK, TokensUnique, InitAlone, CallFits, InsideIsOwner, Engaged
  <1>7. DepthMatches'
    BY DEF TypeOK, DepthMatches
  <1>8. LockersLock'
    BY DEF TypeOK, LockersLock
  <1> QED
    BY <1>1, <1>2, <1>3, <1>4, <1>5, <1>6, <1>7, <1>8

LEMMA StoreTokenInvariant ==
  ASSUME IInv, NEW t \in Threads, StoreToken(t)
  PROVE  IInv'
  <1> USE DEF IInv, StoreToken, callVars, hostVars
  <1>1. TypeOK'
    BY DEF TypeOK
  <1>2. TokensUnique'
    BY DEF TypeOK, TokensUnique, Engaged, TokenPrivate
  <1>3. TokensMade'
    BY DEF TypeOK, TokensMade, Engaged
  <1>4. TokenPrivate'
    BY DEF TypeOK, TokensMade, TokenPrivate, Engaged
  <1>5. InitAlone'
    BY DEF TypeOK, TokensMade, InitAlone, CallFits, Engaged
  <1>6. InsideIsOwner'
    BY DEF TypeOK, TokensUnique, InitAlone, CallFits, InsideIsOwner, Engaged, TokenPrivate
  <1>7. DepthMatches'
    BY DEF TypeOK, DepthMatches
  <1>8. LockersLock'
    BY DEF TypeOK, LockersLock
  <1> QED
    BY <1>1, <1>2, <1>3, <1>4, <1>5, <1>6, <1>7, <1>8

LEMMA FinishInitInvariant ==
  ASSUME IInv, NEW t \in Threads, FinishInit(t)
  PROVE  IInv'
  <1> USE DEF IInv, FinishInit, callVars, hostVars
  <1>1. TypeOK'
    BY DEF TypeOK
  <1>2. TokensUnique'
    BY DEF TypeOK, TokensUnique, Engaged
  <1>3. TokensMade'
    BY DEF TypeOK, TokensMade, Engaged
  <1>4. TokenPrivate'
    BY DEF TypeOK, TokensMade, TokenPrivate, Engaged
  <1>5. InitAlone'
    BY DEF TypeOK, InitAlone, CallFits
  <1>6. InsideIsOwner'
    BY DEF TypeOK, TokensUnique, InitAlone, CallFits, InsideIsOwner, Engaged
  <1>7. DepthMatches'
    BY DEF TypeOK, DepthMatches
  <1>8. LockersLock'
    BY DEF TypeOK, LockersLock
  <1> QED
    BY <1>1, <1>2, <1>3, <1>4, <1>5, <1>6, <1>7, <1>8

LEMMA SpuriousWakeInvariant ==
  ASSUME IInv, NEW t \in Threads, SpuriousWake(t)
  PROVE  IInv'
  <1> USE DEF IInv, SpuriousWake, memoryVars, callVars, hostVars
  <1>1. TypeOK'
    BY DEF TypeOK
  <1>2. TokensUnique'
    BY DEF TypeOK, TokensUnique, Engaged
  <1>3. TokensMade'
    BY DEF TypeOK, TokensMade, Engaged
  <1>4. TokenPrivate'
    BY DEF TypeOK, TokensMade, TokenPrivate, Engaged
  <1>5. InitAlone'
    BY DEF TypeOK, InitAlone, CallFits
  <1>6. InsideIsOwner'
    BY DEF TypeOK, TokensUnique, InitAlone, CallFits, InsideIsOwner, Engaged
  <1>7. DepthMatches'
    BY DEF TypeOK, DepthMatches
  <1>8. LockersLock'
    BY DEF TypeOK, LockersLock
  <1> QED
    BY <1>1, <1>2, <1>3, <1>4, <1>5, <1>6, <1>7, <1>8

(* A free host object given to a thread that has it in hand.               *)
LEMMA TakeInvariant ==
  ASSUME IInv, NEW t \in Threads,
         pc[t] \in {"act", "lock", "woken"}, op[t] # "init", Take(t),
         pc' = [pc EXCEPT ![t] = "guest"], UNCHANGED <<memoryVars, callVars, tok>>
  PROVE  IInv'
  <1> USE DEF IInv, Take, memoryVars, callVars
  <1>1. TypeOK'
    BY DEF TypeOK
  <1>2. TokensUnique'
    BY DEF TypeOK, TokensUnique, Engaged
  <1>3. TokensMade'
    BY DEF TypeOK, TokensMade, Engaged
  <1>4. TokenPrivate'
    BY DEF TypeOK, TokensMade, TokenPrivate, Engaged
  <1>5. InitAlone'
    BY DEF TypeOK, InitAlone, CallFits
  <1>6. InsideIsOwner'
    <2>1. ASSUME NEW o \in Objects \ StaticInit, word[o] # 0
          PROVE  inside'[o] = IF owner'[word[o]] = NoThread
                                THEN {} ELSE {owner'[word[o]]}
      <3>1. /\ tok[t] \in Tokens /\ word[o] \in Tokens
            /\ obj[t] = o <=> tok[t] = word[o]
        BY <2>1 DEF TypeOK, TokensMade, TokensUnique, InitAlone, CallFits, Engaged
      <3>2. CASE obj[t] = o
        BY <2>1, <3>1, <3>2 DEF TypeOK, InsideIsOwner
      <3>3. CASE obj[t] # o
        BY <2>1, <3>1, <3>3 DEF TypeOK, InsideIsOwner
      <3> QED
        BY <3>2, <3>3
    <2>2. word' = word
      OBVIOUS
    <2> QED
      BY ONLY <2>1, <2>2 DEF InsideIsOwner
  <1>7. DepthMatches'
    BY DEF TypeOK, DepthMatches, TokensMade, Engaged
  <1>8. LockersLock'
    BY DEF TypeOK, LockersLock
  <1> QED
    BY <1>1, <1>2, <1>3, <1>4, <1>5, <1>6, <1>7, <1>8

(* A host object given once more to its owner.                             *)
LEMMA RetakeInvariant ==
  ASSUME IInv, NEW t \in Threads,
         pc[t] \in {"act", "lock"}, op[t] # "init", Retake(t),
         pc' = [pc EXCEPT ![t] = "guest"], UNCHANGED <<memoryVars, callVars, tok>>
  PROVE  IInv'
  <1> USE DEF IInv, Retake, memoryVars, callVars
  <1>1. TypeOK'
    <2>0. TypeOK /\ pc' = [pc EXCEPT ![t] = "guest"]
          /\ depth' = [depth EXCEPT ![tok[t]] = @ + 1]
      OBVIOUS
    <2>1. pc' \in [Threads -> Stages]
      BY ONLY <2>0 DEF TypeOK, Stages
    <2>2. depth' \in [Tokens -> Nat]
      <3>1. depth \in [Tokens -> Nat]
        BY DEF TypeOK
      <3>2. ASSUME NEW k \in Tokens PROVE depth[k] + 1 \in Nat
        BY ONLY <3>1
      <3>3. depth' = [depth EXCEPT ![tok[t]] = depth[tok[t]] + 1]
        OBVIOUS
      <3> QED
        BY ONLY <3>1, <3>2, <3>3
    <2>3. inside' \in [Objects -> SUBSET Threads]
      <3>1. inside \in [Objects -> SUBSET Threads]
        BY DEF TypeOK
      <3>2. inside' = [inside EXCEPT ![obj[t]] = @ \cup {t}]
        OBVIOUS
      <3>3. t \in Threads
        OBVIOUS
      <3> QED
        BY ONLY <3>1, <3>2, <3>3
    <2>4. TypeOK /\ UNCHANGED <<word, ready, made, owner, op, obj, tok>>
      OBVIOUS
    <2> QED
      BY ONLY <2>1, <2>2, <2>3, <2>4 DEF TypeOK
  <1>2. TokensUnique'
    BY DEF TypeOK, TokensUnique, Engaged
  <1>3. TokensMade'
    BY DEF TypeOK, TokensMade, Engaged
  <1>4. TokenPrivate'
    BY DEF TypeOK, TokensMade, TokenPrivate, Engaged
  <1>5. InitAlone'
    BY DEF TypeOK, InitAlone, CallFits
  <1>6. InsideIsOwner'
    <2> SUFFICES ASSUME NEW o \in Objects \ StaticInit, word[o] # 0
                 PROVE  inside'[o] = IF owner[word[o]] = NoThread
                                       THEN {} ELSE {owner[word[o]]}
      BY DEF InsideIsOwner
    <2>1. /\ tok[t] \in Tokens /\ word[o] \in Tokens
          /\ obj[t] = o <=> tok[t] = word[o]
      BY DEF TypeOK, TokensMade, TokensUnique, InitAlone, CallFits, Engaged
    <2>2. CASE obj[t] = o
      BY <2>1, <2>2 DEF TypeOK, InsideIsOwner
    <2>3. CASE obj[t] # o
      BY <2>1, <2>3 DEF TypeOK, InsideIsOwner
    <2> QED
      BY <2>2, <2>3
  <1>7. DepthMatches'
    BY DEF TypeOK, DepthMatches, TokensMade, Engaged
  <1>8. LockersLock'
    BY DEF TypeOK, LockersLock
  <1> QED
    BY <1>1, <1>2, <1>3, <1>4, <1>5, <1>6, <1>7, <1>8

(* A thread that only moves on: back to the guest, or to wait.             *)
LEMMA MoveInvariant ==
  ASSUME IInv, NEW t \in Threads, NEW s \in {"guest", "lock", "asleep"},
         s \in {"lock", "asleep"} => op[t] = "lock",
         pc[t] \in {"act", "lock", "woken"}, op[t] # "init",
         pc' = [pc EXCEPT ![t] = s],
         UNCHANGED <<memoryVars, callVars, tok, hostVars>>
  PROVE  IInv'
  <1> USE DEF IInv, memoryVars, callVars, hostVars
  <1>1. TypeOK'
    BY DEF TypeOK
  <1>2. TokensUnique'
    BY DEF TypeOK, TokensUnique, Engaged
  <1>3. TokensMade'
    BY DEF TypeOK, TokensMade, Engaged
  <1>4. TokenPrivate'
    BY DEF TypeOK, TokensMade, TokenPrivate, Engaged
  <1>5. InitAlone'
    BY DEF TypeOK, InitAlone, CallFits
  <1>6. InsideIsOwner'
    BY DEF TypeOK, TokensUnique, InitAlone, CallFits, InsideIsOwner, Engaged
  <1>7. DepthMatches'
    BY DEF TypeOK, DepthMatches
  <1>8. LockersLock'
    BY DEF TypeOK, LockersLock
  <1> QED
    BY <1>1, <1>2, <1>3, <1>4, <1>5, <1>6, <1>7, <1>8

(* The three places where a lock is tried: each grants it or moves on.     *)
LEMMA TryInvariant ==
  ASSUME IInv, NEW t \in Threads, TryLock(t) \/ EnterLock(t) \/ Recheck(t)
  PROVE  IInv'
  <1>1. pc[t] \in {"act", "lock", "woken"} /\ op[t] # "init"
    BY DEF IInv, LockersLock, TryLock, EnterLock, Recheck
  <1>2. pc[t] \in {"lock", "woken"} => op[t] = "lock"
    BY DEF IInv, LockersLock
  <1>3. UNCHANGED <<memoryVars, callVars, tok>>
    BY DEF TryLock, EnterLock, Recheck
  <1>4. \/ Take(t) /\ pc' = [pc EXCEPT ![t] = "guest"]
        \/ /\ pc[t] \in {"act", "lock"} /\ Retake(t)
           /\ pc' = [pc EXCEPT ![t] = "guest"]
        \/ /\ UNCHANGED hostVars
           /\ \E s \in {"guest", "lock", "asleep"} :
                 /\ s \in {"lock", "asleep"} => op[t] = "lock"
                 /\ pc' = [pc EXCEPT ![t] = s]
    BY <1>2 DEF TryLock, EnterLock, Recheck
  <1> QED
    BY <1>1, <1>3, <1>4, TakeInvariant, RetakeInvariant, MoveInvariant

(* notify_one moves at most one sleeper to "woken"; the caller returns.    *)
LEMMA NotifyMoves ==
  ASSUME TypeOK, NEW t \in Threads, NEW k \in Tokens, pc[t] = "act",
         NotifyOneAndReturn(t, k)
  PROVE  /\ pc' \in [Threads -> Stages]
         /\ pc'[t] = "guest"
         /\ \A u \in Threads \ {t} :
               pc'[u] = pc[u] \/ (pc[u] = "asleep" /\ pc'[u] = "woken")
  <1>1. CASE pc' = [pc EXCEPT ![t] = "guest"]
    BY <1>1 DEF TypeOK
  <1>2. ASSUME NEW u \in Sleepers(k),
               pc' = [pc EXCEPT ![t] = "guest", ![u] = "woken"]
        PROVE  /\ pc' \in [Threads -> Stages]
               /\ pc'[t] = "guest"
               /\ \A v \in Threads \ {t} :
                     pc'[v] = pc[v] \/ (pc[v] = "asleep" /\ pc'[v] = "woken")
    BY <1>2 DEF TypeOK, Sleepers
  <1> QED
    BY <1>1, <1>2 DEF NotifyOneAndReturn

LEMMA UnlockInvariant ==
  ASSUME IInv, NEW t \in Threads, Unlock(t)
  PROVE  IInv'
  <1> DEFINE k == tok[t]
  <1> USE DEF IInv, memoryVars, callVars
  <1>1. /\ k \in Tokens /\ obj[t] \in Objects /\ depth[k] \in Nat
        /\ pc[t] = "act" /\ op[t] = "unlock"
        /\ UNCHANGED <<memoryVars, callVars, tok>>
    BY DEF Unlock, TypeOK, TokensMade, Engaged
  <1>2. CASE owner[k] = NoThread
    <2>1. pc' = [pc EXCEPT ![t] = "guest"] /\ UNCHANGED hostVars
      BY <1>2 DEF Unlock
    <2> QED
      BY <1>1, <2>1, MoveInvariant
  <1>3. CASE owner[k] # NoThread /\ depth[k] > 1
    <2>1. /\ depth' = [depth EXCEPT ![k] = @ - 1]
          /\ pc' = [pc EXCEPT ![t] = "guest"]
          /\ UNCHANGED <<owner, inside>>
      BY <1>1, <1>3 DEF Unlock
    <2>2. TypeOK' /\ LockersLock'
      <3>1. pc' \in [Threads -> Stages] /\ depth' \in [Tokens -> Nat]
        BY <1>1, <1>3, <2>1 DEF TypeOK, Stages
      <3>2. TypeOK'
        BY <1>1, <2>1, <3>1 DEF TypeOK
      <3>3. LockersLock'
        BY <1>1, <2>1 DEF TypeOK, LockersLock
      <3> QED
        BY <3>2, <3>3
    <2>3. TokensUnique' /\ TokenPrivate'
      BY <1>1, <1>3, <2>1 DEF TypeOK, TokensUnique, TokenPrivate, Engaged
    <2>4. TokensMade' /\ DepthMatches'
      BY <1>1, <1>3, <2>1 DEF TypeOK, TokensMade, DepthMatches, Engaged
    <2>5. InitAlone' /\ InsideIsOwner'
      BY <1>1, <2>1 DEF TypeOK, InitAlone, CallFits, InsideIsOwner
    <2> QED
      BY <2>2, <2>3, <2>4, <2>5
  <1>4. CASE owner[k] # NoThread /\ depth[k] <= 1
    <2>1. /\ owner'  = [owner EXCEPT ![k] = NoThread]
          /\ depth'  = [depth EXCEPT ![k] = 0]
          /\ inside' = [inside EXCEPT ![obj[t]] = @ \ {owner[k]}]
          /\ NotifyOneAndReturn(t, k)
      BY <1>1, <1>4 DEF Unlock, TypeOK
    <2>2. /\ pc' \in [Threads -> Stages]
          /\ pc'[t] = "guest"
          /\ \A u \in Threads \ {t} :
                pc'[u] = pc[u] \/ (pc[u] = "asleep" /\ pc'[u] = "woken")
      BY <1>1, <2>1, NotifyMoves
    <2>3. TypeOK' /\ LockersLock'
      BY <1>1, <2>1, <2>2 DEF TypeOK, LockersLock
    <2>4. TokensUnique'
      BY <1>1, <2>2 DEF TypeOK, TokensUnique, Engaged
    <2>5. TokensMade'
      BY <1>1, <2>1, <2>2 DEF TypeOK, TokensMade, Engaged
    <2>6. TokenPrivate'
      <3>1. \A u \in Threads :
              /\ Engaged(u)' => Engaged(u)
              /\ pc'[u] = "store" => pc[u] = "store"
        BY <2>2 DEF Engaged
      <3>2. \A j \in Tokens :
              /\ owner[j] = NoThread => owner'[j] = NoThread
              /\ depth[j] = 0 => depth'[j] = 0
        BY <1>1, <2>1 DEF TypeOK
      <3>3. \A u \in Threads : pc[u] = "store" => tok[u] \in Tokens
        BY DEF TokensMade, Engaged, TypeOK
      <3> QED
        BY <1>1, <3>1, <3>2, <3>3 DEF TokenPrivate
    <2>7. InitAlone'
      <3>1. \A o \in Objects : inside[o] = {} => inside'[o] = {}
        BY <1>1, <2>1 DEF TypeOK
      <3>2. \A u \in Threads : pc'[u] # "guest" =>
              /\ pc[u] # "guest"
              /\ pc'[u] = pc[u] \/ (pc[u] = "asleep" /\ pc'[u] = "woken")
        BY <2>2
      <3>3. \A u \in Threads, o \in Objects :
              pc[u] = "guest" \/ obj[u] # o => pc'[u] = "guest" \/ obj[u] # o
        BY <3>2
      <3>4. UNCHANGED <<word, ready, op, obj, tok>>
        BY <1>1
      <3>5. ASSUME NEW o \in Objects \ StaticInit, NEW u \in Threads,
                   pc'[u] # "guest", obj[u] = o
            PROVE  CallFits(u, o)'
        BY <3>2, <3>3, <3>4, <3>5 DEF InitAlone, CallFits, LockersLock
      <3> QED
        BY <3>1, <3>4, <3>5 DEF InitAlone
    <2>8. DepthMatches'
      BY <1>1, <2>1 DEF TypeOK, DepthMatches
    <2>9. InsideIsOwner'
      <3> SUFFICES ASSUME NEW o \in Objects \ StaticInit, word[o] # 0
                   PROVE  inside'[o] = IF owner'[word[o]] = NoThread
                                         THEN {} ELSE {owner'[word[o]]}
        BY <1>1 DEF InsideIsOwner
      <3>1. word[o] \in Tokens /\ (obj[t] = o <=> k = word[o])
        BY <1>1 DEF TypeOK, TokensUnique, InitAlone, CallFits, Engaged
      <3>2. CASE obj[t] = o
        BY <1>1, <1>4, <2>1, <3>1, <3>2 DEF TypeOK, InsideIsOwner
      <3>3. CASE obj[t] # o
        BY <1>1, <2>1, <3>1, <3>3 DEF TypeOK, InsideIsOwner
      <3> QED
        BY <3>2, <3>3
    <2> QED
      BY <2>3, <2>4, <2>5, <2>6, <2>7, <2>8, <2>9
  <1> QED
    <2>1. \/ owner[k] = NoThread
          \/ owner[k] # NoThread /\ depth[k] > 1
          \/ owner[k] # NoThread /\ depth[k] <= 1
      BY <1>1
    <2> QED
      BY ONLY <2>1, <1>2, <1>3, <1>4

LEMMA NextInvariant == IInv /\ [Next]_vars => IInv'
  <1> SUFFICES ASSUME IInv, [Next]_vars PROVE IInv'
    OBVIOUS
  <1>1. ASSUME NEW t \in Threads, GuestStep(t) PROVE IInv'
    BY <1>1, CallInitInvariant, CallOpInvariant, DestroyInvariant DEF GuestStep
  <1>2. ASSUME NEW t \in Threads, ThunkStep(t) PROVE IInv'
    BY <1>2, LoadTokenInvariant, CreateTokenInvariant, StoreTokenInvariant,
       FinishInitInvariant, TryInvariant, UnlockInvariant DEF ThunkStep
  <1>3. ASSUME NEW t \in Threads, SpuriousWake(t) PROVE IInv'
    BY <1>3, SpuriousWakeInvariant
  <1>4. CASE UNCHANGED vars
    BY <1>4 DEF vars, IInv, TypeOK, TokensUnique, TokensMade, TokenPrivate,
                InitAlone, CallFits, InsideIsOwner, DepthMatches, LockersLock, Engaged
  <1> QED
    BY <1>1, <1>2, <1>3, <1>4 DEF Next

(* The invariant on which everything below rests.                          *)
THEOREM InductiveInvariant == Spec => []IInv
  BY InitInvariant, NextInvariant, PTL DEF Spec

(* Every variable keeps its type (the code's fields are always what the    *)
(* thunks of thunks_thread.cpp expect of them).                            *)
THEOREM TypeCorrect == Spec => []TypeOK
  BY InductiveInvariant, PTL DEF IInv

(* At most one thread is inside a mutex the guest initialised before       *)
(* sharing it, for any number of threads and of mutexes, whatever is done  *)
(* with the statically initialised ones beside it.                         *)
THEOREM MutualExclusionHolds == Spec => []MutualExclusion
  <1>1. IInv => MutualExclusion
    <2> SUFFICES ASSUME IInv, NEW o \in Objects \ StaticInit,
                        NEW t \in inside[o], NEW u \in inside[o]
                 PROVE  t = u
      BY DEF MutualExclusion, Exclusive
    <2>1. word[o] # 0
      BY DEF IInv, InitAlone, CallFits
    <2>2. inside[o] = IF owner[word[o]] = NoThread THEN {} ELSE {owner[word[o]]}
      BY <2>1 DEF IInv, InsideIsOwner
    <2> QED
      BY <2>2
  <1> QED
    BY <1>1, InductiveInvariant, PTL

(* No two guest mutexes, static or initialised, share a host object.       *)
THEOREM NoAliasingHolds == Spec => []NoAliasing
  <1>1. IInv => NoAliasing
    BY DEF IInv, TokensUnique, NoAliasing
  <1> QED
    BY <1>1, InductiveInvariant, PTL

-----------------------------------------------------------------------------
(* No sleeper is stranded.                                                 *)

LEMMA StrandedStep ==
  ASSUME IInv, NoStrandedSleeper, [Next]_vars
  PROVE  NoStrandedSleeper'
  <1> SUFFICES ASSUME NEW k \in Tokens, owner'[k] = NoThread,
                      NEW s \in Threads, pc'[s] = "asleep", tok'[s] = k
               PROVE  \E u \in Threads : pc'[u] = "woken" /\ tok'[u] = k
    BY DEF NoStrandedSleeper, Sleepers
  <1> USE DEF IInv, TypeOK, memoryVars, callVars, hostVars
  (* A step that leaves owners and sleepers alone and wakes nobody up.     *)
  <1>1. ASSUME NEW t \in Threads, NEW z,
               UNCHANGED owner, pc' = [pc EXCEPT ![t] = z],
               pc[t] # "woken", z # "asleep",
               \A u \in Threads : u # t => tok'[u] = tok[u]
        PROVE  \E u \in Threads : pc'[u] = "woken" /\ tok'[u] = k
    <2>1. s # t /\ pc[s] = "asleep" /\ tok[s] = k /\ owner[k] = NoThread
      BY <1>1
    <2>2. PICK u \in Threads : pc[u] = "woken" /\ tok[u] = k
      BY <2>1 DEF NoStrandedSleeper, Sleepers
    <2> QED
      BY <1>1, <2>2
  <1>2. ASSUME NEW t \in Threads, GuestStep(t)
        PROVE  \E u \in Threads : pc'[u] = "woken" /\ tok'[u] = k
    <2>1. /\ UNCHANGED <<owner, tok>>
          /\ \/ UNCHANGED pc
             \/ pc[t] = "guest" /\ pc' = [pc EXCEPT ![t] = "load"]
      BY <1>2 DEF GuestStep, CallInit, CallOp, Destroy
    <2>2. CASE UNCHANGED pc
      <3>1. pc[s] = "asleep" /\ tok[s] = k /\ owner[k] = NoThread
        BY <2>1, <2>2
      <3>2. PICK u \in Threads : pc[u] = "woken" /\ tok[u] = k
        BY <3>1 DEF NoStrandedSleeper, Sleepers
      <3> QED
        BY <2>1, <2>2, <3>2
    <2>3. CASE pc[t] = "guest" /\ pc' = [pc EXCEPT ![t] = "load"]
      BY <1>1, <2>1, <2>3
    <2> QED
      BY <2>1, <2>2, <2>3
  <1>3. ASSUME NEW t \in Threads,
               LoadToken(t) \/ CreateToken(t) \/ StoreToken(t) \/ FinishInit(t)
        PROVE  \E u \in Threads : pc'[u] = "woken" /\ tok'[u] = k
    <2>1. /\ UNCHANGED owner /\ pc[t] # "woken"
          /\ \E z \in Stages \ {"asleep"} : pc' = [pc EXCEPT ![t] = z]
          /\ \A u \in Threads : u # t => tok'[u] = tok[u]
      BY <1>3 DEF LoadToken, CreateToken, StoreToken, FinishInit
    <2> QED
      BY <1>1, <2>1
  (* Where a lock is tried: granted, it is no longer free; refused, it is  *)
  (* held by another thread.                                               *)
  <1>4. ASSUME NEW t \in Threads, TryLock(t) \/ EnterLock(t) \/ Recheck(t)
        PROVE  \E u \in Threads : pc'[u] = "woken" /\ tok'[u] = k
    <2>1. tok[t] \in Tokens /\ UNCHANGED tok
      BY <1>4 DEF TryLock, EnterLock, Recheck, TokensMade, Engaged
    <2>2. owner'[tok[t]] # NoThread
      BY <1>4, <2>1 DEF TryLock, EnterLock, Recheck, Take, Retake
    <2>3. \A j \in Tokens \ {tok[t]} : owner'[j] = owner[j]
      BY <1>4, <2>1 DEF TryLock, EnterLock, Recheck, Take, Retake
    <2>4. \A u \in Threads \ {t} : pc'[u] = pc[u]
      BY <1>4 DEF TryLock, EnterLock, Recheck
    <2>5. s # t /\ k # tok[t]
      BY <2>1, <2>2
    <2>6. PICK u \in Threads : pc[u] = "woken" /\ tok[u] = k
      BY <2>1, <2>3, <2>4, <2>5 DEF NoStrandedSleeper, Sleepers
    <2> QED
      BY <2>1, <2>4, <2>5, <2>6
  <1>5. ASSUME NEW t \in Threads, SpuriousWake(t)
        PROVE  \E u \in Threads : pc'[u] = "woken" /\ tok'[u] = k
    BY <1>1, <1>5 DEF SpuriousWake
  <1>6. ASSUME NEW t \in Threads, Unlock(t)
        PROVE  \E u \in Threads : pc'[u] = "woken" /\ tok'[u] = k
    <2>1. tok[t] \in Tokens /\ pc[t] = "act" /\ UNCHANGED tok
      BY <1>6 DEF Unlock, TokensMade, Engaged
    <2>2. CASE owner[tok[t]] = NoThread \/ depth[tok[t]] > 1
      <3>1. UNCHANGED owner /\ pc' = [pc EXCEPT ![t] = "guest"]
        BY <1>6, <2>1, <2>2 DEF Unlock
      <3> QED
        BY <1>1, <2>1, <3>1
    <2>3. CASE owner[tok[t]] # NoThread /\ ~(depth[tok[t]] > 1)
      <3>1. /\ owner' = [owner EXCEPT ![tok[t]] = NoThread]
            /\ NotifyOneAndReturn(t, tok[t])
        BY <1>6, <2>1, <2>3 DEF Unlock
      <3>2. CASE k = tok[t]
        <4>1. pc[s] = "asleep"
          BY <3>1 DEF NotifyOneAndReturn
        <4>2. Sleepers(k) # {}
          BY <2>1, <4>1 DEF Sleepers
        <4>3. PICK u \in Sleepers(k) :
                pc' = [pc EXCEPT ![t] = "guest", ![u] = "woken"]
          BY <3>1, <3>2, <4>2 DEF NotifyOneAndReturn
        <4> QED
          BY <2>1, <4>3 DEF Sleepers
      <3>3. CASE k # tok[t]
        <4>1. \A u \in Threads : tok[u] = k =>
                u = t \/ pc'[u] = pc[u]
          BY <3>1, <3>3 DEF NotifyOneAndReturn, Sleepers
        <4>2. pc'[t] = "guest"
          BY <2>1, <3>1, NotifyMoves
        <4>3. PICK u \in Threads : pc[u] = "woken" /\ tok[u] = k
          <5>1. owner[k] = NoThread
            BY <3>1, <3>3
          <5>2. PICK s2 \in Threads : pc'[s2] = "asleep" /\ tok[s2] = k
            BY <2>1 DEF Sleepers
          <5>3. pc[s2] = "asleep"
            BY <4>1, <4>2, <5>2
          <5> QED
            BY <5>1, <5>2, <5>3 DEF NoStrandedSleeper, Sleepers
        <4> QED
          BY <2>1, <4>1, <4>3
      <3> QED
        BY <3>2, <3>3
    <2> QED
      BY <2>2, <2>3
  <1>7. CASE UNCHANGED vars
    BY <1>7 DEF vars, NoStrandedSleeper, Sleepers
  <1> QED
    BY <1>2, <1>3, <1>4, <1>5, <1>6, <1>7 DEF Next, ThunkStep

(* When a mutex is free and threads sleep on it, one of them has already   *)
(* been woken: GuestMutex::unlock never loses the wakeup, whoever calls it *)
(* and however the other threads barge in.                                 *)
THEOREM NoStrandedSleeperHolds == Spec => []NoStrandedSleeper
  <1>1. Init => NoStrandedSleeper
    BY DEF Init, NoStrandedSleeper, Sleepers
  <1>2. IInv /\ NoStrandedSleeper /\ [Next]_vars => NoStrandedSleeper'
    BY StrandedStep
  <1> QED
    BY <1>1, <1>2, InductiveInvariant, PTL DEF Spec

-----------------------------------------------------------------------------
(* GuestMutex implements GuestLock.                                        *)

Initialised == Objects \ StaticInit

LEMMA LockInit == Init => Lock!Init
  BY DEF Init, Lock!Init, Holder, Count

(* Holder and Count of an object depend on its word and its host object.   *)
LEMMA LockUntouched ==
  ASSUME \A o \in Initialised : Holder(o)' = Holder(o) /\ Count(o)' = Count(o)
  PROVE  UNCHANGED Lock!vars
  BY DEF Lock!vars, Initialised

LEMMA LockStep ==
  ASSUME IInv, [Next]_vars
  PROVE  [Lock!Next]_(Lock!vars)
  <1> USE DEF Initialised
  <1> DEFINE Quiet == UNCHANGED Lock!vars
  <1>1. ASSUME UNCHANGED <<word, owner, depth>> PROVE Quiet
    BY <1>1, LockUntouched DEF Holder, Count
  <1>2. ASSUME NEW t \in Threads, NEW o \in Objects, CallInit(t, o)
        PROVE  Quiet
    <2>1. ASSUME o \in Initialised PROVE Holder(o) = NoThread /\ Count(o) = 0
      <3>1. inside[o] = {}
        BY <1>2, <2>1 DEF CallInit, IInv, InitAlone
      <3>2. CASE word[o] = 0
        BY <3>2 DEF Holder, Count
      <3>3. CASE word[o] # 0
        <4>0. inside[o] = IF owner[word[o]] = NoThread THEN {} ELSE {owner[word[o]]}
          BY <2>1, <3>3 DEF IInv, InsideIsOwner
        <4>1. word[o] \in Tokens
          BY <3>3 DEF IInv, TypeOK
        <4>2. owner[word[o]] = NoThread
          BY <3>1, <4>0
        <4> QED
          BY <3>3, <4>1, <4>2 DEF IInv, DepthMatches, Holder, Count
      <3> QED
        BY <3>2, <3>3
    <2>2. ASSUME o \in Initialised PROVE Holder(o)' = NoThread /\ Count(o)' = 0
      BY <1>2, <2>2 DEF CallInit, IInv, TypeOK, Holder, Count
    <2>3. \A p \in Initialised \ {o} : Holder(p)' = Holder(p) /\ Count(p)' = Count(p)
      BY <1>2 DEF CallInit, IInv, TypeOK, hostVars, Holder, Count
    <2> QED
      BY <2>1, <2>2, <2>3, LockUntouched
  <1>3. ASSUME NEW t \in Threads, StoreToken(t)
        PROVE  Quiet
    <2>0. PICK o \in Objects : o = obj[t]
      BY DEF IInv, TypeOK
    <2>1. /\ tok[t] \in Tokens /\ owner[tok[t]] = NoThread /\ depth[tok[t]] = 0
          /\ o \in Initialised => word[o] = 0
      BY <1>3, <2>0 DEF StoreToken, IInv, TypeOK, TokensMade, TokenPrivate, Engaged,
                  InitAlone, CallFits
    <2>2. /\ word' = [word EXCEPT ![o] = tok[t]] /\ UNCHANGED hostVars
      BY <1>3, <2>0 DEF StoreToken
    <2>3. \A p \in Initialised : Holder(p)' = Holder(p) /\ Count(p)' = Count(p)
      BY <2>1, <2>2 DEF IInv, TypeOK, hostVars, Holder, Count
    <2> QED
      BY <2>3, LockUntouched
  (* A grant is one Acquire, or nothing when the object is a static one.   *)
  <1>4. ASSUME NEW t \in Threads, TryLock(t) \/ EnterLock(t) \/ Recheck(t)
        PROVE  [Lock!Next]_(Lock!vars)
    <2> DEFINE k == tok[t]
    <2>0. PICK o \in Objects : o = obj[t]
      BY DEF IInv, TypeOK
    <2>1. /\ k \in Tokens /\ UNCHANGED word
          /\ o \in Initialised => word[o] = k
          /\ \A p \in Initialised \ {o} : word[p] # k
      BY <1>4, <2>0 DEF TryLock, EnterLock, Recheck, IInv, TypeOK, TokensMade, Engaged,
                  TokensUnique, InitAlone, CallFits, LockersLock, memoryVars
    <2>2. CASE UNCHANGED hostVars
      BY <1>1, <2>1, <2>2 DEF hostVars
    <2>3. CASE Take(t) \/ Retake(t)
      <3>1. /\ owner[k] \in {NoThread, t}
            /\ owner' = [owner EXCEPT ![k] = t]
            /\ depth' = [depth EXCEPT ![k] = @ + 1]
        BY <2>1, <2>3 DEF Take, Retake, IInv, TypeOK, DepthMatches
      <3>2. \A p \in Initialised \ {o} : Holder(p)' = Holder(p) /\ Count(p)' = Count(p)
        BY <2>1, <3>1 DEF IInv, TypeOK, Holder, Count
      <3>3. CASE o \in Initialised
        <4>1. /\ Holder(o) \in {NoThread, t} /\ Holder(o)' = t
              /\ Count(o)' = Count(o) + 1
          BY <2>1, <3>1, <3>3 DEF IInv, TypeOK, Holder, Count
        <4>2. Lock!Acquire(t, o)
          BY <3>2, <3>3, <4>1 DEF Lock!Acquire
        <4> QED
          BY <3>3, <4>2 DEF Lock!Next
      <3>4. CASE o \notin Initialised
        BY <3>2, <3>4, LockUntouched
      <3> QED
        BY <3>3, <3>4
    <2> QED
      BY <1>4, <2>2, <2>3 DEF TryLock, EnterLock, Recheck
  (* So is a release.                                                      *)
  <1>5. ASSUME NEW t \in Threads, Unlock(t)
        PROVE  [Lock!Next]_(Lock!vars)
    <2> DEFINE k == tok[t]
    <2>0. PICK o \in Objects : o = obj[t]
      BY DEF IInv, TypeOK
    <2>1. /\ k \in Tokens /\ UNCHANGED word /\ depth[k] \in Nat
          /\ o \in Initialised => word[o] = k
          /\ \A p \in Initialised \ {o} : word[p] # k
      BY <1>5, <2>0 DEF Unlock, IInv, TypeOK, TokensMade, Engaged, TokensUnique,
                  InitAlone, CallFits, memoryVars
    <2>2. CASE owner[k] = NoThread
      BY <1>1, <1>5, <2>1, <2>2 DEF Unlock, hostVars
    <2>3. CASE owner[k] # NoThread
      <3>1. /\ owner' = [owner EXCEPT ![k] = IF depth[k] > 1 THEN @ ELSE NoThread]
            /\ depth' = [depth EXCEPT ![k] = @ - 1]
        <4>1. CASE depth[k] > 1
          BY <1>5, <2>1, <2>3, <4>1 DEF Unlock, IInv, TypeOK
        <4>2. CASE ~(depth[k] > 1)
          <5>1. depth[k] = 1
            BY <2>1, <2>3, <4>2 DEF IInv, DepthMatches
          <5> QED
            BY <1>5, <2>1, <2>3, <5>1 DEF Unlock, IInv, TypeOK
        <4> QED
          BY <4>1, <4>2
      <3>2. \A p \in Initialised \ {o} : Holder(p)' = Holder(p) /\ Count(p)' = Count(p)
        BY <2>1, <3>1 DEF IInv, TypeOK, Holder, Count
      <3>3. CASE o \in Initialised
        <4>1. /\ Holder(o) # NoThread
              /\ Holder(o)' = IF Count(o) > 1 THEN Holder(o) ELSE NoThread
              /\ Count(o)' = Count(o) - 1
          BY <2>1, <2>3, <3>1, <3>3 DEF IInv, TypeOK, Holder, Count
        <4>2. Lock!Release(o)
          BY <3>2, <3>3, <4>1 DEF Lock!Release
        <4> QED
          BY <3>3, <4>2 DEF Lock!Next
      <3>4. CASE o \notin Initialised
        BY <3>2, <3>4, LockUntouched
      <3> QED
        BY <3>3, <3>4
    <2> QED
      BY <2>2, <2>3
  <1>6. ASSUME NEW t \in Threads, GuestStep(t) PROVE Quiet
    BY <1>1, <1>2, <1>6 DEF GuestStep, CallOp, Destroy, memoryVars, hostVars
  <1>7. ASSUME NEW t \in Threads,
               LoadToken(t) \/ CreateToken(t) \/ FinishInit(t) \/ SpuriousWake(t)
        PROVE  Quiet
    BY <1>1, <1>7 DEF LoadToken, CreateToken, FinishInit, SpuriousWake,
                      memoryVars, hostVars
  <1>8. CASE UNCHANGED vars
    BY <1>1, <1>8 DEF vars
  <1> QED
    BY <1>3, <1>4, <1>5, <1>6, <1>7, <1>8 DEF Next, ThunkStep

(* Each mutex the guest initialises behaves as one atomic recursive lock   *)
(* that anyone may release: tokens, creation on first use, the try before  *)
(* the wait, sleeps and spurious wakeups are invisible.                    *)
THEOREM ImplementsLockHolds == Spec => ImplementsLock
  BY LockInit, LockStep, InductiveInvariant, PTL DEF Spec, ImplementsLock, Lock!Spec

=============================================================================
