----------------------------- MODULE CondProofs -----------------------------
(***************************************************************************)
(* The lock and the condition variable over it, for any finite set of      *)
(* goroutines: RWMutex excludes and implements the abstract lock; Cond     *)
(* loses no wake-up, its queue is exact and served in order, and its       *)
(* Locker keeps what is proved of RWMutex, since every step of Cond is one *)
(* of the lock or leaves it alone.                                         *)
(*                                                                         *)
(* RWInv is inductive for the lock.  The counter is what makes the two     *)
(* conditions of the code right: it is 0 for the first reader in and 1 for *)
(* the last one out exactly because it is the cardinality of Readers,      *)
(* which only one goroutine at a time may change (Inside has at most one   *)
(* member).                                                                *)
(*                                                                         *)
(* CondInv is inductive for Cond.  WaitHoldsLock says what a goroutine     *)
(* inside Wait holds of L.  From it and from mutual exclusion follows that *)
(* nobody changes the condition between the test of the caller and the     *)
(* Unlock inside Wait; from mu being out, that no Broadcast comes between  *)
(* this Unlock and the entry into the queue.                               *)
(***************************************************************************)
EXTENDS Cond, FiniteSetTheorems, TLAPS

RWInv == RWTypeOK /\ TokensMatchHolders

LEMMA ReadersFinite ==
  /\ IsFiniteSet(Readers)
  /\ Cardinality(Readers) \in Nat
  /\ Cardinality(Readers) = 0 <=> Readers = {}
BY ProcsAssumption, FS_Subset, FS_CardinalityType, FS_EmptySet DEF Readers

\* How the sets follow pc: a goroutine that goes from a to b takes part in each
\* of them as b says.
LEMMA SetsFollow ==
  ASSUME RWTypeOK, NEW p \in Procs,
         NEW b \in {"idle", "renter", "reading", "rexit", "lock", "writing"},
         Goto(p, b)
  PROVE  /\ pc' \in [Procs -> {"idle", "renter", "reading", "rexit", "lock", "writing"}]
         /\ pc'[p] = b
         /\ \A q \in Procs \ {p} : pc'[q] = pc[q]
         /\ Readers' = IF b \in {"reading", "rexit"} THEN Readers \union {p} ELSE Readers \ {p}
         /\ Writers' = IF b = "writing" THEN Writers \union {p} ELSE Writers \ {p}
         /\ Inside' = IF b \in {"renter", "rexit"} THEN Inside \union {p} ELSE Inside \ {p}
<1>1. /\ pc' \in [Procs -> {"idle", "renter", "reading", "rexit", "lock", "writing"}]
      /\ pc'[p] = b
      /\ \A q \in Procs \ {p} : pc'[q] = pc[q]
  BY DEF RWTypeOK, Goto
<1>2. Readers' = IF b \in {"reading", "rexit"} THEN Readers \union {p} ELSE Readers \ {p}
  BY <1>1 DEF Readers
<1>3. Writers' = IF b = "writing" THEN Writers \union {p} ELSE Writers \ {p}
  BY <1>1 DEF Writers
<1>4. Inside' = IF b \in {"renter", "rexit"} THEN Inside \union {p} ELSE Inside \ {p}
  BY <1>1 DEF Inside
<1>. QED BY <1>1, <1>2, <1>3, <1>4

LEMMA RWInit_Inv == RWInit => RWInv
<1>. SUFFICES ASSUME RWInit PROVE RWInv
  OBVIOUS
<1>1. RWTypeOK
  BY DEF RWInit, RWTypeOK
<1>2. Readers = {} /\ Writers = {} /\ Inside = {}
  BY DEF RWInit, Readers, Writers, Inside
<1>3. TokensMatchHolders
  BY <1>2, FS_EmptySet DEF RWInit, TokensMatchHolders
<1>. QED BY <1>1, <1>3 DEF RWInv

LEMMA RWStep_Inv == RWInv /\ [RWNext]_rwvars => RWInv'
<1>. SUFFICES ASSUME RWInv, [RWNext]_rwvars PROVE RWInv'
  OBVIOUS
<1>. USE DEF RWInv
<1>0. RWTypeOK /\ TokensMatchHolders
  OBVIOUS
<1>1. ASSUME NEW p \in Procs, RLock(p) PROVE RWInv'
  <2>1. p \notin Readers /\ p \notin Writers /\ Inside = {}
    BY <1>0, <1>1 DEF RLock, Readers, Writers, TokensMatchHolders
  <2>2. Readers' = Readers /\ Writers' = Writers /\ Inside' = {p}
    BY <1>0, <1>1, <2>1, SetsFollow DEF RLock
  <2>3. RWTypeOK'
    BY <1>0, <1>1, SetsFollow DEF RLock, RWTypeOK
  <2>4. TokensMatchHolders'
    BY <1>0, <1>1, <2>2 DEF RLock, TokensMatchHolders
  <2>. QED BY <2>3, <2>4
<1>2. ASSUME NEW p \in Procs, REnter(p) PROVE RWInv'
  <2>1. p \notin Readers /\ p \notin Writers /\ Inside = {p}
    BY <1>0, <1>2 DEF REnter, Readers, Writers, Inside, TokensMatchHolders
  <2>2. Readers' = Readers \union {p} /\ Writers' = Writers /\ Inside' = {}
    BY <1>0, <1>2, <2>1, SetsFollow DEF REnter
  <2>3. RWTypeOK'
    <3>1. pc' \in [Procs -> {"idle", "renter", "reading", "rexit", "lock", "writing"}]
      BY <1>0, <1>2, SetsFollow DEF REnter
    <3>2. w' \in BOOLEAN
      BY <1>0, <1>2 DEF REnter, RWTypeOK
    <3>. QED BY <1>0, <1>2, <3>1, <3>2 DEF REnter, RWTypeOK
  <2>4. rCnt' = Cardinality(Readers')
    BY <1>0, <1>2, <2>1, <2>2, ReadersFinite, FS_AddElement DEF REnter, TokensMatchHolders
  <2>5. Writers = {} /\ ~w'
    BY <1>0, <1>2, ReadersFinite DEF REnter, TokensMatchHolders
  <2>6. TokensMatchHolders'
    BY <1>2, <2>2, <2>4, <2>5 DEF REnter, TokensMatchHolders
  <2>. QED BY <2>3, <2>6
<1>3. ASSUME NEW p \in Procs, RUnlock(p) PROVE RWInv'
  <2>1. p \in Readers /\ p \notin Writers /\ Inside = {}
    BY <1>0, <1>3 DEF RUnlock, Readers, Writers, TokensMatchHolders
  <2>2. Readers' = Readers /\ Writers' = Writers /\ Inside' = {p}
    BY <1>0, <1>3, <2>1, SetsFollow DEF RUnlock
  <2>3. RWTypeOK'
    BY <1>0, <1>3, SetsFollow DEF RUnlock, RWTypeOK
  <2>4. TokensMatchHolders'
    BY <1>0, <1>3, <2>2 DEF RUnlock, TokensMatchHolders
  <2>. QED BY <2>3, <2>4
<1>4. ASSUME NEW p \in Procs, RExit(p) PROVE RWInv'
  <2>1. p \in Readers /\ p \notin Writers /\ Inside = {p}
    BY <1>0, <1>4 DEF RExit, Readers, Writers, Inside, TokensMatchHolders
  <2>2. Readers' = Readers \ {p} /\ Writers' = Writers /\ Inside' = {}
    BY <1>0, <1>4, <2>1, SetsFollow DEF RExit
  <2>3. rCnt \in Nat \ {0} /\ Writers = {} /\ rCnt = Cardinality(Readers)
    BY <1>0, <2>1, ReadersFinite DEF TokensMatchHolders
  <2>4. rCnt' = Cardinality(Readers') /\ IsFiniteSet(Readers')
    BY <1>4, <2>1, <2>2, <2>3, ReadersFinite, FS_RemoveElement DEF RExit
  <2>5. rCnt = 1 <=> Readers' = {}
    BY <1>4, <2>3, <2>4, FS_EmptySet DEF RExit
  <2>6. RWTypeOK'
    <3>1. pc' \in [Procs -> {"idle", "renter", "reading", "rexit", "lock", "writing"}]
      BY <1>0, <1>4, SetsFollow DEF RExit
    <3>2. w' \in BOOLEAN
      BY <1>0, <1>4 DEF RExit, RWTypeOK
    <3>. QED BY <1>0, <1>4, <2>3, <3>1, <3>2 DEF RExit, RWTypeOK
  <2>7. ~w
    BY <1>0, <2>1 DEF TokensMatchHolders
  <2>8. TokensMatchHolders'
    BY <1>4, <2>2, <2>3, <2>4, <2>5, <2>7 DEF RExit, TokensMatchHolders
  <2>. QED BY <2>6, <2>8
<1>5. ASSUME NEW p \in Procs, Lock(p) PROVE RWInv'
  <2>1. p \notin Readers /\ p \notin Writers /\ p \notin Inside
    BY <1>5 DEF Lock, Readers, Writers, Inside
  <2>2. Readers' = Readers /\ Writers' = Writers /\ Inside' = Inside
    BY <1>0, <1>5, <2>1, SetsFollow DEF Lock
  <2>3. RWTypeOK'
    BY <1>0, <1>5, SetsFollow DEF Lock, RWTypeOK
  <2>4. TokensMatchHolders'
    BY <1>0, <1>5, <2>2 DEF Lock, TokensMatchHolders
  <2>. QED BY <2>3, <2>4
<1>6. ASSUME NEW p \in Procs, Locked(p) PROVE RWInv'
  <2>1. p \notin Readers /\ p \notin Inside /\ Readers = {} /\ Writers = {}
    BY <1>0, <1>6 DEF Locked, Readers, Inside, TokensMatchHolders
  <2>2. Readers' = Readers /\ Writers' = {p} /\ Inside' = Inside
    BY <1>0, <1>6, <2>1, SetsFollow DEF Locked
  <2>3. RWTypeOK'
    BY <1>0, <1>6, SetsFollow DEF Locked, RWTypeOK
  <2>4. TokensMatchHolders'
    BY <1>0, <1>6, <2>1, <2>2 DEF Locked, TokensMatchHolders
  <2>. QED BY <2>3, <2>4
<1>7. ASSUME NEW p \in Procs, Unlock(p) PROVE RWInv'
  <2>1. p \notin Readers /\ p \notin Inside /\ Readers = {} /\ Writers = {p}
    BY <1>0, <1>7 DEF Unlock, Readers, Writers, Inside, TokensMatchHolders
  <2>2. Readers' = Readers /\ Writers' = {} /\ Inside' = Inside
    BY <1>0, <1>7, <2>1, SetsFollow DEF Unlock
  <2>3. RWTypeOK'
    BY <1>0, <1>7, SetsFollow DEF Unlock, RWTypeOK
  <2>4. TokensMatchHolders'
    BY <1>0, <1>7, <2>1, <2>2 DEF Unlock, TokensMatchHolders
  <2>. QED BY <2>3, <2>4
<1>8. CASE UNCHANGED rwvars
  BY <1>8 DEF rwvars, RWTypeOK, TokensMatchHolders, Readers, Writers, Inside
<1>. QED BY <1>1, <1>2, <1>3, <1>4, <1>5, <1>6, <1>7, <1>8 DEF RWNext

LEMMA RWInvariance == RWSpec => []RWInv
BY RWInit_Inv, RWStep_Inv, PTL DEF RWSpec

\* rwmutex.go: w, r and r_cnt tell who is inside, for any number of goroutines:
\* a writer is alone, and the counter is the number of readers.
THEOREM LockExcludes == RWSpec => []TokensMatchHolders
<1>1. RWInv => TokensMatchHolders
  BY DEF RWInv
<1>. QED BY <1>1, RWInvariance, PTL
-----------------------------------------------------------------------------
\* A step of the code is a step of the abstract lock or changes nothing there.
LEMMA RWStep_Shared ==
  ASSUME RWInv, [RWNext]_rwvars
  PROVE  [Shared!Next]_(Shared!vars)
<1>. USE DEF Shared!vars, Shared!Next
<1>0. RWTypeOK /\ TokensMatchHolders
  BY DEF RWInv
<1>1. ASSUME NEW p \in Procs, RLock(p) \/ RUnlock(p) \/ Lock(p)
      PROVE  UNCHANGED <<Readers, Writers>>
  BY <1>0, <1>1, SetsFollow DEF RLock, RUnlock, Lock, Readers, Writers
<1>2. ASSUME NEW p \in Procs, REnter(p) PROVE Shared!EnterShared(p)
  <2>1. p \notin Writers /\ Writers = {}
    BY <1>0, <1>2, ReadersFinite DEF REnter, Writers, TokensMatchHolders
  <2>. QED BY <1>0, <1>2, <2>1, SetsFollow DEF REnter, Shared!EnterShared
<1>3. ASSUME NEW p \in Procs, RExit(p) PROVE Shared!ExitShared(p)
  <2>1. p \in Readers /\ p \notin Writers
    BY <1>3 DEF RExit, Readers, Writers
  <2>. QED BY <1>0, <1>3, <2>1, SetsFollow DEF RExit, Shared!ExitShared
<1>4. ASSUME NEW p \in Procs, Locked(p) PROVE Shared!EnterExclusive(p)
  BY <1>0, <1>4, SetsFollow DEF Locked, TokensMatchHolders, Shared!EnterExclusive
<1>5. ASSUME NEW p \in Procs, Unlock(p) PROVE Shared!ExitExclusive(p)
  <2>1. p \in Writers /\ p \notin Readers
    BY <1>5 DEF Unlock, Readers, Writers
  <2>. QED BY <1>0, <1>5, <2>1, SetsFollow DEF Unlock, Shared!ExitExclusive
<1>6. CASE UNCHANGED rwvars
  BY <1>6 DEF rwvars, Readers, Writers
<1>. QED BY <1>1, <1>2, <1>3, <1>4, <1>5, <1>6 DEF RWNext

\* rwmutex/README.md, properties 1 to 3: the lock of two channels and a counter
\* is the lock whose callers come in and go out in one step.
THEOREM LockIsShared == RWSpec => ImplementsSharedLock
<1>1. RWInit => Shared!Init
  BY DEF RWInit, Shared!Init, Readers, Writers
<1>2. RWInv /\ [RWNext]_rwvars => [Shared!Next]_(Shared!vars)
  BY RWStep_Shared
<1>. QED BY <1>1, <1>2, RWInvariance, PTL DEF RWSpec, ImplementsSharedLock, Shared!Spec
-----------------------------------------------------------------------------
WaitHoldsLock ==
  \A p \in Procs :
    /\ stage[p] = "unlock" => pc[p] = "writing" /\ ~ready
    /\ stage[p] \in {"enqueue", "sleep"} => pc[p] = "idle"
    /\ stage[p] = "relock" => pc[p] = "lock"

CondInv ==
  /\ CondTypeOK
  /\ TokensMatchHolders
  /\ QueueMatchesSleepers
  /\ WaitHoldsLock
  /\ NoLostWakeup

\* Cond uses the lock through its operations only.
LEMMA CondStep_RW == [Next]_vars => [RWNext]_rwvars
<1>. SUFFICES ASSUME [Next]_vars PROVE [RWNext]_rwvars
  OBVIOUS
<1>1. ASSUME NEW p \in Procs, Wait(p) \/ WaitSleep(p) \/ Signal(p) \/ Broadcast(p) \/ SetReady(p)
      PROVE  UNCHANGED rwvars
  BY <1>1 DEF Wait, WaitSleep, Signal, Broadcast, SetReady
<1>2. ASSUME NEW p \in Procs, WaitUnlock(p) \/ WaitWake(p) \/ WaitReturn(p) \/ UseLock(p)
      PROVE  RWNext
  BY <1>2 DEF WaitUnlock, WaitWake, WaitReturn, UseLock, RWNext
<1>3. CASE UNCHANGED vars
  BY <1>3 DEF vars
<1>. QED BY <1>1, <1>2, <1>3 DEF Next

LEMMA CondImpliesLock == Spec => RWSpec
<1>1. Init => RWInit
  BY DEF Init
<1>. QED BY <1>1, CondStep_RW, PTL DEF Spec, RWSpec

LEMMA CondInit_Inv == Init => CondInv
<1>. SUFFICES ASSUME Init PROVE CondInv
  OBVIOUS
<1>1. RWTypeOK /\ TokensMatchHolders
  BY RWInit_Inv DEF Init, RWInv
<1>2. CondTypeOK
  <2>1. <<>> \in Seq(Procs)
    OBVIOUS
  <2>2. stage \in [Procs -> {"none", "unlock", "enqueue", "sleep", "relock"}]
    BY DEF Init
  <2>. QED BY <1>1, <2>1, <2>2 DEF Init, CondTypeOK
<1>3. QueueMatchesSleepers
  BY DEF Init, QueueMatchesSleepers, Queued
<1>4. WaitHoldsLock /\ NoLostWakeup
  BY DEF Init, WaitHoldsLock, NoLostWakeup
<1>. QED BY <1>1, <1>2, <1>3, <1>4 DEF CondInv

\* How Append, Tail and the empty sequence change the queue.
LEMMA QueueOps ==
  ASSUME chs \in Seq(Procs), \A i, j \in DOMAIN chs : chs[i] = chs[j] => i = j
  PROVE  /\ Queued \subseteq Procs
         /\ \A p \in Procs \ Queued :
              chs' = Append(chs, p) =>
                /\ chs' \in Seq(Procs)
                /\ Queued' = Queued \union {p}
                /\ \A i, j \in DOMAIN chs' : chs'[i] = chs'[j] => i = j
         /\ chs # <<>> /\ chs' = Tail(chs) =>
                /\ chs' \in Seq(Procs)
                /\ Head(chs) \in Queued
                /\ Queued' = Queued \ {Head(chs)}
                /\ \A i, j \in DOMAIN chs' : chs'[i] = chs'[j] => i = j
         /\ chs' = <<>> => chs' \in Seq(Procs) /\ Queued' = {}
<1>1. Queued \subseteq Procs
  BY DEF Queued
<1>2. ASSUME NEW p \in Procs \ Queued, chs' = Append(chs, p)
      PROVE  /\ chs' \in Seq(Procs)
             /\ Queued' = Queued \union {p}
             /\ \A i, j \in DOMAIN chs' : chs'[i] = chs'[j] => i = j
  <2>1. /\ chs' \in Seq(Procs) /\ DOMAIN chs' = 1 .. Len(chs) + 1 /\ DOMAIN chs = 1 .. Len(chs)
        /\ Len(chs) \in Nat
        /\ \A i \in 1 .. Len(chs) : chs'[i] = chs[i]
        /\ chs'[Len(chs) + 1] = p
    BY <1>2
  <2>2. Queued' = Queued \union {p}
    BY <2>1 DEF Queued
  <2>3. \A i \in DOMAIN chs : chs[i] # p
    BY <1>2 DEF Queued
  <2>. QED BY <2>1, <2>2, <2>3
<1>3. ASSUME chs # <<>>, chs' = Tail(chs)
      PROVE  /\ chs' \in Seq(Procs)
             /\ Head(chs) \in Queued
             /\ Queued' = Queued \ {Head(chs)}
             /\ \A i, j \in DOMAIN chs' : chs'[i] = chs'[j] => i = j
  <2>1. /\ chs' \in Seq(Procs) /\ DOMAIN chs' = 1 .. Len(chs) - 1 /\ DOMAIN chs = 1 .. Len(chs)
        /\ Len(chs) \in Nat \ {0}
        /\ \A i \in 1 .. Len(chs) - 1 : chs'[i] = chs[i + 1]
        /\ Head(chs) = chs[1]
    BY <1>3
  <2>2. \A i \in 2 .. Len(chs) : i - 1 \in DOMAIN chs' /\ chs[i] = chs'[i - 1] /\ chs[i] # chs[1]
    BY <2>1
  <2>3. Queued' = Queued \ {Head(chs)}
    BY <2>1, <2>2 DEF Queued
  <2>4. ASSUME NEW i \in DOMAIN chs', NEW j \in DOMAIN chs', chs'[i] = chs'[j]
        PROVE  i = j
    <3>1. i \in Int /\ j \in Int /\ i + 1 \in DOMAIN chs /\ j + 1 \in DOMAIN chs
      BY <2>1
    <3>2. chs[i + 1] = chs[j + 1]
      BY <2>1, <2>4
    <3>3. i + 1 = j + 1
      BY <3>1, <3>2
    <3>. QED BY <3>1, <3>3
  <2>5. Head(chs) \in Queued
    BY <2>1 DEF Queued
  <2>. QED BY <2>1, <2>3, <2>4, <2>5
<1>4. chs' = <<>> => chs' \in Seq(Procs) /\ Queued' = {}
  BY DEF Queued
<1>. QED BY <1>1, <1>2, <1>3, <1>4
-----------------------------------------------------------------------------
LEMMA StageFollows ==
  ASSUME CondTypeOK, NEW p \in Procs,
         NEW s \in {"none", "unlock", "enqueue", "sleep", "relock"}, SetStage(p, s)
  PROVE  /\ stage' \in [Procs -> {"none", "unlock", "enqueue", "sleep", "relock"}]
         /\ stage'[p] = s
         /\ \A q \in Procs \ {p} : stage'[q] = stage[q]
BY DEF CondTypeOK, SetStage

\* A goroutine that holds L for writing is the only one that does.
LEMMA OneWriter ==
  ASSUME TokensMatchHolders, NEW p \in Procs, NEW q \in Procs,
         pc[p] = "writing", pc[q] = "writing"
  PROVE  p = q
BY DEF TokensMatchHolders, Writers

LEMMA CondStep_Inv == CondInv /\ [Next]_vars => CondInv'
<1>. SUFFICES ASSUME CondInv, [Next]_vars PROVE CondInv'
  OBVIOUS
<1>0. CondTypeOK /\ TokensMatchHolders /\ QueueMatchesSleepers /\ WaitHoldsLock /\ NoLostWakeup
  BY DEF CondInv
<1>00. RWTypeOK' /\ TokensMatchHolders'
  BY <1>0, CondStep_RW, RWStep_Inv DEF RWInv, CondTypeOK
<1>1. ASSUME NEW p \in Procs, Wait(p) PROVE CondInv'
  <2>1. /\ stage[p] = "none" /\ pc[p] = "writing" /\ ~ready /\ mu /\ ~mu'
        /\ SetStage(p, "unlock") /\ UNCHANGED <<rwvars, chs, woken, ready, owes>>
    BY <1>0, <1>1 DEF Wait, CondTypeOK
  <2>2. /\ stage' \in [Procs -> {"none", "unlock", "enqueue", "sleep", "relock"}]
        /\ stage'[p] = "unlock"
        /\ \A q \in Procs \ {p} : stage'[q] = stage[q]
    BY <1>0, <2>1, StageFollows
  <2>3. CondTypeOK'
    BY <1>0, <1>00, <1>1, <2>1, <2>2 DEF CondTypeOK, Wait
  <2>4. QueueMatchesSleepers'
    BY <1>0, <2>1, <2>2 DEF QueueMatchesSleepers, Queued
  <2>5. WaitHoldsLock'
    BY <1>0, <2>1, <2>2 DEF WaitHoldsLock, rwvars
  <2>6. NoLostWakeup'
    BY <2>1 DEF NoLostWakeup
  <2>. QED BY <1>00, <2>3, <2>4, <2>5, <2>6 DEF CondInv
<1>2. ASSUME NEW p \in Procs, WaitUnlock(p) PROVE CondInv'
  <2>1. /\ stage[p] = "unlock" /\ pc[p] = "writing" /\ ~ready
        /\ SetStage(p, "enqueue") /\ Goto(p, "idle")
        /\ UNCHANGED <<mu, chs, woken, ready, owes>>
    BY <1>0, <1>2 DEF WaitUnlock, Unlock, WaitHoldsLock
  <2>2. /\ stage' \in [Procs -> {"none", "unlock", "enqueue", "sleep", "relock"}]
        /\ stage'[p] = "enqueue"
        /\ \A q \in Procs \ {p} : stage'[q] = stage[q]
    BY <1>0, <2>1, StageFollows
  <2>3. pc'[p] = "idle" /\ \A q \in Procs \ {p} : pc'[q] = pc[q]
    BY <1>0, <2>1, SetsFollow DEF CondTypeOK
  <2>4. CondTypeOK'
    BY <1>0, <1>00, <2>1, <2>2 DEF CondTypeOK
  <2>5. QueueMatchesSleepers'
    BY <1>0, <2>1, <2>2 DEF QueueMatchesSleepers, Queued
  <2>6. WaitHoldsLock'
    BY <1>0, <2>1, <2>2, <2>3 DEF WaitHoldsLock
  <2>7. NoLostWakeup'
    BY <2>1 DEF NoLostWakeup
  <2>. QED BY <1>00, <2>4, <2>5, <2>6, <2>7 DEF CondInv
<1>3. ASSUME NEW p \in Procs, WaitSleep(p) PROVE CondInv'
  <2>1. /\ stage[p] = "enqueue" /\ chs' = Append(chs, p) /\ mu'
        /\ SetStage(p, "sleep") /\ UNCHANGED <<rwvars, woken, ready, owes>>
    BY <1>3 DEF WaitSleep
  <2>2. /\ stage' \in [Procs -> {"none", "unlock", "enqueue", "sleep", "relock"}]
        /\ stage'[p] = "sleep"
        /\ \A q \in Procs \ {p} : stage'[q] = stage[q]
    BY <1>0, <2>1, StageFollows
  <2>3. p \notin Queued /\ p \notin woken
    BY <1>0, <2>1 DEF QueueMatchesSleepers
  <2>4. /\ chs' \in Seq(Procs)
        /\ Queued' = Queued \union {p}
        /\ \A i, j \in DOMAIN chs' : chs'[i] = chs'[j] => i = j
    BY <1>0, <2>1, <2>3, QueueOps DEF CondTypeOK, QueueMatchesSleepers
  <2>5. CondTypeOK'
    BY <1>0, <1>00, <1>3, <2>1, <2>2, <2>4 DEF CondTypeOK, WaitSleep
  <2>6. QueueMatchesSleepers'
    <3>1. Queued' = {q \in Procs : stage'[q] = "sleep" /\ q \notin woken'}
      BY <1>0, <2>1, <2>2, <2>3, <2>4 DEF QueueMatchesSleepers
    <3>2. woken' \subseteq {q \in Procs : stage'[q] = "sleep"}
      BY <1>0, <2>1, <2>2 DEF QueueMatchesSleepers
    <3>3. \A q \in Procs : stage'[q] \notin {"unlock", "enqueue"}
      BY <1>0, <2>1, <2>2 DEF QueueMatchesSleepers
    <3>. QED BY <2>4, <3>1, <3>2, <3>3 DEF QueueMatchesSleepers
  <2>7. WaitHoldsLock'
    BY <1>0, <2>1, <2>2 DEF WaitHoldsLock, rwvars
  <2>8. NoLostWakeup'
    BY <1>0, <2>1, <2>2 DEF NoLostWakeup, Asleep
  <2>. QED BY <1>00, <2>5, <2>6, <2>7, <2>8 DEF CondInv
<1>4. ASSUME NEW p \in Procs, WaitWake(p) PROVE CondInv'
  <2>1. /\ stage[p] = "sleep" /\ p \in woken /\ woken' = woken \ {p}
        /\ SetStage(p, "relock") /\ Goto(p, "lock")
        /\ UNCHANGED <<mu, chs, ready, owes>>
    BY <1>4 DEF WaitWake, Lock
  <2>2. /\ stage' \in [Procs -> {"none", "unlock", "enqueue", "sleep", "relock"}]
        /\ stage'[p] = "relock"
        /\ \A q \in Procs \ {p} : stage'[q] = stage[q]
    BY <1>0, <2>1, StageFollows
  <2>3. pc'[p] = "lock" /\ \A q \in Procs \ {p} : pc'[q] = pc[q]
    BY <1>0, <2>1, SetsFollow DEF CondTypeOK
  <2>4. CondTypeOK'
    BY <1>0, <1>00, <2>1, <2>2 DEF CondTypeOK
  <2>5. QueueMatchesSleepers'
    BY <1>0, <2>1, <2>2 DEF QueueMatchesSleepers, Queued
  <2>6. WaitHoldsLock'
    BY <1>0, <2>1, <2>2, <2>3 DEF WaitHoldsLock
  <2>7. NoLostWakeup'
    BY <1>0, <2>1, <2>2 DEF NoLostWakeup, Asleep
  <2>. QED BY <1>00, <2>4, <2>5, <2>6, <2>7 DEF CondInv
<1>5. ASSUME NEW p \in Procs, WaitReturn(p) PROVE CondInv'
  <2>1. /\ stage[p] = "relock" /\ SetStage(p, "none") /\ Goto(p, "writing")
        /\ UNCHANGED <<mu, chs, woken, ready, owes>>
    BY <1>5 DEF WaitReturn, Locked
  <2>2. /\ stage' \in [Procs -> {"none", "unlock", "enqueue", "sleep", "relock"}]
        /\ stage'[p] = "none"
        /\ \A q \in Procs \ {p} : stage'[q] = stage[q]
    BY <1>0, <2>1, StageFollows
  <2>3. pc'[p] = "writing" /\ \A q \in Procs \ {p} : pc'[q] = pc[q]
    BY <1>0, <2>1, SetsFollow DEF CondTypeOK
  <2>4. CondTypeOK'
    BY <1>0, <1>00, <2>1, <2>2 DEF CondTypeOK
  <2>5. QueueMatchesSleepers'
    BY <1>0, <2>1, <2>2 DEF QueueMatchesSleepers, Queued
  <2>6. WaitHoldsLock'
    BY <1>0, <2>1, <2>2, <2>3 DEF WaitHoldsLock
  <2>7. NoLostWakeup'
    BY <1>0, <2>1, <2>2 DEF NoLostWakeup, Asleep
  <2>. QED BY <1>00, <2>4, <2>5, <2>6, <2>7 DEF CondInv
<1>6. ASSUME NEW p \in Procs, Signal(p) PROVE CondInv'
  <2>1. /\ mu /\ chs # <<>> /\ woken' = woken \union {Head(chs)} /\ chs' = Tail(chs)
        /\ UNCHANGED <<rwvars, mu, stage, ready, owes>>
    BY <1>6 DEF Signal
  <2>2. /\ chs' \in Seq(Procs) /\ Queued \subseteq Procs
        /\ Head(chs) \in Queued
        /\ Queued' = Queued \ {Head(chs)}
        /\ \A i, j \in DOMAIN chs' : chs'[i] = chs'[j] => i = j
    BY <1>0, <2>1, QueueOps DEF CondTypeOK, QueueMatchesSleepers
  <2>3. CondTypeOK'
    BY <1>0, <1>00, <2>1, <2>2 DEF CondTypeOK
  <2>4. QueueMatchesSleepers'
    BY <1>0, <2>1, <2>2 DEF QueueMatchesSleepers
  <2>5. WaitHoldsLock'
    BY <1>0, <2>1 DEF WaitHoldsLock, rwvars
  <2>6. NoLostWakeup'
    BY <1>0, <2>1 DEF NoLostWakeup, Asleep
  <2>. QED BY <1>00, <2>3, <2>4, <2>5, <2>6 DEF CondInv
<1>7. ASSUME NEW p \in Procs, Broadcast(p) PROVE CondInv'
  <2>1. /\ mu /\ woken' = woken \union Queued /\ chs' = <<>> /\ owes' \subseteq owes
        /\ UNCHANGED <<rwvars, mu, stage, ready>>
    BY <1>7 DEF Broadcast
  <2>2. chs' \in Seq(Procs) /\ Queued' = {} /\ Queued \subseteq Procs
    BY <1>0, <2>1, QueueOps DEF CondTypeOK, QueueMatchesSleepers
  <2>3. CondTypeOK'
    BY <1>0, <1>00, <2>1, <2>2 DEF CondTypeOK
  <2>4. QueueMatchesSleepers'
    <3>1. DOMAIN chs' = {}
      BY <2>1
    <3>. QED BY <1>0, <2>1, <2>2, <3>1 DEF QueueMatchesSleepers
  <2>5. WaitHoldsLock'
    BY <1>0, <2>1 DEF WaitHoldsLock, rwvars
  <2>6. NoLostWakeup'
    \* mu is in its channel, so everybody who would be asleep is in the queue.
    <3>1. \A q \in Procs : stage[q] # "enqueue"
      BY <1>0, <2>1 DEF QueueMatchesSleepers
    <3>2. \A q \in Procs : stage'[q] = "sleep" => q \in woken'
      BY <1>0, <2>1 DEF QueueMatchesSleepers
    <3>. QED BY <2>1, <3>1, <3>2 DEF NoLostWakeup, Asleep
  <2>. QED BY <1>00, <2>3, <2>4, <2>5, <2>6 DEF CondInv
<1>8. ASSUME NEW p \in Procs, SetReady(p) PROVE CondInv'
  <2>1. /\ stage[p] = "none" /\ pc[p] = "writing" /\ ready' = ~ready
        /\ owes \subseteq owes' /\ (ready' => p \in owes') /\ owes' \subseteq Procs
        /\ UNCHANGED <<rwvars, mu, chs, woken, stage>>
    BY <1>0, <1>8 DEF SetReady, Running, condvars, CondTypeOK
  <2>2. CondTypeOK'
    BY <1>0, <1>00, <2>1 DEF CondTypeOK
  <2>3. QueueMatchesSleepers'
    BY <1>0, <2>1 DEF QueueMatchesSleepers, Queued
  <2>4. WaitHoldsLock'
    <3>1. \A q \in Procs : stage[q] # "unlock"
      BY <1>0, <2>1, OneWriter DEF WaitHoldsLock
    <3>. QED BY <1>0, <2>1, <3>1 DEF WaitHoldsLock, rwvars
  <2>5. NoLostWakeup'
    BY <1>0, <2>1 DEF NoLostWakeup
  <2>. QED BY <1>00, <2>2, <2>3, <2>4, <2>5 DEF CondInv
<1>9. ASSUME NEW p \in Procs, UseLock(p) PROVE CondInv'
  <2>1. stage[p] = "none" /\ UNCHANGED <<mu, chs, woken, stage, ready, owes>>
    BY <1>9 DEF UseLock, condvars
  <2>2. \A q \in Procs \ {p} : pc'[q] = pc[q]
    <3>1. \E b \in {"idle", "renter", "reading", "rexit", "lock", "writing"} : Goto(p, b)
      BY <1>9 DEF UseLock, RLock, REnter, RUnlock, RExit, Lock, Locked, Unlock
    <3>. QED BY <1>0, <3>1, SetsFollow DEF CondTypeOK
  <2>3. CondTypeOK'
    BY <1>0, <1>00, <2>1 DEF CondTypeOK
  <2>4. QueueMatchesSleepers'
    BY <1>0, <2>1 DEF QueueMatchesSleepers, Queued
  <2>5. WaitHoldsLock'
    BY <1>0, <2>1, <2>2 DEF WaitHoldsLock
  <2>6. NoLostWakeup'
    BY <1>0, <2>1 DEF NoLostWakeup, Asleep
  <2>. QED BY <1>00, <2>3, <2>4, <2>5, <2>6 DEF CondInv
<1>10. CASE UNCHANGED vars
  <2>1. UNCHANGED <<rwvars, mu, chs, woken, stage, ready, owes>>
    BY <1>10 DEF vars, condvars
  <2>2. CondTypeOK' /\ QueueMatchesSleepers'
    BY <1>0, <1>00, <2>1 DEF CondTypeOK, QueueMatchesSleepers, Queued
  <2>3. WaitHoldsLock' /\ NoLostWakeup'
    BY <1>0, <2>1 DEF WaitHoldsLock, NoLostWakeup, Asleep, rwvars
  <2>. QED BY <1>00, <2>2, <2>3 DEF CondInv
<1>. QED
  BY <1>1, <1>2, <1>3, <1>4, <1>5, <1>6, <1>7, <1>8, <1>9, <1>10 DEF Next

LEMMA CondInvariance == Spec => []CondInv
BY CondInit_Inv, CondStep_Inv, PTL DEF Spec
-----------------------------------------------------------------------------
\* cond.go:37: Wait unlocks c.L and suspends atomically, although it does so in
\* two steps: nobody sleeps through a condition whose Broadcast has been made.
THEOREM NoWakeupIsLost == Spec => []NoLostWakeup
<1>1. CondInv => NoLostWakeup
  BY DEF CondInv
<1>. QED BY <1>1, CondInvariance, PTL

\* cond.go: chs holds those that sleep and nobody else, each one once, and c.mu is
\* out only inside Wait.
THEOREM QueueIsExact == Spec => []QueueMatchesSleepers
<1>1. CondInv => QueueMatchesSleepers
  BY DEF CondInv
<1>. QED BY <1>1, CondInvariance, PTL

\* cond/README.md: the queue of goroutines that wait is FIFO.
THEOREM WakeupsInOrder == Spec => WokenInOrder
<1>1. CondInv /\ [Next]_vars =>
        [\A i, j \in DOMAIN chs : i < j /\ chs[j] \in woken' => chs[i] \in woken']_vars
  <2>. SUFFICES ASSUME CondInv, Next, NEW i \in DOMAIN chs, NEW j \in DOMAIN chs,
                       i < j, chs[j] \in woken'
                PROVE  chs[i] \in woken'
    OBVIOUS
  <2>1. /\ chs \in Seq(Procs)
        /\ chs[j] \in Queued /\ chs[i] \in Queued /\ chs[j] \notin woken
        /\ \A k \in DOMAIN chs : chs[j] = chs[k] => j = k
    BY DEF CondInv, CondTypeOK, QueueMatchesSleepers, Queued
  <2>2. PICK p \in Procs : Signal(p) \/ Broadcast(p)
    BY <2>1 DEF Next, Wait, WaitUnlock, WaitSleep, WaitWake, WaitReturn, SetReady, UseLock,
              condvars
  <2>3. CASE Signal(p)
    <3>1. chs[j] = Head(chs) /\ Head(chs) = chs[1] /\ 1 \in DOMAIN chs /\ i >= 1
      BY <2>1, <2>3 DEF Signal
    <3>2. j = 1
      BY <2>1, <3>1
    <3>. QED BY <2>1, <3>1, <3>2
  <2>4. CASE Broadcast(p)
    BY <2>1, <2>4 DEF Broadcast
  <2>. QED BY <2>2, <2>3, <2>4
<1>. QED BY <1>1, CondInvariance, PTL DEF Spec, WokenInOrder

\* The lock L of the condition variable keeps the promise of rwmutex/README.md
\* whatever Wait does with it.
THEOREM CondKeepsLock == Spec => []TokensMatchHolders /\ ImplementsSharedLock
BY CondImpliesLock, LockExcludes, LockIsShared, PTL
=============================================================================
