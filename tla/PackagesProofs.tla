--------------------------- MODULE PackagesProofs ---------------------------
(***************************************************************************)
(* What the small packages promise, for any number of goroutines, calls,   *)
(* keys, tests and processes.  A behaviour of MCPackages takes the steps   *)
(* of one package, so an invariant of each package's own steps is one of   *)
(* all of them (PackageSteps).                                             *)
(***************************************************************************)
EXTENDS MCPackages, FiniteSetTheorems, TLAPS

LEMMA PackageSteps ==
  ASSUME Next
  PROVE  [WGNext]_wgvars /\ [OnceNext]_oncevars /\ [KLNext]_klvars
         /\ [TPNext]_tpvars /\ [RSNext]_rsvars
BY DEF Next
-----------------------------------------------------------------------------
(* waitgroup *)

WGInv == WGTypeOK /\ WGTokenMeansZero

LEMMA WGStep_Inv == WGInv /\ [WGNext]_wgvars => WGInv'
<1>. SUFFICES ASSUME WGInv, [WGNext]_wgvars PROVE WGInv'
  OBVIOUS
<1>. USE WGAssumption DEF WGInv, WGTypeOK, WGTokenMeansZero
<1>1. CASE UNCHANGED wgvars
  BY <1>1 DEF wgvars
<1>2. ASSUME NEW p \in WGProcs, WGCallAdd(p) PROVE WGInv'
  <2>1. PICK delta \in WGDeltas :
          /\ wgCnt = 0 /\ delta > 0 => WGInWait = {}
          /\ WGAdd(p, delta)
    BY <1>2 DEF WGCallAdd
  <2>2. wgCnt + delta \in Int
    OBVIOUS
  <2>3. CASE wgCnt + delta < 0
    <3>1. /\ wgMu' = FALSE /\ wgCh' = wgCh /\ wgCnt' \in Int
          /\ wgPc' = [wgPc EXCEPT ![p] = "panicked"]
      <4>1. ~(wgCnt + delta >= 0)
        BY <2>2, <2>3
      <4>. QED BY <2>1, <2>2, <4>1, Zenon DEF WGAdd, WGGoto
    <3>. QED BY <3>1
  <2>4. CASE wgCnt + delta >= 0
    <3>1. /\ wgMu /\ wgMu' = wgMu /\ wgPc' = wgPc /\ delta # 0
          /\ wgCnt' = wgCnt + delta
          /\ wgCh' = IF wgCnt + delta = 0 THEN TRUE ELSE wgCh /\ wgCnt # 0
      <4>1. ~(wgCnt + delta < 0)
        BY <2>2, <2>4
      <4>. QED BY <2>1, <4>1, Zenon DEF WGAdd
    <3>2. CASE wgCnt = 0
      <4>1. \A q \in WGProcs : wgPc[q] # "received"
        BY <2>1, <2>2, <2>4, <3>1, <3>2 DEF WGInWait
      <4>. QED BY <2>2, <2>4, <3>1, <3>2, <4>1
    <3>3. CASE wgCnt # 0
      BY <2>2, <3>1, <3>3
    <3>. QED BY <3>2, <3>3
  <2>. QED BY <2>2, <2>3, <2>4
<1>3. ASSUME NEW p \in WGProcs, WGWait(p) PROVE WGInv'
  BY <1>3 DEF WGWait, WGGoto
<1>4. ASSUME NEW p \in WGProcs, WGReceive(p) PROVE WGInv'
  BY <1>4 DEF WGReceive, WGGoto
<1>5. ASSUME NEW p \in WGProcs, WGReturn(p) PROVE WGInv'
  BY <1>5 DEF WGReturn, WGGoto
<1>. QED BY <1>1, <1>2, <1>3, <1>4, <1>5 DEF WGNext

\* waitgroup.go: however many goroutines count and wait, the token of ch is there,
\* or between two waiters, exactly while the counter is zero.
THEOREM TokenMeansZero == Spec => []WGTokenMeansZero
<1>1. Init => WGInv
  BY DEF Init, WGInit, WGInv, WGTypeOK, WGTokenMeansZero
<1>2. WGInv /\ [Next]_vars => WGInv'
  BY PackageSteps, WGStep_Inv DEF vars
<1>. QED BY <1>1, <1>2, PTL DEF Spec, WGInv
-----------------------------------------------------------------------------
(* once *)

\* The call that started f is the one that is in it until the channel is closed.
OnceInv ==
  /\ OnceTypeOK
  /\ onceCh = "token" => onceF = {}
  /\ onceCh # "token" => \E c \in OnceCalls :
       /\ onceF = {c}
       /\ oncePc[c] \in IF onceCh = "closed" THEN {"done", "panicked"} ELSE {"f", "stuck"}
  /\ \A c \in OnceCalls :
       /\ oncePc[c] \in {"f", "stuck"} => onceCh = "empty" /\ c \in onceF
       /\ oncePc[c] = "done" => onceCh = "closed"

LEMMA OnceStep_Inv == OnceInv /\ [OnceNext]_oncevars => OnceInv'
<1>. SUFFICES ASSUME OnceInv, [OnceNext]_oncevars PROVE OnceInv'
  OBVIOUS
<1>. USE DEF OnceInv, OnceTypeOK
<1>1. CASE UNCHANGED oncevars
  BY <1>1 DEF oncevars
<1>2. ASSUME NEW c \in OnceCalls, OnceCall(c) PROVE OnceInv'
  BY <1>2 DEF OnceCall, OnceGoto
<1>3. ASSUME NEW c \in OnceCalls, OnceReceive(c) PROVE OnceInv'
  <2>1. CASE onceCh = "token"
    BY <1>3, <2>1 DEF OnceReceive, OnceGoto
  <2>2. CASE onceCh = "closed"
    BY <1>3, <2>2 DEF OnceReceive, OnceGoto
  <2>. QED BY <1>3, <2>1, <2>2 DEF OnceReceive
<1>4. ASSUME NEW c \in OnceCalls, OnceReturn(c) PROVE OnceInv'
  BY <1>4 DEF OnceReturn, OnceGoto
<1>5. ASSUME NEW c \in OnceCalls, OnceReenter(c) PROVE OnceInv'
  BY <1>5 DEF OnceReenter, OnceGoto
<1>. QED BY <1>1, <1>2, <1>3, <1>4, <1>5 DEF OnceNext

\* once.go: f is started once, and nobody returns from Do before it is through.
THEOREM OnceHolds == Spec => []OnceBeforeReturn
<1>1. Init => OnceInv
  BY DEF Init, OnceInit, OnceInv, OnceTypeOK
<1>2. OnceInv /\ [Next]_vars => OnceInv'
  BY PackageSteps, OnceStep_Inv DEF vars
<1>3. OnceInv => OnceBeforeReturn
  <2>. SUFFICES ASSUME OnceInv PROVE OnceBeforeReturn
    OBVIOUS
  <2>1. Cardinality(onceF) <= 1
    BY FS_EmptySet, FS_Singleton DEF OnceInv
  <2>2. \A c \in OnceCalls :
          oncePc[c] = "done" => \E d \in onceF : oncePc[d] \in {"done", "panicked"}
    BY DEF OnceInv
  <2>. QED BY <2>1, <2>2 DEF OnceBeforeReturn
<1>. QED BY <1>1, <1>2, <1>3, PTL DEF Spec
-----------------------------------------------------------------------------
(* keylock *)

\* A key in the map is free or has one holder, and a key that is not there has
\* none; the key that is being inserted is not in the map yet.
KLExact ==
  /\ \A p \in KLProcs : klHeld[p] \subseteq klMap
  /\ \A key \in klMap :
       key \notin klFree <=> \E p \in KLProcs : key \in klHeld[p]
  /\ \A p, q \in KLProcs : p # q => klHeld[p] \intersect klHeld[q] = {}
  /\ klInsert # KLNone => /\ klPc[klInsert] = "keys" /\ klTodo[klInsert] # <<>>
                          /\ Head(klTodo[klInsert]) \notin klMap

KLInv == KLTypeOK /\ KLExact

LEMMA KLStep_Inv == KLInv /\ [KLNext]_klvars => KLInv'
<1>. SUFFICES ASSUME KLInv, [KLNext]_klvars PROVE KLInv'
  OBVIOUS
<1>. USE KLAssumption DEF KLInv, KLTypeOK, KLExact, KLGoto
<1>1. CASE UNCHANGED klvars
  BY <1>1 DEF klvars
<1>2. ASSUME NEW p \in KLProcs, KLCall(p) PROVE KLInv'
  BY <1>2 DEF KLCall
<1>3. ASSUME NEW p \in KLProcs, KLCancel(p) PROVE KLInv'
  BY <1>3 DEF KLCancel
<1>4. ASSUME NEW p \in KLProcs, KLLock(p) PROVE KLInv'
  BY <1>4 DEF KLLock
<1>5. ASSUME NEW p \in KLProcs, KLStartInsert(p) PROVE KLInv'
  BY <1>5 DEF KLStartInsert
<1>6. ASSUME NEW p \in KLProcs, KLInsert(p) PROVE KLInv'
  <2>1. Head(klTodo[p]) \in KLKeys \ klMap
    BY <1>6 DEF KLInsert
  <2>2. KLTypeOK'
    BY <1>6, <2>1 DEF KLInsert
  <2>3. KLExact'
    BY <1>6, <2>1 DEF KLInsert
  <2>. QED BY <2>2, <2>3
<1>7. ASSUME NEW p \in KLProcs, KLTake(p) PROVE KLInv'
  <2>1. /\ Head(klTodo[p]) \in klFree
        /\ Tail(klTodo[p]) \in Seq(KLKeys)
        /\ klInsert # p
    BY <1>7 DEF KLTake
  <2>2. KLTypeOK'
    BY <1>7, <2>1 DEF KLTake
  <2>3. KLExact'
    BY <1>7, <2>1 DEF KLTake
  <2>. QED BY <2>2, <2>3
<1>8. ASSUME NEW p \in KLProcs, KLSelecting(p), KLGiveUp(p) PROVE KLInv'
  <2>1. klInsert # p
    BY <1>8 DEF KLSelecting
  <2>2. KLTypeOK'
    BY <1>8 DEF KLGiveUp
  <2>3. KLExact'
    BY <1>8, <2>1 DEF KLGiveUp
  <2>. QED BY <2>2, <2>3
<1>9. ASSUME NEW p \in KLProcs, KLReturn(p) PROVE KLInv'
  BY <1>9 DEF KLReturn
<1>10. ASSUME NEW p \in KLProcs, KLUnlock(p) PROVE KLInv'
  BY <1>10 DEF KLUnlock
<1>11. ASSUME NEW p \in KLProcs, KLRelease(p) PROVE KLInv'
  <2>1. PICK key \in klHeld[p] :
          /\ klFree' = klFree \union {key}
          /\ klHeld' = [klHeld EXCEPT ![p] = @ \ {key}]
    BY <1>11 DEF KLRelease
  <2>2. UNCHANGED <<klMu, klMap, klInsert, klPc, klTodo, klCancel, klDead>>
    BY <1>11 DEF KLRelease
  <2>3. KLTypeOK'
    BY <2>1, <2>2
  <2>4. KLExact'
    BY <2>1, <2>2
  <2>. QED BY <2>3, <2>4
<1>12. ASSUME NEW p \in KLProcs, KLRace(p) PROVE KLInv'
  BY <1>12 DEF KLRace
<1>13. ASSUME NEW p \in KLProcs, KLUnlocked(p) PROVE KLInv'
  BY <1>13 DEF KLUnlocked
<1>. QED BY <1>1, <1>2, <1>3, <1>4, <1>5, <1>6, <1>7, <1>8, <1>9, <1>10, <1>11, <1>12, <1>13
         DEF KLNext, KLTimeOut, KLCancelled

\* keylock.go: for any keys and any lists of them, nobody shares a key and none is
\* lost, whoever times out or is cancelled with a part of its list taken.
THEOREM KeysConserved == Spec => []KLKeysConserved
<1>1. Init => KLInv
  <2>1. <<>> \in Seq(KLKeys)
    OBVIOUS
  <2>. QED BY <2>1, KLAssumption DEF Init, KLInit, KLInv, KLTypeOK, KLExact
<1>2. KLInv /\ [Next]_vars => KLInv'
  BY PackageSteps, KLStep_Inv DEF vars
<1>3. KLInv => KLKeysConserved
  <2>. SUFFICES ASSUME KLInv, NEW key \in klMap
                PROVE  Cardinality({p \in KLProcs : key \in klHeld[p]})
                         = IF key \in klFree THEN 0 ELSE 1
    BY DEF KLKeysConserved
  <2>1. CASE key \in klFree
    <3>1. {p \in KLProcs : key \in klHeld[p]} = {}
      BY <2>1 DEF KLInv, KLExact
    <3>. QED BY <2>1, <3>1, FS_EmptySet
  <2>2. CASE key \notin klFree
    <3>1. PICK q \in KLProcs : key \in klHeld[q]
      BY <2>2 DEF KLInv, KLExact
    <3>2. {p \in KLProcs : key \in klHeld[p]} = {q}
      BY <3>1 DEF KLInv, KLExact
    <3>. QED BY <2>2, <3>2, FS_Singleton
  <2>. QED BY <2>1, <2>2
<1>. QED BY <1>1, <1>2, <1>3, PTL DEF Spec
-----------------------------------------------------------------------------
(* rsem *)

RSHolders == {p \in RSCalls : rsPc[p] \in {"granted", "holding"} /\ p \notin rsLate}

\* Whoever has been granted the semaphore, and whose key was extended in time ever
\* since, has a key that the script counts; who asks has none.
RSTypes ==
  /\ rsTtl \in [RSCalls -> 0..RSTtlUnits]
  /\ rsTick \in [RSCalls -> Nat]
  /\ rsPc \in [RSCalls -> {"idle", "try", "busy", "granted", "holding",
                           "releasing"}]

RSInv ==
  /\ RSTypes
  /\ \A p \in RSCalls :
       /\ p \in RSHolders => rsTtl[p] >= 5
       /\ rsPc[p] \in {"try", "busy"} => rsTtl[p] = 0
  /\ Cardinality(RSHolders) <= RSLimit

LEMMA RSFewer ==
  ASSUME NEW S \in SUBSET RSCalls, NEW U \in SUBSET S
  PROVE  IsFiniteSet(S) /\ Cardinality(U) <= Cardinality(S)
         /\ Cardinality(S) \in Nat /\ Cardinality(U) \in Nat
BY RSAssumption, FS_Subset, FS_CardinalityType

LEMMA RSStep_Inv ==
  ASSUME RSInv, [RSNext]_rsvars
  PROVE  RSInv'
<1>. USE RSAssumption DEF RSInv, RSTypes, RSTtlUnits, RSRefreshUnits, RSGoto
<1>a. RSLimit \in Nat
  OBVIOUS
<1>b. ASSUME RSHolders' \subseteq RSHolders PROVE Cardinality(RSHolders') <= RSLimit
  BY <1>a, <1>b, RSFewer DEF RSHolders
<1>1. CASE UNCHANGED rsvars
  BY <1>1 DEF rsvars, RSHolders
<1>2. CASE RSAdvance
  <2>1. /\ rsPc' = rsPc
        /\ rsTtl' = [p \in RSCalls |-> IF rsTtl[p] = 0 THEN 0 ELSE rsTtl[p] - 1]
        /\ \A p \in RSCalls :
             p \in rsLate' <=>
               p \in rsLate \/ (rsPc[p] \in {"granted", "holding"} /\ rsTtl[p] <= 5)
    BY <1>2 DEF RSAdvance
  <2>2. rsTick' \in [RSCalls -> Nat]
    BY <1>2 DEF RSAdvance
  <2>3. ASSUME NEW p \in RSCalls PROVE /\ rsTtl'[p] \in 0..10
                                       /\ p \in RSHolders' => p \in RSHolders /\ rsTtl'[p] >= 5
                                       /\ rsPc[p] \in {"try", "busy"} => rsTtl'[p] = 0
    <3>1. rsTtl[p] \in 0..10 /\ rsTtl'[p] = IF rsTtl[p] = 0 THEN 0 ELSE rsTtl[p] - 1
      BY <2>1
    <3>2. p \in RSHolders' => p \in RSHolders /\ ~(rsTtl[p] <= 5)
      BY <2>1 DEF RSHolders
    <3>. QED BY <3>1, <3>2
  <2>4. RSHolders' \subseteq RSHolders
    BY <2>3 DEF RSHolders
  <2>. QED BY <1>b, <2>1, <2>2, <2>3, <2>4
<1>3. ASSUME NEW p \in RSCalls, RSScript(p) PROVE RSInv'
  <2>1. CASE rsTtl[p] > 0
    <3>1. rsPc[p] = "granted"
      BY <1>3, <2>1 DEF RSScript
    <3>2. /\ rsPc' = rsPc /\ rsTick' = rsTick /\ rsTtl' = [rsTtl EXCEPT ![p] = 10]
          /\ rsLate' = rsLate
      BY <1>3, <2>1, <3>1 DEF RSScript
    <3>. QED BY <3>1, <3>2 DEF RSHolders
  <2>2. CASE rsTtl[p] = 0 /\ Cardinality(RSCounted) < RSLimit
    <3>1. rsPc' = [rsPc EXCEPT ![p] = "granted"] /\ rsTtl' = [rsTtl EXCEPT ![p] = 10]
          /\ rsTick' = rsTick /\ rsLate' = rsLate \ {p}
      BY <1>3, <2>2 DEF RSScript
    <3>2. RSHolders' = RSHolders \union {p} /\ RSHolders \subseteq RSCounted
          /\ RSCounted \subseteq RSCalls
      BY <3>1 DEF RSHolders, RSCounted
    <3>3. Cardinality(RSHolders') <= Cardinality(RSHolders) + 1
      BY <3>2, RSFewer, FS_AddElement
    <3>4. Cardinality(RSHolders') <= RSLimit
      BY <1>a, <2>2, <3>2, <3>3, RSFewer
    <3>5. \A q \in RSHolders' : rsTtl'[q] >= 5
      BY <3>1, <3>2 DEF RSCounted
    <3>. QED BY <3>1, <3>4, <3>5
  <2>3. CASE ~(rsTtl[p] > 0 \/ Cardinality(RSCounted) < RSLimit)
    <3>1. rsPc' = [rsPc EXCEPT ![p] = "busy"] /\ UNCHANGED <<rsTtl, rsTick>>
          /\ rsLate' = rsLate \ {p} /\ rsTtl[p] = 0
      BY <1>3, <2>3 DEF RSScript
    <3>2. RSHolders' \subseteq RSHolders
      BY <3>1 DEF RSHolders
    <3>. QED BY <1>b, <3>1, <3>2 DEF RSHolders
  <2>. QED BY <2>1, <2>2, <2>3
<1>4. ASSUME NEW p \in RSCalls, RSReturn(p) PROVE RSInv'
  <2>1. RSHolders' = RSHolders
    BY <1>4 DEF RSReturn, RSHolders
  <2>. QED BY <1>4, <1>a, <2>1 DEF RSReturn
<1>5. ASSUME NEW p \in RSCalls, RSRefresh(p) PROVE RSInv'
  <2>1. RSHolders' = RSHolders
    BY <1>5 DEF RSRefresh, RSHolders
  <2>. QED BY <1>5, <1>a, <2>1 DEF RSRefresh
<1>6. ASSUME NEW p \in RSCalls,
             RSAcquire(p) \/ RSRetry(p) \/ RSGiveUp(p) \/ RSRelease(p) \/ RSDie(p)
      PROVE  RSInv'
  <2>1. RSHolders' \subseteq RSHolders /\ rsTtl' = rsTtl
    BY <1>6 DEF RSHolders, RSAcquire, RSRetry, RSGiveUp, RSRelease, RSDie
  <2>2. /\ RSTypes'
        /\ \A q \in RSCalls : rsPc'[q] \in {"try", "busy"} => rsTtl[q] = 0
    BY <1>6 DEF RSAcquire, RSRetry, RSGiveUp, RSRelease, RSDie
  <2>. QED BY <1>b, <2>1, <2>2
<1>7. ASSUME NEW p \in RSCalls, RSDel(p) PROVE RSInv'
  <2>1. RSHolders' = RSHolders /\ p \notin RSHolders
    BY <1>7 DEF RSDel, RSHolders
  <2>2. /\ RSTypes'
        /\ \A q \in RSCalls : rsPc'[q] \in {"try", "busy"} => rsTtl'[q] = 0
        /\ \A q \in RSCalls \ {p} : rsTtl'[q] = rsTtl[q]
    BY <1>7 DEF RSDel
  <2>. QED BY <2>1, <2>2 DEF RSHolders
<1>. QED BY <1>1, <1>2, <1>3, <1>4, <1>5, <1>6, <1>7 DEF RSNext, RSStep

\* rsem.go:23: whatever the limit, the number of processes, who dies and how late an
\* extension comes, no more than limit processes hold the semaphore, besides those
\* whose own key has gone unextended into its last half second.
THEOREM LimitHolds == Spec => []RSLimitHolds
<1>1. Init => RSInv
  <2>. SUFFICES ASSUME Init PROVE RSInv
    OBVIOUS
  <2>1. RSHolders = {}
    BY DEF Init, RSInit, RSHolders
  <2>. QED BY <2>1, RSAssumption, FS_EmptySet
           DEF Init, RSInit, RSInv, RSTypes, RSTtlUnits, RSRefreshUnits
<1>2. RSInv /\ [Next]_vars => RSInv'
  BY PackageSteps, RSStep_Inv DEF vars
<1>3. RSInv => RSLimitHolds
  <2>. SUFFICES ASSUME RSInv PROVE RSLimitHolds
    OBVIOUS
  <2>1. {p \in RSCalls : rsPc[p] = "holding"} \ rsLate \subseteq RSHolders
        /\ RSHolders \subseteq RSCalls
    BY DEF RSHolders
  <2>. QED BY <2>1, RSFewer, RSAssumption DEF RSInv, RSLimitHolds
<1>. QED BY <1>1, <1>2, <1>3, PTL DEF Spec
-----------------------------------------------------------------------------
(* tparallel *)

TPPast(s) == tpPc[s] \in {"wait", "close", "done"}

\* The i-th test t of s: not started, it has no state; neither parallel nor ended,
\* it is the latest, and s waits for it; parallel, it has not come back from
\* Parallel before the function of s was through.
TPWaits(s, i, t) ==
  /\ i > tpNext[s] => tpPc[t] = "none" /\ t \notin tpIsParallel \union tpEnded
  /\ i <= tpNext[s] /\ t \notin tpIsParallel \union tpEnded
       => i = tpNext[s] /\ tpPc[s] = "select"
  /\ t \in tpIsParallel => \/ tpPc[t] = "parallel"
                           \/ tpPc[t] = "sleep" /\ t \in tpAsleep
                           \/ TPPast(s)

TPTypes ==
  /\ tpPc \in [Starters -> {"none", "body", "select", "parallel", "sleep",
                            "broadcast", "wait", "close", "done"}]
  /\ tpNext \in [Starters -> Nat]

TPInv ==
  /\ TPTypes
  /\ \A s \in Starters : /\ tpNext[s] <= Len(TPSubtests[s])
                         /\ tpPc[s] = "none" => tpNext[s] = 0
  /\ \A t \in TPTests : /\ t \in tpEnded => tpPc[t] = "done"
                        /\ tpPc[t] = "parallel" => t \in tpIsParallel
  /\ \A s \in Starters : \A i \in DOMAIN TPSubtests[s] : TPWaits(s, i, TPSubtests[s][i])

LEMMA TPTree ==
  ASSUME NEW s \in Starters, NEW i \in DOMAIN TPSubtests[s]
  PROVE  /\ i \in 1..Len(TPSubtests[s])
         /\ TPSubtests[s][i] \in TPTests /\ TPSubtests[s][i] \in Starters
         /\ TPSubtests[s][i] # s /\ TPSubtests[s][i] # TPTop
         /\ \A u \in Starters : \A j \in DOMAIN TPSubtests[u] :
              TPSubtests[s][i] = TPSubtests[u][j] => u = s /\ j = i
BY TPAssumption, TPOwnTAssumption DEF Starters

LEMMA TPRun_Inv ==
  ASSUME TPInv, NEW s \in Starters, TPRun(s)
  PROVE  TPInv'
<1>. USE DEF TPTypes, TPPast
<1>. DEFINE n == tpNext[s] + 1
            t == TPSubtests[s][n]
<1>1. n \in DOMAIN TPSubtests[s] /\ n \in Nat /\ tpNext[s] \in Nat
  BY TPAssumption DEF TPInv, TPRun, Starters
<1>2. t \in TPTests /\ t \in Starters /\ t # s
  BY <1>1, TPTree
<1>3. TPWaits(s, n, t)
  BY <1>1 DEF TPInv
<1>4. tpPc[t] = "none" /\ t \notin tpIsParallel \union tpEnded
  BY <1>1, <1>3 DEF TPWaits
<1>5. /\ tpPc[s] = "body"
      /\ tpPc' = [tpPc EXCEPT ![s] = "select", ![t] = "body"]
      /\ tpNext' = [tpNext EXCEPT ![s] = n]
      /\ UNCHANGED <<tpEnded, tpIsParallel, tpAsleep>>
  BY DEF TPRun
<1>. HIDE DEF t, n
<1>6. TPTypes'
  BY <1>1, <1>2, <1>5 DEF TPInv
<1>7. \A u \in Starters : /\ tpPc'[u] = IF u = s THEN "select" ELSE IF u = t THEN "body" ELSE tpPc[u]
                          /\ tpNext'[u] = IF u = s THEN n ELSE tpNext[u]
  BY <1>2, <1>5 DEF TPInv
<1>8. ASSUME NEW u \in Starters, NEW i \in DOMAIN TPSubtests[u], NEW v, v = TPSubtests[u][i]
      PROVE  TPWaits(u, i, v)'
  <2>1. v \in Starters /\ v # u /\ i \in Nat /\ tpNext[u] \in Nat
    BY <1>8, TPTree DEF TPInv
  <2>2. v = t <=> u = s /\ i = n
    BY <1>1, <1>8, TPTree DEF t
  <2>3. TPWaits(u, i, v)
    BY <1>8 DEF TPInv
  <2>4. CASE u = s
    <3>1. n = tpNext[u] + 1
      BY <2>4 DEF n
    <3>2. /\ tpNext'[u] = tpNext[u] + 1 /\ tpPc'[u] = "select" /\ tpPc[u] = "body"
          /\ UNCHANGED <<tpEnded, tpIsParallel, tpAsleep>>
      BY <1>5, <1>7, <2>4, <3>1
    <3>3. CASE v = t
      <4>1. i = tpNext[u] + 1 /\ v \notin tpIsParallel
        BY <1>4, <2>2, <2>4, <3>1, <3>3
      <4>. QED BY <2>1, <3>2, <4>1 DEF TPWaits
    <3>4. CASE v # t
      <4>1. tpPc'[v] = tpPc[v] /\ i # tpNext[u] + 1
        BY <1>7, <2>1, <2>2, <2>4, <3>1, <3>4
      <4>. QED BY <2>1, <2>3, <3>2, <4>1 DEF TPWaits
    <3>. QED BY <3>3, <3>4
  <2>5. CASE u = t
    BY <1>1, <1>2, <1>4, <1>5, <1>7, <1>8, <2>1, <2>2, <2>3, <2>5, TPTree DEF TPWaits, TPInv
  <2>6. CASE u # s /\ u # t /\ v = s
    BY <1>5, <1>7, <2>1, <2>2, <2>3, <2>6 DEF TPWaits
  <2>7. CASE u # s /\ u # t /\ v # s
    BY <1>5, <1>7, <2>1, <2>2, <2>3, <2>7 DEF TPWaits
  <2>. QED BY <2>4, <2>5, <2>6, <2>7
<1>9. n <= Len(TPSubtests[s])
  BY <1>1, TPTree
<1>10. \A v \in TPTests : v \in Starters
  BY DEF Starters
<1>. QED BY <1>1, <1>2, <1>4, <1>5, <1>6, <1>7, <1>8, <1>9, <1>10 DEF TPInv

\* The steps that start nobody: r goes from where it is to l.
LEMMA TPGoto_Inv ==
  ASSUME TPInv, NEW r \in Starters, TPTypes', UNCHANGED tpNext,
         NEW l, tpPc' = [tpPc EXCEPT ![r] = l], l # "none",
         \A t \in TPTests : /\ t \in tpEnded' => tpPc'[t] = "done"
                            /\ tpPc'[t] = "parallel" => t \in tpIsParallel',
         tpPc[r] # "none",
         \A s \in Starters : \A i \in DOMAIN TPSubtests[s] :
           TPWaits(s, i, TPSubtests[s][i]) => TPWaits(s, i, TPSubtests[s][i])'
  PROVE  TPInv'
BY DEF TPInv, TPTypes

LEMMA TPStep_Inv == TPInv /\ [TPNext]_tpvars => TPInv'
<1>. SUFFICES ASSUME TPInv, [TPNext]_tpvars PROVE TPInv'
  OBVIOUS
<1>. USE DEF TPTypes, TPPast
<1>0. \A t \in TPTests : t \in Starters
  BY DEF Starters
<1>a. /\ TPTypes
      /\ \A t \in TPTests : /\ t \in tpEnded => tpPc[t] = "done"
                            /\ tpPc[t] = "parallel" => t \in tpIsParallel
  BY DEF TPInv
<1>b. ASSUME NEW s \in Starters, NEW i \in DOMAIN TPSubtests[s]
      PROVE  /\ TPWaits(s, i, TPSubtests[s][i])
             /\ TPSubtests[s][i] \in Starters /\ TPSubtests[s][i] # s
             /\ tpNext[s] \in Nat /\ i \in Nat
  BY TPTree DEF TPInv
<1>1. CASE UNCHANGED tpvars
  BY <1>1 DEF tpvars, TPInv, TPWaits
<1>2. ASSUME NEW s \in Starters, TPRun(s) PROVE TPInv'
  BY <1>2, TPRun_Inv
<1>3. ASSUME NEW s \in Starters, TPSelect(s) PROVE TPInv'
  <2>1. /\ tpPc[s] = "select" /\ tpPc' = [tpPc EXCEPT ![s] = "body"]
        /\ TPSubtests[s][tpNext[s]] \in tpEnded \union tpIsParallel
        /\ UNCHANGED <<tpNext, tpEnded, tpIsParallel, tpAsleep>>
    BY <1>3 DEF TPSelect, TPGoto
  <2>2. ASSUME NEW u \in Starters, NEW i \in DOMAIN TPSubtests[u]
        PROVE  TPWaits(u, i, TPSubtests[u][i])'
    <3> DEFINE v == TPSubtests[u][i]
    <3>1. TPWaits(u, i, v) /\ v \in Starters /\ v # u
      BY <1>b
    <3>2. u = s /\ i = tpNext[s] => v \in tpEnded \union tpIsParallel
      BY <2>1
    <3>. HIDE DEF v
    <3>3. TPWaits(u, i, v)'
      BY <1>a, <2>1, <3>1, <3>2 DEF TPWaits
    <3>. QED BY <3>3 DEF v
  <2>. QED BY <1>a, <1>0, <2>1, <2>2, TPGoto_Inv
<1>4. ASSUME NEW s \in Starters, TPEnd(s) PROVE TPInv'
  <2>1. PICK l \in {"close", "broadcast"} :
          /\ tpPc[s] = "body" /\ tpPc' = [tpPc EXCEPT ![s] = l]
          /\ UNCHANGED <<tpNext, tpEnded, tpIsParallel, tpAsleep>>
    BY <1>4 DEF TPEnd, TPGoto
  <2>2. ASSUME NEW u \in Starters, NEW i \in DOMAIN TPSubtests[u]
        PROVE  TPWaits(u, i, TPSubtests[u][i])'
    <3> DEFINE v == TPSubtests[u][i]
    <3>1. TPWaits(u, i, v) /\ v \in Starters /\ v # u
      BY <1>b
    <3>. HIDE DEF v
    <3>2. TPWaits(u, i, v)'
      BY <1>a, <2>1, <3>1 DEF TPWaits
    <3>. QED BY <3>2 DEF v
  <2>. QED BY <1>a, <1>0, <2>1, <2>2, TPGoto_Inv
<1>5. ASSUME NEW s \in Starters, TPBroadcast(s) PROVE TPInv'
  <2>1. /\ tpPc[s] = "broadcast" /\ tpPc' = [tpPc EXCEPT ![s] = "wait"]
        /\ tpAsleep' = tpAsleep \ StartedBy(s)
        /\ UNCHANGED <<tpNext, tpEnded, tpIsParallel>>
    BY <1>5 DEF TPBroadcast, TPGoto
  <2>2. ASSUME NEW u \in Starters, NEW i \in DOMAIN TPSubtests[u]
        PROVE  TPWaits(u, i, TPSubtests[u][i])'
    <3> DEFINE v == TPSubtests[u][i]
    <3>1. TPWaits(u, i, v) /\ v \in Starters /\ v # u
      BY <1>b
    <3>2. v \in StartedBy(s) => u = s
      <4>1. \A j \in 1..tpNext[s] : j \in DOMAIN TPSubtests[s]
        BY TPAssumption DEF TPInv, Starters
      <4>. QED BY <4>1, TPTree DEF StartedBy
    <3>. HIDE DEF v
    <3>3. TPWaits(u, i, v)'
      BY <1>a, <2>1, <3>1, <3>2 DEF TPWaits
    <3>. QED BY <3>3 DEF v
  <2>. QED BY <1>a, <1>0, <2>1, <2>2, TPGoto_Inv
<1>6. ASSUME NEW s \in Starters, TPWait(s) PROVE TPInv'
  <2>1. PICK l \in {"close", "done"} :
          /\ tpPc[s] = "wait" /\ tpPc' = [tpPc EXCEPT ![s] = l]
          /\ UNCHANGED <<tpNext, tpEnded, tpIsParallel, tpAsleep>>
    BY <1>6 DEF TPWait, TPGoto
  <2>2. ASSUME NEW u \in Starters, NEW i \in DOMAIN TPSubtests[u]
        PROVE  TPWaits(u, i, TPSubtests[u][i])'
    <3> DEFINE v == TPSubtests[u][i]
    <3>1. TPWaits(u, i, v) /\ v \in Starters /\ v # u
      BY <1>b
    <3>. HIDE DEF v
    <3>2. TPWaits(u, i, v)'
      BY <1>a, <2>1, <3>1 DEF TPWaits
    <3>. QED BY <3>2 DEF v
  <2>. QED BY <1>a, <1>0, <2>1, <2>2, TPGoto_Inv
<1>7. ASSUME NEW t \in TPTests,
             TPParallelClose(t) \/ TPParallelSleep(t) \/ TPParallelReturn(t) \/ TPClose(t)
      PROVE  TPInv'
  <2>1. PICK l \in {"parallel", "sleep", "body", "done"} :
          /\ tpPc' = [tpPc EXCEPT ![t] = l] /\ UNCHANGED tpNext
          /\ \/ l = "parallel" /\ tpPc[t] = "body" /\ tpIsParallel' = tpIsParallel \union {t}
                /\ UNCHANGED <<tpEnded, tpAsleep>>
             \/ l = "sleep" /\ tpPc[t] = "parallel" /\ tpAsleep' = tpAsleep \union {t}
                /\ UNCHANGED <<tpEnded, tpIsParallel>>
             \/ l = "body" /\ tpPc[t] = "sleep" /\ t \notin tpAsleep
                /\ UNCHANGED <<tpEnded, tpIsParallel, tpAsleep>>
             \/ l = "done" /\ tpPc[t] = "close" /\ tpEnded' = tpEnded \union {t}
                /\ UNCHANGED <<tpIsParallel, tpAsleep>>
    BY <1>7 DEF TPParallelClose, TPParallelSleep, TPParallelReturn, TPClose, TPGoto
  <2>2. ASSUME NEW u \in Starters, NEW i \in DOMAIN TPSubtests[u]
        PROVE  TPWaits(u, i, TPSubtests[u][i])'
    <3> DEFINE v == TPSubtests[u][i]
    <3>1. TPWaits(u, i, v) /\ v \in Starters /\ v # u
      BY <1>b
    <3>. HIDE DEF v
    <3>2. TPWaits(u, i, v)'
      BY <1>a, <1>0, <2>1, <3>1 DEF TPWaits
    <3>. QED BY <3>2 DEF v
  <2>. QED BY <1>a, <1>0, <2>1, <2>2, TPGoto_Inv
<1>. QED BY <1>1, <1>2, <1>3, <1>4, <1>5, <1>6, <1>7 DEF TPNext, TPStep

LEMMA TPInvariance == Spec => []TPInv
<1>1. Init => TPInv
  <2>. SUFFICES ASSUME Init PROVE TPInv
    OBVIOUS
  <2>1. \A s \in Starters : \A i \in DOMAIN TPSubtests[s] :
          /\ TPSubtests[s][i] \in Starters /\ TPSubtests[s][i] # TPTop /\ i > 0
          /\ Len(TPSubtests[s]) \in Nat
    BY TPTree
  <2>2. \A s \in Starters : Len(TPSubtests[s]) \in Nat
    BY TPAssumption DEF Starters
  <2>3. \A t \in TPTests : t \in Starters /\ t # TPTop
    BY TPAssumption DEF Starters
  <2>. QED BY <2>1, <2>2, <2>3 DEF Init, TPInit, TPInv, TPTypes, TPWaits
<1>2. TPInv /\ [Next]_vars => TPInv'
  BY PackageSteps, TPStep_Inv DEF vars
<1>. QED BY <1>1, <1>2, PTL DEF Spec

\* tparallel/README.md: for any tree of tests, a test runs alone among those of its
\* starter until it calls Parallel, and after that only when the function of the
\* starter is through.
THEOREM SequentialAlone == Spec => []TPSequentialAlone
<1>1. TPInv => TPSequentialAlone
  <2>. SUFFICES ASSUME TPInv, NEW s \in Starters, NEW t \in StartedBy(s), InFunction(t)
                PROVE  IF t \in tpIsParallel
                       THEN tpPc[s] \in {"wait", "close", "done"}
                       ELSE \A u \in StartedBy(s) \ {t} : ~InFunction(u)
    BY DEF TPSequentialAlone
  <2>1. ASSUME NEW u \in StartedBy(s), InFunction(u)
        PROVE  \/ u \in tpIsParallel /\ TPPast(s)
               \/ u \notin tpIsParallel /\ u = TPSubtests[s][tpNext[s]] /\ tpPc[s] = "select"
    <3>1. PICK i \in 1..tpNext[s] : u = TPSubtests[s][i]
      BY DEF StartedBy
    <3>2. i \in DOMAIN TPSubtests[s]
      BY TPAssumption, <3>1 DEF TPInv, TPTypes, Starters
    <3>3. TPWaits(s, i, u) /\ u \in TPTests
      BY <3>1, <3>2, TPTree DEF TPInv
    <3>4. u \notin tpEnded
      BY <2>1, <3>3 DEF TPInv, InFunction
    <3>. QED BY <2>1, <3>1, <3>3, <3>4 DEF TPWaits, InFunction, TPInv, TPTypes
  <2>. QED BY <2>1 DEF TPPast
<1>. QED BY <1>1, TPInvariance, PTL

\* The WaitGroup of a test counts its subtests that have not counted themselves
\* out, and a top-level test counts itself there, too.
TPAlive(t) == tpPc[t] \notin {"none", "close", "done"}
TPCounts(s, t) == t \in StartedBy(s) \/ (t = s /\ s \in TopTests)
TPCounted(s) == {t \in TPTests : TPAlive(t) /\ TPCounts(s, t)}

TPWgExact(s) == IsFiniteSet(TPCounted(s)) /\ tpWg[s] = Cardinality(TPCounted(s))

\* Among any tests that were started is one whose starter is not among them.
TPRooted ==
  \A some \in SUBSET {t \in TPTests : tpPc[t] # "none"} :
    some # {} => \E t \in some : \A s \in some : t \notin StartedBy(s)

\* A subtest outlasts its own subtests; only a top-level test may end before them,
\* and Run waits for these instead.
TPOutlasts ==
  /\ \A s \in TPTests \ TopTests : tpPc[s] \in {"close", "done"} =>
       \A t \in StartedBy(s) : ~TPAlive(t)
  /\ tpPc[TPTop] = "done" => \A t \in TopTests : TPCounted(t) = {}

TPWgInv ==
  /\ DOMAIN tpWg = TPTests
  /\ \A s \in TPTests : TPWgExact(s)
  /\ \A t \in TPTests : tpPc[t] # "none" => \E s \in Starters : t \in StartedBy(s)
  /\ TPRooted /\ TPOutlasts

LEMMA TPChild ==
  ASSUME TPInv, NEW s \in Starters, NEW t \in StartedBy(s)
  PROVE  /\ t \in TPTests /\ t \in Starters /\ t # s /\ t # TPTop
         /\ \A u \in Starters : t \in StartedBy(u) => u = s
         /\ tpPc[s] # "none"
<1>1. \A u \in Starters : \A i \in 1..tpNext[u] : i \in DOMAIN TPSubtests[u]
  BY TPAssumption DEF TPInv, TPTypes, Starters
<1>2. PICK i \in 1..tpNext[s] : t = TPSubtests[s][i]
  BY DEF StartedBy
<1>3. tpPc[s] # "none"
  BY <1>2 DEF TPInv, TPTypes
<1>. QED BY <1>1, <1>2, <1>3, TPTree DEF StartedBy

LEMMA TPStart_Inv ==
  ASSUME TPInv, TPWgInv, NEW s \in Starters, TPRun(s)
  PROVE  TPWgInv'
<1>0. PICK n, t, counted : /\ n = tpNext[s] + 1 /\ t = TPSubtests[s][n]
                           /\ counted = IF s = TPTop THEN t ELSE s
  OBVIOUS
<1>1. n \in DOMAIN TPSubtests[s] /\ n \in Nat /\ tpNext[s] \in Nat
  BY <1>0, TPAssumption DEF TPInv, TPTypes, TPRun, Starters
<1>2. t \in TPTests /\ t \in Starters /\ t # s /\ t # TPTop
  BY <1>0, <1>1, TPTree
<1>3. tpPc[t] = "none"
  BY <1>0, <1>1 DEF TPInv, TPWaits
<1>4. \A u \in Starters : t \notin StartedBy(u)
  <2>. SUFFICES ASSUME NEW u \in Starters, NEW i \in 1..tpNext[u], t = TPSubtests[u][i]
                PROVE  FALSE
    BY DEF StartedBy
  <2>1. i \in DOMAIN TPSubtests[u]
    BY TPAssumption DEF TPInv, TPTypes, Starters
  <2>2. u = s /\ n = i
    <3>1. TPSubtests[s][n] = TPSubtests[u][i]
      BY <1>0
    <3>. QED BY <1>1, <2>1, <3>1, TPTree
  <2>3. n \in 1..tpNext[s]
    BY <2>2
  <2>. QED BY <1>0, <1>1, <2>3
<1>5. /\ tpPc[s] = "body"
      /\ tpPc' = [tpPc EXCEPT ![s] = "select", ![t] = "body"]
      /\ tpNext' = [tpNext EXCEPT ![s] = n]
      /\ tpWg' = [tpWg EXCEPT ![counted] = @ + 1]
  BY <1>0 DEF TPRun
<1>6. StartedBy(s)' = StartedBy(s) \union {t}
  BY <1>0, <1>1, <1>5 DEF StartedBy, TPInv, TPTypes
<1>7. \A u \in Starters \ {s} : StartedBy(u)' = StartedBy(u)
  BY <1>5 DEF StartedBy, TPInv, TPTypes
<1>8. StartedBy(t) = {} /\ t \notin TopTests
  <2>1. StartedBy(t) = {}
    BY <1>2, <1>3, TPChild
  <2>. QED BY <1>4, <2>1 DEF TopTests, Starters
<1>9. counted \in TPTests
  BY <1>0, <1>2 DEF Starters
<1>10. \A u \in Starters : tpPc'[u] = IF u = s THEN "select" ELSE IF u = t THEN "body" ELSE tpPc[u]
  BY <1>2, <1>5 DEF TPInv, TPTypes
<1>11. TopTests' = IF s = TPTop THEN TopTests \union {t} ELSE TopTests
  BY <1>6, <1>7 DEF TopTests, Starters
<1>12. \A u \in TPTests : u \in Starters
  BY DEF Starters
<1>13. ~TPAlive(t) /\ TPAlive(t)' /\ \A u \in Starters \ {t} : TPAlive(u)' <=> TPAlive(u)
  <2>1. tpPc'[t] = "body"
    BY <1>2, <1>10
  <2>2. TPAlive(s)' /\ TPAlive(s)
    <3>1. tpPc[s] = "body" /\ tpPc'[s] = "select"
      BY <1>5, <1>10
    <3>. QED BY <3>1 DEF TPAlive
  <2>3. \A u \in Starters \ {s, t} : TPAlive(u)' <=> TPAlive(u)
    BY <1>10 DEF TPAlive
  <2>. QED BY <1>3, <2>1, <2>2, <2>3 DEF TPAlive
<1>14. \A u, v \in TPTests : v # t => (TPCounts(u, v)' <=> TPCounts(u, v))
  BY <1>6, <1>7, <1>11, <1>12 DEF TPCounts
<1>15. \A u \in TPTests : ~TPCounts(u, t) /\ (TPCounts(u, t)' <=> u = counted)
  <2>1. \A u \in TPTests : ~TPCounts(u, t)
    BY <1>4, <1>8, <1>12 DEF TPCounts
  <2>2. CASE s = TPTop
    <3>1. t \in TopTests' /\ \A u \in TPTests : StartedBy(u)' = StartedBy(u)
      BY <1>7, <1>11, <1>12, <2>2, TPAssumption
    <3>. QED BY <1>0, <1>2, <1>4, <1>12, <2>1, <2>2, <3>1 DEF TPCounts
  <2>3. CASE s # TPTop
    BY <1>0, <1>2, <1>4, <1>6, <1>7, <1>8, <1>11, <1>12, <2>1, <2>3 DEF TPCounts
  <2>. QED BY <2>1, <2>2, <2>3
<1>16. TPCounted(counted)' = TPCounted(counted) \union {t} /\ t \notin TPCounted(counted)
  BY <1>2, <1>9, <1>12, <1>13, <1>14, <1>15 DEF TPCounted
<1>17. \A u \in TPTests \ {counted} : TPCounted(u)' = TPCounted(u)
  BY <1>2, <1>12, <1>13, <1>14, <1>15 DEF TPCounted
<1>18. DOMAIN tpWg' = TPTests /\ \A u \in TPTests : TPWgExact(u)'
  <2>1. TPWgExact(counted)'
    <3>1. IsFiniteSet(TPCounted(counted)) /\ tpWg[counted] = Cardinality(TPCounted(counted))
      BY <1>9 DEF TPWgInv, TPWgExact
    <3>2. tpWg'[counted] = tpWg[counted] + 1
      BY <1>5, <1>9 DEF TPWgInv
    <3>. QED BY <1>16, <3>1, <3>2, FS_AddElement DEF TPWgExact
  <2>2. ASSUME NEW u \in TPTests \ {counted} PROVE TPWgExact(u)'
    <3>1. tpWg'[u] = tpWg[u]
      BY <1>5 DEF TPWgInv
    <3>. QED BY <1>17, <3>1 DEF TPWgInv, TPWgExact
  <2>. QED BY <1>5, <2>1, <2>2 DEF TPWgInv
<1>19. \A u \in TPTests : tpPc'[u] # "none" => \E v \in Starters : u \in StartedBy(v)'
  <2>. TAKE u \in TPTests
  <2>. HAVE tpPc'[u] # "none"
  <2>1. CASE u = t
    BY <1>6, <2>1
  <2>2. CASE u # t
    <3>1. tpPc[u] # "none"
      BY <1>5, <1>10, <1>12, <2>2
    <3>2. PICK v \in Starters : u \in StartedBy(v)
      BY <3>1 DEF TPWgInv
    <3>. QED BY <1>6, <1>7, <3>2
  <2>. QED BY <2>1, <2>2
<1>20. TPRooted'
  <2>. SUFFICES ASSUME NEW some \in SUBSET {u \in TPTests : tpPc'[u] # "none"}, some # {}
                PROVE  \E u \in some : \A v \in some : u \notin StartedBy(v)'
    BY DEF TPRooted
  <2>1. some \ {t} \subseteq {u \in TPTests : tpPc[u] # "none"}
    BY <1>5, <1>10, <1>12
  <2>2. CASE some \ {t} = {}
    BY <1>2, <1>7, <1>8, <2>2
  <2>3. CASE some \ {t} # {}
    <3>1. PICK u \in some \ {t} : \A v \in some \ {t} : u \notin StartedBy(v)
      BY <2>1, <2>3 DEF TPWgInv, TPRooted
    <3>. QED BY <1>2, <1>6, <1>7, <1>8, <1>12, <3>1
  <2>. QED BY <2>2, <2>3
<1>21. TPOutlasts'
  <2>1. ASSUME NEW u \in TPTests \ TopTests', tpPc'[u] \in {"close", "done"}, NEW v \in StartedBy(u)'
        PROVE  ~TPAlive(v)'
    <3>1. u # s /\ u # t /\ tpPc[u] \in {"close", "done"} /\ u \notin TopTests
      BY <1>10, <1>11, <1>12, <2>1
    <3>2. v \in StartedBy(u) /\ v # t
      BY <1>4, <1>7, <1>12, <2>1, <3>1
    <3>. QED BY <1>12, <1>13, <3>1, <3>2, TPChild DEF TPWgInv, TPOutlasts
  <2>2. ASSUME tpPc'[TPTop] = "done", NEW u \in TopTests'
        PROVE  TPCounted(u)' = {}
    <3>1. TPTop \in Starters /\ s # TPTop /\ tpPc[TPTop] = "done"
      BY <1>2, <1>10, <2>2 DEF Starters
    <3>2. u \in TopTests /\ u \in TPTests
      BY <1>11, <2>2, <3>1, TPChild DEF TopTests
    <3>3. TPCounted(u) = {}
      BY <3>1, <3>2 DEF TPWgInv, TPOutlasts
    <3>4. u # counted
      BY <1>0, <1>5, <3>1, <3>2, <3>3 DEF TPCounted, TPCounts, TPAlive
    <3>. QED BY <1>17, <3>2, <3>3, <3>4
  <2>. QED BY <2>1, <2>2 DEF TPOutlasts
<1>. QED BY <1>18, <1>19, <1>20, <1>21 DEF TPWgInv

\* The steps that start nobody: r goes from where it is to l.
LEMMA TPGoOn_Inv ==
  ASSUME TPInv, TPWgInv, NEW r \in Starters, UNCHANGED tpNext,
         NEW l, l # "none", tpPc[r] # "none", tpPc' = [tpPc EXCEPT ![r] = l],
         TPAlive(r)' => TPAlive(r),
         DOMAIN tpWg' = TPTests, \A s \in TPTests : TPWgExact(s)',
         r \in TPTests \ TopTests /\ l \in {"close", "done"} =>
           \A t \in StartedBy(r) : ~TPAlive(t),
         r = TPTop /\ l = "done" => \A t \in TopTests : TPCounted(t) = {}
  PROVE  TPWgInv'
<1>1. \A u : StartedBy(u)' = StartedBy(u)
  BY DEF StartedBy
<1>2. TopTests' = TopTests
  BY <1>1 DEF TopTests
<1>3. \A u \in Starters : tpPc'[u] = IF u = r THEN l ELSE tpPc[u]
  BY DEF TPInv, TPTypes
<1>4. \A u \in TPTests : u \in Starters
  BY DEF Starters
<1>5. \A u \in Starters : TPAlive(u)' => TPAlive(u)
  BY <1>3 DEF TPAlive
<1>6. \A u \in TPTests : TPCounted(u)' \subseteq TPCounted(u)
  BY <1>1, <1>2, <1>4, <1>5 DEF TPCounted, TPCounts
<1>7. \A u \in TPTests : tpPc'[u] # "none" <=> tpPc[u] # "none"
  BY <1>3, <1>4
<1>8. TPRooted'
  <2>1. {u \in TPTests : tpPc'[u] # "none"} = {u \in TPTests : tpPc[u] # "none"}
    BY <1>7
  <2>. QED BY <1>1, <2>1 DEF TPWgInv, TPRooted
<1>9. TPOutlasts'
  <2>1. ASSUME NEW u \in TPTests \ TopTests', tpPc'[u] \in {"close", "done"}, NEW v \in StartedBy(u)'
        PROVE  ~TPAlive(v)'
    <3>1. v \in StartedBy(u) /\ v \in Starters /\ u \in TPTests \ TopTests
      BY <1>1, <1>2, <1>4, <2>1, TPChild
    <3>2. ~TPAlive(v)
      BY <1>3, <1>4, <2>1, <3>1 DEF TPWgInv, TPOutlasts
    <3>. QED BY <1>5, <3>1, <3>2
  <2>2. ASSUME tpPc'[TPTop] = "done", NEW u \in TopTests'
        PROVE  TPCounted(u)' = {}
    <3>1. TPTop \in Starters
      BY DEF Starters
    <3>2. u \in TopTests /\ u \in TPTests
      BY <1>2, <2>2, <3>1, TPChild DEF TopTests
    <3>3. TPCounted(u) = {}
      BY <1>3, <2>2, <3>1, <3>2 DEF TPWgInv, TPOutlasts
    <3>. QED BY <1>6, <3>2, <3>3
  <2>. QED BY <2>1, <2>2 DEF TPOutlasts
<1>10. \A u \in TPTests : tpPc'[u] # "none" => \E v \in Starters : u \in StartedBy(v)'
  BY <1>1, <1>7 DEF TPWgInv
<1>. QED BY <1>8, <1>9, <1>10 DEF TPWgInv

\* A step of a test that goes on or has ended, and of Run.
LEMMA TPGoOnUncounted_Inv ==
  ASSUME TPInv, TPWgInv, NEW r \in Starters, UNCHANGED <<tpNext, tpWg>>,
         NEW l, l # "none", tpPc[r] # "none", tpPc' = [tpPc EXCEPT ![r] = l],
         r \in TPTests => (TPAlive(r)' <=> TPAlive(r)),
         TPAlive(r)' => TPAlive(r),
         r = TPTop /\ l = "done" => \A t \in TopTests : TPCounted(t) = {}
  PROVE  TPWgInv'
<1>1. \A u \in Starters : tpPc'[u] = IF u = r THEN l ELSE tpPc[u]
  BY DEF TPInv, TPTypes
<1>2. \A u \in TPTests : TPAlive(u)' <=> TPAlive(u)
  BY <1>1 DEF TPAlive, Starters
<1>3. \A u \in TPTests : TPCounted(u)' = TPCounted(u)
  BY <1>2 DEF TPCounted, TPCounts, StartedBy, TopTests
<1>4. \A u \in TPTests : TPWgExact(u)'
  BY <1>3 DEF TPWgInv, TPWgExact
<1>5. r \in TPTests \ TopTests /\ l \in {"close", "done"} =>
        \A t \in StartedBy(r) : ~TPAlive(t)
  BY <1>1, <1>2 DEF TPAlive, TPWgInv, TPOutlasts
<1>. QED BY <1>4, <1>5, TPGoOn_Inv DEF TPWgInv

\* A test counts itself out, of the one WaitGroup that counts it.
LEMMA TPCountOut_Inv ==
  ASSUME TPInv, TPWgInv, NEW r \in TPTests, UNCHANGED tpNext,
         TPAlive(r), tpPc' = [tpPc EXCEPT ![r] = "close"],
         NEW c \in TPTests, TPCounts(c, r), tpWg' = [tpWg EXCEPT ![c] = @ - 1],
         r \notin TopTests => \A t \in StartedBy(r) : ~TPAlive(t)
  PROVE  TPWgInv'
<1>1. r \in Starters /\ \A u \in TPTests : u \in Starters
  BY DEF Starters
<1>2. \A u \in Starters : tpPc'[u] = IF u = r THEN "close" ELSE tpPc[u]
  BY DEF TPInv, TPTypes
<1>3. ~TPAlive(r)' /\ \A u \in TPTests \ {r} : TPAlive(u)' <=> TPAlive(u)
  BY <1>1, <1>2 DEF TPAlive
<1>4. \A u, v \in TPTests : TPCounts(u, v)' <=> TPCounts(u, v)
  BY DEF TPCounts, StartedBy, TopTests
<1>5. \A u \in TPTests \ {c} : ~TPCounts(u, r)
  <2>. TPTop \in Starters /\ TPTop \notin TPTests
    BY TPAssumption DEF Starters
  <2>. QED BY <1>1, TPChild DEF TPCounts, TopTests
<1>6. r \in TPCounted(c) /\ TPCounted(c)' = TPCounted(c) \ {r}
  BY <1>3, <1>4 DEF TPCounted
<1>7. \A u \in TPTests \ {c} : TPCounted(u)' = TPCounted(u)
  BY <1>3, <1>4, <1>5 DEF TPCounted
<1>8. TPWgExact(c)'
  <2>1. IsFiniteSet(TPCounted(c)) /\ tpWg[c] = Cardinality(TPCounted(c)) /\ tpWg'[c] = tpWg[c] - 1
    BY DEF TPWgInv, TPWgExact
  <2>. QED BY <1>6, <2>1, FS_RemoveElement DEF TPWgExact
<1>9. \A u \in TPTests \ {c} : TPWgExact(u)'
  BY <1>7 DEF TPWgInv, TPWgExact
<1>10. DOMAIN tpWg' = TPTests /\ tpPc[r] # "none" /\ r # TPTop
  BY TPAssumption DEF TPWgInv, TPAlive
<1>. QED BY <1>1, <1>3, <1>8, <1>9, <1>10, TPGoOn_Inv

\* What a counter of zero tells.
LEMMA TPZero ==
  ASSUME TPWgInv, NEW s \in TPTests, tpWg[s] = 0
  PROVE  TPCounted(s) = {}
BY FS_EmptySet DEF TPWgInv, TPWgExact

LEMMA TPWgStep_Inv == TPInv /\ TPWgInv /\ [TPNext]_tpvars => TPWgInv'
<1>. SUFFICES ASSUME TPInv, TPWgInv, [TPNext]_tpvars PROVE TPWgInv'
  OBVIOUS
<1>1. CASE UNCHANGED tpvars
  <2>1. UNCHANGED <<tpPc, tpNext, tpWg>>
    BY <1>1 DEF tpvars
  <2>2. \A u : /\ StartedBy(u)' = StartedBy(u) /\ TPAlive(u)' = TPAlive(u)
              /\ TPCounted(u)' = TPCounted(u)
    BY <2>1 DEF StartedBy, TPAlive, TPCounted, TPCounts, TopTests
  <2>3. TopTests' = TopTests /\ \A u \in TPTests : TPWgExact(u)'
    BY <2>1, <2>2 DEF TPWgInv, TPWgExact, TopTests
  <2>4. TPRooted' /\ TPOutlasts'
    BY <2>1, <2>2, <2>3 DEF TPWgInv, TPRooted, TPOutlasts
  <2>. QED BY <2>1, <2>2, <2>3, <2>4 DEF TPWgInv
<1>2. ASSUME NEW s \in Starters, TPRun(s) PROVE TPWgInv'
  BY <1>2, TPStart_Inv
<1>3. ASSUME NEW s \in Starters,
             TPSelect(s) \/ TPBroadcast(s) \/ (TPEnd(s) /\ s \notin TopTests)
      PROVE  TPWgInv'
  <2>1. PICK l \in {"body", "broadcast", "wait"} :
          /\ tpPc[s] \in {"body", "select", "broadcast"} /\ tpPc' = [tpPc EXCEPT ![s] = l]
          /\ UNCHANGED <<tpNext, tpWg>>
    BY <1>3 DEF TPSelect, TPBroadcast, TPEnd, TPGoto
  <2>2. TPAlive(s) /\ TPAlive(s)'
    <3>1. tpPc'[s] = l
      BY <2>1 DEF TPInv, TPTypes
    <3>. QED BY <2>1, <3>1 DEF TPAlive
  <2>. QED BY <2>1, <2>2, TPGoOnUncounted_Inv
<1>4. ASSUME NEW s \in Starters, TPEnd(s), s \in TopTests PROVE TPWgInv'
  <2>1. /\ tpPc[s] = "body" /\ tpPc' = [tpPc EXCEPT ![s] = "close"]
        /\ tpWg' = [tpWg EXCEPT ![s] = @ - 1] /\ UNCHANGED tpNext
    BY <1>4 DEF TPEnd, TPGoto
  <2>2. s \in TPTests /\ TPCounts(s, s) /\ TPAlive(s)
    BY <1>4, <2>1, TPChild DEF TopTests, Starters, TPCounts, TPAlive
  <2>. QED BY <1>4, <2>1, <2>2, TPCountOut_Inv
<1>5. ASSUME NEW s \in Starters, TPWait(s) PROVE TPWgInv'
  <2>1. CASE s = TPTop /\ UNCHANGED tpWg /\ TPGoto(s, "done") /\ \A t \in TopTests : tpWg[t] = 0
    <3>1. /\ tpPc[s] = "wait" /\ tpPc' = [tpPc EXCEPT ![s] = "done"] /\ UNCHANGED tpNext
          /\ s \notin TPTests
      BY <1>5, <2>1, TPAssumption DEF TPWait, TPGoto
    <3>2. \A t \in TopTests : TPCounted(t) = {}
      BY <2>1, TPZero, TPChild DEF TopTests, Starters
    <3>3. TPAlive(s)' => TPAlive(s)
      BY <3>1 DEF TPAlive
    <3>. QED BY <2>1, <3>1, <3>2, <3>3, TPGoOnUncounted_Inv
  <2>2. ASSUME NEW parent \in TPTests, s \in StartedBy(parent), tpWg[s] = 0,
               tpWg' = [tpWg EXCEPT ![parent] = @ - 1], TPGoto(s, "close")
        PROVE  TPWgInv'
    <3>1. s \in TPTests /\ TPAlive(s) /\ UNCHANGED tpNext /\ TPCounts(parent, s)
      BY <1>5, <2>2, TPChild DEF TPWait, TPAlive, TPCounts, Starters
    <3>2. \A t \in StartedBy(s) : ~TPAlive(t)
      BY <1>5, <2>2, <3>1, TPZero, TPChild DEF TPCounted, TPCounts
    <3>. QED BY <2>2, <3>1, <3>2, TPCountOut_Inv DEF TPGoto
  <2>. QED BY <1>5, <2>1, <2>2 DEF TPWait
<1>6. ASSUME NEW t \in TPTests,
             TPParallelClose(t) \/ TPParallelSleep(t) \/ TPParallelReturn(t) \/ TPClose(t)
      PROVE  TPWgInv'
  <2>1. PICK l \in {"parallel", "sleep", "body", "done"} :
          /\ tpPc' = [tpPc EXCEPT ![t] = l] /\ UNCHANGED <<tpNext, tpWg>>
          /\ tpPc[t] \in IF l = "done" THEN {"close"} ELSE {"body", "parallel", "sleep"}
    BY <1>6 DEF TPParallelClose, TPParallelSleep, TPParallelReturn, TPClose, TPGoto
  <2>2. t \in Starters /\ t # TPTop
    BY TPAssumption DEF Starters
  <2>3. TPAlive(t)' <=> TPAlive(t)
    <3>1. tpPc'[t] = l
      BY <2>1, <2>2 DEF TPInv, TPTypes
    <3>. QED BY <2>1, <3>1 DEF TPAlive
  <2>4. l # "none" /\ tpPc[t] # "none"
    BY <2>1
  <2>. QED BY <2>1, <2>2, <2>3, <2>4, TPGoOnUncounted_Inv
<1>. QED BY <1>1, <1>2, <1>3, <1>4, <1>5, <1>6 DEF TPNext, TPStep

\* tparallel/README.md: for any tree of tests, when Run returns every test that was
\* started has ended.  Run itself waits for the top-level tests and their subtests
\* alone; the deeper ones have ended because a subtest outlasts its own.
THEOREM RunWaitsForAll == Spec => []TPRunWaitsForAll
<1>1. Init => TPWgInv
  <2>. SUFFICES ASSUME Init PROVE TPWgInv
    OBVIOUS
  <2>1. \A s \in Starters : StartedBy(s) = {}
    BY DEF Init, TPInit, StartedBy
  <2>2. \A t \in TPTests : tpPc[t] = "none" /\ t \in Starters
    BY TPAssumption DEF Init, TPInit, Starters
  <2>3. TPTop \in Starters /\ tpPc[TPTop] = "body"
    BY DEF Init, TPInit, Starters
  <2>4. \A s \in TPTests : TPCounted(s) = {} /\ tpWg[s] = 0
    BY <2>2 DEF TPCounted, TPAlive, Init, TPInit
  <2>5. \A s \in TPTests : TPWgExact(s)
    BY <2>4, FS_EmptySet DEF TPWgExact
  <2>6. TPRooted
    <3>1. {t \in TPTests : tpPc[t] # "none"} = {}
      BY <2>2
    <3>. QED BY <3>1 DEF TPRooted
  <2>7. TPOutlasts
    <3>1. TopTests = {} /\ \A s \in TPTests : s \in Starters
      BY <2>1, <2>3 DEF TopTests, Starters
    <3>. QED BY <2>1, <2>3, <3>1 DEF TPOutlasts
  <2>8. DOMAIN tpWg = TPTests
    BY DEF Init, TPInit
  <2>. QED BY <2>2, <2>5, <2>6, <2>7, <2>8 DEF TPWgInv
<1>2. TPInv /\ TPWgInv /\ [Next]_vars => TPWgInv'
  BY PackageSteps, TPWgStep_Inv DEF vars
<1>3. TPInv /\ TPWgInv => TPRunWaitsForAll
  <2>. SUFFICES ASSUME TPInv, TPWgInv, tpPc[TPTop] = "done",
                       NEW t0 \in TPTests, TPAlive(t0)
                PROVE  FALSE
    BY DEF TPRunWaitsForAll, TPAlive
  <2>. DEFINE alive == {t \in TPTests : TPAlive(t)}
  <2>1. PICK t \in alive : \A s \in alive : t \notin StartedBy(s)
    <3>1. alive \in SUBSET {t \in TPTests : tpPc[t] # "none"} /\ t0 \in alive
      BY DEF TPAlive
    <3>. QED BY <3>1 DEF TPWgInv, TPRooted
  <2>2. PICK s \in Starters : t \in StartedBy(s)
    BY <2>1 DEF TPWgInv, TPAlive
  <2>3. CASE s = TPTop
    <3>1. t \in TPCounted(t) /\ t \in TopTests
      BY <2>1, <2>2, <2>3 DEF TPCounted, TPCounts, TopTests
    <3>. QED BY <3>1 DEF TPWgInv, TPOutlasts
  <2>4. CASE s \in TopTests
    <3>1. t \in TPCounted(s)
      BY <2>1, <2>2 DEF TPCounted, TPCounts
    <3>. QED BY <2>4, <3>1 DEF TPWgInv, TPOutlasts
  <2>5. CASE s # TPTop /\ s \notin TopTests
    <3>1. s \in TPTests /\ s \notin alive
      BY <2>1, <2>2, <2>5 DEF Starters
    <3>2. tpPc[s] \in {"close", "done"}
      BY <2>2, <3>1, TPChild DEF TPAlive
    <3>. QED BY <2>1, <2>2, <2>5, <3>1, <3>2 DEF TPWgInv, TPOutlasts
  <2>. QED BY <2>3, <2>4, <2>5
<1>. QED BY <1>1, <1>2, <1>3, TPInvariance, PTL DEF Spec
=============================================================================
