---------------------------- MODULE DupCallProofs ----------------------------
(***************************************************************************)
(* Proofs about DupCall, for any finite set of calls.  DupInv holds at any *)
(* interleaving and whatever is cancelled; CalmInv says where the calls    *)
(* that share one cb are, and where the call that leads them is.           *)
(***************************************************************************)
EXTENDS DupCall, FiniteSetTheorems, TLAPS

Counted == {d \in Calls : pc[d] \in {"makech", "start", "readch", "select"}}
HasStored(d) == cb[d] \in {"stored", "flagged", "ended", "panicked"}

\* o.ch is set for good before the goroutine that closes it is started, which
\* is started once.
ChannelExists ==
  \A d \in Calls :
    /\ pc[d] \in {"start", "readch"} \/ cb[d] # "none" => ch # None
    /\ pc[d] \in {"idle", "count", "makech", "start"} => cb[d] = "none"

\* o.res is set for good, by a cb, before any channel is closed.
ResultExists ==
  /\ res # None => HasStored(res)
  /\ closed # {} => res # None
  /\ \A d \in Calls : HasStored(d) => res # None

DupInv ==
  /\ TypeOK /\ CountIsExact
  /\ ChannelExists /\ ResultExists /\ ResultComesFromCb

LEMMA DupInit_Inv == Init => DupInv
<1> SUFFICES ASSUME Init PROVE DupInv
  OBVIOUS
<1>1. TypeOK
  BY DEF Init, TypeOK
<1>2. CountIsExact
  <2>1. {d \in Calls : pc[d] \in {"makech", "start", "readch", "select"}} = {}
    BY DEF Init
  <2> QED
    BY <2>1, FS_EmptySet DEF Init, CountIsExact
<1>3. ChannelExists /\ ResultExists /\ ResultComesFromCb
  BY DEF Init, ChannelExists, ResultExists, ResultComesFromCb, HasStored
<1> QED
  BY <1>1, <1>2, <1>3 DEF DupInv

(* A step that leaves the counted pcs to the others: what happens to d     *)
(* alone decides about the cardinality.                                    *)
LEMMA CountedStep ==
  ASSUME NEW d \in Calls, \A e \in Calls \ {d} : pc'[e] = pc[e]
  PROVE  /\ d \in Counted' <=> d \in Counted => Counted' = Counted
         /\ d \in Counted' /\ d \notin Counted =>
              Cardinality(Counted') = Cardinality(Counted) + 1
         /\ d \notin Counted' /\ d \in Counted =>
              Cardinality(Counted') = Cardinality(Counted) - 1
         /\ Cardinality(Counted) \in Nat
         /\ d \in Counted => Cardinality(Counted) > 0
<1>1. IsFiniteSet(Counted)
  BY DupCallAssumption, FS_Subset, Counted \subseteq Calls DEF Counted
<1>2. Counted' \subseteq Calls /\ Counted \subseteq Calls
  BY DEF Counted
<1>3. \A e \in Calls \ {d} : e \in Counted' <=> e \in Counted
  BY DEF Counted
<1>4. (d \in Counted' <=> d \in Counted) => Counted' = Counted
  BY <1>2, <1>3
<1>5. d \in Counted' /\ d \notin Counted => Counted' = Counted \union {d}
  BY <1>2, <1>3
<1>6. d \notin Counted' /\ d \in Counted => Counted' = Counted \ {d}
  BY <1>2, <1>3
<1>7. Cardinality(Counted) \in Nat /\ (d \in Counted => Cardinality(Counted) # 0)
  BY <1>1, FS_CardinalityType, FS_EmptySet
<1> QED
  BY <1>1, <1>4, <1>5, <1>6, <1>7, FS_AddElement, FS_RemoveElement

(* The steps, by what they do to the counter.                              *)
LEMMA CountStep ==
  ASSUME TypeOK, CountIsExact, [Next]_vars
  PROVE  CountIsExact' /\ cntRunning' \in Nat
<1> DEFINE InDo(d) == pc[d] \in {"makech", "start", "readch", "select"}
<1>0. cntRunning = Cardinality(Counted)
  BY DEF CountIsExact, Counted
<1>1. SUFFICES cntRunning' = Cardinality(Counted') /\ cntRunning' \in Nat
  BY DEF CountIsExact, Counted
<1>2. ASSUME NEW d \in Calls, \A e \in Calls \ {d} : pc'[e] = pc[e],
             cntRunning' = cntRunning, InDo(d)' <=> InDo(d)
      PROVE  cntRunning' = Cardinality(Counted') /\ cntRunning' \in Nat
  <2>1. d \in Counted' <=> d \in Counted
    BY <1>2 DEF Counted
  <2> QED
    BY <1>0, <1>2, <2>1, CountedStep
<1>3. ASSUME NEW d \in Calls,
             \/ Begin(d) \/ MakeCh(d) \/ StartCb(d) \/ ReadCh(d) \/ Follow(d)
             \/ Wake(d) \/ Take(d) \/ CancelCb(d) \/ Clear(d) \/ Recheck(d)
      PROVE  cntRunning' = Cardinality(Counted') /\ cntRunning' \in Nat
  <2>1. /\ \A e \in Calls \ {d} : pc'[e] = pc[e]
        /\ cntRunning' = cntRunning /\ (InDo(d)' <=> InDo(d))
    BY <1>3 DEF Begin, MakeCh, StartCb, ReadCh, Follow, Wake, Take, CancelCb,
                Clear, Recheck, Goto, TypeOK, shared
  <2> QED
    BY <1>2, <2>1
<1>4. ASSUME NEW d \in Calls, Count(d) \/ Join(d) \/ Select(d)
      PROVE  cntRunning' = Cardinality(Counted') /\ cntRunning' \in Nat
  <2>1. \A e \in Calls \ {d} : pc'[e] = pc[e]
    BY <1>4 DEF Count, Join, Select, Goto, TypeOK
  <2>2. CASE Count(d) \/ (Join(d) /\ d \notin ctxDone)
    <3>1. d \notin Counted /\ d \in Counted' /\ cntRunning' = cntRunning + 1
      BY <2>2 DEF Count, Join, Goto, TypeOK, Counted
    <3> QED
      BY <1>0, <2>1, <3>1, CountedStep
  <2>3. CASE Join(d) /\ d \in ctxDone
    BY <1>2, <2>1, <2>3 DEF Join, Goto, TypeOK
  <2>4. CASE Select(d)
    <3>1. d \in Counted /\ d \notin Counted' /\ cntRunning' = cntRunning - 1
      BY <2>4 DEF Select, Goto, TypeOK, Counted
    <3> QED
      BY <1>0, <2>1, <3>1, CountedStep
  <2> QED
    BY <1>4, <2>2, <2>3, <2>4
<1>5. ASSUME UNCHANGED <<pc, cntRunning>>
      PROVE  cntRunning' = Cardinality(Counted') /\ cntRunning' \in Nat
  BY <1>0, <1>5 DEF Counted, TypeOK
<1>6. ASSUME NEW d \in Calls, CancelCtx(d) \/ CbStep(d)
      PROVE  UNCHANGED <<pc, cntRunning>>
  BY <1>6 DEF CancelCtx, CbStep, Return, Store, Flag, Close, shared, locals
<1> QED
  BY <1>3, <1>4, <1>5, <1>6 DEF Next, DoStep, vars, shared, locals

LEMMA TypeStep ==
  ASSUME DupInv, [Next]_vars
  PROVE  TypeOK'
<1> USE DEF TypeOK, DupInv
<1>1. cntRunning' \in Nat
  BY CountStep
<1>2. ASSUME NEW d \in Calls, Begin(d) \/ Count(d) \/ MakeCh(d) PROVE TypeOK'
  <2>1. CASE Begin(d)
    <3>1. calm' \in BOOLEAN
      BY <2>1 DEF Begin
    <3>2. \E l \in {"count", "follow"} : pc' = [pc EXCEPT ![d] = l]
      BY <2>1 DEF Begin, Goto
    <3> QED
      BY <1>1, <2>1, <3>1, <3>2 DEF Begin
  <2> QED
    BY <1>1, <1>2, <2>1 DEF Count, MakeCh, Goto
<1>3. ASSUME NEW d \in Calls, StartCb(d) \/ ReadCh(d) PROVE TypeOK'
  BY <1>1, <1>3 DEF StartCb, ReadCh, Goto, shared
<1>4. ASSUME NEW d \in Calls, Follow(d) PROVE TypeOK'
  BY <1>1, <1>4 DEF Follow, Goto, shared
<1>5. ASSUME NEW d \in Calls, Wake(d) PROVE TypeOK'
  BY <1>1, <1>5 DEF Wake, Goto, shared
<1>6. ASSUME NEW d \in Calls, Join(d) PROVE TypeOK'
  BY <1>1, <1>6 DEF Join, Goto
<1>7. ASSUME NEW d \in Calls, Select(d) PROVE TypeOK'
  <2>1. last' \in [Calls -> BOOLEAN]
    BY <1>7 DEF Select
  <2>2. pc' \in [Calls -> {"idle", "count", "makech", "start", "readch", "follow",
                           "wait", "join", "select", "take", "cancel", "clear",
                           "recheck", "done"}]
    BY <1>7 DEF Select, Goto
  <2> QED
    BY <1>1, <1>7, <2>1, <2>2 DEF Select
<1>8. ASSUME NEW d \in Calls, Take(d) \/ CancelCb(d) PROVE TypeOK'
  BY <1>1, <1>8 DEF Take, CancelCb, Goto, shared
<1>9. ASSUME NEW d \in Calls, Clear(d) \/ Recheck(d) PROVE TypeOK'
  BY <1>1, <1>9 DEF Clear, Recheck, Goto, shared
<1>10. ASSUME NEW d \in Calls, CancelCtx(d) \/ Return(d) \/ Store(d) \/ Flag(d)
       PROVE  TypeOK'
  <2>1. CASE CancelCtx(d)
    BY <2>1 DEF CancelCtx, shared, locals
  <2>2. CASE Return(d) \/ Flag(d)
    BY <2>2 DEF Return, Flag, SetCb, shared, locals
  <2>3. CASE Store(d)
    BY <2>3 DEF Store, SetCb, locals
  <2> QED
    BY <1>10, <2>1, <2>2, <2>3
<1>11. ASSUME NEW d \in Calls, Close(d) PROVE TypeOK'
  <2>1. ch \in Calls
    BY <1>11 DEF Close, ChannelExists
  <2> QED
    BY <1>11, <2>1 DEF Close, SetCb, locals
<1>12. CASE UNCHANGED vars
  BY <1>12 DEF vars, shared, locals
<1> QED
  BY <1>2, <1>3, <1>4, <1>5, <1>6, <1>7, <1>8, <1>9, <1>10, <1>11, <1>12
     DEF Next, DoStep, CbStep

LEMMA ChannelStep ==
  ASSUME DupInv, [Next]_vars
  PROVE  ChannelExists'
<1> USE DEF TypeOK, DupInv, ChannelExists
<1>1. ASSUME NEW d \in Calls, MakeCh(d) \/ StartCb(d)
      PROVE  ChannelExists'
  BY <1>1, DupCallAssumption DEF MakeCh, StartCb, Goto
<1>2. ASSUME NEW d \in Calls,
             \/ Begin(d) \/ Count(d) \/ ReadCh(d) \/ Follow(d) \/ Wake(d)
             \/ Join(d) \/ Select(d) \/ Take(d) \/ CancelCb(d) \/ Clear(d)
             \/ Recheck(d) \/ CancelCtx(d)
      PROVE  ChannelExists'
  BY <1>2 DEF Begin, Count, ReadCh, Follow, Wake, Join, Select, Take, CancelCb,
              Clear, Recheck, CancelCtx, Goto, shared, locals
<1>3. ASSUME NEW d \in Calls, CbStep(d)
      PROVE  ChannelExists'
  BY <1>3 DEF CbStep, Return, Store, Flag, Close, SetCb, shared, locals
<1>4. CASE UNCHANGED vars
  BY <1>4 DEF vars, shared, locals
<1> QED
  BY <1>1, <1>2, <1>3, <1>4 DEF Next, DoStep

LEMMA ResultStep ==
  ASSUME DupInv, [Next]_vars
  PROVE  ResultExists' /\ ResultComesFromCb'
<1> USE DEF TypeOK, DupInv, ResultExists, ResultComesFromCb, HasStored
<1>1. ASSUME NEW d \in Calls, Take(d) \/ Recheck(d) \/ Select(d)
      PROVE  ResultExists' /\ ResultComesFromCb'
  BY <1>1 DEF Take, Recheck, Select, Goto, shared
<1>2. ASSUME NEW d \in Calls,
             \/ Begin(d) \/ Count(d) \/ MakeCh(d) \/ ReadCh(d) \/ Follow(d)
             \/ Wake(d) \/ Join(d) \/ CancelCb(d) \/ Clear(d) \/ CancelCtx(d)
      PROVE  ResultExists' /\ ResultComesFromCb'
  BY <1>2 DEF Begin, Count, MakeCh, ReadCh, Follow, Wake, Join, CancelCb, Clear,
              CancelCtx, Goto, shared, locals
<1>3. ASSUME NEW d \in Calls, StartCb(d)
      PROVE  ResultExists' /\ ResultComesFromCb'
  BY <1>3 DEF StartCb, Goto, ChannelExists
<1>4. ASSUME NEW d \in Calls, CbStep(d)
      PROVE  ResultExists' /\ ResultComesFromCb'
  BY <1>4, DupCallAssumption DEF CbStep, Return, Store, Flag, Close, SetCb, shared, locals
<1>5. CASE UNCHANGED vars
  BY <1>5 DEF vars, shared, locals
<1> QED
  BY <1>1, <1>2, <1>3, <1>4, <1>5 DEF Next, DoStep

(* The count is what the code's comment on cntRunning needs: at every      *)
(* interleaving the call that brings it to 0 is the last one counted.      *)
THEOREM DupInvariance == Spec => []DupInv
<1>1. DupInv /\ [Next]_vars => DupInv'
  BY TypeStep, CountStep, ChannelStep, ResultStep DEF DupInv
<1> QED
  BY <1>1, DupInit_Inv, PTL DEF Spec

THEOREM CountIsAlwaysExact == Spec => [](TypeOK /\ CountIsExact)
BY DupInvariance, PTL DEF DupInv

(* No call of Do returns the zero value of o.res for a result.             *)
THEOREM ResultsAreReal == Spec => []ResultComesFromCb
BY DupInvariance, PTL DEF DupInv
-----------------------------------------------------------------------------
(* While the calls are calm, the first one to begin leads: the others wait *)
(* for its channel and take its result.  isRunning is 1 until the cb of    *)
(* the leader has returned, and from then on a call that begins ends the   *)
(* calm; so there is never a second leader.                                *)
NoneBegun ==
  /\ isRunning = 0 /\ ch = None /\ res = None /\ closed = {}
  /\ \A d \in Calls : /\ pc[d] = "idle" /\ cb[d] = "none"
                      /\ myCh[d] = None /\ result[d] = None

IsLeader(d) ==
  /\ pc[d] \in {"count", "makech", "start", "readch", "select", "take",
               "cancel", "clear", "done"}
  /\ cb[d] # "panicked"
  /\ ch = IF pc[d] \in {"count", "makech"} THEN None ELSE d
  /\ pc[d] \in {"count", "makech", "start"} <=> cb[d] = "none"
  /\ cb[d] \in {"none", "running", "returned", "stored"} => isRunning = 1
  /\ res = IF HasStored(d) THEN d ELSE None
  /\ closed = IF cb[d] = "ended" THEN {d} ELSE {}

IsFollower(d) ==
  /\ cb[d] = "none"
  /\ pc[d] \in {"idle", "follow", "wait", "join", "select", "take", "cancel",
               "clear", "done"}

SharesCb(d, leader) ==
  /\ myCh[d] \in {None, leader}
  /\ result[d] \in {None, leader}
  /\ pc[d] \in {"join", "select"} => myCh[d] = leader
  /\ pc[d] \in {"take", "cancel", "clear", "done"} => cb[leader] = "ended"
  /\ pc[d] \in {"cancel", "clear", "done"} => result[d] = leader

LedBy(leader) ==
  /\ IsLeader(leader)
  /\ \A d \in Calls \ {leader} : IsFollower(d)
  /\ \A d \in Calls : SharesCb(d, leader)

CalmInv ==
  calm => /\ ctxDone = {}
          /\ NoneBegun \/ \E leader \in Calls : LedBy(leader)

LEMMA CalmEnds ==
  ASSUME TypeOK, [Next]_vars, calm'
  PROVE  calm /\ ctxDone' = ctxDone
<1>1. ASSUME NEW d \in Calls, Begin(d) \/ CancelCtx(d) \/ DoStep(d) \/ CbStep(d)
      PROVE  calm /\ ctxDone' = ctxDone
  BY <1>1 DEF Begin, CancelCtx, DoStep, CbStep, Count, MakeCh, StartCb, ReadCh, Follow,
              Wake, Join, Select, Take, CancelCb, Clear, Recheck, Return, Store, Flag, Close
<1> QED
  BY <1>1 DEF Next, vars

(* The first to begin leads.                                               *)
LEMMA LeaderBegins ==
  ASSUME TypeOK, NoneBegun, [Next]_vars, calm'
  PROVE  NoneBegun' \/ \E leader \in Calls : LedBy(leader)'
<1>1. ASSUME NEW d \in Calls, Begin(d)
      PROVE  LedBy(d)'
  <2>1. /\ pc' = [pc EXCEPT ![d] = "count"] /\ isRunning' = 1
        /\ UNCHANGED <<ch, res, closed, cb, myCh, result>>
    BY <1>1 DEF Begin, Goto, NoneBegun
  <2> QED
    BY <2>1 DEF TypeOK, NoneBegun, LedBy, IsLeader, IsFollower, SharesCb, HasStored
<1>2. ASSUME NEW d \in Calls, DoStep(d) \/ CbStep(d)
      PROVE  FALSE
  BY <1>2 DEF NoneBegun, DoStep, CbStep, Count, MakeCh, StartCb, ReadCh, Follow, Wake,
              Join, Select, Take, CancelCb, Clear, Recheck, Return, Store, Flag, Close
<1>3. ASSUME NEW d \in Calls, CancelCtx(d)
      PROVE  FALSE
  BY <1>3 DEF CancelCtx
<1>4. CASE UNCHANGED vars
  BY <1>4 DEF vars, shared, locals, NoneBegun
<1> QED
  BY <1>1, <1>2, <1>3, <1>4 DEF Next

(* A step of a call of Do: it takes the channel, then the result, of the   *)
(* leader.                                                                 *)
LEMMA LedByDoStep ==
  ASSUME TypeOK, ctxDone = {}, NEW leader \in Calls, LedBy(leader),
         NEW d \in Calls, DoStep(d)
  PROVE  LedBy(leader)'
<1> USE DEF TypeOK, LedBy, IsLeader, IsFollower, SharesCb, HasStored, Goto
<1>1. CASE Count(d)
  BY <1>1 DEF Count
<1>2. CASE MakeCh(d)
  BY <1>2 DEF MakeCh
<1>3. CASE StartCb(d)
  BY <1>3 DEF StartCb
<1>4. CASE ReadCh(d)
  BY <1>4 DEF ReadCh, shared
<1>5. CASE Follow(d)
  BY <1>5 DEF Follow, shared
<1>6. CASE Wake(d)
  BY <1>6 DEF Wake, shared
<1>7. CASE Join(d)
  BY <1>7 DEF Join
<1>8. CASE Select(d)
  BY <1>8 DEF Select
<1>9. CASE Take(d)
  BY <1>9 DEF Take, shared
<1>10. CASE CancelCb(d)
  BY <1>10 DEF CancelCb
<1>11. CASE Clear(d)
  BY <1>11, DupCallAssumption DEF Clear
<1>12. CASE Recheck(d)
  BY <1>12 DEF Recheck
<1> QED
  BY <1>1, <1>2, <1>3, <1>4, <1>5, <1>6, <1>7, <1>8, <1>9, <1>10, <1>11, <1>12
     DEF DoStep

(* A step of the goroutine of the leader: there is no other.               *)
LEMMA LedByCbStep ==
  ASSUME TypeOK, NEW leader \in Calls, LedBy(leader), NEW d \in Calls, CbStep(d)
  PROVE  LedBy(leader)'
<1> USE DEF TypeOK, LedBy, IsLeader, IsFollower, SharesCb, HasStored, SetCb
<1>1. d = leader
  BY DEF CbStep, Return, Store, Flag, Close
<1>2. CASE Return(d)
  BY <1>1, <1>2 DEF Return, shared, locals
<1>3. CASE Store(d)
  BY <1>1, <1>3 DEF Store, locals
<1>4. CASE Flag(d)
  BY <1>1, <1>4 DEF Flag, locals
<1>5. CASE Close(d)
  BY <1>1, <1>5 DEF Close, locals
<1> QED
  BY <1>2, <1>3, <1>4, <1>5 DEF CbStep

(* A call that begins while its cb has not returned only follows.          *)
LEMMA LedByBegin ==
  ASSUME TypeOK, NEW leader \in Calls, LedBy(leader),
         NEW d \in Calls, Begin(d), calm'
  PROVE  LedBy(leader)'
<1>1. isRunning = 1
  BY DEF Begin, Unfinished, LedBy, IsLeader
<1>2. /\ pc' = [pc EXCEPT ![d] = "follow"] /\ isRunning' = 1 /\ d # leader
      /\ UNCHANGED <<ch, res, closed, cb, myCh, result>>
  BY <1>1 DEF Begin, Goto, LedBy, IsLeader
<1> QED
  BY <1>2 DEF TypeOK, LedBy, IsLeader, IsFollower, SharesCb, HasStored

LEMMA CalmStep ==
  ASSUME TypeOK, CalmInv, [Next]_vars
  PROVE  CalmInv'
<1> SUFFICES ASSUME calm'
             PROVE  ctxDone' = {} /\ (NoneBegun' \/ \E leader \in Calls : LedBy(leader)')
  BY DEF CalmInv
<1>1. calm /\ ctxDone' = ctxDone /\ ctxDone = {}
  BY CalmEnds DEF CalmInv
<1>2. CASE NoneBegun
  BY <1>1, <1>2, LeaderBegins
<1>3. ASSUME NEW leader \in Calls, LedBy(leader)
      PROVE  LedBy(leader)'
  <2>1. CASE UNCHANGED vars
    BY <1>3, <2>1 DEF vars, shared, locals, LedBy, IsLeader, IsFollower, SharesCb, HasStored
  <2>2. \A d \in Calls : ~CancelCtx(d)
    BY DEF CancelCtx
  <2> QED
    BY <1>1, <1>3, <2>1, <2>2, LedByDoStep, LedByCbStep, LedByBegin DEF Next
<1> QED
  BY <1>1, <1>2, <1>3 DEF CalmInv

THEOREM CalmInvariance == Spec => []CalmInv
<1>1. Init => CalmInv
  BY DEF Init, CalmInv, NoneBegun
<1>2. TypeOK /\ CalmInv /\ [Next]_vars => CalmInv'
  BY CalmStep
<1> QED
  BY <1>1, <1>2, CountIsAlwaysExact, PTL DEF Spec

(* Calls that all begin while the first cb runs, none of them cancelled,   *)
(* share it, and whoever returns returns its result.  (The property names  *)
(* a leader, so there must be a call.)                                     *)
THEOREM CalmCallsAreLed ==
  ASSUME Calls # {} PROVE Spec => []CalmCallsShareOneCb
<1>1. CalmInv => CalmCallsShareOneCb
  BY DEF CalmInv, CalmCallsShareOneCb, NoneBegun, LedBy, IsLeader, IsFollower, SharesCb, Alive
<1> QED
  BY <1>1, CalmInvariance, PTL

(* What lets a call, or the goroutine it has started, go on: the guards of *)
(* DoStep and CbStep.                                                      *)
CanGoOn(d) ==
  \/ pc[d] \notin {"idle", "wait", "select", "done"}
  \/ pc[d] = "wait" /\ ch # None
  \/ pc[d] = "select" /\ (myCh[d] \in closed \/ d \in ctxDone)
  \/ cb[d] \in {"running", "returned", "stored", "flagged"}

NobodyIsStuck ==
  calm /\ (\E d \in Calls : pc[d] \notin {"idle", "done"})
    => \E d \in Calls : CanGoOn(d)

(* As long as a calm call has not returned, some goroutine can go on: the  *)
(* calls never wait for a channel that nobody is left to make or to close. *)
(* This is CalmCallsReturn with the guards written out for ENABLED.        *)
THEOREM CalmCallsAreNotStuck == Spec => []NobodyIsStuck
<1>1. TypeOK /\ CalmInv => NobodyIsStuck
  <2> SUFFICES ASSUME TypeOK, CalmInv, calm, NEW d \in Calls, pc[d] \notin {"idle", "done"}
               PROVE  \E e \in Calls : CanGoOn(e)
    BY DEF NobodyIsStuck
  <2>1. PICK leader \in Calls : LedBy(leader)
    BY DEF CalmInv, NoneBegun
  <2>2. CASE pc[leader] \notin {"select", "done"}
    BY <2>1, <2>2 DEF LedBy, IsLeader, CanGoOn
  <2>3. CASE pc[leader] \in {"select", "done"} /\ cb[leader] # "ended"
    <3>1. cb[leader] \in {"running", "returned", "stored", "flagged"}
      BY <2>1, <2>3 DEF LedBy, IsLeader, TypeOK
    <3> QED
      BY <3>1 DEF CanGoOn
  <2>4. CASE pc[leader] \in {"select", "done"} /\ cb[leader] = "ended"
    <3>1. ch = leader /\ closed = {leader}
      BY <2>1, <2>4 DEF LedBy, IsLeader
    <3>2. pc[d] = "select" => myCh[d] = leader
      BY <2>1 DEF LedBy, SharesCb
    <3> QED
      BY <3>1, <3>2, DupCallAssumption DEF CanGoOn
  <2> QED
    BY <2>2, <2>3, <2>4
<1> QED
  BY <1>1, CalmInvariance, CountIsAlwaysExact, PTL
=============================================================================
