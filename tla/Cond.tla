-------------------------------- MODULE Cond --------------------------------
(***************************************************************************)
(* cond/cond.go: a condition variable whose Locker L is the RWMutex of     *)
(* rwmutex/rwmutex.go (its Lock and Unlock), used as its comment says: a   *)
(* goroutine that finds the condition false calls Wait in a loop, and one  *)
(* that makes it true calls Broadcast afterwards, holding L or not.        *)
(*                                                                         *)
(* c.mu is a channel with one token, like those of the lock.  Signal and   *)
(* Broadcast touch nothing but the queue between taking it and putting it  *)
(* back, so each is one step; Wait gives L back in between.                *)
(***************************************************************************)
EXTENDS RWMutex, Sequences

VARIABLES
  mu,     \* whether the channel c.mu holds its token
  chs,    \* c.chs: a channel bears the name of the goroutine that waits on it
  woken,  \* the channels that hold a value
  stage,  \* where each goroutine is inside Wait
  ready,  \* the callers' condition
  owes    \* the callers that made it true and have not called Broadcast yet

condvars == <<mu, chs, woken, stage>>
vars == <<rwvars, condvars, ready, owes>>

CondTypeOK ==
  /\ RWTypeOK
  /\ mu \in BOOLEAN
  /\ chs \in Seq(Procs)
  /\ woken \subseteq Procs
  /\ stage \in [Procs -> {"none", "unlock", "enqueue", "sleep", "relock"}]
  /\ ready \in BOOLEAN
  /\ owes \subseteq Procs

Init ==
  /\ RWInit
  /\ mu = TRUE
  /\ chs = <<>> /\ woken = {}
  /\ stage = [p \in Procs |-> "none"]
  /\ ready = FALSE /\ owes = {}

SetStage(p, s) == stage' = [stage EXCEPT ![p] = s]
Queued == {chs[i] : i \in DOMAIN chs}
-----------------------------------------------------------------------------
(* Wait.                                                                   *)

\* Mutant: Wait puts itself into the queue with mu, but unlocks L without.
WaitUnguarded(p) ==
  /\ pc[p] = "writing" /\ stage[p] = "none"
  /\ ~ready /\ p \notin owes
  /\ SetStage(p, "unlock")
  /\ UNCHANGED <<rwvars, mu, chs, woken, ready, owes>>

Wait(p) ==
  /\ pc[p] = "writing" /\ stage[p] = "none"
  /\ ~ready /\ p \notin owes
  /\ mu /\ mu' = FALSE
  /\ SetStage(p, "unlock")
  /\ UNCHANGED <<rwvars, chs, woken, ready, owes>>

WaitUnlock(p) ==
  /\ stage[p] = "unlock"
  /\ Unlock(p)
  /\ SetStage(p, "enqueue")
  /\ UNCHANGED <<mu, chs, woken, ready, owes>>

WaitSleep(p) ==
  /\ stage[p] = "enqueue"
  /\ chs' = Append(chs, p)
  /\ mu' = TRUE
  /\ SetStage(p, "sleep")
  /\ UNCHANGED <<rwvars, woken, ready, owes>>

\* The receive returns, and the deferred c.L.Lock() begins.
WaitWake(p) ==
  /\ stage[p] = "sleep" /\ p \in woken
  /\ woken' = woken \ {p}
  /\ Lock(p)
  /\ SetStage(p, "relock")
  /\ UNCHANGED <<mu, chs, ready, owes>>

WaitReturn(p) ==
  /\ stage[p] = "relock"
  /\ Locked(p)
  /\ SetStage(p, "none")
  /\ UNCHANGED <<mu, chs, woken, ready, owes>>
-----------------------------------------------------------------------------
(* Signal and Broadcast, by any goroutine that is not blocked.             *)

Running(p) == stage[p] = "none" /\ pc[p] \in {"idle", "reading", "writing"}

\* Mutants: the queue is not shortened, and its other end is woken.
SignalKeepingQueue(p) ==
  /\ Running(p) /\ mu
  /\ chs # <<>> /\ woken' = woken \union {Head(chs)}
  /\ UNCHANGED <<rwvars, mu, chs, stage, ready, owes>>

SignalLast(p) ==
  /\ Running(p) /\ mu
  /\ chs # <<>>
  /\ woken' = woken \union {chs[Len(chs)]}
  /\ chs' = SubSeq(chs, 1, Len(chs) - 1)
  /\ UNCHANGED <<rwvars, mu, stage, ready, owes>>

Signal(p) ==
  /\ Running(p) /\ mu
  /\ chs # <<>>
  /\ woken' = woken \union {Head(chs)}
  /\ chs' = Tail(chs)
  /\ UNCHANGED <<rwvars, mu, stage, ready, owes>>

\* Mutant: Broadcast wakes the first of the queue and forgets the others.
BroadcastToOne(p) ==
  /\ Running(p) /\ mu
  /\ woken' = woken \union (IF chs = <<>> THEN {} ELSE {Head(chs)})
  /\ chs' = <<>>
  /\ owes' = owes \ {p}
  /\ UNCHANGED <<rwvars, mu, stage, ready>>

Broadcast(p) ==
  /\ Running(p) /\ mu
  /\ woken' = woken \union Queued
  /\ chs' = <<>>
  /\ owes' = owes \ {p}
  /\ UNCHANGED <<rwvars, mu, stage, ready>>
-----------------------------------------------------------------------------
\* The condition changes under L, to true only with a Broadcast to follow.
SetReady(p) ==
  /\ Running(p) /\ pc[p] = "writing"
  /\ ready' = ~ready
  /\ owes' = IF ready THEN owes ELSE owes \union {p}
  /\ UNCHANGED <<rwvars, condvars>>

\* L itself, used outside Wait; the Broadcast that is due comes before L is
\* taken again.
UseLock(p) ==
  /\ stage[p] = "none"
  /\ pc[p] = "idle" => p \notin owes
  /\ \/ RLock(p) \/ REnter(p) \/ RUnlock(p) \/ RExit(p)
     \/ Lock(p) \/ Locked(p) \/ Unlock(p)
  /\ UNCHANGED <<condvars, ready, owes>>

Next ==
  \E p \in Procs :
    \/ Wait(p) \/ WaitUnlock(p) \/ WaitSleep(p) \/ WaitWake(p) \/ WaitReturn(p)
    \/ Signal(p) \/ Broadcast(p) \/ SetReady(p) \/ UseLock(p)

Spec == Init /\ [][Next]_vars

\* A goroutine inside Wait goes on when it can; a call of Broadcast that is due
\* is made and gets the token of c.mu, since a channel serves those it blocks in
\* turn.
FairSpec ==
  /\ Spec
  /\ \A p \in Procs :
       /\ WF_vars(WaitUnlock(p)) /\ WF_vars(WaitSleep(p)) /\ WF_vars(WaitWake(p))
       /\ SF_vars(p \in owes /\ Broadcast(p))
-----------------------------------------------------------------------------
Asleep(p) == stage[p] \in {"enqueue", "sleep"} /\ p \notin woken

\* The queue holds exactly those that sleep and have not been woken, each one
\* once; and c.mu is out only while somebody is between its two uses in Wait.
QueueMatchesSleepers ==
  /\ Queued = {p \in Procs : stage[p] = "sleep" /\ p \notin woken}
  /\ \A i, j \in DOMAIN chs : chs[i] = chs[j] => i = j
  /\ woken \subseteq {p \in Procs : stage[p] = "sleep"}
  /\ \A p, q \in Procs :
       {stage[p], stage[q]} \subseteq {"unlock", "enqueue"} => ~mu /\ p = q

\* Wait unlocks c.L and suspends as one step: a condition that became true after
\* a goroutine looked at it is one whose Broadcast is still to come, for as long
\* as that goroutine sleeps.
NoLostWakeup == \A p \in Procs : Asleep(p) /\ ready => owes # {}

\* cond/README.md: the queue is FIFO.  Nobody is woken before those ahead.
WokenInOrder ==
  [][\A i, j \in DOMAIN chs :
       i < j /\ chs[j] \in woken' => chs[i] \in woken']_vars

\* Whoever sleeps while the condition holds gets up.
SleepersWake ==
  \A p \in Procs : stage[p] = "sleep" /\ ready ~> stage[p] # "sleep"
=============================================================================
