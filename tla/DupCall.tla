------------------------------- MODULE DupCall -------------------------------
(***************************************************************************)
(* dupcall/dupcall.go: one Call object shared by goroutines that call Do.  *)
(*                                                                         *)
(* An action is one atomic operation, one critical section of o.mu, or one *)
(* channel operation.  A call of Do runs its cb at most once, so the       *)
(* channel, the context and the goroutine that a call creates in LazyInit  *)
(* bear the name of that call, and so does the result of its cb.           *)
(***************************************************************************)
EXTENDS Integers, FiniteSets

CONSTANTS
  Calls,  \* the calls of Do
  None    \* nil: no channel, no cancel function, no result

ASSUME DupCallAssumption == IsFiniteSet(Calls) /\ None \notin Calls

VARIABLES
  isRunning,   \* o.isRunning
  cntRunning,  \* o.cntRunning
  cancel,      \* o.cancel: the call whose context it cancels
  ch,          \* o.ch: the call that made it
  res,         \* o.res: the call whose cb returned it
  closed,      \* the closed channels
  cancelled,   \* the contexts of cbs that have been cancelled
  cb,          \* cb[d]: the goroutine started by d
  pc,          \* pc[d]: where Do is
  myCh,        \* myCh[d]: the local variable ch
  last,        \* last[d]: d brought cntRunning down to 0
  result,      \* result[d]: what Do returned, None for ctx.Err()
  ctxDone,     \* the calls whose own ctx is done
  calm         \* history: every Do began before any cb returned, and no ctx
               \* has been cancelled

shared == <<isRunning, cntRunning, cancel, ch, res, closed, cancelled>>
locals == <<pc, myCh, last, result>>
vars == <<shared, cb, locals, ctxDone, calm>>

TypeOK ==
  /\ isRunning \in {0, 1}
  /\ cntRunning \in Nat
  /\ {cancel, ch, res} \subseteq Calls \union {None}
  /\ closed \union cancelled \union ctxDone \subseteq Calls
  /\ cb \in [Calls -> {"none", "running", "returned", "stored", "flagged",
                       "ended", "panicked"}]
  /\ pc \in [Calls -> {"idle", "count", "makech", "start", "readch", "follow",
                       "wait", "join", "select", "take", "cancel", "clear",
                       "recheck", "done"}]
  /\ myCh \in [Calls -> Calls \union {None}]
  /\ last \in [Calls -> BOOLEAN]
  /\ result \in [Calls -> Calls \union {None}]
  /\ calm \in BOOLEAN

Init ==
  /\ isRunning = 0 /\ cntRunning = 0
  /\ cancel = None /\ ch = None /\ res = None
  /\ closed = {} /\ cancelled = {} /\ ctxDone = {}
  /\ cb = [d \in Calls |-> "none"]
  /\ pc = [d \in Calls |-> "idle"]
  /\ myCh = [d \in Calls |-> None]
  /\ last = [d \in Calls |-> FALSE]
  /\ result = [d \in Calls |-> None]
  /\ calm = TRUE

Goto(d, l) == pc' = [pc EXCEPT ![d] = l]
Unfinished == {d \in Calls : cb[d] \in {"none", "running"}}
-----------------------------------------------------------------------------
(* Do, up to the select.                                                   *)

\* Mutant: isRunning is only read, and set at no later point.
BeginUnswapped(d) ==
  /\ pc[d] = "idle"
  /\ Goto(d, IF isRunning = 0 THEN "count" ELSE "follow")
  /\ calm' = (calm /\ Unfinished = Calls)
  /\ UNCHANGED <<shared, cb, myCh, last, result, ctxDone>>

\* The compare-and-swap picks the leader.
Begin(d) ==
  /\ pc[d] = "idle"
  /\ isRunning' = 1
  /\ Goto(d, IF isRunning = 0 THEN "count" ELSE "follow")
  /\ calm' = (calm /\ Unfinished = Calls)
  /\ UNCHANGED <<cntRunning, cancel, ch, res, closed, cancelled, cb, myCh,
                 last, result, ctxDone>>

Count(d) ==
  /\ pc[d] = "count"
  /\ cntRunning' = cntRunning + 1
  /\ Goto(d, "makech")
  /\ UNCHANGED <<isRunning, cancel, ch, res, closed, cancelled, cb, myCh, last,
                 result, ctxDone, calm>>

\* LazyInit: a new channel, and a Broadcast to those that wait for one.
MakeCh(d) ==
  /\ pc[d] = "makech"
  /\ ch' = d
  /\ Goto(d, "start")
  /\ UNCHANGED <<isRunning, cntRunning, cancel, res, closed, cancelled, cb,
                 myCh, last, result, ctxDone, calm>>

\* LazyInit: stores the new cancel function and starts the goroutine.
StartCb(d) ==
  /\ pc[d] = "start"
  /\ cancel' = d
  /\ cb' = [cb EXCEPT ![d] = "running"]
  /\ Goto(d, "readch")
  /\ UNCHANGED <<isRunning, cntRunning, ch, res, closed, cancelled, myCh, last,
                 result, ctxDone, calm>>

\* LazyInit returns o.ch, read without the mutex: not always its own.
ReadCh(d) ==
  /\ pc[d] = "readch"
  /\ myCh' = [myCh EXCEPT ![d] = ch]
  /\ Goto(d, "select")
  /\ UNCHANGED <<shared, cb, last, result, ctxDone, calm>>

\* A follower takes the channel it finds; the first ones wait for it to exist.
Follow(d) ==
  /\ pc[d] = "follow"
  /\ IF ch = None
     THEN Goto(d, "wait") /\ UNCHANGED myCh
     ELSE Goto(d, "join") /\ myCh' = [myCh EXCEPT ![d] = ch]
  /\ UNCHANGED <<shared, cb, last, result, ctxDone, calm>>

\* Mutant: a follower that is woken waits on while no cb is running.
WakeWhileRunning(d) ==
  /\ pc[d] = "wait" /\ ch # None /\ isRunning = 1
  /\ Goto(d, "join") /\ myCh' = [myCh EXCEPT ![d] = ch]
  /\ UNCHANGED <<shared, cb, last, result, ctxDone, calm>>

\* cond.Wait returns after LazyInit's Broadcast, to a test of the context.
Wake(d) ==
  /\ pc[d] = "wait" /\ ch # None
  /\ IF d \in ctxDone
     THEN Goto(d, "done") /\ UNCHANGED myCh
     ELSE Goto(d, "join") /\ myCh' = [myCh EXCEPT ![d] = ch]
  /\ UNCHANGED <<shared, cb, last, result, ctxDone, calm>>

\* Mutant: the follower is not counted.
JoinUncounted(d) ==
  /\ pc[d] = "join"
  /\ Goto(d, IF d \in ctxDone THEN "done" ELSE "select")
  /\ UNCHANGED <<shared, cb, myCh, last, result, ctxDone, calm>>

Join(d) ==
  /\ pc[d] = "join"
  /\ \/ /\ d \in ctxDone
        /\ Goto(d, "done")
        /\ UNCHANGED cntRunning
     \/ /\ d \notin ctxDone
        /\ cntRunning' = cntRunning + 1
        /\ Goto(d, "select")
  /\ UNCHANGED <<isRunning, cancel, ch, res, closed, cancelled, cb, myCh, last,
                 result, ctxDone, calm>>
-----------------------------------------------------------------------------
(* The select and what follows it.                                         *)

\* Either case of the select, whichever is ready; both begin by counting down.
Select(d) ==
  /\ pc[d] = "select"
  /\ cntRunning' = cntRunning - 1
  /\ last' = [last EXCEPT ![d] = cntRunning = 1]
  /\ \/ /\ myCh[d] \in closed
        /\ Goto(d, "take")
     \/ /\ d \in ctxDone
        /\ Goto(d, IF cntRunning = 1 THEN "cancel" ELSE "recheck")
  /\ UNCHANGED <<isRunning, cancel, ch, res, closed, cancelled, cb, myCh,
                 result, ctxDone, calm>>

\* The result is the shared o.res, whichever cb stored it last.
Take(d) ==
  /\ pc[d] = "take"
  /\ result' = [result EXCEPT ![d] = res]
  /\ Goto(d, IF last[d] THEN "cancel" ELSE "done")
  /\ UNCHANGED <<shared, cb, myCh, last, ctxDone, calm>>

\* The last call out cancels whatever context o.cancel stands for by now.
CancelCb(d) ==
  /\ pc[d] = "cancel"
  /\ cancelled' = cancelled \union ({cancel} \ {None})
  /\ cancel' = None
  /\ Goto(d, "clear")
  /\ UNCHANGED <<isRunning, cntRunning, ch, res, closed, cb, myCh, last, result,
                 ctxDone, calm>>

\* It also clears isRunning; then a call on the ctx.Done() path looks again.
Clear(d) ==
  /\ pc[d] = "clear"
  /\ isRunning' = 0
  /\ Goto(d, IF result[d] = None THEN "recheck" ELSE "done")
  /\ UNCHANGED <<cntRunning, cancel, ch, res, closed, cancelled, cb, myCh, last,
                 result, ctxDone, calm>>

Recheck(d) ==
  /\ pc[d] = "recheck"
  /\ result' = [result EXCEPT ![d] = IF myCh[d] \in closed THEN res ELSE None]
  /\ Goto(d, "done")
  /\ UNCHANGED <<shared, cb, myCh, last, ctxDone, calm>>

CancelCtx(d) ==
  /\ pc[d] \notin {"idle", "done"} /\ d \notin ctxDone
  /\ ctxDone' = ctxDone \union {d}
  /\ calm' = FALSE
  /\ UNCHANGED <<shared, cb, locals>>
-----------------------------------------------------------------------------
(* The goroutine LazyInit starts.                                          *)

SetCb(d, state) == cb' = [cb EXCEPT ![d] = state]

Return(d) ==
  /\ cb[d] = "running"
  /\ SetCb(d, "returned")
  /\ UNCHANGED <<shared, locals, ctxDone, calm>>

\* Mutant: the goroutine goes on to close the channel before it stores.
StoreLater(d) ==
  /\ cb[d] = "returned"
  /\ SetCb(d, "stored")
  /\ UNCHANGED <<shared, locals, ctxDone, calm>>

Store(d) ==
  /\ cb[d] = "returned"
  /\ res' = d
  /\ SetCb(d, "stored")
  /\ UNCHANGED <<isRunning, cntRunning, cancel, ch, closed, cancelled, locals,
                 ctxDone, calm>>

\* From here on a new Do becomes leader, before the channel is closed.
Flag(d) ==
  /\ cb[d] = "stored"
  /\ isRunning' = 0
  /\ SetCb(d, "flagged")
  /\ UNCHANGED <<cntRunning, cancel, ch, res, closed, cancelled, locals, ctxDone,
                 calm>>

\* close(o.ch), read without the mutex; closing a closed channel panics.
Close(d) ==
  /\ cb[d] = "flagged"
  /\ closed' = closed \union {ch}
  /\ SetCb(d, IF ch \in closed THEN "panicked" ELSE "ended")
  /\ UNCHANGED <<isRunning, cntRunning, cancel, ch, res, cancelled, locals,
                 ctxDone, calm>>

\* A panic in that goroutine takes the process down.
Alive == \A d \in Calls : cb[d] # "panicked"

DoStep(d) ==
  Alive /\ \/ Count(d) \/ MakeCh(d) \/ StartCb(d) \/ ReadCh(d)
           \/ Follow(d) \/ Wake(d) \/ Join(d)
           \/ Select(d) \/ Take(d) \/ CancelCb(d) \/ Clear(d) \/ Recheck(d)

CbStep(d) == Alive /\ (Return(d) \/ Store(d) \/ Flag(d) \/ Close(d))

Next ==
  \E d \in Calls :
    \/ Alive /\ (Begin(d) \/ CancelCtx(d))
    \/ DoStep(d) \/ CbStep(d)

Spec == Init /\ [][Next]_vars
-----------------------------------------------------------------------------
\* cntRunning is the number of calls between their two additions, at any
\* interleaving: the call that sees 0 is the last of those counted.
CountIsExact ==
  cntRunning = Cardinality({d \in Calls : pc[d] \in {"makech", "start", "readch", "select"}})

\* A call whose channel was closed returns what some cb has really returned,
\* never the zero value of o.res.
ResultComesFromCb ==
  \A d \in Calls :
    /\ pc[d] = "take" => res # None
    /\ result[d] # None => cb[result[d]] \in {"stored", "flagged", "ended", "panicked"}

\* Calls that all arrive while the first cb runs, none of them cancelled,
\* share that cb: it is started once, and whoever returns returns its result.
CalmCallsShareOneCb ==
  calm => \E leader \in Calls :
            /\ \A d \in Calls : cb[d] # "none" => d = leader
            /\ \A d \in Calls : pc[d] = "done" => result[d] = leader
            /\ Alive

\* Nor does any of them wait for ever on a channel that nobody closes: when no
\* goroutine has a step left, every such call has returned.  (A behaviour ends,
\* as each call runs once, so under weak fairness this is all that is needed.)
CalmCallsReturn ==
  calm /\ ~ENABLED (\E d \in Calls : DoStep(d) \/ CbStep(d))
    => \A d \in Calls : pc[d] \in {"idle", "done"}

\* dupcall/README.md: at any moment at most one cb runs that has not been
\* cancelled.
OneLiveCb ==
  Cardinality({d \in Calls : cb[d] = "running" /\ d \notin cancelled}) <= 1
=============================================================================
