------------------------------ MODULE RateLimit ------------------------------
(***************************************************************************)
(* ratelimit/ratelimit.go: a limiter whose goroutine, run, answers the     *)
(* requests that calls of Acquire send it over a channel.                  *)
(*                                                                         *)
(* Time passes in units.  Instants are kept as ages, counted back from     *)
(* now, so no clock grows: a timestamp, a granted call and the loop's      *)
(* currentTime all age by one when time advances.  The loop is prompt: it  *)
(* gets from one select to the next, and takes a tick that is due, within  *)
(* the unit in which it can.                                               *)
(***************************************************************************)
EXTENDS Naturals, Sequences, FiniteSets

CONSTANTS
  Calls,      \* calls of Acquire in flight; a name is used again later
  MaxCounts,  \* the values of maxCount considered
  Intervals,  \* the values of interval considered, in units
  Tick        \* cleanupInterval, in units

ASSUME RateLimitAssumption ==
  /\ MaxCounts \subseteq Nat \ {0}
  /\ Intervals \subseteq Nat
  /\ Tick \in Nat \ {0}

VARIABLES
  maxCount, interval,  \* the Limiter's fields
  loop,       \* where the goroutine run is
  stamps,     \* run's timestamps, as ages
  lag,        \* the age of run's currentTime
  waiting,    \* run's queue of requests, a request being named by its call
  tick,       \* time to the next tick
  ticked,     \* whether cleanupTicker.C holds a tick
  stopped,    \* whether stopCh is closed
  pc,         \* pc[c]: where Acquire is
  resp,       \* resp[c]: what the buffered channel req.response holds
  done,       \* the calls whose context is done
  grants      \* history: the ages of the last requests answered with nil

conf == <<maxCount, interval>>
ticker == <<tick, ticked>>
vars == <<conf, loop, stamps, lag, waiting, ticker, stopped, pc, resp, done, grants>>

TypeOK ==
  /\ maxCount \in MaxCounts /\ interval \in Intervals
  /\ loop \in {"top", "serve", "select", "drain", "unlimited", "flush", "exited"}
  /\ stamps \in Seq(0 .. interval + Tick) /\ Len(stamps) <= maxCount
  /\ lag \in 0 .. Tick
  /\ waiting \in Seq(Calls)
  /\ \A i, j \in DOMAIN waiting : waiting[i] = waiting[j] => i = j
  /\ tick \in 1 .. Tick /\ ticked \in BOOLEAN
  /\ stopped \in BOOLEAN
  /\ pc \in [Calls -> {"idle", "sending", "sent"}]
  /\ resp \in [Calls -> {"empty", "nil", "ctx", "stopped"}]
  /\ done \subseteq Calls
  /\ grants \in Seq(0 .. interval)

Init ==
  /\ maxCount \in MaxCounts /\ interval \in Intervals
  /\ loop = IF interval = 0 THEN "unlimited" ELSE "top"
  /\ stamps = <<>> /\ lag = 0 /\ waiting = <<>>
  /\ tick = Tick /\ ticked = FALSE
  /\ stopped = FALSE
  /\ pc = [c \in Calls |-> "idle"]
  /\ resp = [c \in Calls |-> "empty"]
  /\ done = {}
  /\ grants = <<>>

Queued == {waiting[i] : i \in DOMAIN waiting}

\* What is left of ages, the oldest first, once its head is no older than limit.
UpTo(ages, limit) ==
  LET old == CHOOSE n \in 0 .. Len(ages) :
               /\ \A i \in 1 .. n : ages[i] > limit
               /\ n < Len(ages) => ages[n + 1] <= limit
  IN SubSeq(ages, old + 1, Len(ages))

Older(ages) == [i \in DOMAIN ages |-> ages[i] + 1]

\* Mutant: a timestamp exactly one interval old is dropped.
CleanedEarly(age) == UpTo(stamps, (interval + age) - 1)

\* cleanupOldTimestamps, given the age of its argument currentTime.
Cleaned(age) == UpTo(stamps, interval + age)

Answer(c, err) == resp' = [resp EXCEPT ![c] = err]

\* sendResponse: the context's error, if it has one, wins over err.
SendResponse(c, err) == Answer(c, IF c \in done THEN "ctx" ELSE err)
-----------------------------------------------------------------------------
(* run: one turn of its loop.                                              *)

\* Reads the clock and drops the old timestamps.
Top ==
  /\ loop = "top"
  /\ lag' = 0
  /\ stamps' = Cleaned(0)
  /\ loop' = "serve"
  /\ UNCHANGED <<conf, waiting, ticker, stopped, pc, resp, done, grants>>

\* processWaitingRequests: one turn of its loop.
Serve ==
  /\ loop = "serve" /\ waiting # <<>> /\ Len(stamps) < maxCount
  /\ waiting' = Tail(waiting)
  /\ SendResponse(Head(waiting), "nil")
  /\ IF Head(waiting) \in done
     THEN UNCHANGED <<stamps, grants>>
     ELSE stamps' = Append(stamps, lag) /\ grants' = Append(grants, 0)
  /\ UNCHANGED <<conf, loop, lag, ticker, stopped, pc, done>>

Served ==
  /\ loop = "serve" /\ (waiting = <<>> \/ Len(stamps) >= maxCount)
  /\ loop' = "select"
  /\ UNCHANGED <<conf, stamps, lag, waiting, ticker, stopped, pc, resp, done, grants>>

\* handleNewRequest, given the age of its argument currentTime.
HandleNewRequest(c, age, limit) ==
  /\ loop = "select" /\ pc[c] = "sending"
  /\ pc' = [pc EXCEPT ![c] = "sent"]
  /\ loop' = "top"
  /\ \/ /\ c \in done
        /\ Answer(c, "ctx")
        /\ UNCHANGED <<stamps, waiting, grants>>
     \/ /\ c \notin done /\ Len(Cleaned(age)) < limit
        /\ stamps' = Append(Cleaned(age), age)
        /\ grants' = Append(grants, 0)
        /\ Answer(c, "nil")
        /\ UNCHANGED waiting
     \/ /\ c \notin done /\ Len(Cleaned(age)) >= limit
        /\ stamps' = Cleaned(age)
        /\ waiting' = Append(waiting, c)
        /\ UNCHANGED <<resp, grants>>
  /\ UNCHANGED <<conf, lag, ticker, stopped, done>>

\* Mutant: a clock of handleNewRequest's own.
ReceiveNow(c) == HandleNewRequest(c, 0, maxCount)

\* The currentTime handed over is the one read before the select.
Receive(c) == HandleNewRequest(c, lag, maxCount)

TakeTick ==
  /\ loop = "select" /\ ticked
  /\ ticked' = FALSE
  /\ loop' = "top"
  /\ UNCHANGED <<conf, stamps, lag, waiting, tick, stopped, pc, resp, done, grants>>

\* Mutant: handleStop forgets the requests that wait.
StopKeepingWaiters ==
  /\ loop = "select" /\ stopped
  /\ stamps' = <<>>
  /\ loop' = "drain"
  /\ UNCHANGED <<conf, lag, waiting, ticker, stopped, pc, resp, done, grants>>

\* handleStop, its first loop; the timestamps are of no more use.
HandleStop ==
  /\ loop = "select" /\ stopped
  /\ resp' = [c \in Calls |-> IF c \notin Queued THEN resp[c]
                              ELSE IF c \in done THEN "ctx" ELSE "stopped"]
  /\ waiting' = <<>>
  /\ stamps' = <<>>
  /\ loop' = "drain"
  /\ UNCHANGED <<conf, lag, ticker, stopped, pc, done, grants>>

\* handleStop's second loop and that of runUnlimited; runUnlimited's own
\* requests are all answered at once.
ReceiveNoLimit(c) ==
  /\ loop \in {"drain", "flush", "unlimited"} /\ pc[c] = "sending"
  /\ pc' = [pc EXCEPT ![c] = "sent"]
  /\ SendResponse(c, IF loop = "unlimited" THEN "nil" ELSE "stopped")
  /\ UNCHANGED <<conf, loop, stamps, lag, waiting, ticker, stopped, done, grants>>

StopUnlimited ==
  /\ loop = "unlimited" /\ stopped
  /\ loop' = "flush"
  /\ UNCHANGED <<conf, stamps, lag, waiting, ticker, stopped, pc, resp, done, grants>>

\* After 100 ms without a request, or at once in runUnlimited.
Exit ==
  /\ loop \in {"drain", "flush"}
  /\ loop' = "exited"
  /\ UNCHANGED <<conf, stamps, lag, waiting, ticker, stopped, pc, resp, done, grants>>
-----------------------------------------------------------------------------
(* Acquire, Stop and time.                                                 *)

Begin(c) ==
  /\ pc[c] = "idle" /\ c \notin Queued
  /\ pc' = [pc EXCEPT ![c] = "sending"]
  /\ resp' = [resp EXCEPT ![c] = "empty"]
  /\ done' = done \ {c}
  /\ UNCHANGED <<conf, loop, stamps, lag, waiting, ticker, stopped, grants>>

CancelCtx(c) ==
  /\ pc[c] # "idle" /\ c \notin done
  /\ done' = done \union {c}
  /\ UNCHANGED <<conf, loop, stamps, lag, waiting, ticker, stopped, pc, resp, grants>>

\* Acquire returns: what it was answered, ctx.Err(), or ErrStopped.
Return(c) ==
  /\ \/ pc[c] = "sent" /\ resp[c] # "empty"
     \/ pc[c] # "idle" /\ c \in done
     \/ pc[c] = "sending" /\ stopped
  /\ pc' = [pc EXCEPT ![c] = "idle"]
  /\ resp' = [resp EXCEPT ![c] = "empty"]
  /\ done' = done \ ({c} \ Queued)
  /\ UNCHANGED <<conf, loop, stamps, lag, waiting, ticker, stopped, grants>>

Stop ==
  /\ ~stopped
  /\ stopped' = TRUE
  /\ UNCHANGED <<conf, loop, stamps, lag, waiting, ticker, pc, resp, done, grants>>

\* A unit of time passes: not while the loop is on its way to its select or
\* has a tick to take.
Advance ==
  /\ loop \notin {"top", "serve"}
  /\ loop = "select" => ~ticked
  /\ stamps' = Older(stamps)
  /\ grants' = UpTo(Older(grants), interval)
  /\ IF loop = "select"
     THEN /\ lag' = lag + 1
          /\ ticked' = (tick = 1)
          /\ tick' = IF tick = 1 THEN Tick ELSE tick - 1
     ELSE UNCHANGED <<lag, ticker>>
  /\ UNCHANGED <<conf, loop, waiting, stopped, pc, resp, done>>

Loop == \/ Top \/ Serve \/ Served \/ TakeTick \/ HandleStop
        \/ StopUnlimited \/ Exit

Next ==
  \/ Loop \/ Stop \/ Advance
  \/ \E c \in Calls : \/ Receive(c) \/ ReceiveNoLimit(c)
                      \/ Begin(c) \/ CancelCtx(c) \/ Return(c)

Spec == Init /\ [][Next]_vars

\* The goroutines that can run do and time passes.  A stream of requests starves
\* neither: select picks at random among its ready cases, so a tick is taken in
\* the end, and a channel serves blocked senders in turn.
FairSpec ==
  /\ Spec
  /\ WF_vars(Loop) /\ SF_vars(TakeTick) /\ SF_vars(Advance)
  /\ \A c \in Calls : WF_vars(Return(c))
  /\ \A c \in Calls : SF_vars(Receive(c) \/ ReceiveNoLimit(c))
-----------------------------------------------------------------------------
Granted(limit) == Len(UpTo(grants, limit))

\* As currentTime is at most one tick old when it is used, the successes
\* within any stretch of time of length interval - Tick stay within maxCount.
RateWithinLag ==
  interval > Tick => Granted(interval - Tick) <= maxCount

\* A request that has just arrived is never granted ahead of one that waits,
\* although both a tick and an arrival free places.
NoOvertaking ==
  [][\A c \in Calls :
       pc[c] = "sending" /\ pc'[c] = "sent" /\ resp'[c] = "nil"
         => waiting = <<>>]_vars

\* Acquire returns: it is granted a place, or its context ends, or Stop
\* answers it, whichever select it is blocked in.
AcquireReturns == \A c \in Calls : pc[c] # "idle" ~> pc[c] = "idle"

\* ratelimit.go: the limiter throttles successful calls of Acquire to
\* maxCount events at any given interval.
RateWithinInterval ==
  interval > 0 => Granted(interval - 1) <= maxCount
=============================================================================
