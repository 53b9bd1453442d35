-------------------------------- MODULE RSem --------------------------------
(***************************************************************************)
(* rsem/rsem.go: a semaphore of processes in Redis.  A call of Acquire     *)
(* makes a key of its own with a TTL of one second and, while it holds the *)
(* semaphore, extends it every 300 ms; the script that makes the key first *)
(* counts the keys that are there.                                         *)
(*                                                                         *)
(* Time passes in units of 100 ms.  A call bears the name of its random    *)
(* processID, which is free again once its key is gone.  Nothing in the    *)
(* code bounds the time between two extensions of a key.                   *)
(***************************************************************************)
EXTENDS Integers, FiniteSets

CONSTANTS
  RSCalls,   \* calls of Acquire
  RSLimit    \* limit

RSTtlUnits == 10     \* ttlSeconds
RSRefreshUnits == 3  \* the refresh ticker

ASSUME RSAssumption == IsFiniteSet(RSCalls) /\ RSLimit \in Nat \ {0}

VARIABLES
  rsTtl,    \* how long each key lives on, 0 for none
  rsTick,   \* the time since each holder took a tick of its refresh ticker
  rsLate,   \* history: the calls whose key went uncounted after they were let in
  rsPc      \* where each call is

rsvars == <<rsTtl, rsTick, rsLate, rsPc>>

RSTypeOK ==
  /\ rsTtl \in [RSCalls -> 0..RSTtlUnits]
  /\ rsTick \in [RSCalls -> 0..2 * RSRefreshUnits - 1]
  /\ rsLate \subseteq RSCalls
  /\ rsPc \in [RSCalls -> {"idle", "try", "busy", "granted", "holding",
                           "releasing"}]

RSInit ==
  /\ rsTtl = [p \in RSCalls |-> 0]
  /\ rsTick = [p \in RSCalls |-> 0]
  /\ rsLate = {}
  /\ rsPc = [p \in RSCalls |-> "idle"]

RSGoto(p, l) == rsPc' = [rsPc EXCEPT ![p] = l]
RSAlive(p) == rsPc[p] # "idle"

\* Redis rounds TTL to whole seconds, so the script's ttl > 0 leaves out a key in
\* its last half second.
RSCounted == {p \in RSCalls : rsTtl[p] >= 5}
-----------------------------------------------------------------------------
\* Acquire, with a processID of its own.
RSAcquire(p) ==
  /\ rsPc[p] = "idle" /\ rsTtl[p] = 0
  /\ RSGoto(p, "try")
  /\ UNCHANGED <<rsTtl, rsTick, rsLate>>

\* Mutant: as many keys as the limit leave room for one more.
RSScriptOffByOne(p) ==
  /\ rsPc[p] = "try"
  /\ IF Cardinality(RSCounted) <= RSLimit
     THEN rsTtl' = [rsTtl EXCEPT ![p] = RSTtlUnits] /\ RSGoto(p, "granted")
     ELSE RSGoto(p, "busy") /\ UNCHANGED rsTtl
  /\ rsLate' = IF rsTtl[p] > 0 THEN rsLate ELSE rsLate \ {p}
  /\ UNCHANGED rsTick

\* acquireScript: Redis runs it as one step, so its second count finds what the
\* first did.  The client sends it again when the reply is lost; then the key is
\* there already, and the script extends it.
RSScript(p) ==
  /\ rsPc[p] \in {"try", "granted"}
  /\ IF rsTtl[p] > 0 \/ Cardinality(RSCounted) < RSLimit
     THEN rsTtl' = [rsTtl EXCEPT ![p] = RSTtlUnits] /\ RSGoto(p, "granted")
     ELSE RSGoto(p, "busy") /\ UNCHANGED rsTtl
  /\ rsLate' = IF rsTtl[p] > 0 THEN rsLate ELSE rsLate \ {p}
  /\ UNCHANGED rsTick

\* Mutant: a call asks again when somebody releases, not every 10 ms.
RSRetryOnRelease(p) ==
  /\ rsPc[p] = "busy"
  /\ \E q \in RSCalls : rsPc[q] = "releasing"
  /\ RSGoto(p, "try")
  /\ UNCHANGED <<rsTtl, rsTick, rsLate>>

\* The ticker of 10 ms brings the call back to the script.
RSRetry(p) ==
  /\ rsPc[p] = "busy"
  /\ RSGoto(p, "try")
  /\ UNCHANGED <<rsTtl, rsTick, rsLate>>

\* ctx is cancelled, or the script ends in an error: Acquire returns it, and a key
\* that the script has made stays until it expires.
RSGiveUp(p) ==
  /\ rsPc[p] \in {"try", "busy", "granted"}
  /\ RSGoto(p, "idle")
  /\ rsLate' = rsLate \ {p}
  /\ UNCHANGED <<rsTtl, rsTick>>

\* Acquire returns, and starts the goroutine with the refresh ticker.
RSReturn(p) ==
  /\ rsPc[p] = "granted"
  /\ rsTick' = [rsTick EXCEPT ![p] = 0]
  /\ RSGoto(p, "holding")
  /\ UNCHANGED <<rsTtl, rsLate>>

\* The ticker drops ticks that nobody takes in time.  Expire does nothing to a key
\* that is gone.  After close(refreshStop) the select may still take a tick.
RSRefresh(p) ==
  /\ rsPc[p] \in {"holding", "releasing"} /\ rsTick[p] >= RSRefreshUnits
  /\ rsTick' = [rsTick EXCEPT ![p] = @ % RSRefreshUnits]
  /\ rsTtl' = [rsTtl EXCEPT ![p] = IF @ = 0 THEN 0 ELSE RSTtlUnits]
  /\ UNCHANGED <<rsLate, rsPc>>

\* release, or the cancellation of ctx: doRelease runs once,
RSRelease(p) ==
  /\ rsPc[p] = "holding"
  /\ RSGoto(p, "releasing")
  /\ rsLate' = rsLate \ {p}
  /\ UNCHANGED <<rsTtl, rsTick>>

\* and its Del may fail without a word.
RSDel(p) ==
  /\ rsPc[p] = "releasing"
  /\ rsTtl' = [rsTtl EXCEPT ![p] = 0] \/ UNCHANGED rsTtl
  /\ rsTick' = [rsTick EXCEPT ![p] = 0]
  /\ RSGoto(p, "idle")
  /\ UNCHANGED rsLate

\* The process dies.  What is left of the call is its key.
RSDie(p) ==
  /\ RSAlive(p)
  /\ RSGoto(p, "idle")
  /\ rsTick' = [rsTick EXCEPT ![p] = 0]
  /\ rsLate' = rsLate \ {p}
  /\ UNCHANGED rsTtl

\* 100 ms pass, at any moment and as often as may be: whoever extends a key can be
\* late.  A ticker keeps one tick that is not taken and drops the next ones.
RSAdvance ==
  /\ rsTtl' = [p \in RSCalls |-> IF rsTtl[p] = 0 THEN 0 ELSE rsTtl[p] - 1]
  /\ rsTick' = [p \in RSCalls |->
       IF rsPc[p] \notin {"holding", "releasing"} THEN 0
       ELSE IF rsTick[p] = 2 * RSRefreshUnits - 1 THEN RSRefreshUnits
       ELSE rsTick[p] + 1]
  /\ rsLate' = rsLate \union
       {p \in RSCalls : rsPc[p] \in {"granted", "holding"} /\ rsTtl[p] <= 5}
  /\ UNCHANGED rsPc

RSStep(p) ==
  \/ RSAcquire(p) \/ RSScript(p) \/ RSRetry(p) \/ RSGiveUp(p) \/ RSReturn(p)
  \/ RSRefresh(p) \/ RSRelease(p) \/ RSDel(p) \/ RSDie(p)

RSNext == RSAdvance \/ \E p \in RSCalls : RSStep(p)
-----------------------------------------------------------------------------
\* rsem/rsem.go:23: no more than limit processes hold the semaphore together.  Those
\* do not count here whose key, since they were let in, went without an extension
\* until its last half second began, where the script stops counting it: then, 500 ms
\* before the key is gone, another process gets in beside its live holder.
RSLimitHolds == Cardinality({p \in RSCalls : rsPc[p] = "holding"} \ rsLate) <= RSLimit

\* rsem/README.md: the semaphore frees itself when its holders die.  A call that
\* waits while no other is alive, with whatever keys they left behind, gets in, unless it
\* gives up or another one comes.
RSWaiterGetsIn ==
  \A p \in RSCalls :
    rsPc[p] \in {"try", "busy"} /\ (\A q \in RSCalls \ {p} : ~RSAlive(q))
      ~> rsPc[p] \notin {"try", "busy"} \/ \E q \in RSCalls \ {p} : RSAlive(q)
=============================================================================
