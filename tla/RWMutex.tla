------------------------------- MODULE RWMutex -------------------------------
(***************************************************************************)
(* rwmutex/rwmutex.go: a reader/writer lock made of two channels of        *)
(* capacity one that hold a token each, and a counter of readers.          *)
(*                                                                         *)
(* Whoever has taken the token of r may look at the counter and change it; *)
(* a call is blocked where the token it wants is out, or, for a send,      *)
(* where the channel is full.                                              *)
(***************************************************************************)
EXTENDS Naturals, FiniteSets

CONSTANT Procs  \* the goroutines that use the lock

ASSUME ProcsAssumption == IsFiniteSet(Procs)

VARIABLES
  w, r,  \* whether the channel holds its token
  rCnt,  \* r_cnt
  pc     \* where each goroutine is

rwvars == <<w, r, rCnt, pc>>

RWTypeOK ==
  /\ w \in BOOLEAN /\ r \in BOOLEAN
  /\ rCnt \in Nat
  /\ pc \in [Procs -> {"idle", "renter", "reading", "rexit", "lock", "writing"}]

RWInit ==
  /\ w = TRUE /\ r = TRUE
  /\ rCnt = 0
  /\ pc = [p \in Procs |-> "idle"]

Goto(p, l) == pc' = [pc EXCEPT ![p] = l]

\* RLock takes r first, and keeps it while it waits for w.
RLock(p) ==
  /\ pc[p] = "idle"
  /\ r /\ r' = FALSE
  /\ Goto(p, "renter")
  /\ UNCHANGED <<w, rCnt>>

\* Mutant: a reader that does not take w.
REnterBesideWriter(p) ==
  /\ pc[p] = "renter"
  /\ rCnt' = rCnt + 1
  /\ r' = TRUE
  /\ Goto(p, "reading")
  /\ w' = FALSE

REnter(p) ==
  /\ pc[p] = "renter"
  /\ IF rCnt = 0 THEN w /\ w' = FALSE ELSE UNCHANGED w
  /\ rCnt' = rCnt + 1
  /\ r' = TRUE
  /\ Goto(p, "reading")

RUnlock(p) ==
  /\ pc[p] = "reading"
  /\ r /\ r' = FALSE
  /\ Goto(p, "rexit")
  /\ UNCHANGED <<w, rCnt>>

\* Mutant: every reader gives w back.
RExitGivingBack(p) ==
  /\ pc[p] = "rexit"
  /\ rCnt' = rCnt - 1
  /\ ~w /\ w' = TRUE
  /\ r' = TRUE
  /\ Goto(p, "idle")

RExit(p) ==
  /\ pc[p] = "rexit"
  /\ rCnt' = rCnt - 1
  /\ IF rCnt = 1 THEN ~w /\ w' = TRUE ELSE UNCHANGED w
  /\ r' = TRUE
  /\ Goto(p, "idle")

Lock(p) ==
  /\ pc[p] = "idle"
  /\ Goto(p, "lock")
  /\ UNCHANGED <<w, r, rCnt>>

Locked(p) ==
  /\ pc[p] = "lock"
  /\ w /\ w' = FALSE
  /\ Goto(p, "writing")
  /\ UNCHANGED <<r, rCnt>>

Unlock(p) ==
  /\ pc[p] = "writing"
  /\ ~w /\ w' = TRUE
  /\ Goto(p, "idle")
  /\ UNCHANGED <<r, rCnt>>

RWNext ==
  \E p \in Procs :
    \/ RLock(p) \/ REnter(p) \/ RUnlock(p) \/ RExit(p)
    \/ Lock(p) \/ Locked(p) \/ Unlock(p)

RWSpec == RWInit /\ [][RWNext]_rwvars
-----------------------------------------------------------------------------
Readers == {p \in Procs : pc[p] \in {"reading", "rexit"}}
Writers == {p \in Procs : pc[p] = "writing"}
Inside == {p \in Procs : pc[p] \in {"renter", "rexit"}}

\* The two tokens and the counter say who is inside: r is out while somebody
\* is between its two channel operations, w while anybody holds the lock, and
\* the first reader in and the last one out agree on who takes and returns it.
TokensMatchHolders ==
  /\ r <=> Inside = {}
  /\ \A p, q \in Inside : p = q
  /\ w <=> Readers = {} /\ Writers = {}
  /\ Readers = {} \/ Writers = {}
  /\ \A p, q \in Writers : p = q
  /\ rCnt = Cardinality(Readers)

Shared == INSTANCE SharedLock WITH readers <- Readers, writers <- Writers

\* rwmutex/README.md, properties 1 to 3: a writer is alone and readers keep
\* writers out, seen as one step in and one step out.
ImplementsSharedLock == Shared!Spec
=============================================================================
