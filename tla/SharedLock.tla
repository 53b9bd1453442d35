----------------------------- MODULE SharedLock -----------------------------
(***************************************************************************)
(* What a reader/writer lock promises (rwmutex/README.md, its properties   *)
(* 1 to 3): any number of readers or one writer inside, and each comes in  *)
(* and goes out in one step.                                               *)
(***************************************************************************)
CONSTANT Procs

VARIABLES
  readers,  \* those that hold the lock for reading
  writers   \* those that hold it for writing

vars == <<readers, writers>>

Init == readers = {} /\ writers = {}

EnterShared(p) ==
  /\ writers = {}
  /\ readers' = readers \union {p}
  /\ UNCHANGED writers

ExitShared(p) ==
  /\ p \in readers
  /\ readers' = readers \ {p}
  /\ UNCHANGED writers

EnterExclusive(p) ==
  /\ readers = {} /\ writers = {}
  /\ writers' = {p}
  /\ UNCHANGED readers

ExitExclusive(p) ==
  /\ p \in writers
  /\ writers' = writers \ {p}
  /\ UNCHANGED readers

Next ==
  \E p \in Procs :
    \/ EnterShared(p) \/ ExitShared(p) \/ EnterExclusive(p) \/ ExitExclusive(p)

Spec == Init /\ [][Next]_vars
=============================================================================
