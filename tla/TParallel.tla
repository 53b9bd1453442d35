------------------------------ MODULE TParallel ------------------------------
(***************************************************************************)
(* tparallel/tparallel.go: Run starts the top-level tests one after the    *)
(* other, and T.Run does so with the subtests of a test; a test that calls *)
(* Parallel lets its starter go on and sleeps on its starter's condition   *)
(* variable until a Broadcast.                                             *)
(*                                                                         *)
(* A test calls Parallel at most once, at any moment.  Top stands for Run: *)
(* it is the starter of the top-level tests.                               *)
(***************************************************************************)
EXTENDS Sequences, FiniteSets, Integers

CONSTANTS
  TPTests,     \* the tests, each with a T of its own
  TPTop,       \* Run
  TPSubtests,  \* the tests that Run and each test start, in order
  TPParallel   \* the tests that may call Parallel

ASSUME TPAssumption ==
  /\ TPTop \notin TPTests /\ TPParallel \subseteq TPTests
  /\ TPSubtests \in [TPTests \union {TPTop} -> Seq(TPTests)]

\* A test is started at most once, and by another: it has a T of its own.
ASSUME TPOwnTAssumption ==
  \A s, u \in TPTests \union {TPTop} : \A i \in DOMAIN TPSubtests[s], j \in DOMAIN TPSubtests[u] :
    /\ TPSubtests[s][i] # s
    /\ TPSubtests[s][i] = TPSubtests[u][j] => s = u /\ i = j

VARIABLES
  tpPc,          \* where each test is, and Run
  tpNext,        \* how many of its subtests a test has started
  tpEnded,       \* the tests whose channel isEnd is closed
  tpIsParallel,  \* the tests whose channel isParallel is closed
  tpAsleep,      \* the tests in cond.Wait that no Broadcast has reached
  tpWg           \* the counter t.wg of each test

tpvars == <<tpPc, tpNext, tpEnded, tpIsParallel, tpAsleep, tpWg>>

Starters == TPTests \union {TPTop}
StartedBy(s) == {TPSubtests[s][i] : i \in 1..tpNext[s]}
TopTests == StartedBy(TPTop)

TPTypeOK ==
  /\ tpPc \in [Starters -> {"none", "body", "select", "parallel", "sleep",
                            "broadcast", "wait", "close", "done"}]
  /\ tpNext \in [Starters -> Nat]
  /\ tpEnded \subseteq TPTests
  /\ tpIsParallel \subseteq TPParallel
  /\ tpAsleep \subseteq TPParallel
  /\ tpWg \in [TPTests -> Nat]

TPInit ==
  /\ tpPc = [t \in Starters |-> IF t = TPTop THEN "body" ELSE "none"]
  /\ tpNext = [t \in Starters |-> 0]
  /\ tpEnded = {} /\ tpIsParallel = {} /\ tpAsleep = {}
  /\ tpWg = [t \in TPTests |-> 0]

TPGoto(t, l) == tpPc' = [tpPc EXCEPT ![t] = l]
-----------------------------------------------------------------------------
\* Run starts a top-level test and counts it in the test's own WaitGroup;
\* T.Run counts a subtest in the WaitGroup of its parent.
TPRun(s) ==
  LET t == TPSubtests[s][tpNext[s] + 1]
      counted == IF s = TPTop THEN t ELSE s
  IN
  /\ tpPc[s] = "body" /\ tpNext[s] < Len(TPSubtests[s])
  /\ tpPc' = [tpPc EXCEPT ![s] = "select", ![t] = "body"]
  /\ tpNext' = [tpNext EXCEPT ![s] = @ + 1]
  /\ tpWg' = [tpWg EXCEPT ![counted] = @ + 1]
  /\ UNCHANGED <<tpEnded, tpIsParallel, tpAsleep>>

\* The select of both: the test has ended, or it has become parallel.
TPSelect(s) ==
  /\ tpPc[s] = "select"
  /\ TPSubtests[s][tpNext[s]] \in tpEnded \union tpIsParallel
  /\ TPGoto(s, "body")
  /\ UNCHANGED <<tpNext, tpEnded, tpIsParallel, tpAsleep, tpWg>>

\* Parallel lets the starter go on first,
TPParallelClose(t) ==
  /\ tpPc[t] = "body" /\ t \in TPParallel \ tpIsParallel
  /\ tpIsParallel' = tpIsParallel \union {t}
  /\ TPGoto(t, "parallel")
  /\ UNCHANGED <<tpNext, tpEnded, tpAsleep, tpWg>>

\* Mutant: Parallel comes back without a wait.
TPParallelPassing(t) ==
  /\ tpPc[t] = "parallel"
  /\ TPGoto(t, "sleep")
  /\ UNCHANGED <<tpNext, tpEnded, tpIsParallel, tpAsleep, tpWg>>

\* and goes to sleep after that.
TPParallelSleep(t) ==
  /\ tpPc[t] = "parallel"
  /\ tpAsleep' = tpAsleep \union {t}
  /\ TPGoto(t, "sleep")
  /\ UNCHANGED <<tpNext, tpEnded, tpIsParallel, tpWg>>

TPParallelReturn(t) ==
  /\ tpPc[t] = "sleep" /\ t \notin tpAsleep
  /\ TPGoto(t, "body")
  /\ UNCHANGED <<tpNext, tpEnded, tpIsParallel, tpAsleep, tpWg>>

\* The function of a test ends after any number of its subtests, and Run's loop
\* after the last test.  A top-level test broadcasts to nobody and does not wait.
TPEnd(s) ==
  /\ tpPc[s] = "body"
  /\ s = TPTop => tpNext[s] = Len(TPSubtests[s])
  /\ IF s \in TopTests
     THEN /\ TPGoto(s, "close")
          /\ tpWg' = [tpWg EXCEPT ![s] = @ - 1]
     ELSE TPGoto(s, "broadcast") /\ UNCHANGED tpWg
  /\ UNCHANGED <<tpNext, tpEnded, tpIsParallel, tpAsleep>>

\* Broadcast wakes those who sleep now, not those on their way to sleep.
TPBroadcast(s) ==
  /\ tpPc[s] = "broadcast"
  /\ tpAsleep' = tpAsleep \ StartedBy(s)
  /\ TPGoto(s, "wait")
  /\ UNCHANGED <<tpNext, tpEnded, tpIsParallel, tpWg>>

\* Mutant: a subtest counts itself out before its own subtests have.
TPWaitSkipped(s) ==
  /\ tpPc[s] = "wait"
  /\ \/ /\ s = TPTop
        /\ \A t \in TopTests : tpWg[t] = 0
        /\ TPGoto(s, "done")
        /\ UNCHANGED tpWg
     \/ \E parent \in TPTests :
          /\ s \in StartedBy(parent)
          /\ tpWg' = [tpWg EXCEPT ![parent] = @ - 1]
          /\ TPGoto(s, "close")
  /\ UNCHANGED <<tpNext, tpEnded, tpIsParallel, tpAsleep>>

\* Run waits for every top-level test; a subtest waits for its own subtests and
\* counts itself out.
TPWait(s) ==
  /\ tpPc[s] = "wait"
  /\ \/ /\ s = TPTop
        /\ \A t \in TopTests : tpWg[t] = 0
        /\ TPGoto(s, "done")
        /\ UNCHANGED tpWg
     \/ \E parent \in TPTests :
          /\ s \in StartedBy(parent)
          /\ tpWg[s] = 0
          /\ tpWg' = [tpWg EXCEPT ![parent] = @ - 1]
          /\ TPGoto(s, "close")
  /\ UNCHANGED <<tpNext, tpEnded, tpIsParallel, tpAsleep>>

TPClose(t) ==
  /\ tpPc[t] = "close"
  /\ tpEnded' = tpEnded \union {t}
  /\ TPGoto(t, "done")
  /\ UNCHANGED <<tpNext, tpIsParallel, tpAsleep, tpWg>>

TPStep(s) ==
  \/ TPRun(s) \/ TPSelect(s) \/ TPEnd(s) \/ TPBroadcast(s) \/ TPWait(s)
  \/ s \in TPTests /\ \/ TPParallelClose(s) \/ TPParallelSleep(s)
                      \/ TPParallelReturn(s) \/ TPClose(s)

TPNext == \E s \in Starters : TPStep(s)
-----------------------------------------------------------------------------
InFunction(t) == tpPc[t] \in {"body", "select"}

\* tparallel/README.md: of the tests of one starter, one that has not called
\* Parallel runs while the others do not, and one that has goes on only after
\* the starter's function (or Run's loop) is through.
TPSequentialAlone ==
  \A s \in Starters : \A t \in StartedBy(s) :
    InFunction(t) =>
      IF t \in tpIsParallel
      THEN tpPc[s] \in {"wait", "close", "done"}
      ELSE \A u \in StartedBy(s) \ {t} : ~InFunction(u)

\* Run returns after every test that was started, whatever its depth.
TPRunWaitsForAll ==
  tpPc[TPTop] = "done" =>
    \A t \in TPTests : tpPc[t] \in {"none", "close", "done"}

\* tparallel/README.md: Run returns when all tests have ended.  (Every test
\* here ends when it is let go on.)
TPRunReturns == <>(tpPc[TPTop] = "done")
=============================================================================
