--------------------------- MODULE ServerFixture ---------------------------
(***************************************************************************)
(* redisfixture/fixture.go, pgfixture/pg.go and tools/testtool/freeport.go:*)
(* test binaries that run side by side each look for a free port, start a  *)
(* server on it and wait for it.  A port is free again once GetFreePort    *)
(* has returned, until a server listens on it.                             *)
(***************************************************************************)
EXTENDS Integers, FiniteSets

CONSTANTS
  SFTests,    \* test binaries
  SFRedis,    \* those of them that call StartRedis; the others call pgfixture.Start
  SFPorts     \* TCP ports

VARIABLES
  sfPc,      \* "start", "launch", "wait", "run", "failed", "ended"
  sfPort,    \* the port each has found, 0 for none
  sfServer,  \* its server: "none", "starting", "up", "dead"
  sfFinished \* the goroutine that waits for the server has filled finished

sfvars == <<sfPc, sfPort, sfServer, sfFinished>>

SFInit ==
  /\ sfPc = [t \in SFTests |-> "start"]
  /\ sfPort = [t \in SFTests |-> 0]
  /\ sfServer = [t \in SFTests |-> "none"]
  /\ sfFinished = [t \in SFTests |-> FALSE]

SFGoto(t, l) == sfPc' = [sfPc EXCEPT ![t] = l]

SFListening(port) == {t \in SFTests : sfServer[t] = "up" /\ sfPort[t] = port}

\* GetFreePort listens on a port that nobody uses, and closes it.
SFGetFreePort(t) ==
  /\ sfPc[t] = "start"
  /\ \E port \in SFPorts : SFListening(port) = {} /\ sfPort' = [sfPort EXCEPT ![t] = port]
  /\ SFGoto(t, "launch")
  /\ UNCHANGED <<sfServer, sfFinished>>

\* cmd.Start, or a fixture that fails before it: no binary, initdb, no process.
SFLaunch(t) ==
  /\ sfPc[t] = "launch"
  /\ \/ sfServer' = [sfServer EXCEPT ![t] = "starting"] /\ SFGoto(t, "wait")
     \/ SFGoto(t, "failed") /\ UNCHANGED sfServer
  /\ UNCHANGED <<sfPort, sfFinished>>

\* The server: it listens, if nobody else does by now, or it ends.
SFListen(t) ==
  /\ sfServer[t] = "starting"
  /\ sfServer' = [sfServer EXCEPT ![t] = IF SFListening(sfPort[t]) = {} THEN "up" ELSE "dead"]
  /\ UNCHANGED <<sfPc, sfPort, sfFinished>>

SFWaited(t) ==
  /\ sfServer[t] = "dead" /\ ~sfFinished[t]
  /\ sfFinished' = [sfFinished EXCEPT ![t] = TRUE]
  /\ UNCHANGED <<sfPc, sfPort, sfServer>>

\* The loop of StartRedis: a server that has ended, five seconds, or an answer to the
\* ping by whoever listens there.
SFPing(t) ==
  /\ sfPc[t] = "wait" /\ t \in SFRedis
  /\ \/ SFGoto(t, "failed")
     \/ ~sfFinished[t] /\ SFListening(sfPort[t]) # {} /\ SFGoto(t, "run")
  /\ UNCHANGED <<sfPort, sfServer, sfFinished>>

\* pgfixture.Start waits half a second for the server to end and asks no more.
SFHalfSecond(t) ==
  /\ sfPc[t] = "wait" /\ t \notin SFRedis
  /\ \/ sfFinished[t] /\ SFGoto(t, "failed")
     \/ ~sfFinished[t] /\ SFGoto(t, "run")
  /\ UNCHANGED <<sfPort, sfServer, sfFinished>>

\* The test ends; its Cleanup kills the server.  A process that is dead already is none.
SFCleanup(t) ==
  /\ sfPc[t] \in {"run", "failed"}
  /\ sfServer' = [sfServer EXCEPT ![t] = IF @ = "none" THEN @ ELSE "dead"]
  /\ SFGoto(t, "ended")
  /\ UNCHANGED <<sfPort, sfFinished>>

SFNext == \E t \in SFTests :
  \/ SFGetFreePort(t) \/ SFLaunch(t) \/ SFListen(t) \/ SFWaited(t) \/ SFPing(t)
  \/ SFHalfSecond(t) \/ SFCleanup(t)
-----------------------------------------------------------------------------
\* A test that has waited for redis and whose port nobody else was given talks to its
\* own server; and no server is left running by a test that has ended.
SFOwnServer ==
  \A t \in SFTests :
    /\ (sfPc[t] = "run" /\ t \in SFRedis /\ \A u \in SFTests \ {t} : sfPort[u] # sfPort[t]) =>
         SFListening(sfPort[t]) = {t}
    /\ sfPc[t] = "ended" => sfServer[t] \notin {"starting", "up"}
=============================================================================
