-------------------------------- MODULE Once --------------------------------
(***************************************************************************)
(* once/once.go: a channel with one token.  Whoever receives it runs f and *)
(* closes the channel, also when f panics; the others receive from the     *)
(* closed channel.  A call of Do from within f waits for ever (the comment *)
(* of Do says so).                                                         *)
(***************************************************************************)
EXTENDS Integers, FiniteSets

CONSTANT OnceCalls  \* the calls of Do

VARIABLES
  onceCh,  \* "token", "empty" or "closed"
  oncePc,  \* where each call is
  onceF    \* the calls whose f was started

oncevars == <<onceCh, oncePc, onceF>>

OnceTypeOK ==
  /\ onceCh \in {"token", "empty", "closed"}
  /\ oncePc \in [OnceCalls -> {"idle", "receive", "f", "stuck", "done", "panicked"}]
  /\ onceF \subseteq OnceCalls

OnceInit ==
  /\ onceCh = "token"
  /\ oncePc = [c \in OnceCalls |-> "idle"]
  /\ onceF = {}

OnceGoto(c, l) == oncePc' = [oncePc EXCEPT ![c] = l]

OnceCall(c) ==
  /\ oncePc[c] = "idle"
  /\ OnceGoto(c, "receive")
  /\ UNCHANGED <<onceCh, onceF>>

\* Mutant: the first call closes the channel before it runs f.
OnceClosingFirst(c) ==
  /\ oncePc[c] = "receive"
  /\ \/ /\ onceCh = "token" /\ onceCh' = "closed"
        /\ onceF' = onceF \union {c}
        /\ OnceGoto(c, "f")
     \/ /\ onceCh = "closed"
        /\ OnceGoto(c, "done")
        /\ UNCHANGED <<onceCh, onceF>>

OnceReceive(c) ==
  /\ oncePc[c] = "receive"
  /\ \/ /\ onceCh = "token" /\ onceCh' = "empty"
        /\ onceF' = onceF \union {c}
        /\ OnceGoto(c, "f")
     \/ /\ onceCh = "closed"
        /\ OnceGoto(c, "done")
        /\ UNCHANGED <<onceCh, onceF>>

\* f returns or panics: the deferred close runs either way.
OnceReturn(c) ==
  /\ oncePc[c] = "f"
  /\ onceCh' = "closed"
  /\ OnceGoto(c, "done") \/ OnceGoto(c, "panicked")
  /\ UNCHANGED onceF

\* f calls Do, which finds the channel empty.
OnceReenter(c) ==
  /\ oncePc[c] = "f" /\ onceCh = "empty"
  /\ OnceGoto(c, "stuck")
  /\ UNCHANGED <<onceCh, onceF>>

OnceNext ==
  \E c \in OnceCalls :
    OnceCall(c) \/ OnceReceive(c) \/ OnceReturn(c) \/ OnceReenter(c)
-----------------------------------------------------------------------------
\* f is started once; no call returns before the call that started it is
\* through with it, by a return or by a panic.
OnceBeforeReturn ==
  /\ Cardinality(onceF) <= 1
  /\ \A c \in OnceCalls :
       oncePc[c] = "done" => \E d \in onceF : oncePc[d] \in {"done", "panicked"}
=============================================================================
