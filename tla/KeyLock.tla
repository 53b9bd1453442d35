------------------------------- MODULE KeyLock -------------------------------
(***************************************************************************)
(* keylock/keylock.go: one channel per key, with a token while the key is  *)
(* free.  LockKeys keeps klMu for the whole call, up to 100 ms per key;    *)
(* the unlock function it returns works without klMu.                      *)
(*                                                                         *)
(* ReleaseLocks reads the map muMap that LockKeys writes under klMu: the   *)
(* runtime may notice a read beside an insertion and end the process.      *)
(***************************************************************************)
EXTENDS Sequences, FiniteSets, SequencesExt

CONSTANTS
  KLProcs,     \* goroutines
  KLKeys,      \* keys
  KLRequests,  \* the key lists that LockKeys is called with
  KLNone       \* nobody

ASSUME KLAssumption == KLRequests \subseteq Seq(KLKeys) /\ KLNone \notin KLProcs

VARIABLES
  klMu,        \* who has mu
  klMap,       \* the keys that have a channel
  klFree,      \* the keys whose channel holds its token
  klInsert,    \* who inserts into muMap at this moment
  klPc,        \* where each goroutine is
  klTodo,      \* the keys LockKeys has still to take
  klHeld,      \* curLocks, without what unlock has released already
  klCancel,    \* the calls whose channel cancel is closed
  klDead       \* the runtime has ended the process

klvars == <<klMu, klMap, klFree, klInsert, klPc, klTodo, klHeld, klCancel, klDead>>

KLTypeOK ==
  /\ klMu \in KLProcs \union {KLNone}
  /\ klFree \subseteq klMap /\ klMap \subseteq KLKeys
  /\ klInsert \in KLProcs \union {KLNone}
  /\ klPc \in [KLProcs -> {"idle", "lock", "keys", "held", "unlock"}]
  /\ klTodo \in [KLProcs -> Seq(KLKeys)]
  /\ klHeld \in [KLProcs -> SUBSET KLKeys]
  /\ klCancel \subseteq KLProcs
  /\ klDead \in BOOLEAN

KLInit ==
  /\ klMu = KLNone /\ klMap = {} /\ klFree = {} /\ klInsert = KLNone
  /\ klPc = [p \in KLProcs |-> "idle"]
  /\ klTodo = [p \in KLProcs |-> <<>>]
  /\ klHeld = [p \in KLProcs |-> {}]
  /\ klCancel = {} /\ klDead = FALSE

KLGoto(p, l) == klPc' = [klPc EXCEPT ![p] = l]

KLCall(p) ==
  /\ klPc[p] = "idle"
  /\ \E keys \in KLRequests : klTodo' = [klTodo EXCEPT ![p] = keys]
  /\ klCancel' = klCancel \ {p}
  /\ KLGoto(p, "lock")
  /\ UNCHANGED <<klMu, klMap, klFree, klInsert, klHeld, klDead>>

KLCancel(p) ==
  /\ klPc[p] \in {"lock", "keys"} /\ p \notin klCancel
  /\ klCancel' = klCancel \union {p}
  /\ UNCHANGED <<klMu, klMap, klFree, klInsert, klPc, klTodo, klHeld, klDead>>

KLLock(p) ==
  /\ klPc[p] = "lock" /\ klMu = KLNone
  /\ klMu' = p
  /\ KLGoto(p, "keys")
  /\ UNCHANGED <<klMap, klFree, klInsert, klTodo, klHeld, klCancel, klDead>>

\* The key has no channel yet: the map is written, while others may read it.
KLStartInsert(p) ==
  /\ klPc[p] = "keys" /\ klTodo[p] # <<>> /\ klInsert = KLNone
  /\ Head(klTodo[p]) \notin klMap
  /\ klInsert' = p
  /\ UNCHANGED <<klMu, klMap, klFree, klPc, klTodo, klHeld, klCancel, klDead>>

KLInsert(p) ==
  /\ klInsert = p
  /\ klInsert' = KLNone
  /\ klMap' = klMap \union {Head(klTodo[p])}
  /\ klFree' = klFree \union {Head(klTodo[p])}
  /\ UNCHANGED <<klMu, klPc, klTodo, klHeld, klCancel, klDead>>

\* The select takes the token of the next key,
KLTake(p) ==
  /\ klPc[p] = "keys" /\ klTodo[p] # <<>> /\ Head(klTodo[p]) \in klFree
  /\ klFree' = klFree \ {Head(klTodo[p])}
  /\ klHeld' = [klHeld EXCEPT ![p] = @ \union {Head(klTodo[p])}]
  /\ klTodo' = [klTodo EXCEPT ![p] = Tail(@)]
  /\ UNCHANGED <<klMu, klMap, klInsert, klPc, klCancel, klDead>>

\* Mutant: the keys taken so far are forgotten.
KLGiveUpLeaking(p) ==
  /\ klHeld' = [klHeld EXCEPT ![p] = {}]
  /\ klTodo' = [klTodo EXCEPT ![p] = <<>>]
  /\ klMu' = KLNone
  /\ KLGoto(p, "idle")
  /\ UNCHANGED <<klMap, klFree, klInsert, klCancel, klDead>>

\* or gives up: ReleaseLocks, under mu, and canceled = true.
KLGiveUp(p) ==
  /\ klFree' = klFree \union klHeld[p]
  /\ klHeld' = [klHeld EXCEPT ![p] = {}]
  /\ klTodo' = [klTodo EXCEPT ![p] = <<>>]
  /\ klMu' = KLNone
  /\ KLGoto(p, "idle")
  /\ UNCHANGED <<klMap, klInsert, klCancel, klDead>>

KLSelecting(p) == klPc[p] = "keys" /\ klTodo[p] # <<>> /\ Head(klTodo[p]) \in klMap

\* Mutant: without the timer, only cancel ends the wait, and mu is kept during it.
KLTimeOutOnCancel(p) == KLSelecting(p) /\ p \in klCancel /\ KLGiveUp(p)

\* The timer of 100 ms, which every key starts anew; the key may be free by then,
\* when the goroutine was stopped before the select.
KLTimeOut(p) == KLSelecting(p) /\ KLGiveUp(p)

KLCancelled(p) == KLSelecting(p) /\ p \in klCancel /\ KLGiveUp(p)

KLReturn(p) ==
  /\ klPc[p] = "keys" /\ klTodo[p] = <<>>
  /\ klMu' = KLNone
  /\ KLGoto(p, "held")
  /\ UNCHANGED <<klMap, klFree, klInsert, klTodo, klHeld, klCancel, klDead>>

KLUnlock(p) ==
  /\ klPc[p] = "held"
  /\ KLGoto(p, "unlock")
  /\ UNCHANGED <<klMu, klMap, klFree, klInsert, klTodo, klHeld, klCancel, klDead>>

\* unlock gives the keys back one by one; each looks into the map without mu.
KLRelease(p) ==
  /\ klPc[p] = "unlock" /\ klHeld[p] # {}
  /\ \E key \in klHeld[p] :
       /\ klFree' = klFree \union {key}
       /\ klHeld' = [klHeld EXCEPT ![p] = @ \ {key}]
  /\ UNCHANGED <<klMu, klMap, klInsert, klPc, klTodo, klCancel, klDead>>

KLRace(p) ==
  /\ klPc[p] = "unlock" /\ klHeld[p] # {} /\ klInsert # KLNone
  /\ klDead' = TRUE
  /\ UNCHANGED <<klMu, klMap, klFree, klInsert, klPc, klTodo, klHeld, klCancel>>

KLUnlocked(p) ==
  /\ klPc[p] = "unlock" /\ klHeld[p] = {}
  /\ KLGoto(p, "idle")
  /\ UNCHANGED <<klMu, klMap, klFree, klInsert, klTodo, klHeld, klCancel, klDead>>

KLNext ==
  /\ ~klDead
  /\ \E p \in KLProcs :
       \/ KLCall(p) \/ KLCancel(p) \/ KLLock(p) \/ KLStartInsert(p) \/ KLInsert(p)
       \/ KLTake(p) \/ KLTimeOut(p) \/ KLCancelled(p) \/ KLReturn(p)
       \/ KLUnlock(p) \/ KLRelease(p) \/ KLRace(p) \/ KLUnlocked(p)
-----------------------------------------------------------------------------
\* The token of each key is in its channel or in one list of taken keys, in
\* exactly one of these places: two callers never hold a key together, and no
\* key is lost when a call gives up after it got a part of its list.
KLKeysConserved ==
  \A key \in klMap :
    Cardinality({p \in KLProcs : key \in klHeld[p]})
      = IF key \in klFree THEN 0 ELSE 1

KLCalling(p) == klPc[p] \in {"lock", "keys"}
KLKeysOf(p) == ToSet(klTodo[p]) \union klHeld[p]

\* Nobody else has a key of p's, nor asks for one.
KLUndisputed(p) == \A q \in KLProcs \ {p} : KLKeysOf(p) \intersect KLKeysOf(q) = {}

\* keylock/README.md: a call whose channel cancel is closed returns, and calls whose
\* key sets do not meet do not wait for each other; although each keeps all others
\* out of LockKeys for as long as it waits for its own keys.
KLOthersDoNotMatter ==
  \A p \in KLProcs :
    KLCalling(p) /\ (p \in klCancel \/ KLUndisputed(p))
      ~> ~KLCalling(p) \/ ~(p \in klCancel \/ KLUndisputed(p)) \/ klDead
=============================================================================
