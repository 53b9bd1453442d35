------------------------------ MODULE WaitGroup ------------------------------
(***************************************************************************)
(* waitgroup/waitgroup.go: a counter, and two channels of one token each.  *)
(*                                                                         *)
(* wgMu guards the counter; wgCh holds its token while the counter is      *)
(* zero, and each Wait that takes it puts it back for the next one.  Add   *)
(* uses wgCh at most once while it has wgMu, so it is one step; Wait       *)
(* receives from wgCh without wgMu.                                        *)
(*                                                                         *)
(* The callers keep the rule of Add's comment: a positive delta that finds *)
(* zero comes after all earlier calls of Wait have returned.               *)
(***************************************************************************)
EXTENDS Integers

CONSTANTS
  WGProcs,  \* goroutines
  WGDeltas, \* arguments of Add, Done's -1 among them
  WGMax     \* bound: the counter stays at or below it

ASSUME WGAssumption == WGDeltas \subseteq Int /\ WGMax \in Nat

VARIABLES
  wgCnt,
  wgCh,   \* whether ch holds its token
  wgMu,   \* whether mu holds its token
  wgPc    \* where each goroutine is

wgvars == <<wgCnt, wgCh, wgMu, wgPc>>

WGTypeOK ==
  /\ wgCnt \in Int
  /\ wgCh \in BOOLEAN
  /\ wgMu \in BOOLEAN
  /\ wgPc \in [WGProcs -> {"idle", "waiting", "received", "panicked"}]

WGInit ==
  /\ wgCnt = 0
  /\ wgCh = TRUE /\ wgMu = TRUE
  /\ wgPc = [p \in WGProcs |-> "idle"]

WGGoto(p, l) == wgPc' = [wgPc EXCEPT ![p] = l]
WGInWait == {p \in WGProcs : wgPc[p] \in {"waiting", "received"}}

\* Mutant: the token is left in ch when the counter rises from zero.
WGAddKeepingToken(p, delta) ==
  LET cnt == wgCnt + delta IN
  /\ wgMu /\ cnt >= 0 /\ delta # 0
  /\ wgCnt' = cnt
  /\ wgCh' = (wgCh \/ cnt = 0)
  /\ UNCHANGED <<wgMu, wgPc>>

\* Add; a negative counter makes it panic, and it never gives mu back.
WGAdd(p, delta) ==
  LET cnt == wgCnt + delta IN
  /\ wgMu /\ delta # 0
  /\ wgCnt' = cnt
  /\ \/ /\ cnt < 0
        /\ wgMu' = FALSE
        /\ WGGoto(p, "panicked")
        /\ UNCHANGED wgCh
     \/ /\ cnt >= 0
        /\ wgCh' = IF cnt = 0 THEN TRUE ELSE wgCh /\ wgCnt # 0
        /\ UNCHANGED <<wgMu, wgPc>>

\* The calls of Add and Done that the comment of Add allows.
WGCallAdd(p) ==
  /\ wgPc[p] = "idle"
  /\ \E delta \in WGDeltas :
       /\ wgCnt + delta <= WGMax
       /\ wgCnt = 0 /\ delta > 0 => WGInWait = {}
       /\ WGAdd(p, delta)

\* Wait returns at once when it finds zero.
WGWait(p) ==
  /\ wgPc[p] = "idle" /\ wgMu
  /\ WGGoto(p, IF wgCnt = 0 THEN "idle" ELSE "waiting")
  /\ UNCHANGED <<wgCnt, wgCh, wgMu>>

WGReceive(p) ==
  /\ wgPc[p] = "waiting" /\ wgCh
  /\ wgCh' = FALSE
  /\ WGGoto(p, "received")
  /\ UNCHANGED <<wgCnt, wgMu>>

\* Mutant: the token is not passed on to the next waiter.
WGReturnWithToken(p) ==
  /\ wgPc[p] = "received" /\ wgMu
  /\ WGGoto(p, "idle")
  /\ UNCHANGED <<wgCnt, wgCh, wgMu>>

WGReturn(p) ==
  /\ wgPc[p] = "received" /\ wgMu
  /\ wgCh' = (wgCh \/ wgCnt = 0)
  /\ WGGoto(p, "idle")
  /\ UNCHANGED <<wgCnt, wgMu>>

WGNext ==
  \E p \in WGProcs : WGCallAdd(p) \/ WGWait(p) \/ WGReceive(p) \/ WGReturn(p)
-----------------------------------------------------------------------------
\* While nobody has panicked, the token of ch, in the channel or on its way
\* between two waiters, exists exactly when the counter is zero: nobody leaves
\* Wait while goroutines are still counted, and no waiter is forgotten.
WGTokenMeansZero ==
  wgMu => (wgCnt = 0) <=> (wgCh \/ \E p \in WGProcs : wgPc[p] = "received")

\* One zero releases every Wait, however many wait on the single token.
WGWaitersReturn ==
  \A p \in WGProcs :
    wgPc[p] = "waiting" /\ wgCnt = 0 ~> wgPc[p] = "idle" \/ ~wgMu
=============================================================================
