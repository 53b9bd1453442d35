--------------------------- MODULE ProgramsProofs ---------------------------
(***************************************************************************)
(* Proofs about the programs of MCPrograms.  A behaviour runs one of them: *)
(* every step is a step of one program or leaves it alone.                 *)
(***************************************************************************)
EXTENDS MCPrograms, TLAPS, FiniteSetTheorems, WellFoundedInduction

LEMMA ProgramSteps ==
  ASSUME [Next]_vars
  PROVE  /\ [LGNext]_lgvars /\ [USNext]_usvars /\ [CMNext]_cmvars /\ [DAONext]_daovars
         /\ [BCNext]_bcvars /\ [SFNext]_sfvars
BY DEF Next, SharedNext, ComputedNext, ToolsNext, vars, shared, tools
-----------------------------------------------------------------------------
(* The ledger: its inductive invariant.                                    *)

LGTransacting == {"check", "debit", "credit", "commit"}

\* The step a call is at belongs to its operation.
LGStepFits(c) ==
  LET r == lgReq[c] IN
  /\ lgPc[c] # "idle" => /\ r \in LGRequests
                         /\ r.op \in {"Deposit", "Withdraw", "Transfer"} /\ r.amount >= 0
  /\ lgPc[c] = "update" => r.op = "Deposit"
  /\ lgPc[c] \in LGTransacting \union {"first", "second"} => r.op \in {"Withdraw", "Transfer"}
  /\ lgPc[c] \in {"second", "credit"} => r.op = "Transfer"

\* A row a transaction has locked is there, and what it has read of the row it
\* debits is still in it.
LGLocked(c, id) ==
  /\ lgLock[id] = c /\ lgBalance[id] # -1
  /\ id = LGDebited(lgReq[c]) => lgSeen[c] = lgBalance[id]

LGRowsLocked(c) ==
  LET r == lgReq[c] IN
  /\ lgPc[c] = "second" => LGLocked(c, LGFirst(r))
  /\ lgPc[c] \in LGTransacting =>
       LGLocked(c, LGDebited(r)) /\ (r.op = "Transfer" => LGLocked(c, r.to))
  /\ lgPc[c] \in LGTransacting \ {"check"} => r.amount <= lgSeen[c]

\* What a transaction has added to a row so far.
LGAdded(c, id) ==
  LET r == lgReq[c] IN
  (IF lgPc[c] \in {"credit", "commit"} /\ id = LGDebited(r) THEN -r.amount ELSE 0)
    + (IF lgPc[c] = "commit" /\ r.op = "Transfer" /\ id = r.to THEN r.amount ELSE 0)

LGChangesExact(c) ==
  lgPc[c] # "rollback" =>
    \A id \in LGIDs : /\ lgDelta[c][id] = LGAdded(c, id)
                      /\ lgBalance[id] + LGAdded(c, id) <= LGMax

\* Only a call between its first SELECT and its end has rows locked, and after one
\* SELECT only that row.
LGLocksKnown ==
  \A id \in LGIDs : \A c \in LGCalls : lgLock[id] = c =>
    \/ lgPc[c] \in LGTransacting \union {"rollback"}
    \/ lgPc[c] = "second" /\ id = LGFirst(lgReq[c])

LGInv ==
  /\ LGTypeOK /\ LGLocksKnown
  /\ \A c \in LGCalls : LGStepFits(c) /\ LGRowsLocked(c) /\ LGChangesExact(c)
-----------------------------------------------------------------------------
LEMMA LGRequestShape ==
  ASSUME NEW r \in LGRequests
  PROVE  /\ r.op \in {"CreateAccount", "GetBalance", "Deposit", "Withdraw", "Transfer"}
         /\ r.op \in {"CreateAccount", "GetBalance", "Deposit", "Withdraw"} => r.id \in LGIDs
         /\ r.op \in {"Deposit", "Withdraw", "Transfer"} => r.amount \in Int
         /\ r.op = "Transfer" => r.from \in LGIDs /\ r.to \in LGIDs
         /\ r.op \in {"Withdraw", "Transfer"} =>
              LGFirst(r) \in LGIDs /\ LGDebited(r) \in LGIDs
         /\ r.op = "Transfer" => LGSecond(r) \in LGIDs
BY LGAssumption DEF LGFirst, LGDebited, LGSecond

\* The frame of a step of c: what a call d, its locked rows included, is left with.
LEMMA LGOthersStay ==
  ASSUME LGInv, LGTypeOK', NEW d \in LGCalls,
         lgPc'[d] = lgPc[d], lgReq'[d] = lgReq[d], lgSeen'[d] = lgSeen[d],
         lgDelta'[d] = lgDelta[d],
         \A id \in LGIDs : lgLock[id] = d => lgLock'[id] = d /\ lgBalance'[id] = lgBalance[id]
  PROVE  LGStepFits(d)' /\ LGRowsLocked(d)' /\ LGChangesExact(d)'
<1>1. LGStepFits(d) /\ LGRowsLocked(d) /\ LGChangesExact(d) /\ LGTypeOK
  BY DEF LGInv
<1>2. LGStepFits(d)'
  BY <1>1 DEF LGStepFits, LGTransacting
<1>3. lgPc[d] # "idle" => lgReq[d] \in LGRequests
  BY <1>1 DEF LGStepFits
<1>4. LGRowsLocked(d)'
  BY <1>1, <1>3, LGRequestShape DEF LGRowsLocked, LGLocked, LGStepFits, LGTransacting
<1>5. LGChangesExact(d)'
  <2> SUFFICES ASSUME lgPc[d] # "rollback", NEW id \in LGIDs
               PROVE  /\ lgDelta[d][id] = LGAdded(d, id)'
                      /\ lgBalance'[id] + LGAdded(d, id)' <= LGMax
    BY DEF LGChangesExact
  <2>1. LGAdded(d, id)' = LGAdded(d, id) /\ LGAdded(d, id) \in Int
    BY <1>1, <1>3, LGRequestShape DEF LGAdded, LGStepFits, LGTransacting
  <2>2. LGAdded(d, id) = 0 \/ lgLock[id] = d
    BY <1>1 DEF LGAdded, LGRowsLocked, LGLocked, LGStepFits, LGTransacting
  <2>3. lgBalance'[id] <= LGMax /\ lgBalance'[id] \in Int
    BY LGAssumption DEF LGTypeOK
  <2> QED  BY <1>1, <2>1, <2>2, <2>3 DEF LGChangesExact
<1> QED  BY <1>2, <1>4, <1>5

LEMMA LGInitInv == LGInit => LGInv
<1> SUFFICES ASSUME LGInit PROVE LGInv
  OBVIOUS
<1>1. LGTypeOK
  BY LGAssumption DEF LGInit, LGTypeOK, NoChange
<1>2. LGLocksKnown
  BY LGAssumption DEF LGInit, LGLocksKnown
<1>3. ASSUME NEW c \in LGCalls PROVE LGStepFits(c) /\ LGRowsLocked(c) /\ LGChangesExact(c)
  BY LGAssumption DEF LGInit, LGStepFits, LGRowsLocked, LGChangesExact, LGAdded, LGTransacting,
     NoChange
<1> QED  BY <1>1, <1>2, <1>3 DEF LGInv

LEMMA LGCallKeeps ==
  ASSUME LGInv, NEW c \in LGCalls, LGCall(c)
  PROVE  LGInv'
<1>0. lgPc[c] = "idle" /\ LGTypeOK /\ LGLocksKnown
      /\ LGStepFits(c) /\ LGRowsLocked(c) /\ LGChangesExact(c)
  BY DEF LGCall, LGInv
<1>1. PICK r \in LGRequests :
        LGCreateAccount(r) \/ LGGetBalance(r) \/ LGNegative(r) \/ LGBegin(c, r)
  BY DEF LGCall
<1>2. CASE LGCreateAccount(r)
  <2>1. LGTypeOK' /\ lgLock' = lgLock /\ lgPc' = lgPc /\ lgReq' = lgReq /\ lgSeen' = lgSeen
        /\ lgDelta' = lgDelta
    BY <1>0, <1>2, LGAssumption, LGRequestShape DEF LGCreateAccount, LGTypeOK
  <2>2. \A id \in LGIDs : lgBalance[id] # -1 => lgBalance'[id] = lgBalance[id]
    BY <1>0, <1>2, LGRequestShape DEF LGCreateAccount, LGTypeOK
  <2>3. LGLocksKnown'
    BY <1>0, <2>1 DEF LGLocksKnown
  <2>4. ASSUME NEW d \in LGCalls PROVE LGStepFits(d)' /\ LGRowsLocked(d)' /\ LGChangesExact(d)'
    <3>1. LGStepFits(d) /\ LGRowsLocked(d) /\ LGChangesExact(d)
      BY DEF LGInv
    <3>2. LGStepFits(d)'
      BY <2>1, <3>1 DEF LGStepFits
    <3>3. LGRowsLocked(d)'
      BY <2>1, <2>2, <3>1, LGRequestShape DEF LGRowsLocked, LGLocked, LGStepFits, LGTransacting
    <3>4. LGChangesExact(d)'
      <4> SUFFICES ASSUME lgPc[d] # "rollback", NEW id \in LGIDs
                   PROVE  /\ lgDelta[d][id] = LGAdded(d, id)'
                          /\ lgBalance'[id] + LGAdded(d, id)' <= LGMax
        BY <2>1 DEF LGChangesExact
      <4>1. LGAdded(d, id)' = LGAdded(d, id) /\ LGAdded(d, id) \in Int
        BY <2>1, <3>1, LGRequestShape DEF LGAdded, LGStepFits, LGTransacting
      <4>2. LGAdded(d, id) = 0 \/ lgBalance[id] # -1
        BY <3>1 DEF LGAdded, LGRowsLocked, LGLocked, LGStepFits, LGTransacting
      <4>3. lgBalance'[id] <= LGMax /\ lgBalance'[id] \in Int
        BY <2>1, LGAssumption DEF LGTypeOK
      <4> QED  BY <3>1, <4>1, <4>2, <4>3, <2>2 DEF LGChangesExact
    <3> QED  BY <3>2, <3>3, <3>4
  <2> QED  BY <2>1, <2>3, <2>4 DEF LGInv
<1>3. CASE LGGetBalance(r) \/ LGNegative(r)
  <2>1. UNCHANGED <<lgBalance, lgLock, lgPc, lgReq, lgSeen, lgDelta>>
    BY <1>3 DEF LGGetBalance, LGNegative
  <2> QED
    BY <2>1 DEF LGInv, LGTypeOK, LGLocksKnown, LGStepFits, LGRowsLocked, LGLocked,
       LGChangesExact, LGAdded
<1>4. CASE LGBegin(c, r)
  <2>1. LGTypeOK'
    BY <1>0, <1>4 DEF LGBegin, LGTypeOK, LGGoto
  <2>2. LGLocksKnown'
    BY <1>0, <1>4 DEF LGBegin, LGTypeOK, LGGoto, LGLocksKnown, LGTransacting
  <2>3. LGStepFits(c)' /\ LGRowsLocked(c)' /\ LGChangesExact(c)'
    BY <1>0, <1>4 DEF LGBegin, LGTypeOK, LGGoto, LGStepFits, LGRowsLocked, LGChangesExact,
       LGTransacting, LGAdded
  <2>4. ASSUME NEW d \in LGCalls, d # c
        PROVE  LGStepFits(d)' /\ LGRowsLocked(d)' /\ LGChangesExact(d)'
    BY <1>0, <1>4, <2>1, <2>4, LGOthersStay DEF LGBegin, LGTypeOK, LGGoto
  <2> QED  BY <2>1, <2>2, <2>3, <2>4 DEF LGInv
<1> QED  BY <1>1, <1>2, <1>3, <1>4

LEMMA LGDepositKeeps ==
  ASSUME LGInv, NEW c \in LGCalls, LGDeposit(c)
  PROVE  LGInv'
<1>0. /\ LGTypeOK /\ LGLocksKnown /\ LGStepFits(c) /\ LGRowsLocked(c) /\ LGChangesExact(c)
      /\ lgReq[c] \in LGRequests /\ lgReq[c].op = "Deposit"
      /\ lgReq[c].id \in LGIDs /\ lgReq[c].amount \in Nat
  BY LGRequestShape DEF LGInv, LGDeposit, LGStepFits
<1>1. LGTypeOK'
  BY <1>0, LGAssumption DEF LGDeposit, LGTypeOK, LGGoto
<1>2. \A id \in LGIDs : lgLock[id] # c
  BY <1>0 DEF LGDeposit, LGLocksKnown, LGTransacting
<1>3. LGLocksKnown'
  BY <1>0, <1>2 DEF LGDeposit, LGTypeOK, LGGoto, LGLocksKnown, LGTransacting
<1>4. LGStepFits(c)' /\ LGRowsLocked(c)' /\ LGChangesExact(c)'
  <2>1. lgPc'[c] = "idle" /\ lgDelta' = lgDelta /\ lgReq'[c] = NoRequest
    BY <1>0 DEF LGDeposit, LGGoto, LGTypeOK
  <2>2. \A id \in LGIDs : lgDelta[c][id] = 0
    BY <1>0, LGAssumption DEF LGDeposit, LGChangesExact, LGAdded, LGTypeOK
  <2>3. \A id \in LGIDs : lgBalance'[id] \in Int /\ lgBalance'[id] <= LGMax
    BY <1>1, LGAssumption DEF LGTypeOK
  <2> QED
    BY <2>1, <2>2, <2>3 DEF LGStepFits, LGRowsLocked, LGChangesExact, LGTransacting, LGAdded
<1>5. ASSUME NEW d \in LGCalls, d # c
      PROVE  LGStepFits(d)' /\ LGRowsLocked(d)' /\ LGChangesExact(d)'
  <2>1. \A id \in LGIDs :
          lgLock[id] = d => lgLock'[id] = d /\ lgBalance'[id] = lgBalance[id]
    BY <1>0, <1>5, LGAssumption DEF LGDeposit, LGTypeOK, LGGoto, LGFree
  <2> QED
    BY <1>0, <1>1, <1>5, <2>1, LGOthersStay DEF LGDeposit, LGTypeOK, LGGoto
<1> QED  BY <1>1, <1>3, <1>4, <1>5 DEF LGInv

LEMMA LGSelectFirstKeeps ==
  ASSUME LGInv, NEW c \in LGCalls, LGSelectFirst(c)
  PROVE  LGInv'
<1> DEFINE r == lgReq[c]
           id == LGFirst(r)
<1>0. /\ LGTypeOK /\ LGLocksKnown /\ LGStepFits(c) /\ LGRowsLocked(c) /\ LGChangesExact(c)
      /\ r \in LGRequests /\ r.op \in {"Withdraw", "Transfer"}
      /\ id \in LGIDs /\ LGDebited(r) \in LGIDs /\ r.amount \in Nat
  BY LGRequestShape DEF LGInv, LGSelectFirst, LGStepFits, LGTransacting
<1>1. CASE lgBalance[id] = -1
  <2>1. /\ lgPc' = [lgPc EXCEPT ![c] = "rollback"]
        /\ UNCHANGED <<lgBalance, lgLock, lgReq, lgSeen, lgDelta>>
    BY <1>1 DEF LGSelectFirst, LGSelect, LGGoto
  <2>2. LGTypeOK'
    BY <1>0, <2>1 DEF LGTypeOK
  <2>3. LGLocksKnown'
    BY <1>0, <2>1 DEF LGTypeOK, LGLocksKnown, LGTransacting
  <2>4. LGStepFits(c)' /\ LGRowsLocked(c)' /\ LGChangesExact(c)'
    BY <1>0, <2>1 DEF LGTypeOK, LGStepFits, LGRowsLocked, LGChangesExact, LGTransacting
  <2>5. ASSUME NEW d \in LGCalls, d # c
        PROVE  LGStepFits(d)' /\ LGRowsLocked(d)' /\ LGChangesExact(d)'
    BY <1>0, <2>1, <2>2, <2>5, LGOthersStay DEF LGTypeOK
  <2> QED  BY <2>2, <2>3, <2>4, <2>5 DEF LGInv
<1>2. CASE lgBalance[id] # -1
  <2>1. /\ LGFree(c, id) /\ lgLock' = [lgLock EXCEPT ![id] = c]
        /\ lgSeen' = [lgSeen EXCEPT ![c] = IF id = LGDebited(r) THEN lgBalance[id] ELSE @]
        /\ lgPc' = [lgPc EXCEPT ![c] = IF r.op = "Withdraw" THEN "check" ELSE "second"]
        /\ UNCHANGED <<lgBalance, lgReq, lgDelta>>
    BY <1>2 DEF LGSelectFirst, LGSelect, LGGoto
  <2>2. LGTypeOK'
    <3>1. lgBalance[id] \in 0..LGMax
      <4>1. lgBalance[id] \in -1..LGMax
        BY <1>0 DEF LGTypeOK
      <4> HIDE DEF id
      <4> QED  BY <1>2, <4>1, LGAssumption
    <3>2. lgSeen' \in [LGCalls -> 0..LGMax]
      <4>1. PICK n \in 0..LGMax : lgSeen' = [lgSeen EXCEPT ![c] = n]
        BY <1>0, <2>1, <3>1 DEF LGTypeOK
      <4> QED  BY <1>0, <4>1 DEF LGTypeOK
    <3> HIDE DEF id
    <3> QED  BY <1>0, <2>1, <3>2 DEF LGTypeOK
  <2>3. LGLocksKnown'
    BY <1>0, <2>1 DEF LGTypeOK, LGLocksKnown, LGTransacting, LGSelectFirst
  <2>4. LGStepFits(c)'
    BY <1>0, <2>1 DEF LGTypeOK, LGStepFits, LGTransacting
  <2>5. LGRowsLocked(c)'
    BY <1>0, <1>2, <2>1 DEF LGTypeOK, LGRowsLocked, LGLocked, LGTransacting, LGFirst, LGDebited
  <2>6. LGChangesExact(c)'
    <3>1. \A i \in LGIDs : LGAdded(c, i)' = LGAdded(c, i)
      BY <1>0, <2>1 DEF LGTypeOK, LGAdded, LGSelectFirst
    <3> QED  BY <1>0, <2>1, <3>1 DEF LGTypeOK, LGChangesExact, LGSelectFirst
  <2>7. ASSUME NEW d \in LGCalls, d # c
        PROVE  LGStepFits(d)' /\ LGRowsLocked(d)' /\ LGChangesExact(d)'
    BY <1>0, <2>1, <2>2, <2>7, LGOthersStay, LGAssumption DEF LGTypeOK, LGFree
  <2> QED  BY <2>2, <2>3, <2>4, <2>5, <2>6, <2>7 DEF LGInv
<1> QED  BY <1>1, <1>2

LEMMA LGSelectSecondKeeps ==
  ASSUME LGInv, NEW c \in LGCalls, LGSelectSecond(c)
  PROVE  LGInv'
<1> DEFINE r == lgReq[c]
           id == LGSecond(r)
<1>0. /\ LGTypeOK /\ LGLocksKnown /\ LGStepFits(c) /\ LGRowsLocked(c) /\ LGChangesExact(c)
      /\ r \in LGRequests /\ r.op = "Transfer"
      /\ id \in LGIDs /\ LGFirst(r) \in LGIDs /\ LGDebited(r) \in LGIDs /\ r.amount \in Nat
      /\ r.from \in LGIDs /\ r.to \in LGIDs
  BY LGRequestShape DEF LGInv, LGSelectSecond, LGStepFits, LGTransacting
<1>1. CASE lgBalance[id] = -1
  <2>1. /\ lgPc' = [lgPc EXCEPT ![c] = "rollback"]
        /\ UNCHANGED <<lgBalance, lgLock, lgReq, lgSeen, lgDelta>>
    BY <1>1 DEF LGSelectSecond, LGSelect, LGGoto
  <2>2. LGTypeOK'
    BY <1>0, <2>1 DEF LGTypeOK
  <2>3. LGLocksKnown'
    BY <1>0, <2>1 DEF LGTypeOK, LGLocksKnown, LGTransacting
  <2>4. LGStepFits(c)' /\ LGRowsLocked(c)' /\ LGChangesExact(c)'
    BY <1>0, <2>1 DEF LGTypeOK, LGStepFits, LGRowsLocked, LGChangesExact, LGTransacting
  <2>5. ASSUME NEW d \in LGCalls, d # c
        PROVE  LGStepFits(d)' /\ LGRowsLocked(d)' /\ LGChangesExact(d)'
    BY <1>0, <2>1, <2>2, <2>5, LGOthersStay DEF LGTypeOK
  <2> QED  BY <2>2, <2>3, <2>4, <2>5 DEF LGInv
<1>2. CASE lgBalance[id] # -1
  <2>1. /\ LGFree(c, id) /\ lgLock' = [lgLock EXCEPT ![id] = c]
        /\ lgSeen' = [lgSeen EXCEPT ![c] = IF id = LGDebited(r) THEN lgBalance[id] ELSE @]
        /\ lgPc' = [lgPc EXCEPT ![c] = "check"]
        /\ UNCHANGED <<lgBalance, lgReq, lgDelta>>
    BY <1>2 DEF LGSelectSecond, LGSelect, LGGoto
  <2>2. LGTypeOK'
    <3>1. lgBalance[id] \in 0..LGMax
      <4>1. lgBalance[id] \in -1..LGMax
        BY <1>0 DEF LGTypeOK
      <4> HIDE DEF id
      <4> QED  BY <1>2, <4>1, LGAssumption
    <3>2. lgSeen' \in [LGCalls -> 0..LGMax]
      <4>1. PICK n \in 0..LGMax : lgSeen' = [lgSeen EXCEPT ![c] = n]
        BY <1>0, <2>1, <3>1 DEF LGTypeOK
      <4> QED  BY <1>0, <4>1 DEF LGTypeOK
    <3> HIDE DEF id
    <3> QED  BY <1>0, <2>1, <3>2 DEF LGTypeOK
  <2>3. LGLocksKnown'
    BY <1>0, <2>1 DEF LGTypeOK, LGLocksKnown, LGTransacting, LGSelectSecond
  <2>4. LGStepFits(c)'
    BY <1>0, <2>1 DEF LGTypeOK, LGStepFits, LGTransacting
  <2>5. LGRowsLocked(c)'
    <3>1. LGLocked(c, LGFirst(r))
      BY <1>0 DEF LGRowsLocked, LGSelectSecond
    <3>2. {LGFirst(r), id} = {LGDebited(r), r.to}
      BY <1>0 DEF LGFirst, LGSecond, LGDebited
    <3>3. /\ lgReq' = lgReq /\ lgBalance' = lgBalance
          /\ \A i \in {LGFirst(r), id} :
               /\ lgLock'[i] = c /\ lgBalance[i] # -1
               /\ i = LGDebited(r) => lgSeen'[c] = lgBalance[i]
      BY <1>0, <1>2, <2>1, <3>1 DEF LGTypeOK, LGLocked
    <3> QED  BY <1>0, <2>1, <3>2, <3>3 DEF LGTypeOK, LGRowsLocked, LGTransacting, LGLocked
  <2>6. LGChangesExact(c)'
    <3>1. \A i \in LGIDs : LGAdded(c, i)' = LGAdded(c, i)
      BY <1>0, <2>1 DEF LGTypeOK, LGAdded, LGSelectSecond
    <3> QED  BY <1>0, <2>1, <3>1 DEF LGTypeOK, LGChangesExact, LGSelectSecond
  <2>7. ASSUME NEW d \in LGCalls, d # c
        PROVE  LGStepFits(d)' /\ LGRowsLocked(d)' /\ LGChangesExact(d)'
    BY <1>0, <2>1, <2>2, <2>7, LGOthersStay, LGAssumption DEF LGTypeOK, LGFree
  <2> QED  BY <2>2, <2>3, <2>4, <2>5, <2>6, <2>7 DEF LGInv
<1> QED  BY <1>1, <1>2

\* The steps that only move a call on, to its rollback at the latest.
LEMMA LGMoveKeeps ==
  ASSUME LGInv, NEW c \in LGCalls, NEW l \in {"debit", "rollback"},
         l = "debit" => lgPc[c] = "check" /\ lgReq[c].amount <= lgSeen[c],
         lgPc[c] # "idle", LGGoto(c, l),
         UNCHANGED <<lgBalance, lgLock, lgReq, lgSeen, lgDelta>>
  PROVE  LGInv'
<1>0. LGTypeOK /\ LGLocksKnown /\ LGStepFits(c) /\ LGRowsLocked(c) /\ LGChangesExact(c)
  BY DEF LGInv
<1>1. LGTypeOK' /\ lgPc'[c] = l
  BY <1>0 DEF LGTypeOK, LGGoto
<1>2. LGLocksKnown'
  BY <1>0 DEF LGTypeOK, LGLocksKnown, LGTransacting, LGGoto
<1>3. LGStepFits(c)' /\ LGRowsLocked(c)'
  BY <1>0, <1>1 DEF LGTypeOK, LGStepFits, LGRowsLocked, LGLocked, LGTransacting
<1>4. LGChangesExact(c)'
  BY <1>0, <1>1 DEF LGChangesExact, LGAdded
<1>5. ASSUME NEW d \in LGCalls, d # c
      PROVE  LGStepFits(d)' /\ LGRowsLocked(d)' /\ LGChangesExact(d)'
  BY <1>0, <1>1, <1>5, LGOthersStay DEF LGTypeOK, LGGoto
<1> QED  BY <1>1, <1>2, <1>3, <1>4, <1>5 DEF LGInv

LEMMA LGDebitKeeps ==
  ASSUME LGInv, NEW c \in LGCalls, LGDebit(c)
  PROVE  LGInv'
<1> DEFINE r == lgReq[c]
           id == LGDebited(r)
<1>0. /\ LGTypeOK /\ LGLocksKnown /\ LGStepFits(c) /\ LGRowsLocked(c) /\ LGChangesExact(c)
      /\ r \in LGRequests /\ r.op \in {"Withdraw", "Transfer"}
      /\ id \in LGIDs /\ r.amount \in Nat
  BY LGRequestShape DEF LGInv, LGDebit, LGStepFits, LGTransacting
<1>1. /\ lgDelta' = [lgDelta EXCEPT ![c] = [lgDelta[c] EXCEPT ![id] = -r.amount]]
      /\ lgPc' = [lgPc EXCEPT ![c] = IF r.op = "Withdraw" THEN "commit" ELSE "credit"]
      /\ lgPc[c] = "debit" /\ UNCHANGED <<lgBalance, lgLock, lgReq, lgSeen>>
  BY <1>0 DEF LGDebit, LGGoto, LGTypeOK
<1>2. r.amount <= LGMax
  BY <1>0, <1>1, LGAssumption DEF LGRowsLocked, LGTransacting, LGTypeOK
<1>3. LGTypeOK'
  <2>1. -r.amount \in -LGMax..LGMax
    BY <1>0, <1>2, LGAssumption
  <2> HIDE DEF id
  <2> QED  BY <1>0, <1>1, <2>1 DEF LGTypeOK
<1>4. LGLocksKnown'
  BY <1>0, <1>1 DEF LGTypeOK, LGLocksKnown, LGTransacting
<1>5. LGStepFits(c)'
  BY <1>0, <1>1 DEF LGTypeOK, LGStepFits, LGTransacting
<1>6. LGRowsLocked(c)'
  BY <1>0, <1>1 DEF LGTypeOK, LGRowsLocked, LGLocked, LGTransacting
<1>7. LGChangesExact(c)'
  <2> SUFFICES ASSUME NEW i \in LGIDs
               PROVE  lgDelta'[c][i] = LGAdded(c, i)' /\ lgBalance'[i] + LGAdded(c, i)' <= LGMax
    BY DEF LGChangesExact
  <2>1. lgDelta[c][i] = 0
    BY <1>0, <1>1 DEF LGChangesExact, LGAdded
  <2>2. LGAdded(c, i)' = IF i = id THEN -r.amount ELSE 0
    BY <1>0, <1>1 DEF LGAdded, LGTypeOK
  <2>3. lgDelta'[c][i] = IF i = id THEN -r.amount ELSE 0
    <3> HIDE DEF id
    <3> QED  BY <1>0, <1>1, <2>1 DEF LGTypeOK
  <2> QED  BY <1>0, <1>1, <2>2, <2>3, LGAssumption DEF LGTypeOK
<1>8. ASSUME NEW d \in LGCalls, d # c
      PROVE  LGStepFits(d)' /\ LGRowsLocked(d)' /\ LGChangesExact(d)'
  BY <1>0, <1>1, <1>3, <1>8, LGOthersStay DEF LGTypeOK
<1> QED  BY <1>3, <1>4, <1>5, <1>6, <1>7, <1>8 DEF LGInv

\* A credit that goes through: the sum of what the row holds and gets fits.
LEMMA LGCreditKeeps ==
  ASSUME LGInv, NEW c \in LGCalls, LGCredit(c), LGGoto(c, "commit")
  PROVE  LGInv'
<1> DEFINE r == lgReq[c]
<1>0. /\ LGTypeOK /\ LGLocksKnown /\ LGStepFits(c) /\ LGRowsLocked(c) /\ LGChangesExact(c)
      /\ r \in LGRequests /\ r.op = "Transfer"
      /\ r.from \in LGIDs /\ r.to \in LGIDs /\ r.amount \in Nat /\ LGDebited(r) = r.from
  BY LGRequestShape DEF LGInv, LGCredit, LGStepFits, LGTransacting, LGDebited
<1>1. /\ lgPc[c] = "credit" /\ UNCHANGED <<lgBalance, lgLock, lgReq, lgSeen>>
      /\ lgPc' = [lgPc EXCEPT ![c] = "commit"]
      /\ lgBalance[r.to] + lgDelta[c][r.to] + r.amount <= LGMax
      /\ lgDelta' = [lgDelta EXCEPT ![c] = [lgDelta[c] EXCEPT ![r.to] = @ + r.amount]]
  <2>1. lgPc[c] = "credit" /\ UNCHANGED <<lgBalance, lgLock, lgReq, lgSeen>>
        /\ lgPc' = [lgPc EXCEPT ![c] = "commit"]
    BY DEF LGCredit, LGGoto
  <2>2. lgPc' # [lgPc EXCEPT ![c] = "rollback"]
    BY <1>0, <2>1 DEF LGTypeOK
  <2>3. /\ ~(lgBalance[r.to] + lgDelta[c][r.to] + r.amount > LGMax)
        /\ lgDelta' = [lgDelta EXCEPT ![c][r.to] = @ + r.amount]
    BY <2>1, <2>2 DEF LGCredit, LGGoto
  <2>4. lgBalance[r.to] \in Int /\ lgDelta[c][r.to] \in Int
    <3>1. lgBalance[r.to] \in -1..LGMax /\ lgDelta[c] \in [LGIDs -> -LGMax..LGMax]
      BY <1>0 DEF LGTypeOK
    <3>2. lgDelta[c][r.to] \in -LGMax..LGMax
      BY <1>0, <3>1
    <3> QED  BY <3>1, <3>2, LGAssumption
  <2>5. lgBalance[r.to] + lgDelta[c][r.to] + r.amount <= LGMax
    BY <1>0, <2>3, <2>4, LGAssumption
  <2>6. lgDelta' = [lgDelta EXCEPT ![c] = [lgDelta[c] EXCEPT ![r.to] = @ + r.amount]]
    BY <2>3
  <2> QED  BY <2>1, <2>5, <2>6
<1>2. r.amount <= LGMax /\ \A i \in LGIDs : lgDelta[c][i] = IF i = r.from THEN -r.amount ELSE 0
  BY <1>0, <1>1, LGAssumption DEF LGRowsLocked, LGTransacting, LGTypeOK, LGChangesExact, LGAdded
<1>3. LGTypeOK'
  <2>1. lgDelta[c][r.to] + r.amount \in -LGMax..LGMax
    <3>1. lgDelta[c][r.to] = -r.amount \/ lgDelta[c][r.to] = 0
      BY <1>0, <1>2
    <3> QED  BY <1>0, <1>2, <3>1, LGAssumption
  <2>2. PICK n \in -LGMax..LGMax :
              lgDelta' = [lgDelta EXCEPT ![c] = [lgDelta[c] EXCEPT ![r.to] = n]]
    BY <1>0, <1>1, <2>1 DEF LGTypeOK
  <2>3. lgDelta' \in [LGCalls -> [LGIDs -> -LGMax..LGMax]]
    <3> HIDE DEF r
    <3> QED  BY <1>0, <2>2 DEF LGTypeOK
  <2> QED  BY <1>0, <1>1, <2>3 DEF LGTypeOK
<1>4. LGLocksKnown'
  BY <1>0, <1>1 DEF LGTypeOK, LGLocksKnown, LGTransacting
<1>5. LGStepFits(c)'
  BY <1>0, <1>1 DEF LGTypeOK, LGStepFits, LGTransacting
<1>6. LGRowsLocked(c)'
  BY <1>0, <1>1 DEF LGTypeOK, LGRowsLocked, LGLocked, LGTransacting
<1>7. LGChangesExact(c)'
  <2> SUFFICES ASSUME NEW i \in LGIDs
               PROVE  lgDelta'[c][i] = LGAdded(c, i)' /\ lgBalance'[i] + LGAdded(c, i)' <= LGMax
    BY DEF LGChangesExact
  <2>1. LGAdded(c, i)' = (IF i = r.from THEN -r.amount ELSE 0)
                           + (IF i = r.to THEN r.amount ELSE 0)
    BY <1>0, <1>1 DEF LGAdded, LGTypeOK
  <2>2. lgDelta'[c][i] = lgDelta[c][i] + (IF i = r.to THEN r.amount ELSE 0)
    BY <1>0, <1>1, <1>2 DEF LGTypeOK
  <2> QED  BY <1>0, <1>1, <1>2, <2>1, <2>2, LGAssumption DEF LGTypeOK
<1>8. ASSUME NEW d \in LGCalls, d # c
      PROVE  LGStepFits(d)' /\ LGRowsLocked(d)' /\ LGChangesExact(d)'
  BY <1>0, <1>1, <1>3, <1>8, LGOthersStay DEF LGTypeOK
<1> QED  BY <1>3, <1>4, <1>5, <1>6, <1>7, <1>8 DEF LGInv

\* A transaction leaves, with or without its changes.
LEMMA LGLeaveKeeps ==
  ASSUME LGInv, NEW c \in LGCalls, LGLeave(c),
         \/ UNCHANGED lgBalance
         \/ /\ lgPc[c] = "commit"
            /\ lgBalance' = [id \in LGIDs |-> lgBalance[id] + lgDelta[c][id]]
  PROVE  LGInv'
<1>0. LGTypeOK /\ LGLocksKnown /\ LGStepFits(c) /\ LGRowsLocked(c) /\ LGChangesExact(c)
  BY DEF LGInv
<1>1. lgBalance' \in [LGIDs -> -1..LGMax]
  <2>1. CASE UNCHANGED lgBalance
    BY <1>0, <2>1 DEF LGTypeOK
  <2>2. CASE /\ lgPc[c] = "commit"
             /\ lgBalance' = [id \in LGIDs |-> lgBalance[id] + lgDelta[c][id]]
    <3>1. lgReq[c] \in LGRequests /\ lgReq[c].op \in {"Withdraw", "Transfer"}
          /\ lgReq[c].amount \in Nat /\ lgReq[c].amount <= lgSeen[c]
          /\ lgSeen[c] = lgBalance[LGDebited(lgReq[c])]
      BY <1>0, <2>2, LGRequestShape DEF LGStepFits, LGRowsLocked, LGLocked, LGTransacting
    <3>2. ASSUME NEW id \in LGIDs PROVE lgBalance[id] + lgDelta[c][id] \in -1..LGMax
      BY <1>0, <2>2, <3>1, LGAssumption DEF LGTypeOK, LGChangesExact, LGAdded
    <3> QED  BY <2>2, <3>2
  <2> QED  BY <2>1, <2>2
<1>2. LGTypeOK'
  BY <1>0, <1>1, LGAssumption DEF LGLeave, LGTypeOK, NoChange, LGGoto
<1>3. LGLocksKnown'
  BY <1>0, LGAssumption DEF LGLeave, LGTypeOK, LGGoto, LGLocksKnown, LGTransacting
<1>4. LGStepFits(c)' /\ LGRowsLocked(c)' /\ LGChangesExact(c)'
  <2>1. lgPc'[c] = "idle" /\ lgDelta'[c] = NoChange
    BY <1>0 DEF LGLeave, LGTypeOK, LGGoto
  <2>2. \A id \in LGIDs : lgBalance'[id] \in Int /\ lgBalance'[id] <= LGMax
    BY <1>1, LGAssumption
  <2> QED
    BY <2>1, <2>2 DEF LGStepFits, LGRowsLocked, LGChangesExact, LGAdded, LGTransacting, NoChange
<1>5. ASSUME NEW d \in LGCalls, d # c
      PROVE  LGStepFits(d)' /\ LGRowsLocked(d)' /\ LGChangesExact(d)'
  <2>1. ASSUME NEW id \in LGIDs, lgLock[id] = d
        PROVE  lgLock'[id] = d /\ lgBalance'[id] = lgBalance[id]
    <3>1. lgLock'[id] = d
      BY <1>5, <2>1 DEF LGLeave
    <3>2. lgPc[c] = "commit" => lgDelta[c][id] = 0
      BY <1>0, <1>5, <2>1
         DEF LGChangesExact, LGAdded, LGRowsLocked, LGLocked, LGTransacting, LGStepFits
    <3> QED  BY <1>0, <3>1, <3>2, LGAssumption DEF LGTypeOK
  <2> QED
    BY <1>0, <1>2, <1>5, <2>1, LGOthersStay DEF LGLeave, LGTypeOK, LGGoto
<1> QED  BY <1>2, <1>3, <1>4, <1>5 DEF LGInv

LEMMA LGInvariance == LGInv /\ [LGNext]_lgvars => LGInv'
<1> SUFFICES ASSUME LGInv, [LGNext]_lgvars PROVE LGInv'
  OBVIOUS
<1>1. CASE UNCHANGED lgvars
  BY <1>1 DEF lgvars, LGInv, LGTypeOK, LGLocksKnown, LGStepFits, LGRowsLocked, LGLocked,
     LGChangesExact, LGAdded
<1>2. ASSUME NEW c \in LGCalls,
             \/ LGCall(c) \/ LGDeposit(c) \/ LGSelectFirst(c) \/ LGSelectSecond(c)
             \/ LGCheck(c) \/ LGDebit(c) \/ LGCredit(c) \/ LGCommit(c) \/ LGRollback(c)
             \/ LGFail(c)
      PROVE  LGInv'
  <2>1. CASE LGCall(c)
    BY <2>1, LGCallKeeps
  <2>2. CASE LGDeposit(c)
    BY <2>2, LGDepositKeeps
  <2>3. CASE LGSelectFirst(c)
    BY <2>3, LGSelectFirstKeeps
  <2>4. CASE LGSelectSecond(c)
    BY <2>4, LGSelectSecondKeeps
  <2>5. CASE LGCheck(c)
    <3>1. lgReq[c] \in LGRequests /\ lgReq[c].amount \in Int /\ lgSeen[c] \in Int
      BY <2>5, LGRequestShape, LGAssumption DEF LGInv, LGStepFits, LGCheck, LGTypeOK
    <3>2. CASE lgSeen[c] < lgReq[c].amount
      BY <2>5, <3>2, LGMoveKeeps DEF LGCheck
    <3>3. CASE ~(lgSeen[c] < lgReq[c].amount)
      BY <2>5, <3>1, <3>3, LGMoveKeeps DEF LGCheck
    <3> QED  BY <3>2, <3>3
  <2>6. CASE LGDebit(c)
    BY <2>6, LGDebitKeeps
  <2>7. CASE LGCredit(c)
    <3>1. CASE LGGoto(c, "commit")
      BY <2>7, <3>1, LGCreditKeeps
    <3>2. CASE LGGoto(c, "rollback") /\ UNCHANGED lgDelta
      BY <2>7, <3>2, LGMoveKeeps DEF LGCredit
    <3> QED  BY <2>7, <3>1, <3>2 DEF LGCredit
  <2>8. CASE LGCommit(c)
    BY <2>8, LGLeaveKeeps DEF LGCommit
  <2>9. CASE LGRollback(c)
    BY <2>9, LGLeaveKeeps DEF LGRollback
  <2>10. CASE LGFail(c)
    BY <2>10, LGMoveKeeps DEF LGFail
  <2> QED  BY <1>2, <2>1, <2>2, <2>3, <2>4, <2>5, <2>6, <2>7, <2>8, <2>9, <2>10
<1> QED  BY <1>1, <1>2 DEF LGNext
-----------------------------------------------------------------------------
(* No deadlock.                                                            *)

\* A finite set has an element with the greatest value of a function: the elements
\* above it are a least set among those above the others.
LEMMA LGGreatest ==
  ASSUME NEW S, IsFiniteSet(S), S # {}, NEW f, \A x \in S : f[x] \in Int
  PROVE  \E x \in S : \A y \in S : f[y] <= f[x]
<1> DEFINE Above(x) == {y \in S : f[y] > f[x]}
           T == {Above(z) : z \in S}
<1>1. T \subseteq FiniteSubsetsOf(S) /\ T # {}
  <2>1. \A x \in S : Above(x) \in SUBSET S
    OBVIOUS
  <2>2. T \subseteq SUBSET S /\ T # {}
    BY <2>1
  <2> HIDE DEF T
  <2> QED  BY <2>2, FS_FiniteSubsetsOfFinite
<1>2. PICK A \in T : \A B \in T : ~(<<B, A>> \in StrictSubsetOrdering(S))
  <2> HIDE DEF T
  <2> QED  BY <1>1, FS_StrictSubsetOrderingWellFounded, WFMin
<1>3. PICK x \in S : A = Above(x)
  OBVIOUS
<1>4. ASSUME NEW y \in S, ~(f[y] <= f[x]) PROVE FALSE
  <2>1. Above(y) \subseteq Above(x)
    BY <1>4
  <2>2. y \in Above(x) /\ y \notin Above(y)
    BY <1>4
  <2>3. <<Above(y), Above(x)>> \in StrictSubsetOrdering(S)
    BY <2>1, <2>2 DEF StrictSubsetOrdering
  <2> QED  BY <1>2, <1>3, <2>3
<1> QED  BY <1>4

\* Whoever waits for a row and has one waits for a row with a greater ID, so of the
\* calls that wait the one whose row has the greatest ID waits for none of them.
LEMMA LGInvNoDeadlock == LGInv => LGNoDeadlock
<1> SUFFICES ASSUME LGInv, NEW W \in (SUBSET LGCalls) \ {{}}
             PROVE  \E c \in W : \A d \in W : ~LGWaitsFor(c, d) \/ c = d
  BY DEF LGNoDeadlock
<1>1. CASE \E c \in W : lgPc[c] \notin {"update", "first", "second"}
  BY <1>1 DEF LGWaitsFor
<1>2. CASE \A c \in W : lgPc[c] \in {"update", "first", "second"}
  <2> DEFINE S == {c \in W : lgPc[c] = "second"}
  <2>1. \A c \in W : lgReq[c] \in LGRequests /\ LGStepFits(c) /\ LGRowsLocked(c)
    BY <1>2 DEF LGInv, LGStepFits
  <2>2. ASSUME NEW c \in W, NEW d \in W, NEW id \in LGIDs, lgLock[id] = d
        PROVE  d \in S /\ id = LGFirst(lgReq[d])
    BY <1>2, <2>2 DEF LGInv, LGLocksKnown, LGTransacting
  <2>3. CASE S = {}
    <3>1. PICK c \in W : TRUE
      OBVIOUS
    <3>2. ASSUME NEW d \in W, LGWaitsFor(c, d) PROVE FALSE
      BY <2>1, <2>2, <2>3, <3>2, LGRequestShape
         DEF LGWaitsFor, LGStepFits, LGTransacting
    <3> QED  BY <3>2
  <2>4. CASE S # {}
    <3> DEFINE f == [c \in LGCalls |-> LGFirst(lgReq[c])]
    <3>1. IsFiniteSet(S)
      BY LGAssumption, FS_Subset
    <3>2. \A c \in S : /\ lgReq[c].op = "Transfer"
                       /\ lgReq[c].from \in Nat /\ lgReq[c].to \in Nat
                       /\ LGFirst(lgReq[c]) \in Nat /\ LGSecond(lgReq[c]) \in LGIDs
                       /\ lgLock[LGFirst(lgReq[c])] = c
      BY <2>1, LGRequestShape, LGAssumption
         DEF LGStepFits, LGRowsLocked, LGLocked, LGTransacting
    <3>3. PICK c \in S : \A d \in S : f[d] <= f[c]
      <4>1. \A x \in S : f[x] \in Nat
        BY <3>2
      <4> HIDE DEF f, S
      <4> QED  BY <2>4, <3>1, <4>1, LGGreatest
    <3>4. ASSUME NEW d \in W, LGWaitsFor(c, d), c # d PROVE FALSE
      <4>1. lgLock[LGSecond(lgReq[c])] = d
        BY <3>4 DEF LGWaitsFor
      <4>2. d \in S /\ LGSecond(lgReq[c]) = LGFirst(lgReq[d])
        BY <2>2, <3>2, <4>1
      <4>3. LGFirst(lgReq[d]) <= LGFirst(lgReq[c])
        BY <3>3, <4>2
      <4>4. LGSecond(lgReq[c]) = LGFirst(lgReq[c])
        BY <3>2, <4>2, <4>3 DEF LGFirst, LGSecond
      <4> QED  BY <3>2, <3>4, <4>1, <4>4
    <3> QED  BY <3>4
  <2> QED  BY <2>3, <2>4
<1> QED  BY <1>1, <1>2
-----------------------------------------------------------------------------
(* The refinement of Bank.                                                 *)

LEMMA LGInitBank == LGInit => LGBank!BankInit
BY DEF LGInit, LGBank!BankInit, LGBank!NoRow, NoRequest

LEMMA LGRefuses ==
  ASSUME NEW r \in LGRequests, LGAnswer(r, "failed", 0), UNCHANGED lgBalance
  PROVE  LGBank!BankNext
BY DEF LGAnswer, LGBank!BankNext, LGBank!Refuse, LGBank!Answer

LEMMA LGPerforms ==
  ASSUME NEW r \in LGRequests, LGBank!Perform(r)
  PROVE  LGBank!BankNext
BY DEF LGBank!BankNext

LEMMA LGCallBank ==
  ASSUME LGInv, NEW c \in LGCalls, LGCall(c)
  PROVE  [LGBank!BankNext]_<<lgBalance, lgReply>>
<1>1. PICK r \in LGRequests :
        LGCreateAccount(r) \/ LGGetBalance(r) \/ LGNegative(r) \/ LGBegin(c, r)
  BY DEF LGCall
<1>2. CASE LGCreateAccount(r)
  <2>1. r.id \in LGIDs
    BY <1>2, LGRequestShape DEF LGCreateAccount
  <2>2. CASE lgBalance[r.id] # -1
    BY <1>2, <2>2, LGPerforms
       DEF LGCreateAccount, LGAnswer, LGBank!Perform, LGBank!CreateAccount, LGBank!Has,
           LGBank!NoRow, LGBank!Refuse, LGBank!Answer
  <2>3. CASE lgBalance[r.id] = -1
    <3>1. lgBalance' = [id \in LGIDs |-> IF id = r.id THEN 0 ELSE lgBalance[id]]
      BY <1>2, <2>3 DEF LGCreateAccount, LGInv, LGTypeOK
    <3> QED
      BY <1>2, <2>3, <3>1, LGPerforms
         DEF LGCreateAccount, LGAnswer, LGBank!Perform, LGBank!CreateAccount, LGBank!Has,
             LGBank!NoRow, LGBank!Set, LGBank!Answer
  <2> QED  BY <2>2, <2>3
<1>3. CASE LGGetBalance(r)
  BY <1>3, LGPerforms
     DEF LGGetBalance, LGAnswer, LGBank!Perform, LGBank!GetBalance, LGBank!Has, LGBank!NoRow,
         LGBank!Refuse, LGBank!Answer
<1>4. CASE LGNegative(r)
  <2>1. r.amount < 0 /\ ~(r.amount >= 0)
    BY <1>4, LGRequestShape DEF LGNegative
  <2> QED
    BY <1>4, <2>1, LGPerforms
       DEF LGNegative, LGAnswer, LGBank!Perform, LGBank!Deposit, LGBank!Withdraw,
           LGBank!Transfer, LGBank!Refuse, LGBank!Answer
<1>5. CASE LGBegin(c, r)
  BY <1>5 DEF LGBegin
<1> QED  BY <1>1, <1>2, <1>3, <1>4, <1>5

LEMMA LGDepositBank ==
  ASSUME LGInv, NEW c \in LGCalls, LGDeposit(c)
  PROVE  [LGBank!BankNext]_<<lgBalance, lgReply>>
<1> DEFINE r == lgReq[c]
<1>0. /\ r \in LGRequests /\ r.op = "Deposit" /\ r.id \in LGIDs /\ r.amount >= 0
      /\ ~(r.amount < 0) /\ lgBalance \in [LGIDs -> -1..LGMax]
  BY LGRequestShape DEF LGInv, LGDeposit, LGStepFits, LGTypeOK
<1>1. lgBalance[r.id] + r.amount <= LGMax <=> ~(lgBalance[r.id] + r.amount > LGMax)
  <2>1. lgBalance[r.id] \in -1..LGMax /\ r.amount \in Int
    BY <1>0, LGRequestShape
  <2> QED  BY <2>1, LGAssumption
<1>2. lgBalance' = [lgBalance EXCEPT ![r.id] = @ + r.amount] =>
        lgBalance' = [id \in LGIDs |->
                        IF id = r.id THEN lgBalance[id] + r.amount ELSE lgBalance[id]]
  BY <1>0
<1>3. LGBank!Deposit(r)
  <2>1. CASE lgBalance[r.id] = -1
    BY <1>0, <2>1
       DEF LGDeposit, LGAnswer, LGBank!Deposit, LGBank!Has, LGBank!NoRow,
           LGBank!Refuse, LGBank!Answer
  <2>2. CASE lgBalance[r.id] # -1 /\ lgBalance[r.id] + r.amount > LGMax
    BY <1>0, <1>1, <2>2
       DEF LGDeposit, LGAnswer, LGBank!Deposit, LGBank!Has, LGBank!NoRow, LGBank!Over,
           LGBank!Refuse, LGBank!Answer
  <2>3. CASE lgBalance[r.id] # -1 /\ lgBalance[r.id] + r.amount <= LGMax
    <3>1. LGBank!Has(r.id) /\ ~LGBank!Over(r.id, r.amount)
      BY <1>1, <2>3 DEF LGBank!Has, LGBank!NoRow, LGBank!Over
    <3>2. lgBalance' = [lgBalance EXCEPT ![r.id] = @ + r.amount]
          /\ (LGAnswer(r, "ok", 0) \/ LGAnswer(r, "failed", 0))
      BY <1>1, <2>3 DEF LGDeposit
    <3>3. LGBank!Set(r, [id \in {r.id} |-> lgBalance[id] + r.amount])
      BY <1>0, <1>2, <3>2 DEF LGAnswer, LGBank!Set, LGBank!Answer
    <3> QED  BY <1>0, <3>1, <3>3 DEF LGBank!Deposit
  <2> QED  BY <1>1, <2>1, <2>2, <2>3
<1> QED  BY <1>0, <1>3, LGPerforms DEF LGBank!Perform

\* A row that is not there is answered at once.
LEMMA LGSelectBank ==
  ASSUME LGInv, NEW c \in LGCalls, LGSelectFirst(c) \/ LGSelectSecond(c)
  PROVE  [LGBank!BankNext]_<<lgBalance, lgReply>>
<1> DEFINE r == lgReq[c]
<1>0. /\ r \in LGRequests /\ r.op \in {"Withdraw", "Transfer"} /\ r.amount >= 0
      /\ ~(r.amount < 0) /\ (LGSelectSecond(c) => r.op = "Transfer")
  BY LGRequestShape
     DEF LGInv, LGSelectFirst, LGSelectSecond, LGStepFits, LGTransacting
<1>1. CASE lgReply' = lgReply
  BY <1>1 DEF LGSelectFirst, LGSelectSecond, LGSelect
<1>2. CASE lgReply' # lgReply
  <2>1. UNCHANGED lgBalance /\ LGAnswer(r, "ErrNoRows", 0)
    BY <1>2 DEF LGSelectFirst, LGSelectSecond, LGSelect
  <2>2. \/ r.op = "Withdraw" /\ lgBalance[r.id] = -1
        \/ r.op = "Transfer" /\ (lgBalance[r.from] = -1 \/ lgBalance[r.to] = -1)
    BY <1>0, <1>2 DEF LGSelectFirst, LGSelectSecond, LGSelect, LGFirst, LGSecond
  <2> QED
    BY <1>0, <2>1, <2>2, LGPerforms
       DEF LGAnswer, LGBank!Perform, LGBank!Withdraw, LGBank!Transfer, LGBank!Has,
           LGBank!NoRow, LGBank!Refuse, LGBank!Answer
<1> QED  BY <1>1, <1>2

LEMMA LGCheckBank ==
  ASSUME LGInv, NEW c \in LGCalls, LGCheck(c)
  PROVE  [LGBank!BankNext]_<<lgBalance, lgReply>>
<1> DEFINE r == lgReq[c]
<1>0. /\ r \in LGRequests /\ r.op \in {"Withdraw", "Transfer"} /\ r.amount >= 0
      /\ ~(r.amount < 0) /\ lgSeen[c] = lgBalance[LGDebited(r)]
      /\ lgBalance[LGDebited(r)] # -1 /\ (r.op = "Transfer" => lgBalance[r.to] # -1)
  BY LGRequestShape
     DEF LGInv, LGCheck, LGStepFits, LGRowsLocked, LGLocked, LGTransacting
<1>1. CASE ~(lgSeen[c] < r.amount)
  BY <1>1 DEF LGCheck
<1>2. CASE lgSeen[c] < r.amount
  BY <1>0, <1>2, LGPerforms
     DEF LGCheck, LGAnswer, LGDebited, LGBank!Perform, LGBank!Withdraw, LGBank!Transfer,
         LGBank!Has, LGBank!NoRow, LGBank!Refuse, LGBank!Answer
<1> QED  BY <1>1, <1>2

LEMMA LGCreditBank ==
  ASSUME LGInv, NEW c \in LGCalls, LGCredit(c)
  PROVE  [LGBank!BankNext]_<<lgBalance, lgReply>>
<1> DEFINE r == lgReq[c]
<1>0. /\ r \in LGRequests /\ r.op = "Transfer" /\ r.amount \in Nat
      /\ r.from \in LGIDs /\ r.to \in LGIDs
      /\ lgSeen[c] = lgBalance[r.from] /\ r.amount <= lgSeen[c]
      /\ lgBalance[r.from] # -1 /\ lgBalance[r.to] # -1
      /\ lgDelta[c][r.to] = (IF r.to = r.from THEN -r.amount ELSE 0)
  BY LGRequestShape
     DEF LGInv, LGCredit, LGStepFits, LGRowsLocked, LGLocked, LGTransacting, LGDebited,
         LGChangesExact, LGAdded
<1>1. CASE lgReply' = lgReply
  BY <1>1 DEF LGCredit
<1>2. CASE lgReply' # lgReply
  <2>1. /\ lgBalance[r.to] + lgDelta[c][r.to] + r.amount > LGMax
        /\ UNCHANGED lgBalance /\ LGAnswer(r, "error", 0)
    BY <1>2 DEF LGCredit
  <2>2. lgBalance[r.from] \in -1..LGMax /\ lgBalance[r.to] \in -1..LGMax
    BY <1>0 DEF LGInv, LGTypeOK
  <2>3. r.from # r.to /\ lgBalance[r.to] + r.amount > LGMax
        /\ ~(lgBalance[r.from] < r.amount) /\ r.amount >= 0 /\ ~(r.amount < 0)
    BY <1>0, <2>1, <2>2, LGAssumption
  <2> QED
    BY <1>0, <2>1, <2>3, LGPerforms
       DEF LGAnswer, LGBank!Perform, LGBank!Transfer, LGBank!Has, LGBank!Over,
           LGBank!NoRow, LGBank!Refuse, LGBank!Answer
<1> QED  BY <1>1, <1>2

\* What a transaction commits is what the bank does at once: the rows it has locked
\* are as it has read them.
LEMMA LGCommitBank ==
  ASSUME LGInv, NEW c \in LGCalls, LGCommit(c)
  PROVE  [LGBank!BankNext]_<<lgBalance, lgReply>>
<1> DEFINE r == lgReq[c]
<1>0. /\ r \in LGRequests /\ r.op \in {"Withdraw", "Transfer"} /\ r.amount \in Nat
      /\ lgSeen[c] = lgBalance[LGDebited(r)] /\ r.amount <= lgSeen[c]
      /\ lgBalance[LGDebited(r)] # -1 /\ (r.op = "Transfer" => lgBalance[r.to] # -1)
      /\ LGDebited(r) \in LGIDs /\ lgBalance \in [LGIDs -> -1..LGMax]
  BY LGRequestShape
     DEF LGInv, LGCommit, LGStepFits, LGRowsLocked, LGLocked, LGTransacting, LGTypeOK
<1>1. ~(lgBalance[LGDebited(r)] < r.amount) /\ r.amount >= 0 /\ ~(r.amount < 0)
  BY <1>0, LGAssumption
<1>2. \A id \in LGIDs : /\ lgDelta[c][id] = LGAdded(c, id)
                        /\ lgBalance[id] + LGAdded(c, id) <= LGMax
  BY DEF LGInv, LGCommit, LGChangesExact
<1>3. /\ lgBalance' = [id \in LGIDs |-> lgBalance[id] + lgDelta[c][id]]
      /\ LGAnswer(r, "ok", 0) \/ LGAnswer(r, "failed", 0)
      /\ lgPc[c] = "commit"
  BY DEF LGCommit
<1>4. CASE r.op = "Withdraw"
  <2>1. LGDebited(r) = r.id
    BY <1>4 DEF LGDebited
  <2>2. \A id \in LGIDs : lgBalance[id] + lgDelta[c][id]
                            = IF id = r.id THEN lgBalance[id] - r.amount ELSE lgBalance[id]
    BY <1>0, <1>2, <1>3, <1>4, <2>1, LGAssumption DEF LGAdded
  <2>3. LGBank!Set(r, [id \in {r.id} |-> lgBalance[id] - r.amount])
    BY <1>3, <2>2 DEF LGAnswer, LGBank!Set, LGBank!Answer
  <2>4. LGBank!Withdraw(r)
    BY <1>0, <1>1, <2>1, <2>3 DEF LGBank!Withdraw, LGBank!Has, LGBank!NoRow
  <2> QED  BY <1>0, <1>4, <2>4, LGPerforms DEF LGBank!Perform
<1>5. CASE r.op = "Transfer"
  <2>1. LGDebited(r) = r.from /\ r.from \in LGIDs /\ r.to \in LGIDs
    BY <1>0, <1>5, LGRequestShape DEF LGDebited
  <2>2. ASSUME NEW id \in LGIDs
        PROVE  lgBalance[id] + lgDelta[c][id]
                 = IF id \in {r.from, r.to}
                   THEN lgBalance[id] - (IF id = r.from THEN r.amount ELSE 0)
                                      + (IF id = r.to THEN r.amount ELSE 0)
                   ELSE lgBalance[id]
    BY <1>0, <1>2, <1>3, <1>5, <2>1, LGAssumption DEF LGAdded
  <2>3. LGBank!Move(r)
    BY <1>3, <2>2 DEF LGAnswer, LGBank!Move, LGBank!Set, LGBank!Answer
  <2>4. r.from # r.to => ~(lgBalance[r.to] + r.amount > LGMax)
    <3>1. r.from # r.to => LGAdded(c, r.to) = 0 + r.amount
      BY <1>3, <1>5, <2>1 DEF LGAdded
    <3>2. lgBalance[r.to] \in -1..LGMax /\ lgBalance[r.to] + LGAdded(c, r.to) <= LGMax
      BY <1>0, <1>2, <2>1
    <3> QED  BY <1>0, <3>1, <3>2, LGAssumption
  <2>5. LGBank!Transfer(r)
    BY <1>0, <1>1, <1>5, <2>1, <2>3, <2>4
       DEF LGBank!Transfer, LGBank!Has, LGBank!NoRow, LGBank!Over
  <2> QED  BY <1>0, <1>5, <2>5, LGPerforms DEF LGBank!Perform
<1> QED  BY <1>0, <1>4, <1>5

LEMMA LGStepBank == LGInv /\ [LGNext]_lgvars => [LGBank!BankNext]_<<lgBalance, lgReply>>
<1> SUFFICES ASSUME LGInv, [LGNext]_lgvars PROVE [LGBank!BankNext]_<<lgBalance, lgReply>>
  OBVIOUS
<1>1. CASE UNCHANGED lgvars
  BY <1>1 DEF lgvars
<1>2. ASSUME NEW c \in LGCalls,
             \/ LGCall(c) \/ LGDeposit(c) \/ LGSelectFirst(c) \/ LGSelectSecond(c)
             \/ LGCheck(c) \/ LGDebit(c) \/ LGCredit(c) \/ LGCommit(c) \/ LGRollback(c)
             \/ LGFail(c)
      PROVE  [LGBank!BankNext]_<<lgBalance, lgReply>>
  <2>1. CASE LGCall(c)
    BY <2>1, LGCallBank
  <2>2. CASE LGDeposit(c)
    BY <2>2, LGDepositBank
  <2>3. CASE LGSelectFirst(c) \/ LGSelectSecond(c)
    BY <2>3, LGSelectBank
  <2>4. CASE LGCheck(c)
    BY <2>4, LGCheckBank
  <2>5. CASE LGDebit(c) \/ LGRollback(c)
    BY <2>5 DEF LGDebit, LGRollback
  <2>6. CASE LGCredit(c)
    BY <2>6, LGCreditBank
  <2>7. CASE LGCommit(c)
    BY <2>7, LGCommitBank
  <2>8. CASE LGFail(c)
    <3>1. lgReq[c] \in LGRequests
      BY <2>8 DEF LGFail, LGInv, LGStepFits
    <3> QED  BY <2>8, <3>1, LGRefuses DEF LGFail
  <2> QED  BY <1>2, <2>1, <2>2, <2>3, <2>4, <2>5, <2>6, <2>7, <2>8
<1> QED  BY <1>1, <1>2 DEF LGNext

LEMMA LGAlwaysInv == Spec => []LGInv
<1>1. Init => LGInv
  BY LGInitInv DEF Init
<1>2. LGInv /\ [Next]_vars => LGInv'
  BY ProgramSteps, LGInvariance
<1> QED  BY <1>1, <1>2, PTL DEF Spec

\* Calls of the ledger never wait for one another's rows in a circle, however many
\* there are and whatever accounts they name.
THEOREM LedgerHasNoDeadlock == Spec => []LGNoDeadlock
BY LGAlwaysInv, LGInvNoDeadlock, PTL

\* Whatever the calls interleave and wherever they fail, the ledger answers and
\* commits what a bank does that performs each call in one step.
THEOREM LedgerIsABank == Spec => LGImplementsBank
<1>1. Init => LGBank!BankInit
  BY LGInitBank DEF Init
<1>2. LGInv /\ [Next]_vars => [LGBank!BankNext]_<<lgBalance, lgReply>>
  BY ProgramSteps, LGStepBank
<1> QED  BY <1>1, <1>2, LGAlwaysInv, PTL DEF Spec, LGImplementsBank, LGBank!BankSpec
-----------------------------------------------------------------------------
(* urlshortener: the keys of different numbers differ.                     *)

\* A set of numbers has a least one: the intervals from 0 to each of them are finite.
LEMMA LeastNat ==
  ASSUME NEW T \in SUBSET Nat, T # {}
  PROVE  \E n \in T : \A m \in T : n <= m
<1> DEFINE I == {0..k : k \in T}
<1>1. I \subseteq FiniteSubsetsOf(Nat) /\ I # {}
  <2>1. \A k \in T : 0..k \in SUBSET Nat /\ IsFiniteSet(0..k)
    BY FS_Interval
  <2>2. \A J \in I : J \in FiniteSubsetsOf(Nat)
    BY <2>1 DEF FiniteSubsetsOf
  <2> QED  BY <2>2
<1>2. PICK A \in I : \A B \in I : ~(<<B, A>> \in StrictSubsetOrdering(Nat))
  <2> HIDE DEF I
  <2> QED  BY <1>1, FS_StrictSubsetOrderingWellFounded, WFMin
<1>3. PICK n \in T : A = 0..n
  OBVIOUS
<1>4. ASSUME NEW m \in T, ~(n <= m) PROVE FALSE
  <2>1. 0..m \subseteq 0..n /\ n \in 0..n /\ n \notin 0..m /\ 0..m \in SUBSET Nat /\ 0..n \in SUBSET Nat
    BY <1>4
  <2>2. <<0..m, 0..n>> \in StrictSubsetOrdering(Nat)
    BY <2>1 DEF StrictSubsetOrdering
  <2> QED  BY <1>2, <1>3, <2>2
<1> QED  BY <1>4

LEMMA Quotient ==
  ASSUME NEW q \in Int, NEW r \in Nat, NEW b \in Nat, b > 1, r < b, b * q + r > 0
  PROVE  q \in Nat /\ q < b * q + r
<1>1. q >= 0
  <2> SUFFICES ASSUME q <= -1 PROVE FALSE
    OBVIOUS
  <2>1. b * (q + 1) <= 0
    OBVIOUS
  <2>2. b * (q + 1) = b * q + b
    OBVIOUS
  <2> QED  BY <2>1, <2>2
<1>2. CASE q = 0
  BY <1>2
<1>3. CASE q >= 1
  <2>1. (b - 2) * q >= 0
    BY <1>3
  <2>2. (b - 2) * q = b * q - 2 * q
    OBVIOUS
  <2>3. b * q \in Int
    OBVIOUS
  <2> QED  BY <1>3, <2>1, <2>2, <2>3
<1> QED  BY <1>1, <1>2, <1>3

LEMMA AppendKeeps ==
  ASSUME NEW s \in Seq(Nat), NEW x \in Nat, NEW i \in 1..Len(s)
  PROVE  Append(s, x)[i] = s[i]
OBVIOUS

LEMMA AppendIsInjective ==
  ASSUME NEW s \in Seq(Nat), NEW t \in Seq(Nat), NEW x \in Nat, NEW y \in Nat,
         Append(s, x) = Append(t, y)
  PROVE  s = t /\ x = y
<1>1. Len(Append(s, x)) = Len(s) + 1 /\ Len(Append(t, y)) = Len(t) + 1
  OBVIOUS
<1>2. Len(s) = Len(t)
  BY <1>1
<1>3. Append(s, x)[Len(s) + 1] = x /\ Append(t, y)[Len(t) + 1] = y
  OBVIOUS
<1>4. ASSUME NEW i \in 1..Len(s) PROVE s[i] = t[i]
  <2>1. Append(s, x)[i] = s[i]
    BY AppendKeeps
  <2>2. Append(t, y)[i] = t[i]
    BY <1>2, AppendKeeps
  <2> QED  BY <2>1, <2>2
<1> QED  BY <1>2, <1>3, <1>4

\* One step of intToBase62: the quotient is smaller, and with the rest gives k back.
LEMMA USDivision ==
  ASSUME NEW k \in Nat, k # 0
  PROVE  \E q, r \in Nat : /\ q = k \div USBase /\ r = k % USBase
                           /\ k = USBase * q + r /\ q < k
<1>1. k \div USBase \in Int /\ k % USBase \in 0..USBase - 1
  BY USAssumption
<1>2. PICK q \in Int : q = k \div USBase
  BY <1>1
<1>3. PICK r \in Nat : r = k % USBase /\ r < USBase
  BY <1>1, USAssumption
<1>4. k = USBase * q + r
  BY <1>2, <1>3, USAssumption
<1>5. USBase * q + r > 0
  BY <1>4
<1>6. q \in Nat /\ q < USBase * q + r
  BY <1>3, <1>5, USAssumption, Quotient
<1> QED  BY <1>2, <1>3, <1>4, <1>6

\* The equation of intToBase62, and the functions that satisfy it up to n.
USStep(g, k) == IF k = 0 THEN <<>> ELSE Append(g[k \div USBase], k % USBase)
USKeysTo(n) == {g \in [0..n -> Seq(Nat)] : \A k \in 0..n : g[k] = USStep(g, k)}

LEMMA USKeysAgree ==
  ASSUME NEW m \in Nat, NEW n \in Nat, m <= n, NEW g \in USKeysTo(m), NEW h \in USKeysTo(n),
         NEW j \in 0..m
  PROVE  g[j] = h[j]
<1> SUFFICES ASSUME g[j] # h[j] PROVE FALSE
  OBVIOUS
<1> DEFINE T == {k \in 0..m : g[k] # h[k]}
<1>1. T \in SUBSET Nat /\ j \in T
  OBVIOUS
<1>2. PICK k \in T : \A i \in T : k <= i
  <2> HIDE DEF T
  <2> QED  BY <1>1, LeastNat
<1>3. k \in Nat /\ k \in 0..m /\ k \in 0..n /\ g[k] # h[k]
  OBVIOUS
<1>4. g[k] = USStep(g, k) /\ h[k] = USStep(h, k)
  BY <1>3 DEF USKeysTo
<1>5. k # 0
  BY <1>3, <1>4 DEF USStep
<1>6. PICK q \in Nat : q = k \div USBase /\ q < k
  BY <1>3, <1>5, USDivision
<1>7. q \notin T
  BY <1>2, <1>3, <1>6
<1>8. g[q] = h[q]
  BY <1>3, <1>6, <1>7
<1> QED  BY <1>3, <1>4, <1>6, <1>8 DEF USStep

LEMMA USKeysExist ==
  ASSUME NEW n \in Nat
  PROVE  USKeysTo(n) # {}
<1> SUFFICES ASSUME USKeysTo(n) = {} PROVE FALSE
  OBVIOUS
<1> DEFINE T == {i \in Nat : USKeysTo(i) = {}}
<1>1. PICK k \in T : \A i \in T : k <= i
  <2>1. T \in SUBSET Nat /\ n \in T
    OBVIOUS
  <2> HIDE DEF T
  <2> QED  BY <2>1, LeastNat
<1>2. CASE k = 0
  <2>1. [i \in 0..0 |-> <<>>] \in USKeysTo(0)
    BY DEF USKeysTo, USStep
  <2> QED  BY <1>2, <2>1
<1>3. CASE k # 0
  <2>1. k - 1 \in Nat /\ k - 1 \notin T
    BY <1>1, <1>3
  <2>2. PICK g : g \in USKeysTo(k - 1)
    BY <2>1
  <2>3. g \in [0..k - 1 -> Seq(Nat)] /\ \A i \in 0..k - 1 : g[i] = USStep(g, i)
    BY <2>2 DEF USKeysTo
  <2>4. PICK q, r \in Nat : q = k \div USBase /\ r = k % USBase /\ q < k
    BY <1>3, USDivision
  <2> DEFINE h == [i \in 0..k |-> IF i = k THEN Append(g[q], r) ELSE g[i]]
  <2>5. h \in [0..k -> Seq(Nat)]
    <3>1. g[q] \in Seq(Nat)
      BY <2>3, <2>4
    <3>2. Append(g[q], r) \in Seq(Nat)
      BY <3>1
    <3>3. \A i \in 0..k : i # k => g[i] \in Seq(Nat)
      BY <2>3
    <3> QED  BY <3>2, <3>3
  <2>6. ASSUME NEW i \in 0..k PROVE h[i] = USStep(h, i)
    <3>1. CASE i = k
      BY <1>3, <2>4, <3>1 DEF USStep
    <3>2. CASE i # k
      <4>1. i \in 0..k - 1 /\ h[i] = g[i] /\ g[i] = USStep(g, i)
        BY <2>3, <3>2
      <4>2. CASE i = 0
        BY <4>1, <4>2 DEF USStep
      <4>3. CASE i # 0
        <5>1. PICK p \in Nat : p = i \div USBase /\ p < i
          BY <4>3, USDivision
        <5>2. h[p] = g[p]
          BY <5>1
        <5> HIDE DEF h
        <5> QED  BY <4>1, <4>3, <5>1, <5>2 DEF USStep
      <4> QED  BY <4>2, <4>3
    <3> QED  BY <3>1, <3>2
  <2>7. h \in USKeysTo(k)
    <3> HIDE DEF h
    <3> QED  BY <2>5, <2>6 DEF USKeysTo
  <2> QED  BY <2>7
<1> QED  BY <1>2, <1>3

\* The recursion has a solution, so USKey is one.
LEMMA USKeyDefined == \A k \in Nat : USKey[k] = USStep(USKey, k)
<1> DEFINE Some(n) == CHOOSE g : g \in USKeysTo(n)
           F == [n \in Nat |-> Some(n)[n]]
           G == [n \in Nat |-> USStep(F, n)]
<1>1. ASSUME NEW n \in Nat PROVE Some(n) \in USKeysTo(n)
  BY USKeysExist
<1>2. ASSUME NEW k \in Nat PROVE F[k] = USStep(F, k)
  <2>1. F[k] = Some(k)[k]
    OBVIOUS
  <2>2. Some(k)[k] = USStep(Some(k), k)
    <3> HIDE DEF Some
    <3> QED  BY <1>1 DEF USKeysTo
  <2>3. CASE k = 0
    BY <2>1, <2>2, <2>3 DEF USStep
  <2>4. CASE k # 0
    <3>1. PICK q \in Nat : q = k \div USBase /\ q < k
      BY <2>4, USDivision
    <3>2. F[q] = Some(q)[q]
      OBVIOUS
    <3>3. Some(q)[q] = Some(k)[q]
      <4>1. q \in 0..q /\ q <= k
        BY <3>1
      <4> HIDE DEF Some
      <4> QED  BY <1>1, <4>1, USKeysAgree
    <3> HIDE DEF F, Some
    <3> QED  BY <2>1, <2>2, <2>4, <3>1, <3>2, <3>3 DEF USStep
  <2> QED  BY <2>3, <2>4
<1>3. F = G
  <2>1. \A k \in Nat : F[k] = G[k]
    BY <1>2
  <2>2. DOMAIN F = Nat /\ DOMAIN G = Nat /\ F = [k \in Nat |-> F[k]] /\ G = [k \in Nat |-> G[k]]
    OBVIOUS
  <2> HIDE DEF F, G
  <2> QED  BY <2>1, <2>2
<1>4. F = [k \in Nat |-> IF k = 0 THEN <<>> ELSE Append(F[k \div USBase], k % USBase)]
  <2> HIDE DEF F
  <2> QED  BY <1>3 DEF USStep
<1>5. USKey = [k \in Nat |-> IF k = 0 THEN <<>> ELSE Append(USKey[k \div USBase], k % USBase)]
  <2> HIDE DEF F
  <2> QED  BY <1>4 DEF USKey
<1> QED  BY <1>5 DEF USStep

LEMMA USKeyType == \A n \in Nat : USKey[n] \in Seq(Nat)
<1> SUFFICES ASSUME NEW n \in Nat, USKey[n] \notin Seq(Nat) PROVE FALSE
  OBVIOUS
<1> DEFINE T == {i \in Nat : USKey[i] \notin Seq(Nat)}
<1>1. PICK k \in T : \A i \in T : k <= i
  <2>1. T \in SUBSET Nat /\ n \in T
    OBVIOUS
  <2> HIDE DEF T
  <2> QED  BY <2>1, LeastNat
<1>2. k \in Nat /\ USKey[k] = USStep(USKey, k)
  BY USKeyDefined
<1>3. USKey[k] \notin Seq(Nat)
  BY <1>1
<1>4. CASE k = 0
  <2>1. USKey[k] = <<>>
    BY <1>2, <1>4 DEF USStep
  <2> QED  BY <1>3, <2>1
<1>5. CASE k # 0
  <2>1. PICK q, r \in Nat : q = k \div USBase /\ r = k % USBase /\ q < k
    BY <1>2, <1>5, USDivision
  <2>2. USKey[q] \in Seq(Nat)
    BY <1>1, <1>2, <2>1
  <2>3. USKey[k] = Append(USKey[q], r)
    BY <1>2, <1>5, <2>1 DEF USStep
  <2> QED  BY <1>3, <2>2, <2>3
<1> QED  BY <1>4, <1>5

\* intToBase62 gives every number a key of its own.
LEMMA USKeyInjective ==
  ASSUME NEW m \in Nat, NEW n \in Nat, USKey[m] = USKey[n]
  PROVE  m = n
<1> SUFFICES ASSUME m # n PROVE FALSE
  OBVIOUS
<1> DEFINE T == {i \in Nat : \E j \in Nat : i # j /\ USKey[i] = USKey[j]}
<1>1. PICK i \in T : \A k \in T : i <= k
  <2>1. T \in SUBSET Nat /\ m \in T
    OBVIOUS
  <2> HIDE DEF T
  <2> QED  BY <2>1, LeastNat
<1>2. PICK j \in Nat : i # j /\ USKey[i] = USKey[j]
  OBVIOUS
<1>3. i \in Nat /\ i < j
  <2>1. j \in T
    BY <1>2
  <2> QED  BY <1>1, <1>2, <2>1
<1>4. PICK q, r \in Nat : q = j \div USBase /\ r = j % USBase /\ j = USBase * q + r
  BY <1>3, USDivision
<1>5. USKey[j] = Append(USKey[q], r) /\ USKey[q] \in Seq(Nat)
  <2>1. USKey[j] = USStep(USKey, j) /\ j # 0 /\ USKey[q] \in Seq(Nat)
    BY <1>3, <1>4, USKeyDefined, USKeyType
  <2> HIDE DEF T
  <2> QED  BY <1>4, <2>1 DEF USStep
<1>6. i # 0
  BY <1>2, <1>5, USKeyDefined DEF USStep
<1>7. PICK p, s \in Nat :
        p = i \div USBase /\ s = i % USBase /\ i = USBase * p + s /\ p < i
  BY <1>3, <1>6, USDivision
<1>8. USKey[i] = Append(USKey[p], s) /\ USKey[p] \in Seq(Nat)
  BY <1>3, <1>6, <1>7, USKeyDefined, USKeyType DEF USStep
<1>9. USKey[p] = USKey[q] /\ r = s
  <2>1. PICK t \in Seq(Nat) : t = USKey[p]
    BY <1>8
  <2>2. PICK u \in Seq(Nat) : u = USKey[q]
    BY <1>5
  <2>3. Append(t, s) = Append(u, r)
    BY <1>2, <1>5, <1>8, <2>1, <2>2
  <2>4. t = u /\ s = r
    BY <2>3, AppendIsInjective
  <2> QED  BY <2>1, <2>2, <2>4
<1>10. p = q
  BY <1>1, <1>3, <1>7, <1>9
<1> QED  BY <1>2, <1>4, <1>7, <1>9, <1>10

USHolds(answer) ==
  /\ answer[1] \in DOMAIN usUrlToKey /\ usUrlToKey[answer[1]] = answer[2]
  /\ answer[2] \in DOMAIN usKeyToUrl /\ usKeyToUrl[answer[2]] = answer[1]

\* The two maps are inverses, and know the keys of the numbers so far.
USMapsAgree ==
  /\ usCounter \in Nat
  /\ \A url \in DOMAIN usUrlToKey :
       url \in USUrls /\ USHolds(<<url, usUrlToKey[url]>>)
  /\ \A key \in DOMAIN usKeyToUrl :
       /\ USHolds(<<usKeyToUrl[key], key>>)
       /\ \E n \in 1..usCounter : key = USKey[n]

USInv ==
  /\ USMapsAgree
  /\ DOMAIN usPc = USCalls /\ DOMAIN usAnswer = USCalls
  /\ \A answer \in usGiven : USHolds(answer)
  /\ \A c \in USCalls : usPc[c] = "answer" =>
       usServer # "exited" /\ (usAnswer[c][1] = USNone \/ USHolds(usAnswer[c]))

LEMMA USInitInv == USInit => USInv
BY DEF USInit, USInv, USMapsAgree

\* A new key is in neither map, so what holds of the maps still does.
LEMMA USNewKey ==
  ASSUME USMapsAgree, NEW url \in USUrls, url \notin DOMAIN usUrlToKey,
         NEW key, key = USKey[usCounter + 1],
         usCounter' = usCounter + 1,
         usUrlToKey' = USWith(usUrlToKey, url, key),
         usKeyToUrl' = USWith(usKeyToUrl, key, url)
  PROVE  /\ USMapsAgree' /\ USHolds(<<url, key>>)'
         /\ \A answer : USHolds(answer) => USHolds(answer)'
<1>1. key \notin DOMAIN usKeyToUrl
  <2> SUFFICES ASSUME NEW n \in 1..usCounter, key = USKey[n] PROVE FALSE
    BY DEF USMapsAgree
  <2>1. n \in Nat /\ usCounter + 1 \in Nat /\ n # usCounter + 1
    BY DEF USMapsAgree
  <2> QED  BY <2>1, USKeyInjective
<1>2. /\ DOMAIN usUrlToKey' = DOMAIN usUrlToKey \union {url} /\ usUrlToKey'[url] = key
      /\ \A u \in DOMAIN usUrlToKey : usUrlToKey'[u] = usUrlToKey[u]
      /\ DOMAIN usKeyToUrl' = DOMAIN usKeyToUrl \union {key} /\ usKeyToUrl'[key] = url
      /\ \A k \in DOMAIN usKeyToUrl : usKeyToUrl'[k] = usKeyToUrl[k]
  BY <1>1 DEF USWith
<1>3. USHolds(<<url, key>>)'
  BY <1>2 DEF USHolds
<1>4. ASSUME NEW answer, USHolds(answer) PROVE USHolds(answer)'
  BY <1>2, <1>4 DEF USHolds
<1>5. USMapsAgree'
  <2>1. usCounter' \in Nat
    BY DEF USMapsAgree
  <2>2. ASSUME NEW u \in DOMAIN usUrlToKey'
        PROVE  u \in USUrls /\ USHolds(<<u, usUrlToKey[u]>>)'
    BY <1>2, <1>3, <1>4 DEF USMapsAgree
  <2>3. ASSUME NEW k \in DOMAIN usKeyToUrl'
        PROVE  USHolds(<<usKeyToUrl[k], k>>)' /\ \E n \in 1..usCounter' : k = USKey[n]
    <3>1. CASE k = key
      <4>1. usCounter + 1 \in 1..usCounter'
        BY DEF USMapsAgree
      <4> QED  BY <1>2, <1>3, <3>1, <4>1
    <3>2. CASE k # key
      <4>1. k \in DOMAIN usKeyToUrl /\ USHolds(<<usKeyToUrl[k], k>>)
        BY <1>2, <2>3, <3>2 DEF USMapsAgree
      <4>2. PICK n \in 1..usCounter : k = USKey[n]
        BY <4>1 DEF USMapsAgree
      <4>3. n \in 1..usCounter'
        BY DEF USMapsAgree
      <4> QED  BY <1>2, <1>4, <4>1, <4>2, <4>3
    <3> QED  BY <3>1, <3>2
  <2> QED  BY <2>1, <2>2, <2>3 DEF USMapsAgree
<1> QED  BY <1>3, <1>4, <1>5

LEMMA USInvariance == USInv /\ [USNext]_usvars => USInv'
<1> SUFFICES ASSUME USInv, [USNext]_usvars PROVE USInv'
  OBVIOUS
<1>1. CASE UNCHANGED usvars
  BY <1>1 DEF usvars, USInv, USMapsAgree, USHolds
<1>2. ASSUME NEW c \in USCalls, USAsk(c) PROVE USInv'
  <2>1. PICK l \in {"shorten", "go", "pong", "404"} : usPc' = [usPc EXCEPT ![c] = l]
    BY <1>2 DEF USAsk, USGoto
  <2>2. /\ usAnswer' = [usAnswer EXCEPT ![c] = <<>>]
        /\ UNCHANGED <<usCounter, usUrlToKey, usKeyToUrl, usServer, usGiven>>
    BY <1>2 DEF USAsk, usMaps
  <2> QED  BY <2>1, <2>2 DEF USInv, USMapsAgree, USHolds
<1>3. ASSUME NEW c \in USCalls, USPong(c) PROVE USInv'
  BY <1>3 DEF USPong, USGoto, usMaps, USInv, USMapsAgree, USHolds
<1>4. ASSUME NEW c \in USCalls, USShorten(c) PROVE USInv'
  <2> DEFINE url == usAsked[c][1]
             key == USKey[usCounter + 1]
  <2>0. usPc' = [usPc EXCEPT ![c] = "answer"] /\ usServer # "exited"
        /\ UNCHANGED <<usServer, usGiven>>
    BY <1>4 DEF USShorten, USGoto
  <2>1. CASE url = USNone /\ usAnswer' = [usAnswer EXCEPT ![c] = <<USNone>>] /\ UNCHANGED usMaps
    BY <2>0, <2>1 DEF usMaps, USInv, USMapsAgree, USHolds
  <2>2. CASE /\ url \in DOMAIN usUrlToKey /\ UNCHANGED usMaps
             /\ usAnswer' = [usAnswer EXCEPT ![c] = <<url, usUrlToKey[url]>>]
    <3>1. USHolds(<<url, usUrlToKey[url]>>)
      BY <2>2 DEF USInv, USMapsAgree
    <3> HIDE DEF url
    <3> QED  BY <2>0, <2>2, <3>1 DEF usMaps, USInv, USMapsAgree, USHolds
  <2>3. CASE /\ url \in USUrls \ DOMAIN usUrlToKey /\ usCounter' = usCounter + 1
             /\ usUrlToKey' = USWith(usUrlToKey, url, key)
             /\ usKeyToUrl' = USWith(usKeyToUrl, key, url)
             /\ usAnswer' = [usAnswer EXCEPT ![c] = <<url, key>>]
    <3>0. PICK u \in USUrls : u = url
      BY <2>3
    <3>1. PICK k : u = url /\ k = key
      BY <3>0
    <3>2. /\ USMapsAgree' /\ USHolds(<<u, k>>)'
          /\ \A answer : USHolds(answer) => USHolds(answer)'
      <4> HIDE DEF url, key
      <4>1. u \notin DOMAIN usUrlToKey /\ USMapsAgree
        BY <2>3, <3>1 DEF USInv
      <4>2. k = USKey[usCounter + 1]
        BY <3>1 DEF key
      <4> QED  BY <2>3, <3>1, <4>1, <4>2, USNewKey
    <3>3. usAnswer' = [usAnswer EXCEPT ![c] = <<u, k>>]
      BY <2>3, <3>1
    <3> HIDE DEF url, key
    <3> QED  BY <2>0, <3>2, <3>3 DEF USInv
  <2> QED  BY <1>4, <2>1, <2>2, <2>3 DEF USShorten
<1>5. ASSUME NEW c \in USCalls, USGo(c) PROVE USInv'
  <2>1. PICK k : k = usAsked[c][2]
    OBVIOUS
  <2>2. usAnswer' = [usAnswer EXCEPT ![c] =
          <<IF k \in DOMAIN usKeyToUrl THEN usKeyToUrl[k] ELSE USNone, k>>]
    BY <1>5, <2>1 DEF USGo
  <2>3. usPc' = [usPc EXCEPT ![c] = "answer"] /\ usServer # "exited"
        /\ UNCHANGED <<usCounter, usUrlToKey, usKeyToUrl, usServer, usGiven>>
    BY <1>5 DEF USGo, USGoto, usMaps
  <2>4. k \in DOMAIN usKeyToUrl => USHolds(<<usKeyToUrl[k], k>>)
    BY DEF USInv, USMapsAgree
  <2> QED  BY <2>2, <2>3, <2>4 DEF USInv, USMapsAgree, USHolds
<1>6. ASSUME NEW c \in USCalls, USReply(c) PROVE USInv'
  BY <1>6 DEF USReply, USGoto, usMaps, USInv, USMapsAgree, USHolds
<1>7. CASE USSignal
  BY <1>7 DEF USSignal, usMaps, USInv, USMapsAgree, USHolds
<1>8. CASE USExit
  BY <1>8 DEF USExit, USInFlight, usMaps, USInv, USMapsAgree, USHolds
<1>9. CASE USMain
  BY <1>9 DEF USMain, USInv, USMapsAgree
<1> QED  BY <1>1, <1>2, <1>3, <1>4, <1>5, <1>6, <1>7, <1>8, <1>9 DEF USNext

LEMMA USInvAgree == USInv => USAnswersAgree
BY DEF USInv, USHolds, USAnswersAgree
-----------------------------------------------------------------------------
(* coverme: a finished todo stays finished, and in place.                  *)

CMShape ==
  /\ cmNextID \in Nat
  /\ cmPc \in [CMClients -> {"idle", "sent", "marshal", "answered"}]
  /\ cmReq \in [CMClients -> CMRequests]
  /\ cmSees \in [CMClients -> SUBSET CMIDs]
  /\ cmOwed \in [CMClients -> SUBSET CMIDs]
  /\ DOMAIN cmAnswer = CMClients /\ cmAnswer = [c \in CMClients |-> cmAnswer[c]]
  /\ \A c \in CMClients :
       cmAnswer[c] = [status |-> cmAnswer[c].status, todos |-> cmAnswer[c].todos]

\* A todo stays, under its ID; one whose finish was answered is finished.
CMTodosKept ==
  /\ \A id \in DOMAIN cmTodos : id \in CMIDs /\ id < cmNextID
  /\ \A id \in cmDone : id \in DOMAIN cmTodos /\ cmTodos[id] = TRUE

\* What the handler of a client has marshalled so far, and what it points to still.
CMOwedGiven(c) ==
  LET todos == cmAnswer[c].todos IN
  /\ \A id \in cmOwed[c] \intersect DOMAIN todos : todos[id] = TRUE
  /\ cmReq[c].op = "list" => cmOwed[c] \subseteq cmSees[c] \union DOMAIN todos

CMClientInv(c) ==
  /\ cmOwed[c] \subseteq cmDone
  /\ cmPc[c] = "sent" => cmAnswer[c].todos = <<>>
  /\ cmPc[c] = "marshal" =>
       /\ cmSees[c] \subseteq DOMAIN cmTodos /\ CMOwedGiven(c)
       /\ cmReq[c].op = "finish" => cmReq[c].id \in DOMAIN cmTodos /\ cmTodos[cmReq[c].id] = TRUE
  /\ cmPc[c] = "answered" /\ cmAnswer[c].status = 200 => cmSees[c] = {} /\ CMOwedGiven(c)

CMInv == CMShape /\ CMTodosKept /\ \A c \in CMClients : CMClientInv(c)

LEMMA CMInitInv == CMInit => CMInv
<1> SUFFICES ASSUME CMInit PROVE CMInv
  OBVIOUS
<1>1. CMShape
  BY DEF CMInit, CMShape, CMRequests, CMNoAnswer
<1> QED  BY <1>1 DEF CMInit, CMInv, CMTodosKept, CMClientInv

\* The frame of a step of another client.
LEMMA CMOthersStay ==
  ASSUME CMInv, NEW d \in CMClients,
         cmPc'[d] = cmPc[d], cmReq'[d] = cmReq[d], cmSees'[d] = cmSees[d],
         cmAnswer'[d] = cmAnswer[d], cmOwed'[d] = cmOwed[d], cmDone \subseteq cmDone',
         \A id \in DOMAIN cmTodos : /\ id \in DOMAIN cmTodos'
                                    /\ cmTodos[id] = TRUE => cmTodos'[id] = TRUE
  PROVE  CMClientInv(d)'
BY DEF CMInv, CMClientInv, CMOwedGiven

LEMMA CMSendKeeps ==
  ASSUME CMInv, NEW c \in CMClients, CMSend(c)
  PROVE  CMInv'
<1>1. CMShape'
  BY DEF CMInv, CMShape, CMSend, CMGoto, CMNoAnswer, CMTodosKept
<1>2. CMTodosKept'
  BY DEF CMInv, CMTodosKept, CMSend
<1>3. CMClientInv(c)'
  BY DEF CMInv, CMShape, CMClientInv, CMSend, CMGoto, CMNoAnswer
<1>4. ASSUME NEW d \in CMClients, d # c PROVE CMClientInv(d)'
  BY <1>4, CMOthersStay DEF CMInv, CMShape, CMSend, CMGoto
<1> QED  BY <1>1, <1>2, <1>3, <1>4 DEF CMInv

LEMMA CMReadKeeps ==
  ASSUME CMInv, NEW c \in CMClients, CMRead(c)
  PROVE  CMInv'
<1>1. PICK id \in cmSees[c] :
        /\ cmSees' = [cmSees EXCEPT ![c] = @ \ {id}]
        /\ cmAnswer' = [cmAnswer EXCEPT ![c].todos =
             [i \in DOMAIN @ \union {id} |-> IF i = id THEN cmTodos[id] ELSE @[i]]]
  BY DEF CMRead
<1> DEFINE seen == cmAnswer[c].todos
           more == [i \in DOMAIN seen \union {id} |-> IF i = id THEN cmTodos[id] ELSE seen[i]]
<1>2. cmAnswer' = [cmAnswer EXCEPT ![c] = [cmAnswer[c] EXCEPT !.todos = more]]
  BY <1>1
<1>3. [cmAnswer[c] EXCEPT !.todos = more] = [status |-> cmAnswer[c].status, todos |-> more]
  <2> HIDE DEF more
  <2> QED  BY DEF CMInv, CMShape
<1>4. /\ cmAnswer'[c].status = cmAnswer[c].status
      /\ cmAnswer'[c].todos = [i \in DOMAIN cmAnswer[c].todos \union {id} |->
           IF i = id THEN cmTodos[id] ELSE cmAnswer[c].todos[i]]
      /\ cmAnswer'[c] = [status |-> cmAnswer'[c].status, todos |-> cmAnswer'[c].todos]
      /\ \A d \in CMClients \ {c} : cmAnswer'[d] = cmAnswer[d]
      /\ DOMAIN cmAnswer' = CMClients /\ cmAnswer' = [d \in CMClients |-> cmAnswer'[d]]
  <2>1. cmAnswer' = [cmAnswer EXCEPT ![c] = [status |-> cmAnswer[c].status, todos |-> more]]
    BY <1>2, <1>3
  <2> HIDE DEF more
  <2>2. /\ cmAnswer'[c] = [status |-> cmAnswer[c].status, todos |-> more]
        /\ \A d \in CMClients \ {c} : cmAnswer'[d] = cmAnswer[d]
        /\ DOMAIN cmAnswer' = CMClients
    BY <2>1 DEF CMInv, CMShape
  <2>3. cmAnswer' = [d \in CMClients |-> cmAnswer'[d]]
    BY <2>1, <2>2 DEF CMInv, CMShape
  <2> QED  BY <2>2, <2>3 DEF more
<1>5. CMShape'
  BY <1>1, <1>4 DEF CMInv, CMShape, CMRead
<1>6. CMTodosKept'
  BY DEF CMInv, CMTodosKept, CMRead
<1>7. CMClientInv(c)'
  <2>1. CMClientInv(c) /\ CMTodosKept /\ cmPc[c] = "marshal" /\ cmPc'[c] = "marshal"
    BY DEF CMInv, CMRead
  <2>2. cmSees'[c] = cmSees[c] \ {id}
    BY <1>1 DEF CMInv, CMShape
  <2>3. CMOwedGiven(c)'
    BY <1>4, <2>1, <2>2 DEF CMClientInv, CMOwedGiven, CMTodosKept, CMRead
  <2> QED  BY <2>1, <2>2, <2>3 DEF CMClientInv, CMRead
<1>8. ASSUME NEW d \in CMClients, d # c PROVE CMClientInv(d)'
  BY <1>1, <1>4, <1>8, CMOthersStay DEF CMInv, CMShape, CMRead
<1> QED  BY <1>5, <1>6, <1>7, <1>8 DEF CMInv

LEMMA CMMarshalKeeps ==
  ASSUME CMInv, NEW c \in CMClients, CMMarshal(c)
  PROVE  CMInv'
<1>1. cmAnswer'[c].todos = cmAnswer[c].todos /\ CMShape'
  BY DEF CMInv, CMShape, CMMarshal, CMRespond, CMGoto
<1>2. cmDone \subseteq cmDone' /\ cmTodos' = cmTodos
  BY DEF CMMarshal
<1>3. CMTodosKept'
  BY DEF CMInv, CMTodosKept, CMClientInv, CMMarshal
<1>4. CMClientInv(c)'
  BY <1>1, <1>2 DEF CMInv, CMShape, CMClientInv, CMOwedGiven, CMMarshal, CMRespond, CMGoto
<1>5. ASSUME NEW d \in CMClients, d # c PROVE CMClientInv(d)'
  BY <1>2, <1>5, CMOthersStay DEF CMInv, CMShape, CMMarshal, CMRespond, CMGoto
<1> QED  BY <1>1, <1>3, <1>4, <1>5 DEF CMInv

LEMMA CMHandleKeeps ==
  ASSUME CMInv, NEW c \in CMClients, CMHandle(c)
  PROVE  CMInv'
<1>0. /\ CMShape /\ CMTodosKept /\ CMClientInv(c) /\ cmPc[c] = "sent"
      /\ UNCHANGED <<cmReq, cmDone, cmOwed>>
  BY DEF CMInv, CMHandle
<1>1. CMShape' /\ CMTodosKept' /\ CMClientInv(c)' /\
      (\A id \in DOMAIN cmTodos : /\ id \in DOMAIN cmTodos'
                                  /\ cmTodos[id] = TRUE => cmTodos'[id] = TRUE)
  <2>1. CASE CMRejectCreate(c) \/ CMUnknown(c)
    <3>1. cmTodos' = cmTodos /\ cmNextID' = cmNextID
      BY <2>1 DEF CMRejectCreate, CMUnknown
    <3>2. PICK status \in {0, 400, 500} : CMRespond(c, status, <<>>) /\ cmSees' = cmSees
      BY <2>1 DEF CMRejectCreate, CMUnknown
    <3>3. cmPc'[c] = "answered" /\ cmAnswer'[c].status # 200 /\ CMShape'
      BY <1>0, <3>1, <3>2 DEF CMShape, CMRespond, CMGoto
    <3> QED  BY <1>0, <3>1, <3>3 DEF CMTodosKept, CMClientInv
  <2>2. CASE CMCreate(c)
    <3>1. /\ cmNextID' = cmNextID + 1 /\ DOMAIN cmTodos' = DOMAIN cmTodos \union {cmNextID}
          /\ cmNextID \notin DOMAIN cmTodos
      BY <1>0, <2>2 DEF CMCreate, CMShape, CMTodosKept
    <3>2. \A id \in DOMAIN cmTodos : cmTodos[id] = TRUE => cmTodos'[id] = TRUE
      BY <2>2, <3>1 DEF CMCreate
    <3>3. cmPc'[c] = "marshal" /\ cmSees'[c] = {cmNextID} /\ cmAnswer' = cmAnswer /\ CMShape'
      BY <1>0, <2>2, CMAssumption DEF CMShape, CMCreate, CMSee, CMGoto, CMIDs
    <3>4. CMTodosKept'
      BY <1>0, <2>2, <3>1, <3>2, CMAssumption DEF CMCreate, CMShape, CMTodosKept, CMIDs
    <3>5. CMClientInv(c)'
      BY <1>0, <2>2, <3>1, <3>3 DEF CMClientInv, CMOwedGiven, CMCreate
    <3> QED  BY <3>1, <3>2, <3>3, <3>4, <3>5
  <2>3. CASE CMGet(c) \/ CMList(c)
    <3>1. /\ cmTodos' = cmTodos /\ cmNextID' = cmNextID /\ cmAnswer' = cmAnswer
          /\ cmReq[c].op \in {"get", "list"}
      BY <2>3 DEF CMGet, CMList
    <3>2. /\ cmPc'[c] = "marshal" /\ cmSees'[c] \subseteq DOMAIN cmTodos
          /\ cmReq[c].op = "list" => cmSees'[c] = DOMAIN cmTodos
      BY <1>0, <2>3 DEF CMShape, CMGet, CMList, CMSee, CMGoto
    <3>3. CMShape'
      <4>1. PICK ids \in SUBSET CMIDs : cmSees' = [cmSees EXCEPT ![c] = ids]
        BY <1>0, <2>3 DEF CMTodosKept, CMGet, CMList, CMSee
      <4> QED  BY <1>0, <2>3, <3>1, <4>1 DEF CMShape, CMGet, CMList, CMSee, CMGoto
    <3> QED  BY <1>0, <3>1, <3>2, <3>3 DEF CMTodosKept, CMClientInv, CMOwedGiven
  <2>4. CASE CMFinish(c)
    <3>1. /\ cmNextID' = cmNextID /\ cmAnswer' = cmAnswer /\ cmReq[c].op = "finish"
          /\ cmReq[c].id \in DOMAIN cmTodos /\ DOMAIN cmTodos' = DOMAIN cmTodos
          /\ \A id \in DOMAIN cmTodos :
               cmTodos'[id] = IF id = cmReq[c].id THEN TRUE ELSE cmTodos[id]
      BY <2>4 DEF CMFinish
    <3>2. cmPc'[c] = "marshal" /\ cmSees'[c] = {} /\ CMShape'
      BY <1>0, <2>4 DEF CMShape, CMFinish, CMSee, CMGoto
    <3>3. CMTodosKept'
      BY <1>0, <3>1 DEF CMTodosKept
    <3>4. CMClientInv(c)'
      <4>1. cmReq'[c].op # "list" /\ cmReq'[c].id \in DOMAIN cmTodos'
            /\ cmTodos'[cmReq'[c].id] = TRUE
        BY <1>0, <3>1
      <4>2. cmAnswer'[c].todos = <<>> /\ cmOwed'[c] \subseteq cmDone'
        BY <1>0, <3>1 DEF CMClientInv
      <4> QED  BY <3>2, <4>1, <4>2 DEF CMClientInv, CMOwedGiven
    <3> QED  BY <3>1, <3>2, <3>3, <3>4
  <2> QED  BY <2>1, <2>2, <2>3, <2>4 DEF CMHandle
<1>2. ASSUME NEW d \in CMClients, d # c PROVE CMClientInv(d)'
  <2>1. cmPc'[d] = cmPc[d] /\ cmSees'[d] = cmSees[d] /\ cmAnswer'[d] = cmAnswer[d]
    BY <1>0, <1>2 DEF CMHandle, CMShape, CMRejectCreate, CMCreate, CMUnknown, CMGet, CMList,
       CMFinish, CMRespond, CMSee, CMGoto
  <2> QED  BY <1>0, <1>1, <2>1, CMOthersStay
<1> QED  BY <1>1, <1>2 DEF CMInv

LEMMA CMInvariance == CMInv /\ [CMNext]_cmvars => CMInv'
<1>1. CMInv /\ UNCHANGED cmvars => CMInv'
  BY DEF cmvars, CMInv, CMShape, CMTodosKept, CMClientInv, CMOwedGiven
<1> QED
  BY <1>1, CMSendKeeps, CMHandleKeeps, CMReadKeeps, CMMarshalKeeps DEF CMNext

LEMMA CMInvFresh == CMInv => CMReadsAreFresh
<1> SUFFICES ASSUME CMInv, NEW c \in CMClients, cmPc[c] = "answered", cmAnswer[c].status = 200
             PROVE  /\ \A id \in cmOwed[c] \intersect DOMAIN cmAnswer[c].todos :
                         cmAnswer[c].todos[id]
                    /\ cmReq[c].op = "list" => cmOwed[c] \subseteq DOMAIN cmAnswer[c].todos
  BY DEF CMReadsAreFresh
<1> QED  BY DEF CMInv, CMClientInv, CMOwedGiven
-----------------------------------------------------------------------------
(* dao: an ID is used once.                                                *)

DAOInv ==
  /\ daoSerial \in Nat
  /\ \A id \in DOMAIN daoUsers \union DOMAIN daoKnown : id \in Nat /\ id <= daoSerial
  /\ DAOUsersKeepIDs

LEMMA DAOInitInv == DAOInit => DAOInv
BY DEF DAOInit, DAOInv, DAOUsersKeepIDs

LEMMA DAOInvariance == DAOInv /\ [DAONext]_daovars => DAOInv'
<1> SUFFICES ASSUME DAOInv, [DAONext]_daovars PROVE DAOInv'
  OBVIOUS
<1>1. CASE UNCHANGED daovars
  BY <1>1 DEF daovars, DAOInv, DAOUsersKeepIDs
<1>2. ASSUME NEW name \in DAONames, DAOCreate(name) PROVE DAOInv'
  <2>1. daoSerial' = daoSerial + 1 /\ daoAnswer'.op = "Create"
    BY <1>2 DEF DAOCreate, DAOSays
  <2>2. daoSerial + 1 \notin DOMAIN daoUsers \union DOMAIN daoKnown
    BY DEF DAOInv
  <2>3. CASE UNCHANGED <<daoUsers, daoKnown>>
    BY <2>1, <2>3 DEF DAOInv, DAOUsersKeepIDs
  <2>4. CASE /\ daoUsers' = DAOWith(daoUsers, DAONextID, name)
             /\ daoKnown' \in {daoKnown, DAOWith(daoKnown, DAONextID, {name})}
    BY <2>1, <2>2, <2>4 DEF DAOInv, DAOUsersKeepIDs, DAOWith, DAONextID
  <2> QED  BY <1>2, <2>3, <2>4 DEF DAOCreate
<1>3. ASSUME NEW id \in 1..DAOMaxID, NEW name \in DAONames, DAOUpdate(id, name) PROVE DAOInv'
  <2>1. daoSerial' = daoSerial /\ daoAnswer'.op = "Update"
    BY <1>3 DEF DAOUpdate, DAOSays
  <2>2. CASE UNCHANGED <<daoUsers, daoKnown>>
    BY <2>1, <2>2 DEF DAOInv, DAOUsersKeepIDs
  <2>3. CASE /\ id \in DOMAIN daoUsers /\ daoUsers' = [daoUsers EXCEPT ![id] = name]
             /\ DAOKnows(id, {name})
    BY <2>1, <2>3 DEF DAOInv, DAOUsersKeepIDs, DAOKnows
  <2> QED  BY <1>3, <2>2, <2>3 DEF DAOUpdate
<1>4. ASSUME NEW id \in 1..DAOMaxID, DAODelete(id) PROVE DAOInv'
  <2>1. daoSerial' = daoSerial /\ daoAnswer'.op = "Delete"
    BY <1>4 DEF DAODelete, DAOSays
  <2>2. CASE UNCHANGED <<daoUsers, daoKnown>>
    BY <2>1, <2>2 DEF DAOInv, DAOUsersKeepIDs
  <2>3. CASE id \in DOMAIN daoUsers /\ daoUsers' = DAOWithout(daoUsers, id) /\ DAOKnows(id, {})
    BY <2>1, <2>3 DEF DAOInv, DAOUsersKeepIDs, DAOKnows, DAOWithout
  <2> QED  BY <1>4, <2>2, <2>3 DEF DAODelete
<1>5. ASSUME NEW id \in 1..DAOMaxID, DAOLookup(id) PROVE DAOInv'
  BY <1>5 DEF DAOLookup, DAOSays, DAOInv, DAOUsersKeepIDs
<1>6. CASE DAOList \/ DAOFail
  BY <1>6 DEF DAOList, DAOFail, DAOSays, DAOInv, DAOUsersKeepIDs
<1> QED  BY <1>1, <1>2, <1>3, <1>4, <1>5, <1>6 DEF DAONext
-----------------------------------------------------------------------------
(* testtool's cache: a file, once built, stays what it is until the end.   *)

BCIsBinaryOf(n, p) == n \in DOMAIN bcFiles /\ bcFiles[n] = p

BCCallerInv(c) ==
  /\ bcPc[c] = "build" => bcGot[c] = 0
  /\ bcPc[c] = "new" => bcGot[c] = 0
  /\ bcPc[c] = "store" => BCIsBinaryOf(bcName[c], bcAsked[c])
  /\ bcGot[c] # 0 /\ bcPc[c] = "idle" => BCIsBinaryOf(bcGot[c], bcAsked[c])

\* The caches are closed for all callers at once.
BCInv ==
  /\ bcPc \in [BCCallers -> {"new", "idle", "build", "store", "closed"}]
  /\ DOMAIN bcName = BCCallers /\ DOMAIN bcGot = BCCallers /\ DOMAIN bcAsked = BCCallers
  /\ bcBuilds \in Nat /\ \A n \in DOMAIN bcFiles : n \in Nat /\ n <= bcBuilds
  /\ (\E c \in BCCallers : bcPc[c] # "closed") =>
       /\ \A c \in BCCallers : bcPc[c] # "closed" /\ BCCallerInv(c)
       /\ \A p \in DOMAIN bcBinaries : BCIsBinaryOf(bcBinaries[p], p)

LEMMA BCInitInv == BCInit => BCInv
<1> SUFFICES ASSUME BCInit PROVE BCInv
  OBVIOUS
<1>1. \A n \in DOMAIN bcFiles : n \in Nat /\ n <= bcBuilds
  BY DEF BCInit
<1> QED  BY <1>1 DEF BCInit, BCInv, BCCallerInv

LEMMA BCInvariance == BCInv /\ [BCNext]_bcvars => BCInv'
<1> SUFFICES ASSUME BCInv, [BCNext]_bcvars PROVE BCInv'
  OBVIOUS
<1>1. CASE UNCHANGED bcvars
  BY <1>1 DEF bcvars, BCInv, BCCallerInv, BCIsBinaryOf
<1>2. ASSUME NEW c \in BCCallers, BCGetBinary(c) PROVE BCInv'
  BY <1>2 DEF BCGetBinary, BCGoto, BCInv, BCCallerInv, BCIsBinaryOf
<1>3. ASSUME NEW c \in BCCallers, BCGetBuiltBinary(c) PROVE BCInv'
  BY <1>3 DEF BCGetBuiltBinary, BCInv, BCCallerInv, BCIsBinaryOf
<1>4. ASSUME NEW c \in BCCallers, BCBuild(c) PROVE BCInv'
  <2>1. bcBuilds' = bcBuilds + 1 /\ bcBuilds' \notin DOMAIN bcFiles
        /\ UNCHANGED <<bcBinaries, bcAsked, bcGot>>
    BY <1>4 DEF BCBuild, BCInv
  <2>2. CASE /\ bcFiles' = [n \in DOMAIN bcFiles \union {bcBuilds'} |->
                              IF n = bcBuilds' THEN bcAsked[c] ELSE bcFiles[n]]
             /\ bcName' = [bcName EXCEPT ![c] = bcBuilds'] /\ BCGoto(c, "store")
    <3>1. \A n, p : BCIsBinaryOf(n, p) => BCIsBinaryOf(n, p)'
      BY <2>1, <2>2 DEF BCIsBinaryOf
    <3>2. BCIsBinaryOf(bcName[c], bcAsked[c])'
      BY <2>1, <2>2 DEF BCIsBinaryOf, BCInv
    <3>3. bcPc[c] = "build"
      BY <1>4 DEF BCBuild
    <3>4. \A n \in DOMAIN bcFiles' : n \in Nat /\ n <= bcBuilds'
      BY <2>1, <2>2 DEF BCInv
    <3>5. \A d \in BCCallers : bcPc'[d] # "closed" /\ BCCallerInv(d)'
      <4> SUFFICES ASSUME NEW d \in BCCallers PROVE bcPc'[d] # "closed" /\ BCCallerInv(d)'
        OBVIOUS
      <4>1. CASE d = c
        BY <2>1, <2>2, <3>2, <3>3, <4>1 DEF BCInv, BCGoto, BCCallerInv
      <4>2. CASE d # c
        BY <2>1, <2>2, <3>1, <3>3, <4>2 DEF BCInv, BCGoto, BCCallerInv
      <4> QED  BY <4>1, <4>2
    <3> QED  BY <2>1, <2>2, <3>1, <3>3, <3>4, <3>5 DEF BCInv, BCGoto
  <2>3. CASE bcPc' = [d \in BCCallers |-> "closed"] /\ UNCHANGED <<bcFiles, bcName>>
    BY <2>1, <2>3 DEF BCInv
  <2> QED  BY <1>4, <2>2, <2>3 DEF BCBuild
<1>5. ASSUME NEW c \in BCCallers, BCStore(c) PROVE BCInv'
  BY <1>5 DEF BCStore, BCGoto, BCInv, BCCallerInv, BCIsBinaryOf
<1>6. CASE BCNewLocalBinCache
  BY <1>6 DEF BCNewLocalBinCache, BCInv, BCCallerInv, BCIsBinaryOf
<1>7. CASE BCNewCIBuildCache
  <2>1. CASE bcPc' = [c \in BCCallers |-> "closed"] /\ UNCHANGED bcBinaries
    BY <1>7, <2>1 DEF BCNewCIBuildCache, BCInv
  <2>2. CASE /\ bcBinaries' = [p \in {bcFiles[n] : n \in DOMAIN bcFiles} |->
                                 CHOOSE n \in DOMAIN bcFiles : bcFiles[n] = p]
             /\ bcPc' = [c \in BCCallers |-> "idle"]
    <3>1. ASSUME NEW p \in DOMAIN bcBinaries' PROVE BCIsBinaryOf(bcBinaries[p], p)'
      <4>1. PICK n \in DOMAIN bcFiles : bcFiles[n] = p
        BY <2>2, <3>1
      <4> QED  BY <1>7, <2>2, <3>1, <4>1 DEF BCNewCIBuildCache, BCIsBinaryOf
    <3> QED  BY <1>7, <2>2, <3>1 DEF BCNewCIBuildCache, BCInv, BCCallerInv
  <2> QED  BY <1>7, <2>1, <2>2 DEF BCNewCIBuildCache
<1>8. CASE BCClose
  BY <1>8 DEF BCClose, BCInv
<1> QED  BY <1>1, <1>2, <1>3, <1>4, <1>5, <1>6, <1>7, <1>8 DEF BCNext

LEMMA BCInvStay == BCInv => BCBinariesStay
BY DEF BCInv, BCCallerInv, BCIsBinaryOf, BCBinariesStay
-----------------------------------------------------------------------------
(* The fixtures: ports are given once.                                     *)

\* Whoever answered the ping listens on the port of t: its own server, or that of a test
\* that was given the same port.
SFTestInv(t) ==
  /\ sfPc[t] \in {"start", "launch"} => sfServer[t] = "none"
  /\ sfPc[t] = "ended" => sfServer[t] \notin {"starting", "up"}
  /\ sfPc[t] = "run" /\ t \in SFRedis =>
       \/ sfServer[t] = "up"
       \/ \E u \in SFTests \ {t} : sfPc[u] # "start" /\ sfPort[u] = sfPort[t]

SFInv ==
  /\ sfPc \in [SFTests -> {"start", "launch", "wait", "run", "failed", "ended"}]
  /\ DOMAIN sfServer = SFTests /\ DOMAIN sfPort = SFTests
  /\ \A t \in SFTests : SFTestInv(t)

LEMMA SFInitInv == SFInit => SFInv
BY DEF SFInit, SFInv, SFTestInv

LEMMA SFInvariance == SFInv /\ [SFNext]_sfvars => SFInv'
<1> SUFFICES ASSUME SFInv, [SFNext]_sfvars PROVE SFInv'
  OBVIOUS
<1>1. CASE UNCHANGED sfvars
  BY <1>1 DEF sfvars, SFInv, SFTestInv
<1>2. ASSUME NEW t \in SFTests,
             \/ SFGetFreePort(t) \/ SFLaunch(t) \/ SFListen(t) \/ SFWaited(t) \/ SFPing(t)
             \/ SFHalfSecond(t) \/ SFCleanup(t)
      PROVE  SFInv'
  <2>1. CASE SFGetFreePort(t)
    BY <2>1 DEF SFInv, SFTestInv, SFGetFreePort, SFGoto
  <2>2. CASE SFLaunch(t)
    BY <2>2 DEF SFInv, SFTestInv, SFLaunch, SFGoto
  <2>3. CASE SFListen(t)
    BY <2>3 DEF SFInv, SFTestInv, SFListen, SFGoto
  <2>4. CASE SFWaited(t)
    BY <2>4 DEF SFInv, SFTestInv, SFWaited
  <2>5. CASE SFPing(t)
    BY <2>5 DEF SFInv, SFTestInv, SFPing, SFGoto, SFListening
  <2>6. CASE SFHalfSecond(t)
    BY <2>6 DEF SFInv, SFTestInv, SFHalfSecond, SFGoto
  <2>7. CASE SFCleanup(t)
    BY <2>7 DEF SFInv, SFTestInv, SFCleanup, SFGoto
  <2> QED  BY <1>2, <2>1, <2>2, <2>3, <2>4, <2>5, <2>6, <2>7
<1> QED  BY <1>1, <1>2 DEF SFNext

LEMMA SFInvOwn == SFInv => SFOwnServer
BY DEF SFInv, SFTestInv, SFOwnServer, SFListening
-----------------------------------------------------------------------------
AnswersInv == USInv /\ CMInv /\ DAOInv /\ BCInv /\ SFInv

\* Whatever requests come in between, and however many clients, callers and tests
\* there are, what the programs have answered stays true: urlshortener's keys,
\* coverme's finished todos, dao's IDs, testtool's binaries, the fixtures' servers.
THEOREM AnswersAlwaysStayTrue == Spec => []AnswersStayTrue
<1>1. Init => AnswersInv
  BY USInitInv, CMInitInv, DAOInitInv, BCInitInv, SFInitInv DEF Init, AnswersInv
<1>2. AnswersInv /\ [Next]_vars => AnswersInv'
  <2> SUFFICES ASSUME AnswersInv, [Next]_vars PROVE AnswersInv'
    OBVIOUS
  <2>1. /\ [USNext]_usvars /\ [CMNext]_cmvars /\ [DAONext]_daovars
        /\ [BCNext]_bcvars /\ [SFNext]_sfvars
    BY ProgramSteps
  <2>2. USInv' /\ CMInv'
    BY <2>1, USInvariance, CMInvariance DEF AnswersInv
  <2>3. DAOInv' /\ BCInv' /\ SFInv'
    BY <2>1, DAOInvariance, BCInvariance, SFInvariance DEF AnswersInv
  <2> QED  BY <2>2, <2>3 DEF AnswersInv
<1>3. AnswersInv => AnswersStayTrue
  <2>1. DAOInv => DAOUsersKeepIDs
    BY DEF DAOInv
  <2> QED
    BY <2>1, USInvAgree, CMInvFresh, BCInvStay, SFInvOwn DEF AnswersInv, AnswersStayTrue
<1> QED  BY <1>1, <1>2, <1>3, PTL DEF Spec
=============================================================================
