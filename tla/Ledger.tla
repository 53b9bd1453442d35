------------------------------- MODULE Ledger -------------------------------
(***************************************************************************)
(* ledger/ledger.go over PostgreSQL at READ COMMITTED: a statement outside *)
(* a transaction is one step, SELECT ... FOR UPDATE takes the lock of the  *)
(* row, and the changes of a transaction show with its commit.             *)
(*                                                                         *)
(* Account IDs are numbers: the code uses of the strings only their order. *)
(***************************************************************************)
EXTENDS Integers, FiniteSets

CONSTANTS
  LGIDs,       \* account IDs
  LGCalls,     \* the callers, each with one call at a time
  LGRequests,  \* the calls: [op, id], [op, id, amount], [op, from, to, amount]
  LGMax,       \* the largest BIGINT
  LGNobody     \* the holder of a free row lock

ASSUME LGAssumption ==
  /\ LGIDs \subseteq Nat /\ LGMax \in Nat
  /\ IsFiniteSet(LGCalls) /\ LGNobody \notin LGCalls
  /\ LGRequests \subseteq
       [op : {"CreateAccount", "GetBalance"}, id : LGIDs]
         \union [op : {"Deposit", "Withdraw"}, id : LGIDs, amount : Int]
         \union [op : {"Transfer"}, from : LGIDs, to : LGIDs, amount : Int]

VARIABLES
  lgBalance,  \* the committed rows, -1 for no row
  lgLock,     \* the transaction that has locked each row
  lgPc,       \* where each call is
  lgReq,      \* its request
  lgSeen,     \* the balance its transaction has read
  lgDelta,    \* what its transaction adds to each row
  lgReply     \* the latest outcome of a call: [request, result, balance]

lgvars == <<lgBalance, lgLock, lgPc, lgReq, lgSeen, lgDelta, lgReply>>

NoRequest == [op |-> "none"]
NoChange == [id \in LGIDs |-> 0]

LGTypeOK ==
  /\ lgBalance \in [LGIDs -> -1..LGMax]
  /\ lgLock \in [LGIDs -> LGCalls \union {LGNobody}]
  /\ lgPc \in [LGCalls -> {"idle", "update", "first", "second", "check",
                           "debit", "credit", "commit", "rollback"}]
  /\ lgReq \in [LGCalls -> LGRequests \union {NoRequest}]
  /\ lgSeen \in [LGCalls -> 0..LGMax]
  /\ lgDelta \in [LGCalls -> [LGIDs -> -LGMax..LGMax]]

LGInit ==
  /\ lgBalance = [id \in LGIDs |-> -1]
  /\ lgLock = [id \in LGIDs |-> LGNobody]
  /\ lgPc = [c \in LGCalls |-> "idle"]
  /\ lgReq = [c \in LGCalls |-> NoRequest]
  /\ lgSeen = [c \in LGCalls |-> 0]
  /\ lgDelta = [c \in LGCalls |-> NoChange]
  /\ lgReply = [request |-> NoRequest, result |-> "ok", balance |-> 0]

LGGoto(c, l) == lgPc' = [lgPc EXCEPT ![c] = l]

LGAnswer(r, result, balance) ==
  lgReply' = [request |-> r, result |-> result, balance |-> balance]

LGFree(c, id) == lgLock[id] \in {LGNobody, c}
-----------------------------------------------------------------------------
(* The calls of one statement.                                             *)

LGCreateAccount(r) ==
  /\ r.op = "CreateAccount"
  /\ IF lgBalance[r.id] # -1
     THEN LGAnswer(r, "error", 0) /\ UNCHANGED lgBalance
     ELSE /\ lgBalance' = [lgBalance EXCEPT ![r.id] = 0]
          /\ LGAnswer(r, "ok", 0) \/ LGAnswer(r, "failed", 0)
  /\ UNCHANGED <<lgLock, lgPc, lgReq, lgSeen, lgDelta>>

LGGetBalance(r) ==
  /\ r.op = "GetBalance"
  /\ IF lgBalance[r.id] # -1
     THEN LGAnswer(r, "ok", lgBalance[r.id])
     ELSE LGAnswer(r, "ErrNoRows", 0)
  /\ UNCHANGED <<lgBalance, lgLock, lgPc, lgReq, lgSeen, lgDelta>>

\* Deposit, Withdraw and Transfer refuse a negative amount first.
LGNegative(r) ==
  /\ r.op \in {"Deposit", "Withdraw", "Transfer"} /\ r.amount < 0
  /\ LGAnswer(r, "ErrNegativeAmount", 0)
  /\ UNCHANGED <<lgBalance, lgLock, lgPc, lgReq, lgSeen, lgDelta>>

\* A Deposit is an UPDATE, which waits for the row; the others begin a transaction.
LGBegin(c, r) ==
  /\ r.op \in {"Deposit", "Withdraw", "Transfer"} /\ r.amount >= 0
  /\ lgReq' = [lgReq EXCEPT ![c] = r]
  /\ LGGoto(c, IF r.op = "Deposit" THEN "update" ELSE "first")
  /\ UNCHANGED <<lgBalance, lgLock, lgSeen, lgDelta, lgReply>>

LGCall(c) ==
  /\ lgPc[c] = "idle"
  /\ \E r \in LGRequests :
       LGCreateAccount(r) \/ LGGetBalance(r) \/ LGNegative(r) \/ LGBegin(c, r)

LGDeposit(c) ==
  LET r == lgReq[c] IN
  /\ lgPc[c] = "update" /\ LGFree(c, r.id)
  /\ \/ /\ lgBalance[r.id] = -1
        /\ LGAnswer(r, "ErrNoRows", 0) /\ UNCHANGED lgBalance
     \/ /\ lgBalance[r.id] # -1 /\ lgBalance[r.id] + r.amount > LGMax
        /\ LGAnswer(r, "error", 0) /\ UNCHANGED lgBalance
     \/ /\ lgBalance[r.id] # -1 /\ lgBalance[r.id] + r.amount <= LGMax
        /\ lgBalance' = [lgBalance EXCEPT ![r.id] = @ + r.amount]
        /\ LGAnswer(r, "ok", 0) \/ LGAnswer(r, "failed", 0)
  /\ LGGoto(c, "idle")
  /\ lgReq' = [lgReq EXCEPT ![c] = NoRequest]
  /\ UNCHANGED <<lgLock, lgSeen, lgDelta>>
-----------------------------------------------------------------------------
(* The transactions of Withdraw and Transfer.                              *)

\* Mutant: Transfer locks from before to.
LGFirstUnordered(r) == IF r.op = "Withdraw" THEN r.id ELSE r.from

LGFirst(r) == IF r.op = "Withdraw" THEN r.id
              ELSE IF r.from < r.to THEN r.from ELSE r.to

LGSecond(r) == IF LGFirst(r) = r.from THEN r.to ELSE r.from
LGDebited(r) == IF r.op = "Withdraw" THEN r.id ELSE r.from

\* SELECT Balance ... FOR UPDATE of one row.
LGSelect(c, id, next) ==
  \/ /\ lgBalance[id] = -1
     /\ LGAnswer(lgReq[c], "ErrNoRows", 0)
     /\ LGGoto(c, "rollback")
     /\ UNCHANGED <<lgBalance, lgLock, lgReq, lgSeen, lgDelta>>
  \/ /\ lgBalance[id] # -1 /\ LGFree(c, id)
     /\ lgLock' = [lgLock EXCEPT ![id] = c]
     /\ lgSeen' = [lgSeen EXCEPT ![c] = IF id = LGDebited(lgReq[c]) THEN lgBalance[id] ELSE @]
     /\ LGGoto(c, next)
     /\ UNCHANGED <<lgBalance, lgReq, lgDelta, lgReply>>

LGSelectFirst(c) ==
  /\ lgPc[c] = "first"
  /\ LGSelect(c, LGFirst(lgReq[c]), IF lgReq[c].op = "Withdraw" THEN "check" ELSE "second")

LGSelectSecond(c) ==
  /\ lgPc[c] = "second"
  /\ LGSelect(c, LGSecond(lgReq[c]), "check")

LGCheck(c) ==
  /\ lgPc[c] = "check"
  /\ IF lgSeen[c] < lgReq[c].amount
     THEN LGAnswer(lgReq[c], "ErrNoMoney", 0) /\ LGGoto(c, "rollback")
     ELSE LGGoto(c, "debit") /\ UNCHANGED lgReply
  /\ UNCHANGED <<lgBalance, lgLock, lgReq, lgSeen, lgDelta>>

LGDebit(c) ==
  /\ lgPc[c] = "debit"
  /\ lgDelta' = [lgDelta EXCEPT ![c][LGDebited(lgReq[c])] = -lgReq[c].amount]
  /\ LGGoto(c, IF lgReq[c].op = "Withdraw" THEN "commit" ELSE "credit")
  /\ UNCHANGED <<lgBalance, lgLock, lgReq, lgSeen, lgReply>>

\* The database refuses a balance beyond BIGINT.
LGCredit(c) ==
  LET r == lgReq[c]
      sum == lgBalance[r.to] + lgDelta[c][r.to] + r.amount
  IN
  /\ lgPc[c] = "credit"
  /\ IF sum > LGMax
     THEN LGAnswer(r, "error", 0) /\ LGGoto(c, "rollback") /\ UNCHANGED lgDelta
     ELSE /\ lgDelta' = [lgDelta EXCEPT ![c][r.to] = @ + r.amount]
          /\ LGGoto(c, "commit")
          /\ UNCHANGED lgReply
  /\ UNCHANGED <<lgBalance, lgLock, lgReq, lgSeen>>

LGLeave(c) ==
  /\ lgLock' = [id \in LGIDs |-> IF lgLock[id] = c THEN LGNobody ELSE lgLock[id]]
  /\ lgDelta' = [lgDelta EXCEPT ![c] = NoChange]
  /\ lgSeen' = [lgSeen EXCEPT ![c] = 0]
  /\ lgReq' = [lgReq EXCEPT ![c] = NoRequest]
  /\ LGGoto(c, "idle")

\* The commit, whose answer may get lost.
LGCommit(c) ==
  /\ lgPc[c] = "commit"
  /\ lgBalance' = [id \in LGIDs |-> lgBalance[id] + lgDelta[c][id]]
  /\ LGAnswer(lgReq[c], "ok", 0) \/ LGAnswer(lgReq[c], "failed", 0)
  /\ LGLeave(c)

\* The deferred Rollback after an early return.
LGRollback(c) ==
  /\ lgPc[c] = "rollback"
  /\ LGLeave(c)
  /\ UNCHANGED <<lgBalance, lgReply>>

\* Mutant: the debit is committed when the credit fails.
LGFailHalfway(c) ==
  /\ lgPc[c] \notin {"idle", "rollback"}
  /\ lgBalance' = [id \in LGIDs |-> lgBalance[id] + lgDelta[c][id]]
  /\ LGAnswer(lgReq[c], "failed", 0)
  /\ LGLeave(c)

\* ctx is cancelled, a statement fails, the connection or the process is lost:
\* the transaction is rolled back.
LGFail(c) ==
  /\ lgPc[c] \notin {"idle", "rollback"}
  /\ LGAnswer(lgReq[c], "failed", 0)
  /\ LGGoto(c, "rollback")
  /\ UNCHANGED <<lgBalance, lgLock, lgReq, lgSeen, lgDelta>>

LGNext ==
  \E c \in LGCalls :
    \/ LGCall(c) \/ LGDeposit(c) \/ LGSelectFirst(c) \/ LGSelectSecond(c)
    \/ LGCheck(c) \/ LGDebit(c) \/ LGCredit(c) \/ LGCommit(c) \/ LGRollback(c)
    \/ LGFail(c)
-----------------------------------------------------------------------------
LGBank == INSTANCE Bank WITH Accounts <- LGIDs, Requests <- LGRequests,
  MaxMoney <- LGMax, balances <- lgBalance, reply <- lgReply

\* ledger/README.md: all operations are atomic.  Whatever the calls interleave
\* and wherever they fail, the committed balances and the answers are those of a
\* bank that performs each call in one step.
LGImplementsBank == LGBank!BankSpec

LGWaitsFor(c, d) ==
  LET r == lgReq[c] IN
  \/ lgPc[c] = "update" /\ lgLock[r.id] = d
  \/ lgPc[c] = "first" /\ lgLock[LGFirst(r)] = d
  \/ lgPc[c] = "second" /\ lgLock[LGSecond(r)] = d

\* ledger/README.md: no deadlocks in the database.  No calls wait for one
\* another's rows in a circle.
LGNoDeadlock ==
  \A waiting \in (SUBSET LGCalls) \ {{}} :
    \E c \in waiting : \A d \in waiting : ~LGWaitsFor(c, d) \/ c = d
=============================================================================
