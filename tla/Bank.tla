-------------------------------- MODULE Bank --------------------------------
(***************************************************************************)
(* What ledger/model.go promises: every call of the ledger is one step, and *)
(* its outcome follows from the balances at that step.  A call may also     *)
(* fail for a reason outside the bank: then nothing changes, or all of the  *)
(* change takes place and the answer is lost.                               *)
(***************************************************************************)
EXTENDS Integers

CONSTANTS
  Accounts,  \* account IDs
  Requests,  \* the calls: [op, id], [op, id, amount], [op, from, to, amount]
  MaxMoney   \* the largest BIGINT

VARIABLES
  balances,  \* [Accounts -> 0..MaxMoney], NoRow without an account
  reply      \* the latest outcome: [request, result, balance]

NoRow == -1
Has(id) == balances[id] # NoRow
Over(id, amount) == balances[id] + amount > MaxMoney

Answer(r, result, balance) ==
  reply' = [request |-> r, result |-> result, balance |-> balance]

Refuse(r, result) == Answer(r, result, 0) /\ UNCHANGED balances

Set(r, changed) ==
  /\ balances' = [id \in Accounts |->
                    IF id \in DOMAIN changed THEN changed[id] ELSE balances[id]]
  /\ Answer(r, "ok", 0) \/ Answer(r, "failed", 0)

CreateAccount(r) ==
  IF Has(r.id) THEN Refuse(r, "error") ELSE Set(r, [id \in {r.id} |-> 0])

GetBalance(r) ==
  IF Has(r.id) THEN Answer(r, "ok", balances[r.id]) /\ UNCHANGED balances
               ELSE Refuse(r, "ErrNoRows")

Deposit(r) ==
  CASE r.amount < 0 -> Refuse(r, "ErrNegativeAmount")
    [] r.amount >= 0 /\ ~Has(r.id) -> Refuse(r, "ErrNoRows")
    [] r.amount >= 0 /\ Has(r.id) ->
         IF Over(r.id, r.amount) THEN Refuse(r, "error")
         ELSE Set(r, [id \in {r.id} |-> balances[id] + r.amount])

Withdraw(r) ==
  CASE r.amount < 0 -> Refuse(r, "ErrNegativeAmount")
    [] r.amount >= 0 /\ ~Has(r.id) -> Refuse(r, "ErrNoRows")
    [] r.amount >= 0 /\ Has(r.id) ->
         IF balances[r.id] < r.amount THEN Refuse(r, "ErrNoMoney")
         ELSE Set(r, [id \in {r.id} |-> balances[id] - r.amount])

\* Money moves from one account to the other, and to itself without a change.
Move(r) ==
  Set(r, [id \in {r.from, r.to} |->
            balances[id] - (IF id = r.from THEN r.amount ELSE 0)
                         + (IF id = r.to THEN r.amount ELSE 0)])

Transfer(r) ==
  CASE r.amount < 0 -> Refuse(r, "ErrNegativeAmount")
    [] r.amount >= 0 /\ ~(Has(r.from) /\ Has(r.to)) -> Refuse(r, "ErrNoRows")
    [] r.amount >= 0 /\ Has(r.from) /\ Has(r.to) ->
         IF balances[r.from] < r.amount THEN Refuse(r, "ErrNoMoney")
         ELSE IF r.from # r.to /\ Over(r.to, r.amount) THEN Refuse(r, "error")
         ELSE Move(r)

Perform(r) ==
  \/ r.op = "CreateAccount" /\ CreateAccount(r)
  \/ r.op = "GetBalance" /\ GetBalance(r)
  \/ r.op = "Deposit" /\ Deposit(r)
  \/ r.op = "Withdraw" /\ Withdraw(r)
  \/ r.op = "Transfer" /\ Transfer(r)

BankInit ==
  /\ balances = [id \in Accounts |-> NoRow]
  /\ reply = [request |-> [op |-> "none"], result |-> "ok", balance |-> 0]

BankNext == \E r \in Requests : Perform(r) \/ Refuse(r, "failed")

BankSpec == BankInit /\ [][BankNext]_<<balances, reply>>
=============================================================================
