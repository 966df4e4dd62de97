------------------------------- MODULE Wallet -------------------------------
(***************************************************************************)
(* The wallets of src/module/wallet: office_wallets and their              *)
(* wallet_transactions, and every request that reads or writes them.       *)
(*                                                                         *)
(* WalletService never locks a row. A request reads a wallet, computes new *)
(* balances in memory and saves the whole copy back, one SQL statement     *)
(* after the other, so a save puts back both balances as they were read,   *)
(* whatever another request wrote in between. Each statement is an action; *)
(* job[h] is what request h still has to do and the copies it has read.    *)
(***************************************************************************)
EXTENDS Integers, Sums

CONSTANTS Accounts,     \* accounts that can own a wallet
          Rows,         \* ids for wallet_transactions rows (bounds their number)
          Amounts,      \* amounts credited or withdrawn
          Handlers,     \* requests in flight at the same time
          MaxFailures,  \* bound on statements that fail or are cut by a crash
          None          \* no row, no account

ASSUME AmountsPositive == Amounts \subseteq Nat \ {0}
ASSUME NoneIsNoId == None \notin Accounts /\ None \notin Rows
ASSUME MaxFailuresNat == MaxFailures \in Nat

VARIABLES wallet,   \* office_wallets: the two balances of each account
          opened,   \* accounts that have a wallet row
          tx,       \* wallet_transactions: credits and withdrawals
          audit,    \* number of RELEASE rows written for each credit
          due,      \* credits whose releasableAt has passed
          job,      \* the request each handler is serving
          failures  \* statements that have failed so far

vars == <<wallet, opened, tx, audit, due, job, failures>>

Balance == [available : Int, pending : Int]
Zero == [available |-> 0, pending |-> 0]

Types == {"CREDIT_PENDING", "CREDIT_AVAILABLE", "WITHDRAWAL", "NONE"}
Statuses == {"PENDING", "RELEASED", "WITHDRAWN", "REJECTED", "CANCELLED", "NONE"}
Tx == [type : Types, status : Statuses, account : Accounts \union {None},
       amount : Amounts \union {0}]
NoTx == [type |-> "NONE", status |-> "NONE", account |-> None, amount |-> 0]

Points == {"idle", "insert_wallet", "save_credit", "insert_row", "release_wallet",
           "release_row", "release_audit", "approve", "decide"}

\* draft: the row image the request will write;  seen: the wallet copies it read;
\* todo: the due credits the release job has not finished
Job == [at : Points, row : Rows \union {None}, draft : Tx,
        seen : [Accounts -> Balance], todo : SUBSET Rows]
Idle == [at |-> "idle", row |-> None, draft |-> NoTx,
         seen |-> [a \in Accounts |-> Zero], todo |-> {}]

\* The copy a query returns of the wallets of the accounts in A.
Copy(A) == [a \in Accounts |-> IF a \in A THEN wallet[a] ELSE Zero]

\* An id no row has and no request is about to insert.
Unused(r) == tx[r] = NoTx /\ \A g \in Handlers : job[g].row # r

Init ==
  /\ wallet = [a \in Accounts |-> Zero]
  /\ opened = {}
  /\ tx = [r \in Rows |-> NoTx]
  /\ audit = [r \in Rows |-> 0]
  /\ due = {}
  /\ job = [h \in Handlers |-> Idle]
  /\ failures = 0

(***************************************************************************)
(* creditPending, creditAvailable and getOrCreateWallet                    *)
(***************************************************************************)

CreditRow(type, a, x) ==
  [type |-> type, account |-> a, amount |-> x,
   status |-> IF type = "CREDIT_PENDING" THEN "PENDING" ELSE "RELEASED"]

\* The wallet is read, and is there or has to be inserted first.
CreditRead(h, r, type, a, x) ==
  /\ job[h].at = "idle"
  /\ Unused(r)
  /\ job' = [job EXCEPT ![h] =
       [at |-> IF a \in opened THEN "save_credit" ELSE "insert_wallet",
        row |-> r, draft |-> CreditRow(type, a, x), seen |-> Copy({a}), todo |-> {}]]
  /\ UNCHANGED <<wallet, opened, tx, audit, due, failures>>

\* office_account_id is unique: the second of two inserts throws.
InsertWallet(h) ==
  LET a == job[h].draft.account IN
  /\ job[h].at = "insert_wallet"
  /\ opened' = opened \union {a}
  /\ job' = [job EXCEPT ![h] = IF a \in opened THEN Idle ELSE [@ EXCEPT !.at = "save_credit"]]
  /\ UNCHANGED <<wallet, tx, audit, due, failures>>

\* Mutant: every credit is spendable at once.
CreditedAtOnce(balance, t) == [balance EXCEPT !.available = @ + t.amount]

Credited(balance, t) ==
  IF t.type = "CREDIT_PENDING"
  THEN [balance EXCEPT !.pending = @ + t.amount]
  ELSE [balance EXCEPT !.available = @ + t.amount]

SaveCredit(h) ==
  LET t == job[h].draft IN
  /\ job[h].at = "save_credit"
  /\ wallet' = [wallet EXCEPT ![t.account] = Credited(job[h].seen[t.account], t)]
  /\ job' = [job EXCEPT ![h].at = "insert_row"]
  /\ UNCHANGED <<opened, tx, audit, due, failures>>

InsertRow(h) ==
  /\ job[h].at = "insert_row"
  /\ tx' = [tx EXCEPT ![job[h].row] = job[h].draft]
  /\ job' = [job EXCEPT ![h] = Idle]
  /\ UNCHANGED <<wallet, opened, audit, due, failures>>

\* getWalletSummary of an office that has no wallet yet opens one.
OpenWallet(a) ==
  /\ a \notin opened
  /\ opened' = opened \union {a}
  /\ UNCHANGED <<wallet, tx, audit, due, job, failures>>

(***************************************************************************)
(* releasePendingFunds, the hourly job                                     *)
(***************************************************************************)

\* Seven days go by: releasableAt of a held credit is reached. A withdrawal has
\* no releasableAt, so the job never finds one.
HoldElapses(r) ==
  /\ r \notin due
  /\ tx[r].type = "CREDIT_PENDING"
  /\ due' = due \union {r}
  /\ UNCHANGED <<wallet, opened, tx, audit, job, failures>>

\* Mutants: the job forgets which credits it released, or looks for the wrong type.
ReleasableAgain == due
ReleasableOfWrongType == {r \in due : tx[r].status = "PENDING" /\ tx[r].type = "CREDIT_AVAILABLE"}

Releasable == {r \in due : tx[r].status = "PENDING"}

\* One query loads the due credits, each with a wallet object of its own.
ReleaseRead(h) ==
  /\ job[h].at = "idle"
  /\ Releasable # {}
  /\ job' = [job EXCEPT ![h] =
       [Idle EXCEPT !.at = "release_wallet", !.todo = Releasable,
                    !.seen = Copy({tx[r].account : r \in Releasable})]]
  /\ UNCHANGED <<wallet, opened, tx, audit, due, failures>>

\* Mutant: the released amount stays in the pending balance.
ReleasedTwice(balance, x) == [balance EXCEPT !.available = @ + x]

Released(balance, x) == [available |-> balance.available + x, pending |-> balance.pending - x]

\* The next credit of the loop: its own copy of the wallet is changed and saved.
ReleaseWallet(h, r) ==
  /\ job[h].at = "release_wallet"
  /\ r \in job[h].todo
  /\ wallet' = [wallet EXCEPT ![tx[r].account] = Released(job[h].seen[tx[r].account], tx[r].amount)]
  /\ job' = [job EXCEPT ![h] = [@ EXCEPT !.at = "release_row", !.row = r]]
  /\ UNCHANGED <<opened, tx, audit, due, failures>>

\* Mutant: the row gets the name of the transaction type instead of the status.
ReleaseRowAsType(h) ==
  /\ job[h].at = "release_row"
  /\ tx' = [tx EXCEPT ![job[h].row].status = "RELEASE"]
  /\ job' = [job EXCEPT ![h].at = "release_audit"]
  /\ UNCHANGED <<wallet, opened, audit, due, failures>>

ReleaseRow(h) ==
  /\ job[h].at = "release_row"
  /\ tx' = [tx EXCEPT ![job[h].row].status = "RELEASED"]
  /\ job' = [job EXCEPT ![h].at = "release_audit"]
  /\ UNCHANGED <<wallet, opened, audit, due, failures>>

\* The RELEASE row is inserted and the loop goes on.
ReleaseAudit(h) ==
  LET left == job[h].todo \ {job[h].row} IN
  /\ job[h].at = "release_audit"
  /\ audit' = [audit EXCEPT ![job[h].row] = @ + 1]
  /\ job' = [job EXCEPT ![h] =
       IF left = {} THEN Idle
       ELSE [@ EXCEPT !.at = "release_wallet", !.row = None, !.todo = left]]
  /\ UNCHANGED <<wallet, opened, tx, due, failures>>

(***************************************************************************)
(* requestWithdrawal, approveWithdrawal, rejectWithdrawal, cancelWithdrawal *)
(***************************************************************************)

\* Nothing is reserved: the balance is only compared with the amount.
RequestWithdrawal(h, r, a, x) ==
  /\ job[h].at = "idle"
  /\ Unused(r)
  /\ a \in opened
  /\ x <= wallet[a].available
  /\ job' = [job EXCEPT ![h] =
       [Idle EXCEPT !.at = "insert_row", !.row = r,
          !.draft = [type |-> "WITHDRAWAL", status |-> "PENDING", account |-> a, amount |-> x]]]
  /\ UNCHANGED <<wallet, opened, tx, audit, due, failures>>

\* Mutant: any withdrawal can be decided, a decided one too.
UndecidedOrNot(r) == tx[r].type = "WITHDRAWAL"

Undecided(r) == tx[r].type = "WITHDRAWAL" /\ tx[r].status = "PENDING"

\* Mutant: the balance at approval time is not compared with the amount.
ApproveReadUnchecked(h, r) ==
  /\ job[h].at = "idle"
  /\ Undecided(r)
  /\ job' = [job EXCEPT ![h] =
       [Idle EXCEPT !.at = "approve", !.row = r, !.seen = Copy({tx[r].account}),
                    !.draft = [tx[r] EXCEPT !.status = "WITHDRAWN"]]]
  /\ UNCHANGED <<wallet, opened, tx, audit, due, failures>>

ApproveRead(h, r) ==
  /\ job[h].at = "idle"
  /\ Undecided(r)
  /\ tx[r].amount <= wallet[tx[r].account].available
  /\ job' = [job EXCEPT ![h] =
       [Idle EXCEPT !.at = "approve", !.row = r, !.seen = Copy({tx[r].account}),
                    !.draft = [tx[r] EXCEPT !.status = "WITHDRAWN"]]]
  /\ UNCHANGED <<wallet, opened, tx, audit, due, failures>>

\* One transaction saves the wallet copy and the row.
Approve(h) ==
  LET t == job[h].draft IN
  /\ job[h].at = "approve"
  /\ wallet' = [wallet EXCEPT ![t.account] =
                  [job[h].seen[t.account] EXCEPT !.available = @ - t.amount]]
  /\ tx' = [tx EXCEPT ![job[h].row] = t]
  /\ job' = [job EXCEPT ![h] = Idle]
  /\ UNCHANGED <<opened, audit, due, failures>>

\* Mutant: the copy is saved without the verdict.
DecideReadNoVerdict(h, r, verdict) ==
  /\ job[h].at = "idle"
  /\ Undecided(r)
  /\ job' = [job EXCEPT ![h] = [Idle EXCEPT !.at = "decide", !.row = r, !.draft = tx[r]]]
  /\ UNCHANGED <<wallet, opened, tx, audit, due, failures>>

\* The admin rejects (REJECTED) or the office cancels (CANCELLED).
DecideRead(h, r, verdict) ==
  /\ job[h].at = "idle"
  /\ Undecided(r)
  /\ job' = [job EXCEPT ![h] =
       [Idle EXCEPT !.at = "decide", !.row = r, !.draft = [tx[r] EXCEPT !.status = verdict]]]
  /\ UNCHANGED <<wallet, opened, tx, audit, due, failures>>

Decide(h) ==
  /\ job[h].at = "decide"
  /\ tx' = [tx EXCEPT ![job[h].row] = job[h].draft]
  /\ job' = [job EXCEPT ![h] = Idle]
  /\ UNCHANGED <<wallet, opened, audit, due, failures>>

\* The next statement of a request fails, or the process dies before it: what the
\* earlier statements wrote stays (the approval's two writes are one statement).
Fail(h) ==
  /\ failures < MaxFailures
  /\ job[h].at # "idle"
  /\ job' = [job EXCEPT ![h] = Idle]
  /\ failures' = failures + 1
  /\ UNCHANGED <<wallet, opened, tx, audit, due>>

-----------------------------------------------------------------------------

\* A statement of a request that has begun.
Continue(h) ==
  \/ InsertWallet(h) \/ SaveCredit(h) \/ InsertRow(h)
  \/ \E r \in Rows : ReleaseWallet(h, r)
  \/ ReleaseRow(h) \/ ReleaseAudit(h)
  \/ Approve(h) \/ Decide(h)

Begin(h) ==
  \/ ReleaseRead(h)
  \/ \E r \in Rows, a \in Accounts, x \in Amounts :
       \/ \E type \in {"CREDIT_PENDING", "CREDIT_AVAILABLE"} : CreditRead(h, r, type, a, x)
       \/ RequestWithdrawal(h, r, a, x)
  \/ \E r \in Rows :
       \/ ApproveRead(h, r)
       \/ \E verdict \in {"REJECTED", "CANCELLED"} : DecideRead(h, r, verdict)

Next ==
  \/ \E h \in Handlers : Continue(h) \/ Begin(h) \/ Fail(h)
  \/ \E a \in Accounts : OpenWallet(a)
  \/ \E r \in Rows : HoldElapses(r)

Spec == Init /\ [][Next]_vars

\* A request that has begun goes on, and the scheduler starts the hourly job.
FairSpec ==
  /\ Spec
  /\ \A h \in Handlers : WF_vars(Continue(h))
  /\ WF_vars(\E h \in Handlers : ReleaseRead(h))

-----------------------------------------------------------------------------

\* Every variable stays in its type: the columns of both tables and the request states.
TypeOK ==
  /\ wallet \in [Accounts -> Balance]
  /\ opened \subseteq Accounts
  /\ tx \in [Rows -> Tx]
  /\ audit \in [Rows -> Nat]
  /\ due \subseteq Rows
  /\ job \in [Handlers -> Job]
  /\ failures \in Nat

\* However requests overlap, and whichever fail, no wallet is driven below zero
\* available: approveWithdrawal writes a copy it has compared with the amount.
NoNegativeAvailable == \A a \in Accounts : wallet[a].available >= 0

\* However requests overlap, a withdrawal or a credit that has left PENDING never
\* becomes PENDING again, so it cannot be approved or released by a later request.
DecidedStaysDecided ==
  [][\A r \in Rows :
       tx[r].status \notin {"NONE", "PENDING"} => tx'[r].status \notin {"NONE", "PENDING"}]_vars

RowsOf(a, type, status) ==
  {r \in Rows : tx[r].account = a /\ tx[r].type \in type /\ tx[r].status \in status}
Total(S) == SumOf([r \in Rows |-> tx[r].amount], S)
CreditsOf(a) == RowsOf(a, {"CREDIT_PENDING", "CREDIT_AVAILABLE"}, Statuses)
Quiet == \A h \in Handlers : job[h].at = "idle"

\* With requests one at a time and no failure: when none is in flight, the two balances
\* and what was withdrawn (totalProfitSinceJoining) add up to the credits of the account.
BooksBalance ==
  Quiet /\ failures = 0 =>
    \A a \in Accounts :
      wallet[a].available + wallet[a].pending + Total(RowsOf(a, {"WITHDRAWAL"}, {"WITHDRAWN"}))
        = Total(CreditsOf(a))

\* With requests one at a time and no failure: the pending balance covers the credits
\* still held, so every one of them can be moved to the available balance.
HeldCreditsCovered ==
  Quiet /\ failures = 0 =>
    \A a \in Accounts :
      wallet[a].pending >= Total(RowsOf(a, {"CREDIT_PENDING"}, {"PENDING"}))

\* What the release job promises (wallet.service.ts:217, "Move from pending to available"):
\* when no request is in flight the pending balance is what is still held.
PendingIsWhatIsHeld ==
  Quiet /\ failures = 0 =>
    \A a \in Accounts :
      wallet[a].pending = Total(RowsOf(a, {"CREDIT_PENDING"}, {"PENDING"}))

\* With requests one at a time, even if some fail: a credit is released with at most one
\* RELEASE row, and with exactly one when nothing failed.
ReleasedOnce ==
  \A r \in Rows :
    /\ audit[r] <= 1
    /\ audit[r] = 1 => tx[r].type = "CREDIT_PENDING" /\ tx[r].status = "RELEASED"
    /\ Quiet /\ failures = 0 /\ tx[r].type = "CREDIT_PENDING" /\ tx[r].status = "RELEASED"
         => audit[r] = 1

\* With requests one at a time, and as long as none has failed: the wallets implement
\* Escrow. Releases move money without making any, and a withdrawal is paid once, from
\* money that is there.
heldFor == [a \in Accounts |-> wallet[a].available + wallet[a].pending]
paidOut == {r \in Rows : tx[r].status = "WITHDRAWN"}
Promise == INSTANCE Escrow WITH funds <- heldFor, settled <- paidOut
ImplementsEscrow == Promise!Init /\ [][failures = 0 => Promise!Next]_(Promise!vars)

\* The hourly job runs and requests finish: a credit whose hold is over is released.
DueIsReleased == \A r \in Rows : (r \in due) ~> (tx[r].status = "RELEASED")
=============================================================================
