---------------------------- MODULE WalletProofs ----------------------------
(***************************************************************************)
(* What holds of the wallets for any number of accounts, rows, amounts,    *)
(* requests in flight and failures; and, when requests come one at a time: *)
(* the books balance, held credits are covered, a credit is released once, *)
(* and the wallets implement Escrow. (With two requests at a time none of  *)
(* this is true: a save puts back a copy that another request made stale.) *)
(***************************************************************************)
EXTENDS Wallet, SumProofs

-----------------------------------------------------------------------------
(* The type invariant *)

LEMMA IdleIsJob == Idle \in Job
  BY AmountsPositive DEF Idle, Job, Points, NoTx, Tx, Types, Statuses, Zero, Balance

LEMMA CopyType ==
  ASSUME TypeOK, NEW A PROVE Copy(A) \in [Accounts -> Balance]
  BY DEF TypeOK, Copy, Zero, Balance

LEMMA JobFields ==
  ASSUME TypeOK, NEW h \in Handlers
  PROVE  /\ job[h] \in Job
         /\ job[h].at \in Points
         /\ job[h].row \in Rows \union {None}
         /\ job[h].draft \in Tx
         /\ job[h].seen \in [Accounts -> Balance]
         /\ job[h].todo \in SUBSET Rows
  BY DEF TypeOK, Job

\* A request that only moves to another statement keeps its copies.
LEMMA AtType ==
  ASSUME NEW j \in Job, NEW p \in Points PROVE [j EXCEPT !.at = p] \in Job
  BY DEF Job

LEMMA AmountType ==
  ASSUME NEW t \in Tx PROVE t.amount \in Int
<1>1. t.amount \in Amounts \union {0}
  BY DEF Tx
<1>2. \A x \in Amounts : x \in Nat
  BY AmountsPositive
<1>3. QED
  BY <1>1, <1>2

LEMMA CreditedType ==
  ASSUME NEW balance \in Balance, NEW t \in Tx
  PROVE  Credited(balance, t) \in Balance
  <1>1. t.amount \in Int
    BY AmountType
  <1>2. balance.available \in Int /\ balance.pending \in Int
    BY DEF Balance
  <1>3. [balance EXCEPT !.pending = @ + t.amount] \in Balance
    BY <1>1, <1>2 DEF Balance
  <1>4. [balance EXCEPT !.available = @ + t.amount] \in Balance
    BY <1>1, <1>2 DEF Balance
  <1>5. QED
    BY <1>3, <1>4 DEF Credited

LEMMA ReleasedType ==
  ASSUME NEW balance \in Balance, NEW t \in Tx
  PROVE  Released(balance, t.amount) \in Balance
  <1>1. t.amount \in Int
    BY AmountType
  <1>2. balance.available \in Int /\ balance.pending \in Int
    BY DEF Balance
  <1>3. QED
    BY <1>1, <1>2 DEF Released, Balance

LEMMA TxStatusType ==
  ASSUME NEW t \in Tx, NEW s \in Statuses PROVE [t EXCEPT !.status = s] \in Tx
  BY DEF Tx

\* A save that replaces the wallet of one account, if it has one, by a balance.
LEMMA WalletSaveType ==
  ASSUME TypeOK, NEW a, NEW balance, a \in Accounts => balance \in Balance
  PROVE  [wallet EXCEPT ![a] = balance] \in [Accounts -> Balance]
  BY DEF TypeOK

\* A request that inserts a wallet inserts it for an account.
InsertsForAccount ==
  \A h \in Handlers : job[h].at = "insert_wallet" => job[h].draft.account \in Accounts

TypeInv == TypeOK /\ InsertsForAccount

LEMMA TypeInvInit == Init => TypeInv
  BY IdleIsJob DEF Init, TypeInv, TypeOK, InsertsForAccount, Idle, Zero, Balance, NoTx, Tx,
                   Types, Statuses

LEMMA ContinueKeepsType ==
  ASSUME TypeInv, NEW h \in Handlers, Continue(h) PROVE TypeOK'
<1> USE DEF TypeInv
<1>1. CASE InsertWallet(h)
  <2>1. [job[h] EXCEPT !.at = "save_credit"] \in Job
    BY JobFields, AtType DEF Points
  <2>2. job' \in [Handlers -> Job]
    BY <1>1, <2>1, IdleIsJob DEF InsertWallet, TypeOK
  <2>3. opened' \subseteq Accounts
    BY <1>1 DEF InsertWallet, TypeOK, InsertsForAccount
  <2>4. QED
    BY <1>1, <2>2, <2>3 DEF InsertWallet, TypeOK
<1>2. CASE SaveCredit(h)
  <2>1. job' \in [Handlers -> Job]
    BY <1>2, JobFields, AtType DEF SaveCredit, TypeOK, Points
  <2>2. wallet' \in [Accounts -> Balance]
    BY <1>2, JobFields, CreditedType, WalletSaveType DEF SaveCredit
  <2>3. QED
    BY <1>2, <2>1, <2>2 DEF SaveCredit, TypeOK
<1>3. CASE InsertRow(h)
  BY <1>3, IdleIsJob, JobFields DEF InsertRow, TypeOK
<1>4. ASSUME NEW r \in Rows, ReleaseWallet(h, r) PROVE TypeOK'
  <2>1. [job[h] EXCEPT !.at = "release_row", !.row = r] \in Job
    BY JobFields DEF Job, Points
  <2>2. job' \in [Handlers -> Job]
    BY <1>4, <2>1 DEF ReleaseWallet, TypeOK
  <2>3. tx[r] \in Tx
    BY DEF TypeOK
  <2>4. wallet' \in [Accounts -> Balance]
    BY <1>4, <2>3, JobFields, ReleasedType, WalletSaveType DEF ReleaseWallet
  <2>5. QED
    BY <1>4, <2>2, <2>4 DEF ReleaseWallet, TypeOK
<1>5. CASE ReleaseRow(h)
  <2>1. job' \in [Handlers -> Job]
    BY <1>5, JobFields, AtType DEF ReleaseRow, TypeOK, Points
  <2>2. \A r \in Rows : [tx[r] EXCEPT !.status = "RELEASED"] \in Tx
    BY TxStatusType DEF TypeOK, Statuses
  <2>3. tx' \in [Rows -> Tx]
    BY <1>5, <2>2 DEF ReleaseRow, TypeOK
  <2>4. QED
    BY <1>5, <2>1, <2>3 DEF ReleaseRow, TypeOK
<1>6. CASE ReleaseAudit(h)
  <2> DEFINE left == job[h].todo \ {job[h].row}
  <2>1. [job[h] EXCEPT !.at = "release_wallet", !.row = None, !.todo = left] \in Job
    BY JobFields DEF Job, Points
  <2>2. job' \in [Handlers -> Job]
    BY <1>6, <2>1, IdleIsJob DEF ReleaseAudit, TypeOK
  <2>3. job[h].row \in Rows => audit[job[h].row] + 1 \in Nat
    BY DEF TypeOK
  <2>4. audit' \in [Rows -> Nat]
    BY <1>6, <2>3 DEF ReleaseAudit, TypeOK
  <2>5. QED
    BY <1>6, <2>2, <2>4 DEF ReleaseAudit, TypeOK
<1>7. CASE Approve(h)
  <2> DEFINE t == job[h].draft
  <2>0. t.amount \in Int
    <3>1. t \in Tx
      BY JobFields
    <3>2. QED
      BY <3>1, AmountType
  <2>1. t.account \in Accounts =>
          [job[h].seen[t.account] EXCEPT !.available = @ - t.amount] \in Balance
    BY <2>0, JobFields DEF Balance
  <2>2. wallet' \in [Accounts -> Balance]
    BY <1>7, <2>1, WalletSaveType DEF Approve
  <2>3. QED
    BY <1>7, <2>2, IdleIsJob, JobFields DEF Approve, TypeOK
<1>8. CASE Decide(h)
  BY <1>8, IdleIsJob, JobFields DEF Decide, TypeOK
<1>9. QED
  BY <1>1, <1>2, <1>3, <1>4, <1>5, <1>6, <1>7, <1>8 DEF Continue

LEMMA BeginKeepsType ==
  ASSUME TypeInv, NEW h \in Handlers, Begin(h) PROVE TypeOK'
<1> USE DEF TypeInv
<1>1. CASE ReleaseRead(h)
  BY <1>1, IdleIsJob, CopyType DEF ReleaseRead, Releasable, TypeOK, Job, Points
<1>2. ASSUME NEW r \in Rows, NEW a \in Accounts, NEW x \in Amounts,
             NEW type \in {"CREDIT_PENDING", "CREDIT_AVAILABLE"}, CreditRead(h, r, type, a, x)
      PROVE  TypeOK'
  BY <1>2, CopyType DEF CreditRead, CreditRow, TypeOK, Job, Points, Tx, Types, Statuses
<1>3. ASSUME NEW r \in Rows, NEW a \in Accounts, NEW x \in Amounts, RequestWithdrawal(h, r, a, x)
      PROVE  TypeOK'
  BY <1>3, IdleIsJob DEF RequestWithdrawal, TypeOK, Job, Points, Tx, Types, Statuses
<1>4. ASSUME NEW r \in Rows, ApproveRead(h, r) PROVE TypeOK'
  <2>1. [tx[r] EXCEPT !.status = "WITHDRAWN"] \in Tx
    BY TxStatusType DEF TypeOK, Statuses
  <2>2. [Idle EXCEPT !.at = "approve", !.row = r, !.seen = Copy({tx[r].account}),
                     !.draft = [tx[r] EXCEPT !.status = "WITHDRAWN"]] \in Job
    BY <2>1, IdleIsJob, CopyType DEF Job, Points
  <2>3. job' \in [Handlers -> Job]
    BY <1>4, <2>2 DEF ApproveRead, TypeOK
  <2>4. QED
    BY <1>4, <2>3 DEF ApproveRead, TypeOK
<1>5. ASSUME NEW r \in Rows, NEW verdict \in {"REJECTED", "CANCELLED"}, DecideRead(h, r, verdict)
      PROVE  TypeOK'
  <2>1. [tx[r] EXCEPT !.status = verdict] \in Tx
    BY TxStatusType DEF TypeOK, Statuses
  <2>2. [Idle EXCEPT !.at = "decide", !.row = r, !.draft = [tx[r] EXCEPT !.status = verdict]] \in Job
    BY <2>1, IdleIsJob DEF Job, Points
  <2>3. job' \in [Handlers -> Job]
    BY <1>5, <2>2 DEF DecideRead, TypeOK
  <2>4. QED
    BY <1>5, <2>3 DEF DecideRead, TypeOK
<1>6. QED
  BY <1>1, <1>2, <1>3, <1>4, <1>5 DEF Begin

\* A step that changes only the request of h, and leaves it at a safe point.
LEMMA InsertsKept ==
  ASSUME TypeInv, NEW h \in Handlers, NEW j, job' = [job EXCEPT ![h] = j],
         j.at = "insert_wallet" => j.draft.account \in Accounts
  PROVE  InsertsForAccount'
  BY DEF TypeInv, TypeOK, InsertsForAccount

LEMMA ContinueKeepsInserts ==
  ASSUME TypeInv, NEW h \in Handlers, Continue(h) PROVE InsertsForAccount'
<1>0. Idle.at = "idle"
  BY DEF Idle
<1>0a. job[h] \in Job
  BY JobFields DEF TypeInv
<1>1. CASE InsertWallet(h)
  <2>1. [job[h] EXCEPT !.at = "save_credit"].at = "save_credit"
    BY <1>0a DEF Job
  <2>2. QED
    BY <1>0, <1>1, <2>1, InsertsKept DEF InsertWallet
<1>2. CASE SaveCredit(h) \/ ReleaseRow(h)
  <2>1. [job[h] EXCEPT !.at = "insert_row"].at = "insert_row"
    BY <1>0a DEF Job
  <2>2. [job[h] EXCEPT !.at = "release_audit"].at = "release_audit"
    BY <1>0a DEF Job
  <2>3. \/ job' = [job EXCEPT ![h] = [job[h] EXCEPT !.at = "insert_row"]]
        \/ job' = [job EXCEPT ![h] = [job[h] EXCEPT !.at = "release_audit"]]
    BY <1>2 DEF SaveCredit, ReleaseRow
  <2>4. QED
    BY <2>1, <2>2, <2>3, InsertsKept
<1>3. CASE InsertRow(h) \/ Approve(h) \/ Decide(h)
  BY <1>0, <1>3, InsertsKept DEF InsertRow, Approve, Decide
<1>4. ASSUME NEW r \in Rows, ReleaseWallet(h, r) PROVE InsertsForAccount'
  <2>1. [job[h] EXCEPT !.at = "release_row", !.row = r].at = "release_row"
    BY <1>0a DEF Job
  <2>2. QED
    BY <1>4, <2>1, InsertsKept DEF ReleaseWallet
<1>5. CASE ReleaseAudit(h)
  <2> DEFINE left == job[h].todo \ {job[h].row}
             next == [job[h] EXCEPT !.at = "release_wallet", !.row = None, !.todo = left]
  <2>1. next.at = "release_wallet"
    BY <1>0a DEF Job
  <2>2. job' = [job EXCEPT ![h] = Idle] \/ job' = [job EXCEPT ![h] = next]
    BY <1>5 DEF ReleaseAudit
  <2>3. QED
    BY <1>0, <2>1, <2>2, InsertsKept
<1>6. QED
  BY <1>1, <1>2, <1>3, <1>4, <1>5 DEF Continue

LEMMA BeginKeepsInserts ==
  ASSUME TypeInv, NEW h \in Handlers, Begin(h) PROVE InsertsForAccount'
<1>1. ASSUME NEW r \in Rows, NEW a \in Accounts, NEW x \in Amounts,
             NEW type \in {"CREDIT_PENDING", "CREDIT_AVAILABLE"}, CreditRead(h, r, type, a, x)
      PROVE  InsertsForAccount'
  <2> DEFINE j == [at |-> IF a \in opened THEN "save_credit" ELSE "insert_wallet",
                   row |-> r, draft |-> CreditRow(type, a, x), seen |-> Copy({a}), todo |-> {}]
  <2>1. j.draft.account = a
    BY DEF CreditRow
  <2>2. job' = [job EXCEPT ![h] = j]
    BY <1>1 DEF CreditRead
  <2>3. QED
    BY <2>1, <2>2, InsertsKept
<1>2. CASE ReleaseRead(h)
  <2> DEFINE j == [Idle EXCEPT !.at = "release_wallet", !.todo = Releasable,
                                  !.seen = Copy({tx[r].account : r \in Releasable})]
  <2>1. j.at = "release_wallet"
    BY IdleIsJob DEF Job
  <2>2. job' = [job EXCEPT ![h] = j]
    BY <1>2 DEF ReleaseRead
  <2>3. QED
    BY <2>1, <2>2, InsertsKept
<1>3. ASSUME NEW r \in Rows, NEW a \in Accounts, NEW x \in Amounts, RequestWithdrawal(h, r, a, x)
      PROVE  InsertsForAccount'
  <2> DEFINE j == [Idle EXCEPT !.at = "insert_row", !.row = r,
                   !.draft = [type |-> "WITHDRAWAL", status |-> "PENDING",
                              account |-> a, amount |-> x]]
  <2>1. j.at = "insert_row"
    BY IdleIsJob DEF Job
  <2>2. job' = [job EXCEPT ![h] = j]
    BY <1>3 DEF RequestWithdrawal
  <2>3. QED
    BY <2>1, <2>2, InsertsKept
<1>4. ASSUME NEW r \in Rows, ApproveRead(h, r) PROVE InsertsForAccount'
  <2> DEFINE j == [Idle EXCEPT !.at = "approve", !.row = r, !.seen = Copy({tx[r].account}),
                                  !.draft = [tx[r] EXCEPT !.status = "WITHDRAWN"]]
  <2>1. j.at = "approve"
    BY IdleIsJob DEF Job
  <2>2. job' = [job EXCEPT ![h] = j]
    BY <1>4 DEF ApproveRead
  <2>3. QED
    BY <2>1, <2>2, InsertsKept
<1>5. ASSUME NEW r \in Rows, NEW verdict \in {"REJECTED", "CANCELLED"}, DecideRead(h, r, verdict)
      PROVE  InsertsForAccount'
  <2> DEFINE j == [Idle EXCEPT !.at = "decide", !.row = r,
                                  !.draft = [tx[r] EXCEPT !.status = verdict]]
  <2>1. j.at = "decide"
    BY IdleIsJob DEF Job
  <2>2. job' = [job EXCEPT ![h] = j]
    BY <1>5 DEF DecideRead
  <2>3. QED
    BY <2>1, <2>2, InsertsKept
<1>6. QED
  BY <1>1, <1>2, <1>3, <1>4, <1>5 DEF Begin

LEMMA StepKeepsType == TypeInv /\ [Next]_vars => TypeInv'
<1> SUFFICES ASSUME TypeInv, [Next]_vars PROVE TypeInv'
  OBVIOUS
<1> USE DEF TypeInv
<1>1. ASSUME NEW h \in Handlers, Continue(h) PROVE TypeInv'
  <2>1. TypeOK'
    BY <1>1, ContinueKeepsType
  <2>2. InsertsForAccount'
    BY <1>1, ContinueKeepsInserts
  <2>3. QED
    BY <2>1, <2>2
<1>2. ASSUME NEW h \in Handlers, Begin(h) PROVE TypeInv'
  <2>1. TypeOK'
    BY <1>2, BeginKeepsType
  <2>2. InsertsForAccount'
    BY <1>2, BeginKeepsInserts
  <2>3. QED
    BY <2>1, <2>2
<1>3. ASSUME NEW h \in Handlers, Fail(h) PROVE TypeInv'
  BY <1>3, IdleIsJob DEF Fail, TypeOK, InsertsForAccount, Idle
<1>4. ASSUME NEW a \in Accounts, OpenWallet(a) PROVE TypeInv'
  BY <1>4 DEF OpenWallet, TypeOK, InsertsForAccount
<1>5. ASSUME NEW r \in Rows, HoldElapses(r) PROVE TypeInv'
  BY <1>5 DEF HoldElapses, TypeOK, InsertsForAccount
<1>6. CASE UNCHANGED vars
  BY <1>6 DEF vars, TypeOK, InsertsForAccount
<1>7. QED
  BY <1>1, <1>2, <1>3, <1>4, <1>5, <1>6 DEF Next

\* Every variable has its type in every reachable state: the columns written by every
\* statement of WalletService, and the copies requests keep between statements.
THEOREM TypeCorrect == Spec => []TypeOK
<1>1. TypeInv => TypeOK
  BY DEF TypeInv
<1>2. QED
  BY <1>1, TypeInvInit, StepKeepsType, PTL DEF Spec

-----------------------------------------------------------------------------
(* No wallet goes below zero *)

\* A save writes a copy, so the copies must be safe as well as the wallets: none of them is
\* negative, and an approval holds a copy that covers the amount it will deduct.
JobSafe(j) ==
  /\ \A a \in Accounts : j.seen[a].available >= 0
  /\ j.at = "approve" /\ j.draft.account \in Accounts =>
       j.draft.amount <= j.seen[j.draft.account].available

SafeInv == NoNegativeAvailable /\ \A h \in Handlers : JobSafe(job[h])

LEMMA IdleSafe == JobSafe(Idle)
  BY DEF JobSafe, Idle, Zero

LEMMA CopySafe ==
  ASSUME NoNegativeAvailable, NEW A, NEW a \in Accounts PROVE Copy(A)[a].available >= 0
  BY DEF NoNegativeAvailable, Copy, Zero

\* A step of request h keeps the invariant if it leaves h with safe copies.
LEMMA SafeKept ==
  ASSUME TypeInv, SafeInv, NEW h \in Handlers, NEW j, job' = [job EXCEPT ![h] = j],
         JobSafe(j), NoNegativeAvailable'
  PROVE  SafeInv'
  BY DEF TypeInv, TypeOK, SafeInv, JobSafe

\* Going on to a statement that is not the approval's keeps the copies as they are.
LEMMA MoveSafe ==
  ASSUME NEW j \in Job, NEW k \in Job, JobSafe(j), k.seen = j.seen, k.at # "approve"
  PROVE  JobSafe(k)
  BY DEF JobSafe

\* A save of a balance that is not negative.
LEMMA SaveSafe ==
  ASSUME TypeInv, NoNegativeAvailable, NEW a, NEW balance, balance.available >= 0,
         wallet' = [wallet EXCEPT ![a] = balance]
  PROVE  NoNegativeAvailable'
  BY DEF TypeInv, TypeOK, NoNegativeAvailable

LEMMA AmountNat ==
  ASSUME NEW t \in Tx PROVE t.amount \in Nat
<1>1. t.amount \in Amounts \union {0}
  BY DEF Tx
<1>2. \A x \in Amounts : x \in Nat
  BY AmountsPositive
<1>3. QED
  BY <1>1, <1>2

LEMMA ContinueSafe ==
  ASSUME TypeInv, SafeInv, NEW h \in Handlers, Continue(h) PROVE SafeInv'
<1>1. /\ job[h] \in Job /\ JobSafe(job[h]) /\ NoNegativeAvailable
      /\ job[h].draft \in Tx /\ job[h].seen \in [Accounts -> Balance]
  BY JobFields DEF SafeInv, TypeInv
<1>2. \A p \in Points \ {"approve"} : JobSafe([job[h] EXCEPT !.at = p])
  <2>1. TAKE p \in Points \ {"approve"}
  <2> DEFINE k == [job[h] EXCEPT !.at = p]
  <2>2. k \in Job /\ k.seen = job[h].seen /\ k.at # "approve"
    BY <1>1 DEF Job
  <2>3. QED
    BY <1>1, <2>2, MoveSafe
<1>3. CASE InsertWallet(h)
  <2>1. NoNegativeAvailable'
    BY <1>1, <1>3 DEF InsertWallet, NoNegativeAvailable
  <2>2. QED
    BY <1>2, <1>3, <2>1, IdleSafe, SafeKept DEF InsertWallet, Points
<1>4. CASE SaveCredit(h)
  <2> DEFINE t == job[h].draft
             balance == Credited(job[h].seen[t.account], t)
  <2>1. t.account \in Accounts => balance.available >= 0
    <3>1. ASSUME t.account \in Accounts PROVE balance.available >= 0
      <4> DEFINE seen == job[h].seen[t.account]
      <4>1. seen \in Balance /\ seen.available >= 0 /\ t.amount \in Nat
        BY <1>1, <3>1, AmountNat DEF JobSafe
      <4>2. [seen EXCEPT !.pending = @ + t.amount].available = seen.available
        BY <4>1 DEF Balance
      <4>3. [seen EXCEPT !.available = @ + t.amount].available = seen.available + t.amount
        BY <4>1 DEF Balance
      <4>4. seen.available \in Int
        BY <4>1 DEF Balance
      <4>5. QED
        BY <4>1, <4>2, <4>3, <4>4 DEF Credited
    <3>2. QED
      BY <3>1
  <2>2. NoNegativeAvailable'
    BY <1>1, <1>4, <2>1, SaveSafe DEF SaveCredit, NoNegativeAvailable, TypeInv, TypeOK
  <2>3. QED
    BY <1>2, <1>4, <2>2, SafeKept DEF SaveCredit, Points
<1>5. CASE InsertRow(h) \/ Decide(h)
  <2>1. NoNegativeAvailable'
    BY <1>1, <1>5 DEF InsertRow, Decide, NoNegativeAvailable
  <2>2. QED
    BY <1>5, <2>1, IdleSafe, SafeKept DEF InsertRow, Decide
<1>6. ASSUME NEW r \in Rows, ReleaseWallet(h, r) PROVE SafeInv'
  <2> DEFINE k == [job[h] EXCEPT !.at = "release_row", !.row = r]
             balance == Released(job[h].seen[tx[r].account], tx[r].amount)
  <2>1. k \in Job /\ k.seen = job[h].seen /\ k.at # "approve"
    BY <1>1 DEF Job, Points
  <2>2. tx[r] \in Tx
    BY DEF TypeInv, TypeOK
  <2>3. ASSUME tx[r].account \in Accounts PROVE balance.available >= 0
    <3>1. /\ job[h].seen[tx[r].account].available >= 0
          /\ job[h].seen[tx[r].account].available \in Int /\ tx[r].amount \in Nat
      BY <1>1, <2>2, <2>3, AmountNat DEF JobSafe, Balance
    <3>2. QED
      BY <3>1 DEF Released
  <2>4. NoNegativeAvailable'
    BY <1>1, <1>6, <2>3, SaveSafe DEF ReleaseWallet, NoNegativeAvailable, TypeInv, TypeOK
  <2>5. QED
    BY <1>1, <1>6, <2>1, <2>4, MoveSafe, SafeKept DEF ReleaseWallet
<1>7. CASE ReleaseRow(h)
  <2>1. NoNegativeAvailable'
    BY <1>1, <1>7 DEF ReleaseRow, NoNegativeAvailable
  <2>2. QED
    BY <1>2, <1>7, <2>1, SafeKept DEF ReleaseRow, Points
<1>8. CASE ReleaseAudit(h)
  <2> DEFINE left == job[h].todo \ {job[h].row}
             k == [job[h] EXCEPT !.at = "release_wallet", !.row = None, !.todo = left]
  <2>1. k \in Job /\ k.seen = job[h].seen /\ k.at # "approve"
    BY <1>1 DEF Job, Points
  <2>2. NoNegativeAvailable'
    BY <1>1, <1>8 DEF ReleaseAudit, NoNegativeAvailable
  <2>3. job' = [job EXCEPT ![h] = Idle] \/ job' = [job EXCEPT ![h] = k]
    BY <1>8 DEF ReleaseAudit
  <2>4. JobSafe(k)
    BY <1>1, <2>1, MoveSafe
  <2>5. QED
    BY <2>2, <2>3, <2>4, IdleSafe, SafeKept
<1>9. CASE Approve(h)
  <2> DEFINE t == job[h].draft
             seen == job[h].seen[t.account]
             balance == [seen EXCEPT !.available = @ - t.amount]
  <2>1. ASSUME t.account \in Accounts PROVE balance.available >= 0
    <3>1. seen \in Balance /\ t.amount <= seen.available /\ t.amount \in Nat
      BY <1>1, <1>9, <2>1, AmountNat DEF Approve, JobSafe
    <3>2. balance.available = seen.available - t.amount /\ seen.available \in Int
      BY <3>1 DEF Balance
    <3>3. QED
      BY <3>1, <3>2
  <2>2. NoNegativeAvailable'
    BY <1>1, <1>9, <2>1, SaveSafe DEF Approve, NoNegativeAvailable, TypeInv, TypeOK
  <2>3. QED
    BY <1>9, <2>2, IdleSafe, SafeKept DEF Approve
<1>10. QED
  BY <1>3, <1>4, <1>5, <1>6, <1>7, <1>8, <1>9 DEF Continue

LEMMA BeginSafe ==
  ASSUME TypeInv, SafeInv, NEW h \in Handlers, Begin(h) PROVE SafeInv'
<1>1. NoNegativeAvailable
  BY DEF SafeInv
<1>2. NoNegativeAvailable'
  BY <1>1 DEF Begin, ReleaseRead, CreditRead, RequestWithdrawal, ApproveRead, DecideRead,
              NoNegativeAvailable
<1>3. CASE ReleaseRead(h)
  <2> DEFINE A == {tx[r].account : r \in Releasable}
             j == [Idle EXCEPT !.at = "release_wallet", !.todo = Releasable, !.seen = Copy(A)]
  <2>1. j.at # "approve" /\ j.seen = Copy(A)
    BY IdleIsJob DEF Job
  <2>2. JobSafe(j)
    BY <1>1, <2>1, CopySafe DEF JobSafe
  <2>3. job' = [job EXCEPT ![h] = j]
    BY <1>3 DEF ReleaseRead
  <2>4. QED
    BY <1>2, <2>2, <2>3, SafeKept
<1>4. ASSUME NEW r \in Rows, NEW a \in Accounts, NEW x \in Amounts,
             NEW type \in {"CREDIT_PENDING", "CREDIT_AVAILABLE"}, CreditRead(h, r, type, a, x)
      PROVE  SafeInv'
  <2> DEFINE j == [at |-> IF a \in opened THEN "save_credit" ELSE "insert_wallet",
                   row |-> r, draft |-> CreditRow(type, a, x), seen |-> Copy({a}), todo |-> {}]
  <2>1. j.at # "approve" /\ j.seen = Copy({a})
    OBVIOUS
  <2>2. JobSafe(j)
    BY <1>1, <2>1, CopySafe DEF JobSafe
  <2>3. job' = [job EXCEPT ![h] = j]
    BY <1>4 DEF CreditRead
  <2>4. QED
    BY <1>2, <2>2, <2>3, SafeKept
<1>5. ASSUME NEW r \in Rows, NEW a \in Accounts, NEW x \in Amounts, RequestWithdrawal(h, r, a, x)
      PROVE  SafeInv'
  <2> DEFINE j == [Idle EXCEPT !.at = "insert_row", !.row = r,
                     !.draft = [type |-> "WITHDRAWAL", status |-> "PENDING",
                                account |-> a, amount |-> x]]
  <2>1. j.at # "approve" /\ j.seen = Idle.seen
    BY IdleIsJob DEF Job
  <2>2. JobSafe(j)
    BY <2>1, IdleSafe DEF JobSafe
  <2>3. job' = [job EXCEPT ![h] = j]
    BY <1>5 DEF RequestWithdrawal
  <2>4. QED
    BY <1>2, <2>2, <2>3, SafeKept
<1>6. ASSUME NEW r \in Rows, ApproveRead(h, r) PROVE SafeInv'
  <2> DEFINE a == tx[r].account
             draft == [tx[r] EXCEPT !.status = "WITHDRAWN"]
             j == [Idle EXCEPT !.at = "approve", !.row = r, !.seen = Copy({a}), !.draft = draft]
  <2>1. j.seen = Copy({a}) /\ j.draft = draft
    BY IdleIsJob DEF Job
  <2>2. draft.account = a /\ draft.amount = tx[r].amount
    BY DEF TypeInv, TypeOK, Tx
  <2>3. a \in Accounts => draft.amount <= Copy({a})[a].available
    BY <1>6, <2>2 DEF ApproveRead, Copy
  <2>4. JobSafe(j)
    BY <1>1, <2>1, <2>2, <2>3, CopySafe DEF JobSafe
  <2>5. job' = [job EXCEPT ![h] = j]
    BY <1>6 DEF ApproveRead
  <2>6. QED
    BY <1>2, <2>4, <2>5, SafeKept
<1>7. ASSUME NEW r \in Rows, NEW verdict \in {"REJECTED", "CANCELLED"}, DecideRead(h, r, verdict)
      PROVE  SafeInv'
  <2> DEFINE j == [Idle EXCEPT !.at = "decide", !.row = r,
                     !.draft = [tx[r] EXCEPT !.status = verdict]]
  <2>1. j.at # "approve" /\ j.seen = Idle.seen
    BY IdleIsJob DEF Job
  <2>2. JobSafe(j)
    BY <2>1, IdleSafe DEF JobSafe
  <2>3. job' = [job EXCEPT ![h] = j]
    BY <1>7 DEF DecideRead
  <2>4. QED
    BY <1>2, <2>2, <2>3, SafeKept
<1>8. QED
  BY <1>3, <1>4, <1>5, <1>6, <1>7 DEF Begin

LEMMA StepSafe == TypeInv /\ SafeInv /\ [Next]_vars => SafeInv'
<1> SUFFICES ASSUME TypeInv, SafeInv, [Next]_vars PROVE SafeInv'
  OBVIOUS
<1>1. ASSUME NEW h \in Handlers, Fail(h) PROVE SafeInv'
  <2>1. NoNegativeAvailable'
    BY <1>1 DEF Fail, SafeInv, NoNegativeAvailable
  <2>2. QED
    BY <1>1, <2>1, IdleSafe, SafeKept DEF Fail
<1>2. ASSUME NEW a \in Accounts, OpenWallet(a) PROVE SafeInv'
  BY <1>2 DEF OpenWallet, SafeInv, NoNegativeAvailable, JobSafe
<1>3. ASSUME NEW r \in Rows, HoldElapses(r) PROVE SafeInv'
  BY <1>3 DEF HoldElapses, SafeInv, NoNegativeAvailable, JobSafe
<1>4. CASE UNCHANGED vars
  BY <1>4 DEF vars, SafeInv, NoNegativeAvailable, JobSafe
<1>5. QED
  BY <1>1, <1>2, <1>3, <1>4, ContinueSafe, BeginSafe DEF Next

\* Whatever overlaps and whatever fails, the available balance of a wallet is never
\* negative: approveWithdrawal deducts from the very copy it compared with the amount.
THEOREM WalletsStayCovered == Spec => []NoNegativeAvailable
<1>1. Init => SafeInv
  BY IdleSafe DEF Init, SafeInv, NoNegativeAvailable, Zero
<1>2. SafeInv => NoNegativeAvailable
  BY DEF SafeInv
<1>3. QED
  BY <1>1, <1>2, TypeInvInit, StepKeepsType, StepSafe, PTL DEF Spec

-----------------------------------------------------------------------------
(* A decided row stays decided *)

Inserting(j) == j.at \in {"insert_wallet", "save_credit", "insert_row"}

\* The rows a request is about: one it inserts is not there yet, one it releases is there,
\* and what it is about to write over an existing row is a decision.
JobRow(j) ==
  /\ Inserting(j) => j.row \in Rows /\ tx[j.row] = NoTx /\ j.draft.status # "NONE"
  /\ \A r \in j.todo : tx[r] # NoTx
  /\ j.at \in {"approve", "decide"} => j.draft.status \notin {"NONE", "PENDING"}

\* Two requests never insert the same row, nor one a row another works on.
RowInv ==
  /\ \A h \in Handlers : JobRow(job[h])
  /\ \A g, h \in Handlers : g # h /\ Inserting(job[h]) => job[g].row # job[h].row

Decided(t) == t.status \notin {"NONE", "PENDING"}

LEMMA NoTxUndecided == ~ Decided(NoTx) /\ NoTx.status = "NONE" /\ NoTx.type = "NONE"
  BY DEF Decided, NoTx

LEMMA IdleRow == JobRow(Idle) /\ ~ Inserting(Idle) /\ Idle.at = "idle" /\ Idle.row = None
  BY DEF JobRow, Inserting, Idle

\* A step that leaves the rows alone and request h without an insertion of its own.
LEMMA RowInvNoInsert ==
  ASSUME TypeInv, RowInv, NEW h \in Handlers, NEW j, job' = [job EXCEPT ![h] = j],
         ~ Inserting(j), JobRow(j), tx' = tx,
         \A g \in Handlers : g # h /\ Inserting(job[g]) => j.row # job[g].row
  PROVE  RowInv'
  BY DEF TypeInv, TypeOK, RowInv, JobRow, Inserting

\* A step that leaves the rows alone and request h inserting a row nobody works on.
LEMMA RowInvInsert ==
  ASSUME TypeInv, RowInv, NEW h \in Handlers, NEW j, job' = [job EXCEPT ![h] = j],
         JobRow(j), tx' = tx,
         \A g \in Handlers \ {h} : job[g].row # j.row
  PROVE  RowInv'
<1>1. \A g \in Handlers \ {h} : ~ (Inserting(job[g]) /\ j.row = job[g].row)
  OBVIOUS
<1>2. job'[h] = j /\ \A g \in Handlers \ {h} : job'[g] = job[g]
  BY DEF TypeInv, TypeOK
<1>3. \A g \in Handlers : JobRow(job[g])'
  BY <1>2 DEF RowInv, JobRow, Inserting
<1>4. ASSUME NEW f \in Handlers, NEW g \in Handlers, f # g, Inserting(job'[g])
      PROVE  job'[f].row # job'[g].row
  BY <1>1, <1>2, <1>4 DEF RowInv
<1>5. QED
  BY <1>3, <1>4 DEF RowInv, Inserting

\* A step of request h that writes its row, and ends h or moves it on.
LEMMA RowInvWrite ==
  ASSUME TypeInv, RowInv, NEW h \in Handlers, NEW j, job' = [job EXCEPT ![h] = j],
         ~ Inserting(j), j.at \notin {"approve", "decide"}, j.row \in {job[h].row, None},
         j.todo \subseteq job[h].todo,
         \A q \in Rows \ {job[h].row} : tx'[q] = tx[q],
         \A q \in Rows : tx[q] # NoTx => tx'[q] # NoTx
  PROVE  RowInv'
<1>1. job'[h] = j /\ \A g \in Handlers \ {h} : job'[g] = job[g]
  BY DEF TypeInv, TypeOK
<1>2. \A g \in Handlers \ {h} : Inserting(job[g]) => tx'[job[g].row] = tx[job[g].row]
  BY DEF RowInv, JobRow
<1>3. \A g \in Handlers : job[g].todo \subseteq Rows
  BY JobFields DEF TypeInv
<1>4. ASSUME NEW g \in Handlers \ {h} PROVE JobRow(job[g])'
  BY <1>1, <1>2, <1>3, <1>4 DEF RowInv, JobRow, Inserting
<1>5. JobRow(job[h])'
  BY <1>1, <1>3 DEF RowInv, JobRow, Inserting
<1>6. ASSUME NEW f \in Handlers, NEW g \in Handlers, f # g, Inserting(job'[g])
      PROVE  job'[f].row # job'[g].row
  <2>1. g # h /\ job'[g] = job[g]
    BY <1>1, <1>6
  <2>2. job[g].row \in Rows
    BY <1>6, <2>1 DEF RowInv, JobRow
  <2>3. QED
    BY <1>1, <1>6, <2>1, <2>2, NoneIsNoId DEF RowInv
<1>7. QED
  BY <1>4, <1>5, <1>6 DEF RowInv, Inserting

LEMMA ContinueKeepsRows ==
  ASSUME TypeInv, RowInv, NEW h \in Handlers, Continue(h) PROVE RowInv'
<1>1. /\ job[h] \in Job /\ JobRow(job[h])
      /\ \A g \in Handlers : g # h /\ Inserting(job[g]) => job[h].row # job[g].row
      /\ \A g \in Handlers : g # h /\ Inserting(job[g]) => job[g].row \in Rows /\ tx[job[g].row] = NoTx
      /\ \A r \in Rows : tx[r] \in Tx
  BY JobFields DEF RowInv, TypeInv, TypeOK, JobRow
<1>2. \A g \in Handlers : g # h /\ Inserting(job[g]) => Idle.row # job[g].row
  BY <1>1, IdleRow, NoneIsNoId
<1>3. CASE InsertWallet(h)
  <2> DEFINE j == [job[h] EXCEPT !.at = "save_credit"]
  <2>1. j.row = job[h].row /\ j.todo = job[h].todo /\ j.draft = job[h].draft /\ j.at = "save_credit"
    BY <1>1 DEF Job
  <2>2. CASE job' = [job EXCEPT ![h] = Idle]
    BY <1>2, <1>3, <2>2, IdleRow, RowInvNoInsert DEF InsertWallet
  <2>3. CASE job' = [job EXCEPT ![h] = j]
    <3>1. Inserting(job[h])
      BY <1>3 DEF InsertWallet, Inserting
    <3>2. JobRow(j)
      BY <1>1, <2>1, <3>1 DEF JobRow, Inserting
    <3>3. \A g \in Handlers \ {h} : job[g].row # j.row
      BY <2>1, <3>1 DEF RowInv
    <3>4. QED
      BY <1>3, <2>3, <3>2, <3>3, RowInvInsert DEF InsertWallet
  <2>4. QED
    BY <1>3, <2>2, <2>3 DEF InsertWallet
<1>4. CASE SaveCredit(h)
  <2> DEFINE j == [job[h] EXCEPT !.at = "insert_row"]
  <2>1. j.row = job[h].row /\ j.todo = job[h].todo /\ j.draft = job[h].draft /\ j.at = "insert_row"
    BY <1>1 DEF Job
  <2>2. Inserting(job[h])
    BY <1>4 DEF SaveCredit, Inserting
  <2>3. JobRow(j)
    BY <1>1, <2>1, <2>2 DEF JobRow, Inserting
  <2>4. \A g \in Handlers \ {h} : job[g].row # j.row
    BY <2>1, <2>2 DEF RowInv
  <2>5. QED
    BY <1>4, <2>3, <2>4, RowInvInsert DEF SaveCredit
<1>5. CASE InsertRow(h)
  <2>1. job[h].draft.status # "NONE"
    BY <1>1, <1>5 DEF InsertRow, Inserting, JobRow
  <2>2. \A q \in Rows : q # job[h].row => tx'[q] = tx[q]
    BY <1>5 DEF InsertRow, TypeInv, TypeOK
  <2>3. \A q \in Rows : tx[q] # NoTx => tx'[q] # NoTx
    BY <1>5, <2>1, NoTxUndecided DEF InsertRow, TypeInv, TypeOK
  <2>4. QED
    BY <1>5, <2>2, <2>3, IdleRow, RowInvWrite DEF InsertRow, Idle
<1>6. ASSUME NEW r \in Rows, ReleaseWallet(h, r) PROVE RowInv'
  <2> DEFINE j == [job[h] EXCEPT !.at = "release_row", !.row = r]
  <2>1. j.row = r /\ j.todo = job[h].todo /\ j.at = "release_row"
    BY <1>1 DEF Job
  <2>2. tx[r] # NoTx /\ JobRow(j) /\ ~ Inserting(j)
    BY <1>1, <1>6, <2>1 DEF ReleaseWallet, JobRow, Inserting
  <2>3. \A g \in Handlers : g # h /\ Inserting(job[g]) => j.row # job[g].row
    BY <1>1, <2>1, <2>2
  <2>4. tx' = tx /\ job' = [job EXCEPT ![h] = j]
    BY <1>6 DEF ReleaseWallet
  <2>5. QED
    BY <2>2, <2>3, <2>4, RowInvNoInsert
<1>7. CASE ReleaseRow(h)
  <2> DEFINE j == [job[h] EXCEPT !.at = "release_audit"]
  <2>1. j.row = job[h].row /\ j.todo = job[h].todo /\ j.at = "release_audit"
    BY <1>1 DEF Job
  <2>2. \A q \in Rows : q # job[h].row => tx'[q] = tx[q]
    BY <1>7 DEF ReleaseRow, TypeInv, TypeOK
  <2>3. \A q \in Rows : q = job[h].row => tx'[q].status = "RELEASED"
    BY <1>1, <1>7 DEF ReleaseRow, TypeInv, TypeOK, Tx
  <2>4. \A q \in Rows : tx[q] # NoTx => tx'[q] # NoTx
    BY <2>2, <2>3, NoTxUndecided
  <2>5. ~ Inserting(j)
    BY <2>1 DEF Inserting
  <2>6. QED
    BY <1>7, <2>1, <2>2, <2>4, <2>5, RowInvWrite DEF ReleaseRow
<1>8. CASE ReleaseAudit(h)
  <2> DEFINE left == job[h].todo \ {job[h].row}
             j == [job[h] EXCEPT !.at = "release_wallet", !.row = None, !.todo = left]
  <2>1. j.row = None /\ j.todo = left /\ j.at = "release_wallet"
    BY <1>1 DEF Job
  <2>2. ~ Inserting(j) /\ JobRow(j)
    BY <1>1, <2>1 DEF Inserting, JobRow
  <2>3. \A g \in Handlers : g # h /\ Inserting(job[g]) => j.row # job[g].row
    BY <1>1, <2>1, NoneIsNoId
  <2>4. job' = [job EXCEPT ![h] = Idle] \/ job' = [job EXCEPT ![h] = j]
    BY <1>8 DEF ReleaseAudit
  <2>5. tx' = tx
    BY <1>8 DEF ReleaseAudit
  <2>6. QED
    BY <1>2, <2>2, <2>3, <2>4, <2>5, IdleRow, RowInvNoInsert
<1>9. CASE Approve(h) \/ Decide(h)
  <2>1. job[h].draft.status # "NONE" /\ job' = [job EXCEPT ![h] = Idle]
    BY <1>1, <1>9 DEF Approve, Decide, JobRow
  <2>2. \A q \in Rows : q # job[h].row => tx'[q] = tx[q]
    BY <1>9 DEF Approve, Decide, TypeInv, TypeOK
  <2>3. \A q \in Rows : tx[q] # NoTx => tx'[q] # NoTx
    BY <1>9, <2>1, NoTxUndecided DEF Approve, Decide, TypeInv, TypeOK
  <2>4. QED
    BY <2>1, <2>2, <2>3, IdleRow, RowInvWrite DEF Idle
<1>10. QED
  BY <1>3, <1>4, <1>5, <1>6, <1>7, <1>8, <1>9 DEF Continue

LEMMA BeginKeepsRows ==
  ASSUME TypeInv, RowInv, NEW h \in Handlers, Begin(h) PROVE RowInv'
<1>1. tx' = tx
  BY DEF Begin, ReleaseRead, CreditRead, RequestWithdrawal, ApproveRead, DecideRead
<1>2. \A g \in Handlers : Inserting(job[g]) => job[g].row \in Rows /\ tx[job[g].row] = NoTx
  BY DEF RowInv, JobRow
<1>3. CASE ReleaseRead(h)
  <2> DEFINE A == {tx[r].account : r \in Releasable}
             j == [Idle EXCEPT !.at = "release_wallet", !.todo = Releasable, !.seen = Copy(A)]
  <2>1. j.at = "release_wallet" /\ j.todo = Releasable /\ j.row = None
    BY IdleIsJob, IdleRow DEF Job
  <2>2. \A r \in Releasable : tx[r] # NoTx
    BY NoTxUndecided DEF Releasable, NoTx
  <2>3. ~ Inserting(j) /\ JobRow(j)
    BY <2>1, <2>2 DEF Inserting, JobRow
  <2>4. job' = [job EXCEPT ![h] = j]
    BY <1>3 DEF ReleaseRead
  <2>5. QED
    BY <1>1, <1>2, <2>1, <2>3, <2>4, NoneIsNoId, RowInvNoInsert
<1>4. ASSUME NEW r \in Rows, NEW a \in Accounts, NEW x \in Amounts,
             NEW type \in {"CREDIT_PENDING", "CREDIT_AVAILABLE"}, CreditRead(h, r, type, a, x)
      PROVE  RowInv'
  <2> DEFINE j == [at |-> IF a \in opened THEN "save_credit" ELSE "insert_wallet",
                   row |-> r, draft |-> CreditRow(type, a, x), seen |-> Copy({a}), todo |-> {}]
  <2>1. j.row = r /\ j.todo = {} /\ j.at \notin {"approve", "decide"} /\ j.draft.status # "NONE"
    BY DEF CreditRow
  <2>2. JobRow(j) /\ \A g \in Handlers \ {h} : job[g].row # j.row
    BY <1>4, <2>1 DEF CreditRead, Unused, JobRow
  <2>3. job' = [job EXCEPT ![h] = j]
    BY <1>4 DEF CreditRead
  <2>4. QED
    BY <1>1, <2>2, <2>3, RowInvInsert
<1>5. ASSUME NEW r \in Rows, NEW a \in Accounts, NEW x \in Amounts, RequestWithdrawal(h, r, a, x)
      PROVE  RowInv'
  <2> DEFINE t == [type |-> "WITHDRAWAL", status |-> "PENDING", account |-> a, amount |-> x]
             j == [Idle EXCEPT !.at = "insert_row", !.row = r, !.draft = t]
  <2>1. j.row = r /\ j.todo = {} /\ j.at = "insert_row" /\ j.draft = t
    BY IdleIsJob DEF Job, Idle
  <2>2. JobRow(j) /\ \A g \in Handlers \ {h} : job[g].row # j.row
    BY <1>5, <2>1 DEF RequestWithdrawal, Unused, JobRow
  <2>3. job' = [job EXCEPT ![h] = j]
    BY <1>5 DEF RequestWithdrawal
  <2>4. QED
    BY <1>1, <2>2, <2>3, RowInvInsert
<1>6. ASSUME NEW r \in Rows, NEW verdict \in {"WITHDRAWN", "REJECTED", "CANCELLED"},
             NEW j, job' = [job EXCEPT ![h] = j], Undecided(r), j.row = r, j.todo = {},
             j.at \in {"approve", "decide"}, j.draft = [tx[r] EXCEPT !.status = verdict]
      PROVE  RowInv'
  <2>1. tx[r] # NoTx
    BY <1>6 DEF Undecided, NoTx
  <2>2. j.draft.status = verdict
    BY <1>6 DEF TypeInv, TypeOK, Tx
  <2>3. ~ Inserting(j) /\ JobRow(j)
    BY <1>6, <2>2 DEF Inserting, JobRow
  <2>4. \A g \in Handlers : g # h /\ Inserting(job[g]) => j.row # job[g].row
    BY <1>2, <1>6, <2>1
  <2>5. job' = [job EXCEPT ![h] = j] /\ tx' = tx
    BY <1>1, <1>6
  <2>6. QED
    BY <2>3, <2>4, <2>5, RowInvNoInsert
<1>7. ASSUME NEW r \in Rows, ApproveRead(h, r) PROVE RowInv'
  <2> DEFINE draft == [tx[r] EXCEPT !.status = "WITHDRAWN"]
             j == [Idle EXCEPT !.at = "approve", !.row = r, !.seen = Copy({tx[r].account}),
                               !.draft = draft]
  <2>1. j.row = r /\ j.todo = {} /\ j.at = "approve" /\ j.draft = draft
    BY IdleIsJob DEF Job, Idle
  <2>2. job' = [job EXCEPT ![h] = j] /\ Undecided(r)
    BY <1>7 DEF ApproveRead
  <2>3. QED
    BY <1>6, <2>1, <2>2
<1>8. ASSUME NEW r \in Rows, NEW verdict \in {"REJECTED", "CANCELLED"}, DecideRead(h, r, verdict)
      PROVE  RowInv'
  <2> DEFINE draft == [tx[r] EXCEPT !.status = verdict]
             j == [Idle EXCEPT !.at = "decide", !.row = r, !.draft = draft]
  <2>1. j.row = r /\ j.todo = {} /\ j.at = "decide" /\ j.draft = draft
    BY IdleIsJob DEF Job, Idle
  <2>2. job' = [job EXCEPT ![h] = j] /\ Undecided(r)
    BY <1>8 DEF DecideRead
  <2>3. QED
    BY <1>6, <2>1, <2>2
<1>9. QED
  BY <1>3, <1>4, <1>5, <1>7, <1>8 DEF Begin

LEMMA StepKeepsRows == TypeInv /\ RowInv /\ [Next]_vars => RowInv'
<1> SUFFICES ASSUME TypeInv, RowInv, [Next]_vars PROVE RowInv'
  OBVIOUS
<1>1. ASSUME NEW h \in Handlers, Fail(h) PROVE RowInv'
  <2>1. \A g \in Handlers : g # h /\ Inserting(job[g]) => Idle.row # job[g].row
    BY IdleRow, NoneIsNoId DEF RowInv, JobRow
  <2>2. QED
    BY <1>1, <2>1, IdleRow, RowInvNoInsert DEF Fail
<1>2. ASSUME NEW a \in Accounts, OpenWallet(a) PROVE RowInv'
  BY <1>2 DEF OpenWallet, RowInv, JobRow, Inserting
<1>3. ASSUME NEW r \in Rows, HoldElapses(r) PROVE RowInv'
  BY <1>3 DEF HoldElapses, RowInv, JobRow, Inserting
<1>4. CASE UNCHANGED vars
  BY <1>4 DEF vars, RowInv, JobRow, Inserting
<1>5. QED
  BY <1>1, <1>2, <1>3, <1>4, ContinueKeepsRows, BeginKeepsRows DEF Next

LEMMA StepKeepsDecisions ==
  TypeInv /\ RowInv /\ [Next]_vars =>
    [\A r \in Rows :
       tx[r].status \notin {"NONE", "PENDING"} => tx'[r].status \notin {"NONE", "PENDING"}]_vars
<1> SUFFICES ASSUME TypeInv, RowInv, Next, NEW r \in Rows,
                    tx[r].status \notin {"NONE", "PENDING"}
             PROVE  tx'[r].status \notin {"NONE", "PENDING"}
  BY DEF vars
<1>1. ASSUME tx' = tx PROVE tx'[r].status \notin {"NONE", "PENDING"}
  BY <1>1
<1>2. ASSUME NEW h \in Handlers, InsertRow(h) PROVE tx'[r].status \notin {"NONE", "PENDING"}
  <2>1. tx[job[h].row] = NoTx
    BY <1>2 DEF InsertRow, RowInv, JobRow, Inserting
  <2>2. job[h].row # r
    BY <2>1, NoTxUndecided
  <2>3. QED
    BY <1>2, <2>2 DEF InsertRow, TypeInv, TypeOK
<1>3. ASSUME NEW h \in Handlers, ReleaseRow(h) PROVE tx'[r].status \notin {"NONE", "PENDING"}
  BY <1>3 DEF ReleaseRow, TypeInv, TypeOK, Tx
<1>4. ASSUME NEW h \in Handlers, Approve(h) \/ Decide(h)
      PROVE  tx'[r].status \notin {"NONE", "PENDING"}
  BY <1>4 DEF Approve, Decide, RowInv, JobRow, TypeInv, TypeOK
<1>5. ASSUME NEW h \in Handlers, Continue(h)
      PROVE  tx' = tx \/ InsertRow(h) \/ ReleaseRow(h) \/ Approve(h) \/ Decide(h)
  BY <1>5 DEF Continue, InsertWallet, SaveCredit, ReleaseWallet, ReleaseAudit
<1>6. ASSUME NEW h \in Handlers, Begin(h) PROVE tx' = tx
  BY <1>6 DEF Begin, ReleaseRead, CreditRead, RequestWithdrawal, ApproveRead, DecideRead
<1>7. \/ \E h \in Handlers : Continue(h)
      \/ \E h \in Handlers : Begin(h)
      \/ tx' = tx
  BY DEF Next, Fail, OpenWallet, HoldElapses
<1>8. QED
  BY <1>1, <1>2, <1>3, <1>4, <1>5, <1>6, <1>7

\* Whatever overlaps and whatever fails, a row that has left PENDING never returns to it:
\* no withdrawal can be paid by a request that starts after it was decided.
THEOREM DecisionsAreFinal == Spec => DecidedStaysDecided
<1>1. Init => RowInv
  BY IdleRow DEF Init, RowInv
<1>2. QED
  BY <1>1, TypeInvInit, StepKeepsType, StepKeepsRows, StepKeepsDecisions, PTL
     DEF Spec, DecidedStaysDecided

-----------------------------------------------------------------------------
(* One request at a time: the rows, and what the request in flight knows of them *)

\* A credit as creditPending or creditAvailable inserts it, and a withdrawal nobody has decided.
NewCredit(t) == \/ t.type = "CREDIT_PENDING" /\ t.status = "PENDING"
                \/ t.type = "CREDIT_AVAILABLE" /\ t.status = "RELEASED"
Awaits(t) == t.type = "WITHDRAWAL" /\ t.status = "PENDING"

\* The statuses each kind of row goes through.
WellFormed(t) ==
  /\ t.account \in Accounts /\ t.amount \in Amounts
  /\ \/ NewCredit(t) \/ Awaits(t)
     \/ t.type = "CREDIT_PENDING" /\ t.status = "RELEASED"
     \/ t.type = "WITHDRAWAL" /\ t.status \in {"WITHDRAWN", "REJECTED", "CANCELLED"}

RowShape ==
  /\ \A r \in Rows : tx[r] = NoTx \/ WellFormed(tx[r])
  /\ \A r \in due : tx[r].type = "CREDIT_PENDING"

Funds(balance) == balance.available + balance.pending
ReleasePoints == {"release_wallet", "release_row", "release_audit"}

\* What holds of a request at each of its statements: nobody else writes, so its copies of a
\* wallet are current, except that a release of several credits of an account goes on with the
\* copies of before the first of them, whose sum alone is still right.
CreditShape(j) ==
  /\ j.at \in {"insert_wallet", "save_credit"} =>
       /\ j.draft.account \in Accounts /\ j.draft.amount \in Amounts /\ NewCredit(j.draft)
       /\ j.seen[j.draft.account] = wallet[j.draft.account]
  /\ j.at = "insert_row" =>
       /\ j.draft.account \in Accounts /\ j.draft.amount \in Amounts
       /\ NewCredit(j.draft) \/ Awaits(j.draft)

DecisionShape(j) ==
  /\ j.at \in {"approve", "decide"} => j.row \in Rows /\ Awaits(tx[j.row])
  /\ j.at = "approve" =>
       /\ j.draft = [tx[j.row] EXCEPT !.status = "WITHDRAWN"]
       /\ j.seen[tx[j.row].account] = wallet[tx[j.row].account]
  /\ j.at = "decide" =>
       \E verdict \in {"REJECTED", "CANCELLED"} : j.draft = [tx[j.row] EXCEPT !.status = verdict]

ReleaseShape(j) ==
  /\ j.at \in ReleasePoints => \A r \in j.todo :
       /\ tx[r].type = "CREDIT_PENDING" /\ audit[r] = 0
       /\ tx[r].status # "PENDING" => j.at = "release_audit" /\ r = j.row
       /\ Funds(j.seen[tx[r].account]) = Funds(wallet[tx[r].account])
  /\ j.at \in {"release_row", "release_audit"} => j.row \in j.todo
  /\ j.at = "release_audit" => tx[j.row].status = "RELEASED"

JobShape(j) == CreditShape(j) /\ DecisionShape(j) /\ ReleaseShape(j)

IsReleased(t) == t.type = "CREDIT_PENDING" /\ t.status = "RELEASED"

\* RELEASE rows are only written for released credits, once, and only a failure, or the
\* statement that comes next, stands between a released credit and its RELEASE row.
AuditShape ==
  \A r \in Rows :
    /\ audit[r] \in {0, 1}
    /\ audit[r] = 1 => IsReleased(tx[r])
    /\ failures = 0 /\ IsReleased(tx[r]) =>
         audit[r] = 1 \/ \E h \in Handlers : job[h].at = "release_audit" /\ job[h].row = r

SerialInv == RowShape /\ AuditShape /\ \A h \in Handlers : JobShape(job[h])

LEMMA IdleShape == JobShape(Idle)
  BY DEF JobShape, CreditShape, DecisionShape, ReleaseShape, ReleasePoints, Idle

LEMMA SerialInit == Init => SerialInv
<1> SUFFICES ASSUME Init PROVE SerialInv
  OBVIOUS
<1>1. \A h \in Handlers : JobShape(job[h])
  BY IdleShape DEF Init
<1>2. RowShape
  BY DEF Init, RowShape
<1>3. AuditShape
  BY NoTxUndecided DEF Init, AuditShape, IsReleased
<1>4. QED
  BY <1>1, <1>2, <1>3 DEF SerialInv

\* What the cases below use of the request in flight.
LEMMA Facts ==
  ASSUME TypeInv, RowInv, SerialInv, NEW h, Handlers = {h}
  PROVE  /\ h \in Handlers /\ job[h] \in Job /\ JobShape(job[h]) /\ JobRow(job[h])
         /\ job[h].at \in Points /\ job[h].row \in Rows \union {None} /\ job[h].draft \in Tx
         /\ job[h].seen \in [Accounts -> Balance] /\ job[h].todo \in SUBSET Rows
         /\ wallet \in [Accounts -> Balance] /\ tx \in [Rows -> Tx] /\ audit \in [Rows -> Nat]
         /\ \A r \in Rows : tx[r].account # None <=> tx[r] # NoTx
<1>1. h \in Handlers
  OBVIOUS
<1>2. \A r \in Rows : tx[r].account # None <=> tx[r] # NoTx
  BY NoneIsNoId DEF SerialInv, RowShape, WellFormed, NoTx
<1>3. QED
  BY <1>1, <1>2, JobFields DEF TypeInv, TypeOK, RowInv, SerialInv

\* The only request moves to j.
LEMMA JobAfter ==
  ASSUME TypeInv, NEW h, Handlers = {h}, NEW j, job' = [job EXCEPT ![h] = j]
  PROVE  job'[h] = j
  BY DEF TypeInv, TypeOK

\* A step that leaves the rows, the RELEASE rows and the due credits alone.
LEMMA SerialKept ==
  ASSUME SerialInv, NEW h, Handlers = {h}, UNCHANGED <<tx, audit, due, failures>>,
         job[h].at # "release_audit", JobShape(job[h])'
  PROVE  SerialInv'
<1>1. AuditShape'
  BY DEF SerialInv, AuditShape
<1>2. RowShape'
  BY DEF SerialInv, RowShape
<1>3. QED
  BY <1>1, <1>2 DEF SerialInv

\* The request is over, or has just been cut.
LEMMA ShapeIdle ==
  ASSUME NEW h, job'[h].at = "idle" PROVE JobShape(job[h])'
  BY DEF JobShape, CreditShape, DecisionShape, ReleaseShape, ReleasePoints

LEMMA CreditKeepsShape ==
  ASSUME TypeInv, RowInv, SerialInv, NEW h, Handlers = {h},
         InsertWallet(h) \/ SaveCredit(h)
  PROVE  SerialInv'
<1>1. job[h] \in Job /\ CreditShape(job[h])
  BY Facts DEF JobShape
<1>2. CASE InsertWallet(h)
  <2> DEFINE j == [job[h] EXCEPT !.at = "save_credit"]
  <2>1. j.at = "save_credit" /\ j.draft = job[h].draft /\ j.seen = job[h].seen
    BY <1>1 DEF Job
  <2>2. job'[h] = Idle \/ job'[h] = j
    BY <1>2, JobAfter DEF InsertWallet
  <2>3. JobShape(job[h])'
    <3>1. CASE job'[h] = Idle
      BY <3>1, ShapeIdle DEF Idle
    <3>2. CASE job'[h] = j
      <4>1. /\ job'[h].at = "save_credit" /\ job'[h].draft = job[h].draft
            /\ job'[h].seen = job[h].seen /\ wallet' = wallet /\ job[h].at = "insert_wallet"
        BY <1>2, <2>1, <3>2 DEF InsertWallet
      <4>2. QED
        BY <1>1, <4>1 DEF JobShape, CreditShape, DecisionShape, ReleaseShape, ReleasePoints,
                          NewCredit
    <3>3. QED
      BY <2>2, <3>1, <3>2
  <2>4. QED
    BY <1>2, <2>3, SerialKept DEF InsertWallet
<1>3. CASE SaveCredit(h)
  <2> DEFINE j == [job[h] EXCEPT !.at = "insert_row"]
  <2>1. j.at = "insert_row" /\ j.draft = job[h].draft
    BY <1>1 DEF Job
  <2>2. job'[h] = j
    BY <1>3, JobAfter DEF SaveCredit
  <2>3. job'[h].at = "insert_row" /\ job'[h].draft = job[h].draft /\ job[h].at = "save_credit"
    BY <1>3, <2>1, <2>2 DEF SaveCredit
  <2>4. JobShape(job[h])'
    BY <1>1, <2>3 DEF JobShape, CreditShape, DecisionShape, ReleaseShape, ReleasePoints,
                      NewCredit, Awaits
  <2>5. QED
    BY <1>3, <2>4, SerialKept DEF SaveCredit
<1>4. QED
  BY <1>2, <1>3

\* A row is written with a well-formed image that is not a released credit, and the request ends.
LEMMA WriteKeepsShape ==
  ASSUME TypeInv, RowInv, SerialInv, NEW h, Handlers = {h}, NEW r \in Rows, NEW t,
         tx' = [tx EXCEPT ![r] = t], WellFormed(t), ~ IsReleased(t), ~ IsReleased(tx[r]),
         tx[r].type = "CREDIT_PENDING" => t.type = "CREDIT_PENDING",
         job' = [job EXCEPT ![h] = Idle], UNCHANGED <<audit, due, failures>>,
         job[h].at # "release_audit"
  PROVE  SerialInv'
<1>1. \A q \in Rows : tx'[q] = IF q = r THEN t ELSE tx[q]
  BY Facts
<1>2. RowShape'
  <2>1. \A q \in Rows : tx'[q] = NoTx \/ WellFormed(tx'[q])
    BY <1>1 DEF SerialInv, RowShape
  <2>2. \A q \in due : q \in Rows
    BY DEF TypeInv, TypeOK
  <2>3. \A q \in due' : tx'[q].type = "CREDIT_PENDING"
    BY <1>1, <2>2 DEF SerialInv, RowShape
  <2>4. QED
    BY <2>1, <2>3 DEF RowShape, WellFormed, NewCredit, Awaits
<1>3. AuditShape'
  BY <1>1 DEF SerialInv, AuditShape, IsReleased
<1>4. JobShape(job[h])'
  BY JobAfter, ShapeIdle DEF Idle
<1>5. QED
  BY <1>2, <1>3, <1>4 DEF SerialInv

LEMMA RowWriteKeepsShape ==
  ASSUME TypeInv, RowInv, SerialInv, NEW h, Handlers = {h},
         InsertRow(h) \/ Approve(h) \/ Decide(h)
  PROVE  SerialInv'
<1>1. /\ job[h] \in Job /\ JobRow(job[h]) /\ CreditShape(job[h]) /\ DecisionShape(job[h])
      /\ \A r \in Rows : tx[r] \in Tx /\ (tx[r].account # None <=> tx[r] # NoTx)
      /\ \A r \in Rows : tx[r] = NoTx \/ WellFormed(tx[r])
  BY Facts DEF JobShape, SerialInv, RowShape
<1> DEFINE r == job[h].row
           t == job[h].draft
<1>2. CASE InsertRow(h)
  <2>1. r \in Rows /\ tx[r] = NoTx
    BY <1>1, <1>2 DEF JobRow, Inserting, InsertRow
  <2>2. t.account \in Accounts /\ t.amount \in Amounts /\ (NewCredit(t) \/ Awaits(t))
    BY <1>1, <1>2 DEF CreditShape, InsertRow
  <2>3. WellFormed(t) /\ ~ IsReleased(t) /\ ~ IsReleased(tx[r]) /\ tx[r].type # "CREDIT_PENDING"
    BY <2>1, <2>2, NoTxUndecided DEF WellFormed, IsReleased, NewCredit, Awaits
  <2>4. /\ tx' = [tx EXCEPT ![r] = t] /\ job' = [job EXCEPT ![h] = Idle]
        /\ UNCHANGED <<audit, due, failures>> /\ job[h].at # "release_audit"
    BY <1>2 DEF InsertRow
  <2> HIDE DEF r, t
  <2>5. QED
    BY <2>1, <2>3, <2>4, WriteKeepsShape
<1>3. CASE Approve(h) \/ Decide(h)
  <2>1. r \in Rows /\ Awaits(tx[r])
    BY <1>1, <1>3 DEF DecisionShape, Approve, Decide
  <2>2. PICK verdict \in {"WITHDRAWN", "REJECTED", "CANCELLED"} : t = [tx[r] EXCEPT !.status = verdict]
    BY <1>1, <1>3 DEF DecisionShape, Approve, Decide
  <2>3. /\ t.account = tx[r].account /\ t.amount = tx[r].amount /\ t.type = "WITHDRAWAL"
        /\ t.status = verdict
    BY <1>1, <2>1, <2>2 DEF Tx, Awaits
  <2>4. WellFormed(tx[r])
    BY <1>1, <2>1, NoTxUndecided DEF Awaits
  <2>5. WellFormed(t) /\ ~ IsReleased(t) /\ ~ IsReleased(tx[r]) /\ tx[r].type # "CREDIT_PENDING"
    BY <2>1, <2>3, <2>4 DEF WellFormed, IsReleased, Awaits
  <2>6. /\ tx' = [tx EXCEPT ![r] = t] /\ job' = [job EXCEPT ![h] = Idle]
        /\ UNCHANGED <<audit, due, failures>> /\ job[h].at # "release_audit"
    BY <1>3 DEF Approve, Decide
  <2> HIDE DEF r, t
  <2>7. QED
    BY <2>1, <2>5, <2>6, WriteKeepsShape
<1>4. QED
  BY <1>2, <1>3

LEMMA ReleaseKeepsShape ==
  ASSUME TypeInv, RowInv, SerialInv, NEW h, Handlers = {h},
         (\E r \in Rows : ReleaseWallet(h, r)) \/ ReleaseRow(h) \/ ReleaseAudit(h)
  PROVE  SerialInv'
<1>1. /\ job[h] \in Job /\ ReleaseShape(job[h]) /\ job[h].todo \in SUBSET Rows
      /\ job[h].seen \in [Accounts -> Balance]
      /\ wallet \in [Accounts -> Balance] /\ tx \in [Rows -> Tx] /\ audit \in [Rows -> Nat]
      /\ \A r \in Rows : tx[r] = NoTx \/ WellFormed(tx[r])
  BY Facts DEF JobShape, SerialInv, RowShape
<1>2. ASSUME NEW r \in Rows, ReleaseWallet(h, r) PROVE SerialInv'
  <2> DEFINE j == [job[h] EXCEPT !.at = "release_row", !.row = r]
             a == tx[r].account
  <2>1. j.at = "release_row" /\ j.row = r /\ j.todo = job[h].todo /\ j.seen = job[h].seen
    BY <1>1 DEF Job
  <2>2. job'[h] = j
    BY <1>2, JobAfter DEF ReleaseWallet
  <2>3. /\ job'[h].at = "release_row" /\ job'[h].row = r /\ job'[h].todo = job[h].todo
        /\ job'[h].seen = job[h].seen /\ r \in job[h].todo /\ job[h].at = "release_wallet"
        /\ UNCHANGED <<tx, audit>>
    BY <1>2, <2>1, <2>2 DEF ReleaseWallet
  <2>4. tx[r].type = "CREDIT_PENDING"
    BY <1>1, <2>3 DEF ReleaseShape, ReleasePoints
  <2>5. WellFormed(tx[r])
    BY <1>1, <2>4, NoTxUndecided
  <2>6. a \in Accounts /\ tx[r].amount \in Int
    BY <1>1, <2>5, AmountType DEF WellFormed
  <2>7. /\ \A b \in Accounts : b # a => wallet'[b] = wallet[b]
        /\ wallet'[a] = Released(job[h].seen[a], tx[r].amount)
    BY <1>1, <1>2, <2>6 DEF ReleaseWallet
  <2>8. Funds(wallet'[a]) = Funds(job[h].seen[a])
    <3>1. job[h].seen[a].available \in Int /\ job[h].seen[a].pending \in Int
      BY <1>1, <2>6 DEF Balance
    <3>2. QED
      BY <2>6, <2>7, <3>1 DEF Released, Funds
  <2>9. \A q \in job[h].todo : Funds(job[h].seen[tx[q].account]) = Funds(wallet'[tx[q].account])
    <3> SUFFICES ASSUME NEW q \in job[h].todo
                 PROVE  Funds(job[h].seen[tx[q].account]) = Funds(wallet'[tx[q].account])
      OBVIOUS
    <3>1. /\ Funds(job[h].seen[tx[q].account]) = Funds(wallet[tx[q].account])
          /\ tx[q].type = "CREDIT_PENDING" /\ q \in Rows
      BY <1>1, <2>3 DEF ReleaseShape, ReleasePoints
    <3>2. tx[q].account \in Accounts
      BY <1>1, <3>1, NoTxUndecided DEF WellFormed
    <3>3. QED
      BY <2>7, <2>8, <3>1, <3>2
  <2>10. ReleaseShape(job[h])'
    BY <1>1, <2>3, <2>9 DEF ReleaseShape, ReleasePoints, Funds
  <2>11. JobShape(job[h])'
    BY <2>3, <2>10 DEF JobShape, CreditShape, DecisionShape
  <2>12. UNCHANGED <<tx, audit, due, failures>> /\ job[h].at # "release_audit"
    BY <1>2 DEF ReleaseWallet
  <2>13. QED
    BY <2>11, <2>12, SerialKept
<1>3. CASE ReleaseRow(h)
  <2> DEFINE r == job[h].row
             j == [job[h] EXCEPT !.at = "release_audit"]
  <2>1. j.at = "release_audit" /\ j.row = r /\ j.todo = job[h].todo /\ j.seen = job[h].seen
    BY <1>1 DEF Job
  <2>2. job'[h] = j
    BY <1>3, JobAfter DEF ReleaseRow
  <2>3. /\ job'[h].at = "release_audit" /\ job'[h].row = r /\ job'[h].todo = job[h].todo
        /\ job'[h].seen = job[h].seen /\ job[h].at = "release_row"
        /\ UNCHANGED <<audit, wallet, due, failures>>
    BY <1>3, <2>1, <2>2 DEF ReleaseRow
  <2>4. r \in Rows /\ r \in job[h].todo /\ tx[r].type = "CREDIT_PENDING" /\ audit[r] = 0
    BY <1>1, <2>3 DEF ReleaseShape, ReleasePoints
  <2>5. /\ \A q \in Rows : q # r => tx'[q] = tx[q]
        /\ tx'[r].status = "RELEASED" /\ tx'[r].type = "CREDIT_PENDING"
        /\ tx'[r].account = tx[r].account /\ tx'[r].amount = tx[r].amount
    BY <1>1, <1>3, <2>4 DEF ReleaseRow, Tx
  <2>6. WellFormed(tx[r])
    BY <1>1, <2>4, NoTxUndecided
  <2>7. WellFormed(tx'[r])
    BY <2>5, <2>6 DEF WellFormed
  <2>8. RowShape'
    <3>1. \A q \in Rows : tx'[q] = NoTx \/ WellFormed(tx'[q])
      BY <1>1, <2>5, <2>7
    <3>2. \A q \in due' : q \in Rows /\ tx[q].type = "CREDIT_PENDING"
      BY <2>3 DEF TypeInv, TypeOK, SerialInv, RowShape
    <3>3. \A q \in due' : tx'[q].type = "CREDIT_PENDING"
      BY <2>5, <3>2
    <3>4. QED
      BY <3>1, <3>3 DEF RowShape, WellFormed, NewCredit, Awaits
  <2>9. \A q \in Rows : IsReleased(tx'[q]) => q = r \/ IsReleased(tx[q])
    BY <2>5
  <2>10. \A q \in Rows : IsReleased(tx[q]) => IsReleased(tx'[q])
    BY <2>5 DEF IsReleased
  <2>11. AuditShape'
    <3> SUFFICES ASSUME NEW q \in Rows
                 PROVE  /\ audit'[q] \in {0, 1}
                        /\ audit'[q] = 1 => IsReleased(tx'[q])
                        /\ failures' = 0 /\ IsReleased(tx'[q]) =>
                             audit'[q] = 1 \/ \E g \in Handlers : job'[g].at = "release_audit" /\ job'[g].row = q
      BY DEF AuditShape, IsReleased
    <3>1. audit'[q] = audit[q] /\ failures' = failures
      BY <2>3
    <3>2. /\ audit[q] \in {0, 1}
          /\ audit[q] = 1 => IsReleased(tx[q])
          /\ failures = 0 /\ IsReleased(tx[q]) => audit[q] = 1
      BY <2>3 DEF SerialInv, AuditShape
    <3>3. QED
      BY <2>3, <2>9, <2>10, <3>1, <3>2
  <2>12. ReleaseShape(job[h])'
    <3>1. \A q \in job[h].todo : q \in Rows /\ tx'[q].type = "CREDIT_PENDING" /\ audit'[q] = 0
      BY <1>1, <2>3, <2>5 DEF ReleaseShape, ReleasePoints
    <3>2. \A q \in job[h].todo : q # r => tx'[q].status = "PENDING"
      BY <1>1, <2>3, <2>5 DEF ReleaseShape, ReleasePoints
    <3>3. \A q \in job[h].todo : Funds(job[h].seen[tx'[q].account]) = Funds(wallet[tx'[q].account])
      BY <1>1, <2>3, <2>5 DEF ReleaseShape, ReleasePoints
    <3>4. QED
      BY <2>3, <2>4, <2>5, <3>1, <3>2, <3>3 DEF ReleaseShape, ReleasePoints, Funds
  <2>13. JobShape(job[h])'
    BY <2>3, <2>12 DEF JobShape, CreditShape, DecisionShape
  <2>14. QED
    BY <2>8, <2>11, <2>13 DEF SerialInv
<1>4. CASE ReleaseAudit(h)
  <2> DEFINE r == job[h].row
             left == job[h].todo \ {r}
             j == [job[h] EXCEPT !.at = "release_wallet", !.row = None, !.todo = left]
  <2>1. j.at = "release_wallet" /\ j.todo = left /\ j.seen = job[h].seen
    BY <1>1 DEF Job
  <2>2. job'[h] = Idle \/ job'[h] = j
    BY <1>4, JobAfter DEF ReleaseAudit
  <2>3. job[h].at = "release_audit" /\ UNCHANGED <<tx, wallet, due, failures>>
    BY <1>4 DEF ReleaseAudit
  <2>4. /\ r \in Rows /\ r \in job[h].todo /\ tx[r].type = "CREDIT_PENDING" /\ audit[r] = 0
        /\ tx[r].status = "RELEASED"
    BY <1>1, <2>3 DEF ReleaseShape, ReleasePoints
  <2>5. (\A q \in Rows : q # r => audit'[q] = audit[q]) /\ audit'[r] = 1
    BY <1>1, <1>4, <2>4 DEF ReleaseAudit
  <2>6. RowShape'
    BY <2>3 DEF SerialInv, RowShape
  <2>7. AuditShape'
    <3> SUFFICES ASSUME NEW q \in Rows
                 PROVE  /\ audit'[q] \in {0, 1}
                        /\ audit'[q] = 1 => IsReleased(tx'[q])
                        /\ failures' = 0 /\ IsReleased(tx'[q]) => audit'[q] = 1
      BY DEF AuditShape, IsReleased
    <3>1. CASE q = r
      BY <2>3, <2>4, <2>5, <3>1 DEF IsReleased
    <3>2. CASE q # r
      <4>1. \A g \in Handlers : job[g].row # q
        BY <3>2
      <4>2. /\ audit[q] \in {0, 1}
            /\ audit[q] = 1 => IsReleased(tx[q])
            /\ failures = 0 /\ IsReleased(tx[q]) => audit[q] = 1
        BY <4>1 DEF SerialInv, AuditShape
      <4>3. tx'[q] = tx[q] /\ failures' = failures /\ audit'[q] = audit[q]
        BY <2>3, <2>5, <3>2
      <4>4. QED
        BY <4>2, <4>3
    <3>3. QED
      BY <3>1, <3>2
  <2>8. JobShape(job[h])'
    <3>1. CASE job'[h] = Idle
      BY <3>1, ShapeIdle DEF Idle
    <3>2. CASE job'[h] = j
      <4>1. job'[h].at = "release_wallet" /\ job'[h].todo = left /\ job'[h].seen = job[h].seen
        BY <2>1, <3>2
      <4>2. \A q \in left : /\ tx[q].type = "CREDIT_PENDING" /\ audit'[q] = 0
                            /\ tx[q].status = "PENDING"
                            /\ Funds(job[h].seen[tx[q].account]) = Funds(wallet[tx[q].account])
        BY <1>1, <2>3, <2>5 DEF ReleaseShape, ReleasePoints
      <4>3. ReleaseShape(job[h])'
        BY <2>3, <4>1, <4>2 DEF ReleaseShape, ReleasePoints, Funds
      <4>4. QED
        BY <4>1, <4>3 DEF JobShape, CreditShape, DecisionShape
    <3>3. QED
      BY <2>2, <3>1, <3>2
  <2>9. QED
    BY <2>6, <2>7, <2>8 DEF SerialInv
<1>5. QED
  BY <1>2, <1>3, <1>4

LEMMA CopyAt ==
  ASSUME NEW A, NEW a \in Accounts, a \in A PROVE Copy(A)[a] = wallet[a]
  BY DEF Copy

LEMMA BeginKeepsShape ==
  ASSUME TypeInv, RowInv, SerialInv, NEW h, Handlers = {h}, Begin(h) PROVE SerialInv'
<1>1. /\ h \in Handlers /\ audit \in [Rows -> Nat] /\ tx \in [Rows -> Tx]
      /\ \A r \in Rows : tx[r] = NoTx \/ WellFormed(tx[r])
      /\ Idle \in Job
  BY Facts, IdleIsJob DEF SerialInv, RowShape
<1>2. job[h].at = "idle" /\ UNCHANGED <<wallet, tx, audit, due, failures>>
  BY DEF Begin, ReleaseRead, CreditRead, RequestWithdrawal, ApproveRead, DecideRead
<1>3. SUFFICES JobShape(job[h])'
  BY <1>2, SerialKept
<1>4. CASE ReleaseRead(h)
  <2> DEFINE A == {tx[r].account : r \in Releasable}
             j == [Idle EXCEPT !.at = "release_wallet", !.todo = Releasable, !.seen = Copy(A)]
  <2>1. j.at = "release_wallet" /\ j.todo = Releasable /\ j.seen = Copy(A)
    BY <1>1 DEF Job
  <2>2. job'[h] = j
    BY <1>4, JobAfter DEF ReleaseRead
  <2>3. job'[h].at = "release_wallet" /\ job'[h].todo = Releasable /\ job'[h].seen = Copy(A)
    BY <2>1, <2>2
  <2>4. ASSUME NEW r \in Releasable
        PROVE  /\ tx[r].type = "CREDIT_PENDING" /\ audit[r] = 0 /\ tx[r].status = "PENDING"
               /\ Funds(Copy(A)[tx[r].account]) = Funds(wallet[tx[r].account])
    <3>1. r \in Rows /\ tx[r].type = "CREDIT_PENDING" /\ tx[r].status = "PENDING"
      BY DEF Releasable, SerialInv, RowShape, TypeInv, TypeOK
    <3>2. audit[r] = 0
      BY <3>1 DEF SerialInv, AuditShape, IsReleased
    <3>3. tx[r].account \in Accounts
      BY <1>1, <3>1, NoTxUndecided DEF WellFormed
    <3>4. Copy(A)[tx[r].account] = wallet[tx[r].account]
      BY <3>3, CopyAt
    <3>5. QED
      BY <3>1, <3>2, <3>4
  <2>5. ReleaseShape(job[h])'
    BY <1>2, <2>3, <2>4 DEF ReleaseShape, ReleasePoints, Funds
  <2>6. QED
    BY <2>3, <2>5 DEF JobShape, CreditShape, DecisionShape
<1>5. ASSUME NEW r \in Rows, NEW a \in Accounts, NEW x \in Amounts,
             NEW type \in {"CREDIT_PENDING", "CREDIT_AVAILABLE"}, CreditRead(h, r, type, a, x)
      PROVE  JobShape(job[h])'
  <2> DEFINE t == CreditRow(type, a, x)
             j == [at |-> IF a \in opened THEN "save_credit" ELSE "insert_wallet",
                   row |-> r, draft |-> t, seen |-> Copy({a}), todo |-> {}]
  <2>1. job'[h] = j
    BY <1>5, JobAfter DEF CreditRead
  <2>2. t.account = a /\ t.amount = x /\ NewCredit(t)
    BY DEF CreditRow, NewCredit
  <2>3. Copy({a})[a] = wallet[a]
    BY CopyAt
  <2>4. /\ job'[h].at \in {"save_credit", "insert_wallet"} /\ job'[h].draft = t
        /\ job'[h].seen = Copy({a})
    BY <2>1
  <2> HIDE DEF t
  <2>5. CreditShape(job[h])'
    BY <1>2, <2>2, <2>3, <2>4 DEF CreditShape, NewCredit
  <2>6. QED
    BY <2>4, <2>5 DEF JobShape, DecisionShape, ReleaseShape, ReleasePoints
<1>6. ASSUME NEW r \in Rows, NEW a \in Accounts, NEW x \in Amounts, RequestWithdrawal(h, r, a, x)
      PROVE  JobShape(job[h])'
  <2> DEFINE t == [type |-> "WITHDRAWAL", status |-> "PENDING", account |-> a, amount |-> x]
             j == [Idle EXCEPT !.at = "insert_row", !.row = r, !.draft = t]
  <2>1. j.at = "insert_row" /\ j.draft = t
    BY <1>1 DEF Job
  <2>2. job'[h] = j
    BY <1>6, JobAfter DEF RequestWithdrawal
  <2>3. job'[h].at = "insert_row" /\ job'[h].draft = t
    BY <2>1, <2>2
  <2>4. CreditShape(job[h])'
    BY <2>3 DEF CreditShape, Awaits
  <2>5. QED
    BY <2>3, <2>4 DEF JobShape, DecisionShape, ReleaseShape, ReleasePoints
<1>7. ASSUME NEW r \in Rows, ApproveRead(h, r) PROVE JobShape(job[h])'
  <2> DEFINE a == tx[r].account
             t == [tx[r] EXCEPT !.status = "WITHDRAWN"]
             j == [Idle EXCEPT !.at = "approve", !.row = r, !.seen = Copy({a}), !.draft = t]
  <2>1. j.at = "approve" /\ j.row = r /\ j.seen = Copy({a}) /\ j.draft = t
    BY <1>1 DEF Job
  <2>2. job'[h] = j
    BY <1>7, JobAfter DEF ApproveRead
  <2>3. job'[h].at = "approve" /\ job'[h].row = r /\ job'[h].seen = Copy({a}) /\ job'[h].draft = t
    BY <2>1, <2>2
  <2>4. Awaits(tx[r]) /\ a \in Accounts
    BY <1>1, <1>7, NoTxUndecided DEF ApproveRead, Undecided, Awaits, WellFormed
  <2>5. Copy({a})[a] = wallet[a]
    BY <2>4, CopyAt
  <2>6. DecisionShape(job[h])'
    BY <1>2, <2>3, <2>4, <2>5 DEF DecisionShape, Awaits
  <2>7. QED
    BY <2>3, <2>6 DEF JobShape, CreditShape, ReleaseShape, ReleasePoints
<1>8. ASSUME NEW r \in Rows, NEW verdict \in {"REJECTED", "CANCELLED"}, DecideRead(h, r, verdict)
      PROVE  JobShape(job[h])'
  <2> DEFINE t == [tx[r] EXCEPT !.status = verdict]
             j == [Idle EXCEPT !.at = "decide", !.row = r, !.draft = t]
  <2>1. j.at = "decide" /\ j.row = r /\ j.draft = t
    BY <1>1 DEF Job
  <2>2. job'[h] = j
    BY <1>8, JobAfter DEF DecideRead
  <2>3. job'[h].at = "decide" /\ job'[h].row = r /\ job'[h].draft = t
    BY <2>1, <2>2
  <2>4. Awaits(tx[r])
    BY <1>8 DEF DecideRead, Undecided, Awaits
  <2>5. DecisionShape(job[h])'
    BY <1>2, <2>3, <2>4 DEF DecisionShape, Awaits
  <2>6. QED
    BY <2>3, <2>5 DEF JobShape, CreditShape, ReleaseShape, ReleasePoints
<1>9. QED
  BY <1>4, <1>5, <1>6, <1>7, <1>8 DEF Begin

LEMMA StepKeepsShape ==
  ASSUME TypeInv, RowInv, SerialInv, [Next]_vars, NEW h, Handlers = {h} PROVE SerialInv'
<1>1. CASE Fail(h)
  <2>1. job'[h] = Idle
    BY <1>1, JobAfter DEF Fail
  <2>2. JobShape(job[h])'
    BY <2>1, ShapeIdle DEF Idle
  <2>3. failures' # 0 /\ UNCHANGED <<tx, audit, due>>
    BY <1>1 DEF Fail, TypeInv, TypeOK
  <2>4. QED
    BY <2>2, <2>3 DEF SerialInv, RowShape, AuditShape
<1>2. ASSUME NEW a \in Accounts, OpenWallet(a) PROVE SerialInv'
  BY <1>2 DEF OpenWallet, SerialInv, RowShape, AuditShape, JobShape, CreditShape, DecisionShape,
              ReleaseShape
<1>3. ASSUME NEW r \in Rows, HoldElapses(r) PROVE SerialInv'
  BY <1>3 DEF HoldElapses, SerialInv, RowShape, AuditShape, JobShape, CreditShape, DecisionShape,
              ReleaseShape
<1>4. CASE UNCHANGED vars
  BY <1>4 DEF vars, SerialInv, RowShape, AuditShape, JobShape, CreditShape, DecisionShape,
              ReleaseShape
<1>5. CASE Continue(h)
  BY <1>5, CreditKeepsShape, RowWriteKeepsShape, ReleaseKeepsShape DEF Continue
<1>6. CASE Begin(h)
  BY <1>6, BeginKeepsShape
<1>7. QED
  BY <1>1, <1>2, <1>3, <1>4, <1>5, <1>6 DEF Next

LEMMA SerialAlways ==
  ASSUME NEW h, Handlers = {h} PROVE Spec => [](TypeInv /\ RowInv /\ SerialInv)
<1>1. Init => TypeInv /\ RowInv /\ SerialInv
  <2>1. Init => RowInv
    BY IdleRow DEF Init, RowInv
  <2>2. QED
    BY <2>1, TypeInvInit, SerialInit
<1>2. TypeInv /\ RowInv /\ SerialInv /\ [Next]_vars => TypeInv' /\ RowInv' /\ SerialInv'
  BY StepKeepsType, StepKeepsRows, StepKeepsShape
<1>3. QED
  BY <1>1, <1>2, PTL DEF Spec

\* However many credits a release goes through, and whatever fails: a credit gets at most one
\* RELEASE row, only once it is released, and exactly one when nothing failed.
THEOREM CreditsReleasedOnce ==
  ASSUME NEW h, Handlers = {h} PROVE Spec => []ReleasedOnce
<1>1. SerialInv => ReleasedOnce
  <2> SUFFICES ASSUME SerialInv, NEW r \in Rows
               PROVE  /\ audit[r] <= 1
                      /\ audit[r] = 1 => tx[r].type = "CREDIT_PENDING" /\ tx[r].status = "RELEASED"
                      /\ Quiet /\ failures = 0 /\ tx[r].type = "CREDIT_PENDING"
                           /\ tx[r].status = "RELEASED" => audit[r] = 1
    BY DEF ReleasedOnce
  <2>1. /\ audit[r] \in {0, 1}
        /\ audit[r] = 1 => tx[r].type = "CREDIT_PENDING" /\ tx[r].status = "RELEASED"
    BY DEF SerialInv, AuditShape, IsReleased
  <2>2. ASSUME Quiet, failures = 0, tx[r].type = "CREDIT_PENDING", tx[r].status = "RELEASED"
        PROVE  audit[r] = 1
    BY <2>2 DEF SerialInv, AuditShape, IsReleased, Quiet
  <2>3. QED
    BY <2>1, <2>2
<1>2. QED
  BY <1>1, SerialAlways, PTL

-----------------------------------------------------------------------------
(* Sums over the rows of an account *)

\* What a row adds to such a sum.
Share(t, a, types, statuses) ==
  IF t.account = a /\ t.type \in types /\ t.status \in statuses THEN t.amount ELSE 0

\* Only finitely many rows have been inserted.
Inserted == {r \in Rows : tx[r] # NoTx}
FinitelyMany == IsFiniteSet(Inserted)

LEMMA FinitelyManyInit == Init => FinitelyMany
<1> SUFFICES ASSUME Init PROVE FinitelyMany
  OBVIOUS
<1>1. Inserted = {}
  BY DEF Init, Inserted
<1>2. QED
  BY <1>1, FS_EmptySet DEF FinitelyMany

LEMMA OneRowWritten ==
  ASSUME TypeInv, Next
  PROVE  tx' = tx \/ \E h \in Handlers : \A q \in Rows : q # job[h].row => tx'[q] = tx[q]
<1>1. ASSUME NEW h \in Handlers, InsertRow(h) \/ ReleaseRow(h) \/ Approve(h) \/ Decide(h)
      PROVE  \A q \in Rows : q # job[h].row => tx'[q] = tx[q]
  BY <1>1 DEF InsertRow, ReleaseRow, Approve, Decide, TypeInv, TypeOK
<1>2. ASSUME NEW h \in Handlers, Continue(h)
      PROVE  tx' = tx \/ InsertRow(h) \/ ReleaseRow(h) \/ Approve(h) \/ Decide(h)
  BY <1>2 DEF Continue, InsertWallet, SaveCredit, ReleaseWallet, ReleaseAudit
<1>3. ASSUME NEW h \in Handlers, Begin(h) \/ Fail(h) PROVE tx' = tx
  BY <1>3 DEF Begin, Fail, ReleaseRead, CreditRead, RequestWithdrawal, ApproveRead, DecideRead
<1>4. QED
  BY <1>1, <1>2, <1>3 DEF Next, OpenWallet, HoldElapses

LEMMA StepKeepsFinite == TypeInv /\ FinitelyMany /\ [Next]_vars => FinitelyMany'
<1> SUFFICES ASSUME TypeInv, FinitelyMany, [Next]_vars PROVE FinitelyMany'
  OBVIOUS
<1>1. CASE tx' = tx
  BY <1>1 DEF FinitelyMany, Inserted
<1>2. ASSUME NEW h \in Handlers, \A q \in Rows : q # job[h].row => tx'[q] = tx[q]
      PROVE  FinitelyMany'
  <2> DEFINE more == Inserted \union {job[h].row}
  <2>1. IsFiniteSet(more)
    BY FS_AddElement DEF FinitelyMany
  <2>2. Inserted' \subseteq more
    BY <1>2 DEF Inserted
  <2> HIDE DEF more
  <2>3. IsFiniteSet(Inserted')
    BY <2>1, <2>2, FS_Subset
  <2>4. QED
    BY <2>3 DEF FinitelyMany
<1>3. QED
  BY <1>1, <1>2, OneRowWritten DEF vars

LEMMA RowsOfFinite ==
  ASSUME FinitelyMany, NEW a \in Accounts, NEW types, NEW statuses
  PROVE  IsFiniteSet(RowsOf(a, types, statuses))
<1>1. RowsOf(a, types, statuses) \subseteq Inserted
  BY NoneIsNoId DEF RowsOf, Inserted, NoTx
<1>2. QED
  BY <1>1, FS_Subset DEF FinitelyMany

LEMMA TotalNat ==
  ASSUME TypeInv, FinitelyMany, NEW a \in Accounts, NEW types, NEW statuses
  PROVE  Total(RowsOf(a, types, statuses)) \in Nat
<1> DEFINE f == [r \in Rows |-> tx[r].amount]
           S == RowsOf(a, types, statuses)
<1>1. IsFiniteSet(S)
  BY RowsOfFinite
<1>2. \A r \in S : f[r] \in Nat
  BY AmountNat DEF RowsOf, TypeInv, TypeOK
<1>3. SumOf(f, S) \in Nat
  <2> HIDE DEF f, S
  <2>1. QED
    BY <1>1, <1>2, SumOfNat
<1>4. QED
  BY <1>3 DEF Total

\* A sum over a set with or without r is the sum without r plus what r adds.
LEMMA SumApart ==
  ASSUME NEW f, NEW S, IsFiniteSet(S), \A q \in S : f[q] \in Int, NEW r
  PROVE  SumOf(f, S) = (IF r \in S THEN f[r] ELSE 0) + SumOf(f, S \ {r})
<1>1. CASE r \in S
  BY <1>1, SumOfTake
<1>2. CASE r \notin S
  <2>1. S \ {r} = S
    BY <1>2
  <2>2. SumOf(f, S) \in Int
    BY SumOfInt
  <2>3. QED
    BY <1>2, <2>1, <2>2
<1>3. QED
  BY <1>1, <1>2

\* Writing one row changes a sum by the difference of what the row adds to it.
LEMMA TotalAfter ==
  ASSUME TypeInv, TypeInv', FinitelyMany, FinitelyMany', NEW a \in Accounts,
         NEW types, NEW statuses, NEW r \in Rows, NEW t, tx' = [tx EXCEPT ![r] = t]
  PROVE  Total(RowsOf(a, types, statuses))' =
           Total(RowsOf(a, types, statuses)) - Share(tx[r], a, types, statuses)
                                              + Share(t, a, types, statuses)
<1> DEFINE f == [q \in Rows |-> tx[q].amount]
           S == RowsOf(a, types, statuses)
           g == [q \in Rows |-> tx'[q].amount]
           T == {q \in Rows : tx'[q].account = a /\ tx'[q].type \in types /\ tx'[q].status \in statuses}
<1>1. Total(S) = SumOf(f, S) /\ Total(RowsOf(a, types, statuses))' = SumOf(g, T)
  BY DEF Total, RowsOf
<1>2. IsFiniteSet(S)
  BY RowsOfFinite
<1>3. IsFiniteSet(T)
  <2>1. T \subseteq Inserted'
    BY NoneIsNoId DEF Inserted, NoTx
  <2> HIDE DEF T
  <2>2. QED
    BY <2>1, FS_Subset DEF FinitelyMany
<1>4. \A q \in Rows : tx'[q] = IF q = r THEN t ELSE tx[q]
  BY DEF TypeInv, TypeOK
<1>5. S \ {r} = T \ {r}
  BY <1>4 DEF RowsOf
<1>6. (\A q \in S : f[q] \in Int) /\ (\A q \in T : g[q] \in Int)
  BY AmountType DEF RowsOf, TypeInv, TypeOK
<1>7. \A q \in S \ {r} : f[q] = g[q]
  BY <1>4 DEF RowsOf
<1>8. (IF r \in S THEN f[r] ELSE 0) = Share(tx[r], a, types, statuses)
  BY DEF RowsOf, Share
<1>9. (IF r \in T THEN g[r] ELSE 0) = Share(t, a, types, statuses)
  BY <1>4 DEF Share
<1>10. IsFiniteSet(S \ {r})
  BY <1>2, FS_RemoveElement
<1> HIDE DEF f, g, S, T
<1>11. SumOf(f, S) = Share(tx[r], a, types, statuses) + SumOf(f, S \ {r})
  BY <1>2, <1>6, <1>8, SumApart
<1>12. SumOf(g, T) = Share(t, a, types, statuses) + SumOf(g, T \ {r})
  BY <1>3, <1>6, <1>9, SumApart
<1>13. SumOf(f, S \ {r}) = SumOf(g, S \ {r})
  BY <1>7, <1>10, SumOfSame
<1>14. SumOf(f, S \ {r}) \in Int
  BY <1>6, <1>10, SumOfInt
<1>15. Share(tx[r], a, types, statuses) \in Int /\ Share(t, a, types, statuses) \in Int
  <2>1. tx[r] \in Tx /\ t \in Tx
    BY <1>4 DEF TypeInv, TypeOK
  <2>2. tx[r].amount \in Int /\ t.amount \in Int
    BY <2>1, AmountType
  <2>3. QED
    BY <2>2 DEF Share
<1>16. SumOf(g, T) = Share(t, a, types, statuses) + SumOf(f, S \ {r})
  BY <1>5, <1>12, <1>13
<1>17. QED
  BY <1>1, <1>11, <1>14, <1>15, <1>16 DEF S

LEMMA TotalSame ==
  ASSUME tx' = tx, NEW a, NEW types, NEW statuses
  PROVE  Total(RowsOf(a, types, statuses))' = Total(RowsOf(a, types, statuses))
  BY DEF Total, RowsOf

-----------------------------------------------------------------------------
(* The books of an account *)

Credits == {"CREDIT_PENDING", "CREDIT_AVAILABLE"}
Earned(a) == Total(CreditsOf(a))
Withdrawn(a) == Total(RowsOf(a, {"WITHDRAWAL"}, {"WITHDRAWN"}))
Held(a) == Total(RowsOf(a, {"CREDIT_PENDING"}, {"PENDING"}))

\* Money already in the wallet whose row is the next statement, all of it or what is held of it;
\* and money that has left the pending balance while its row still says it is held.
Unrecorded(j, a, types) ==
  IF j.at = "insert_row" /\ j.draft.account = a /\ j.draft.type \in types
  THEN j.draft.amount ELSE 0
Moving(j, a) == IF j.at = "release_row" /\ tx[j.row].account = a THEN tx[j.row].amount ELSE 0

BooksOf(j, a) ==
  /\ Funds(wallet[a]) + Withdrawn(a) = Earned(a) + Unrecorded(j, a, Credits)
  /\ wallet[a].pending + Moving(j, a) >= Held(a) + Unrecorded(j, a, {"CREDIT_PENDING"})
  /\ j.at \in ReleasePoints /\ (\E r \in j.todo : tx[r].account = a) => j.seen[a].pending >= Held(a)

\* As long as nothing has failed, at every statement of the request in flight.
BooksInv == failures = 0 => \A h \in Handlers, a \in Accounts : BooksOf(job[h], a)

LEMMA BooksFacts ==
  ASSUME TypeInv, RowInv, SerialInv, FinitelyMany, BooksInv, failures = 0,
         NEW h, Handlers = {h}, NEW a \in Accounts
  PROVE  /\ BooksOf(job[h], a)
         /\ wallet[a].available \in Int /\ wallet[a].pending \in Int
         /\ Earned(a) \in Nat /\ Withdrawn(a) \in Nat /\ Held(a) \in Nat
<1>1. BooksOf(job[h], a)
  BY DEF BooksInv
<1>2. wallet[a].available \in Int /\ wallet[a].pending \in Int
  BY DEF TypeInv, TypeOK, Balance
<1>3. Earned(a) \in Nat /\ Withdrawn(a) \in Nat /\ Held(a) \in Nat
  BY TotalNat DEF Earned, Withdrawn, Held, CreditsOf
<1>4. QED
  BY <1>1, <1>2, <1>3

LEMMA SumsSame ==
  ASSUME tx' = tx, NEW a
  PROVE  Earned(a)' = Earned(a) /\ Withdrawn(a)' = Withdrawn(a) /\ Held(a)' = Held(a)
  BY TotalSame DEF Earned, Withdrawn, Held, CreditsOf

\* A row written changes the three sums by its shares in them.
LEMMA SumsAfter ==
  ASSUME TypeInv, TypeInv', FinitelyMany, FinitelyMany', NEW a \in Accounts,
         NEW r \in Rows, NEW t, tx' = [tx EXCEPT ![r] = t]
  PROVE  /\ Earned(a)' = Earned(a) - Share(tx[r], a, Credits, Statuses)
                                   + Share(t, a, Credits, Statuses)
         /\ Withdrawn(a)' = Withdrawn(a) - Share(tx[r], a, {"WITHDRAWAL"}, {"WITHDRAWN"})
                                         + Share(t, a, {"WITHDRAWAL"}, {"WITHDRAWN"})
         /\ Held(a)' = Held(a) - Share(tx[r], a, {"CREDIT_PENDING"}, {"PENDING"})
                               + Share(t, a, {"CREDIT_PENDING"}, {"PENDING"})
  BY TotalAfter DEF Earned, Withdrawn, Held, CreditsOf, Credits

\* Nothing is written, and the request neither stands nor comes to stand between the two
\* writes of a credit or of a release.
LEMMA BooksStill ==
  ASSUME TypeInv, RowInv, SerialInv, FinitelyMany, BooksInv, failures = 0,
         NEW h, Handlers = {h}, NEW a \in Accounts, wallet' = wallet, tx' = tx,
         job[h].at \notin {"insert_row", "release_row"}, job'[h].at # "release_row",
         job'[h].at = "insert_row" => job'[h].draft.type = "WITHDRAWAL",
         job'[h].at \in ReleasePoints /\ (\E r \in job'[h].todo : tx[r].account = a)
           => job'[h].seen[a].pending >= Held(a)
  PROVE  BooksOf(job[h], a)'
<1>1. BooksOf(job[h], a)
  BY BooksFacts
<1>2. Earned(a)' = Earned(a) /\ Withdrawn(a)' = Withdrawn(a) /\ Held(a)' = Held(a)
  BY SumsSame
<1>3. QED
  BY <1>1, <1>2 DEF BooksOf, Unrecorded, Moving, Credits, Funds, ReleasePoints

LEMMA SaveCreditBooks ==
  ASSUME TypeInv, RowInv, SerialInv, FinitelyMany, BooksInv, failures = 0,
         NEW h, Handlers = {h}, NEW a \in Accounts, SaveCredit(h)
  PROVE  BooksOf(job[h], a)'
<1> DEFINE t == job[h].draft
           j == [job[h] EXCEPT !.at = "insert_row"]
<1>1. /\ job[h] \in Job /\ JobShape(job[h]) /\ wallet \in [Accounts -> Balance]
      /\ t.account \in Accounts /\ t.amount \in Int /\ NewCredit(t)
      /\ job[h].seen[t.account] = wallet[t.account]
  <2>1. job[h] \in Job /\ JobShape(job[h]) /\ wallet \in [Accounts -> Balance] /\ t \in Tx
    BY Facts
  <2>2. QED
    BY <2>1, AmountType DEF SaveCredit, JobShape, CreditShape
<1>2. /\ j.at = "insert_row" /\ j.draft = t /\ job'[h] = j
  BY <1>1, JobAfter DEF SaveCredit, Job
<1>3. job'[h].at = "insert_row" /\ job'[h].draft = t /\ job[h].at = "save_credit" /\ tx' = tx
  BY <1>2 DEF SaveCredit
<1>4. \A b \in Accounts : wallet'[b] = IF b = t.account THEN Credited(wallet[b], t) ELSE wallet[b]
  BY <1>1 DEF SaveCredit
<1>5. /\ BooksOf(job[h], a) /\ wallet[a].available \in Int /\ wallet[a].pending \in Int
      /\ Earned(a) \in Nat /\ Withdrawn(a) \in Nat /\ Held(a) \in Nat
  BY BooksFacts
<1>6. Earned(a)' = Earned(a) /\ Withdrawn(a)' = Withdrawn(a) /\ Held(a)' = Held(a)
  BY <1>3, SumsSame
<1>7. /\ Funds(wallet[a]) + Withdrawn(a) = Earned(a) /\ wallet[a].pending >= Held(a)
  BY <1>3, <1>5 DEF BooksOf, Unrecorded, Moving, Funds
<1>8. Moving(job[h], a)' = 0 /\ ~ (job'[h].at \in ReleasePoints)
  BY <1>3 DEF Moving, ReleasePoints
<1>9. CASE a # t.account
  <2>1. Unrecorded(job[h], a, Credits)' = 0 /\ Unrecorded(job[h], a, {"CREDIT_PENDING"})' = 0
    BY <1>3, <1>9 DEF Unrecorded
  <2>2. wallet'[a] = wallet[a]
    BY <1>4, <1>9
  <2>3. QED
    BY <1>5, <1>6, <1>7, <1>8, <2>1, <2>2 DEF BooksOf, Funds
<1>10. CASE a = t.account /\ t.type = "CREDIT_PENDING"
  <2>1. Unrecorded(job[h], a, Credits)' = t.amount
        /\ Unrecorded(job[h], a, {"CREDIT_PENDING"})' = t.amount
    BY <1>3, <1>10 DEF Unrecorded, Credits
  <2>2. wallet'[a].available = wallet[a].available /\ wallet'[a].pending = wallet[a].pending + t.amount
    BY <1>1, <1>4, <1>10 DEF Credited, Balance
  <2>3. QED
    BY <1>1, <1>5, <1>6, <1>7, <1>8, <2>1, <2>2 DEF BooksOf, Funds
<1>11. CASE a = t.account /\ t.type # "CREDIT_PENDING"
  <2>1. Unrecorded(job[h], a, Credits)' = t.amount
        /\ Unrecorded(job[h], a, {"CREDIT_PENDING"})' = 0
    BY <1>1, <1>3, <1>11 DEF Unrecorded, Credits, NewCredit
  <2>2. wallet'[a].available = wallet[a].available + t.amount /\ wallet'[a].pending = wallet[a].pending
    BY <1>1, <1>4, <1>11 DEF Credited, Balance
  <2>3. QED
    BY <1>1, <1>5, <1>6, <1>7, <1>8, <2>1, <2>2 DEF BooksOf, Funds
<1>12. QED
  BY <1>9, <1>10, <1>11

LEMMA InsertRowBooks ==
  ASSUME TypeInv, TypeInv', RowInv, SerialInv, FinitelyMany, FinitelyMany', BooksInv, failures = 0,
         NEW h, Handlers = {h}, NEW a \in Accounts, InsertRow(h)
  PROVE  BooksOf(job[h], a)'
<1> DEFINE t == job[h].draft
           r == job[h].row
<1>1. /\ job[h].at = "insert_row" /\ r \in Rows /\ tx[r] = NoTx
      /\ NewCredit(t) \/ Awaits(t)
      /\ t.account \in Accounts /\ t.amount \in Int
  <2>1. JobShape(job[h]) /\ JobRow(job[h]) /\ t \in Tx
    BY Facts
  <2>2. QED
    BY <2>1, AmountType DEF InsertRow, JobShape, CreditShape, JobRow, Inserting
<1>2. tx' = [tx EXCEPT ![r] = t] /\ wallet' = wallet
  BY DEF InsertRow
<1>3. job'[h] = Idle
  BY JobAfter DEF InsertRow
<1>4. /\ BooksOf(job[h], a) /\ wallet[a].available \in Int /\ wallet[a].pending \in Int
      /\ Earned(a) \in Nat /\ Withdrawn(a) \in Nat /\ Held(a) \in Nat
  BY BooksFacts
<1>5. \A types, statuses : Share(tx[r], a, types, statuses) = 0
  BY <1>1, NoneIsNoId DEF Share, NoTx
<1>6. /\ Share(t, a, {"WITHDRAWAL"}, {"WITHDRAWN"}) = 0
      /\ Share(t, a, Credits, Statuses) = Unrecorded(job[h], a, Credits)
      /\ Share(t, a, {"CREDIT_PENDING"}, {"PENDING"}) = Unrecorded(job[h], a, {"CREDIT_PENDING"})
  BY <1>1 DEF Share, Unrecorded, NewCredit, Awaits, Credits, Statuses
<1>7. /\ Unrecorded(job[h], a, Credits) \in Int /\ Unrecorded(job[h], a, {"CREDIT_PENDING"}) \in Int
  BY <1>1 DEF Unrecorded
<1>8. /\ Earned(a)' = Earned(a) + Unrecorded(job[h], a, Credits)
      /\ Withdrawn(a)' = Withdrawn(a)
      /\ Held(a)' = Held(a) + Unrecorded(job[h], a, {"CREDIT_PENDING"})
  <2> HIDE DEF t, r
  <2>1. r \in Rows /\ tx' = [tx EXCEPT ![r] = t]
    BY <1>1, <1>2
  <2>2. /\ Earned(a)' = Earned(a) - Share(tx[r], a, Credits, Statuses)
                                  + Share(t, a, Credits, Statuses)
        /\ Withdrawn(a)' = Withdrawn(a) - Share(tx[r], a, {"WITHDRAWAL"}, {"WITHDRAWN"})
                                        + Share(t, a, {"WITHDRAWAL"}, {"WITHDRAWN"})
        /\ Held(a)' = Held(a) - Share(tx[r], a, {"CREDIT_PENDING"}, {"PENDING"})
                              + Share(t, a, {"CREDIT_PENDING"}, {"PENDING"})
    BY <2>1, SumsAfter
  <2>3. QED
    BY <1>4, <1>5, <1>6, <1>7, <2>2
<1>9. /\ Unrecorded(job[h], a, Credits)' = 0 /\ Unrecorded(job[h], a, {"CREDIT_PENDING"})' = 0
      /\ Moving(job[h], a)' = 0 /\ ~ (job'[h].at \in ReleasePoints)
  BY <1>3, IdleRow DEF Unrecorded, Moving, ReleasePoints
<1>10. /\ Funds(wallet[a]) + Withdrawn(a) = Earned(a) + Unrecorded(job[h], a, Credits)
       /\ wallet[a].pending >= Held(a) + Unrecorded(job[h], a, {"CREDIT_PENDING"})
  BY <1>1, <1>4 DEF BooksOf, Moving
<1>11. QED
  BY <1>2, <1>4, <1>7, <1>8, <1>9, <1>10 DEF BooksOf, Funds

LEMMA ReleaseWalletBooks ==
  ASSUME TypeInv, RowInv, SerialInv, FinitelyMany, BooksInv, failures = 0,
         NEW h, Handlers = {h}, NEW a \in Accounts, NEW r \in Rows, ReleaseWallet(h, r)
  PROVE  BooksOf(job[h], a)'
<1> DEFINE b == tx[r].account
           x == tx[r].amount
           j == [job[h] EXCEPT !.at = "release_row", !.row = r]
<1>1. /\ job[h] \in Job /\ ReleaseShape(job[h]) /\ wallet \in [Accounts -> Balance]
      /\ job[h].seen \in [Accounts -> Balance] /\ tx[r] \in Tx
      /\ tx[r] = NoTx \/ WellFormed(tx[r])
  BY Facts DEF JobShape, SerialInv, RowShape
<1>2. job[h].at = "release_wallet" /\ r \in job[h].todo /\ tx' = tx
  BY DEF ReleaseWallet
<1>3. /\ tx[r].type = "CREDIT_PENDING"
      /\ Funds(job[h].seen[b]) = Funds(wallet[b])
  BY <1>1, <1>2 DEF ReleaseShape, ReleasePoints
<1>4. b \in Accounts /\ x \in Int
  BY <1>1, <1>3, NoTxUndecided, AmountType DEF WellFormed
<1>5. /\ j.at = "release_row" /\ j.row = r /\ j.todo = job[h].todo /\ j.seen = job[h].seen
      /\ job'[h] = j
  BY <1>1, JobAfter DEF ReleaseWallet, Job
<1>6. /\ job'[h].at = "release_row" /\ job'[h].row = r /\ job'[h].todo = job[h].todo
      /\ job'[h].seen = job[h].seen
  BY <1>5
<1>7. \A c \in Accounts : wallet'[c] = IF c = b THEN Released(job[h].seen[c], x) ELSE wallet[c]
  BY <1>1, <1>4 DEF ReleaseWallet
<1>8. /\ BooksOf(job[h], a) /\ wallet[a].available \in Int /\ wallet[a].pending \in Int
      /\ Earned(a) \in Nat /\ Withdrawn(a) \in Nat /\ Held(a) \in Nat
  BY BooksFacts
<1>9. Earned(a)' = Earned(a) /\ Withdrawn(a)' = Withdrawn(a) /\ Held(a)' = Held(a)
  BY <1>2, SumsSame
<1>10. /\ Funds(wallet[a]) + Withdrawn(a) = Earned(a) /\ wallet[a].pending >= Held(a)
       /\ (\E q \in job[h].todo : tx[q].account = a) => job[h].seen[a].pending >= Held(a)
  BY <1>2, <1>8 DEF BooksOf, Unrecorded, Moving, Funds, ReleasePoints
<1>11. Unrecorded(job[h], a, Credits)' = 0 /\ Unrecorded(job[h], a, {"CREDIT_PENDING"})' = 0
  BY <1>6 DEF Unrecorded
<1>12. CASE a # b
  <2>1. Moving(job[h], a)' = 0 /\ wallet'[a] = wallet[a]
    BY <1>2, <1>6, <1>7, <1>12 DEF Moving
  <2>2. QED
    BY <1>2, <1>6, <1>8, <1>9, <1>10, <1>11, <2>1 DEF BooksOf, Funds
<1>13. CASE a = b
  <2>1. Moving(job[h], a)' = x
    BY <1>2, <1>6, <1>13 DEF Moving
  <2>2. job[h].seen[a].available \in Int /\ job[h].seen[a].pending \in Int
    BY <1>1 DEF Balance
  <2>3. wallet'[a].available = job[h].seen[a].available + x
        /\ wallet'[a].pending = job[h].seen[a].pending - x
    <3>1. wallet'[a] = Released(job[h].seen[a], x)
      BY <1>7, <1>13
    <3>2. QED
      BY <3>1 DEF Released
  <2>4. job[h].seen[a].pending >= Held(a)
    BY <1>2, <1>10, <1>13
  <2>5. Funds(wallet'[a]) = Funds(wallet[a])
    BY <1>3, <1>4, <1>13, <2>2, <2>3 DEF Funds
  <2>6. Funds(wallet[a])' = Funds(wallet'[a])
    BY DEF Funds
  <2>7. Funds(wallet'[a]) + Withdrawn(a)' = Earned(a)' + 0
    BY <1>8, <1>9, <1>10, <2>5
  <2>8. wallet'[a].pending + x >= Held(a)' + 0
    BY <1>4, <1>8, <1>9, <2>2, <2>3, <2>4
  <2>9. job'[h].seen[a].pending >= Held(a)'
    BY <1>6, <1>9, <2>4
  <2>10. QED
    BY <1>11, <2>1, <2>6, <2>7, <2>8, <2>9 DEF BooksOf
<1>14. QED
  BY <1>12, <1>13

LEMMA ReleaseRowBooks ==
  ASSUME TypeInv, TypeInv', RowInv, SerialInv, FinitelyMany, FinitelyMany', BooksInv, failures = 0,
         NEW h, Handlers = {h}, NEW a \in Accounts, ReleaseRow(h)
  PROVE  BooksOf(job[h], a)'
<1> DEFINE r == job[h].row
           t == [tx[r] EXCEPT !.status = "RELEASED"]
           j == [job[h] EXCEPT !.at = "release_audit"]
<1>1. /\ job[h].at = "release_row" /\ wallet' = wallet
      /\ job[h] \in Job /\ ReleaseShape(job[h]) /\ job[h].todo \in SUBSET Rows
  BY Facts DEF JobShape, ReleaseRow
<1>2. /\ r \in Rows /\ r \in job[h].todo /\ tx[r].type = "CREDIT_PENDING" /\ tx[r].status = "PENDING"
      /\ tx[r] \in Tx
  BY <1>1 DEF ReleaseShape, ReleasePoints, TypeInv, TypeOK
<1>3. tx' = [tx EXCEPT ![r] = t]
  BY DEF ReleaseRow
<1>4. /\ t.account = tx[r].account /\ t.amount = tx[r].amount /\ t.type = "CREDIT_PENDING"
      /\ t.status = "RELEASED"
  BY <1>2 DEF Tx
<1>5. /\ j.at = "release_audit" /\ j.todo = job[h].todo /\ j.seen = job[h].seen /\ job'[h] = j
  BY <1>1, JobAfter DEF ReleaseRow, Job
<1>6. /\ job'[h].at = "release_audit" /\ job'[h].todo = job[h].todo /\ job'[h].seen = job[h].seen
  BY <1>5
<1>7. /\ BooksOf(job[h], a) /\ wallet[a].available \in Int /\ wallet[a].pending \in Int
      /\ Earned(a) \in Nat /\ Withdrawn(a) \in Nat /\ Held(a) \in Nat
  BY BooksFacts
<1>8. /\ Share(t, a, Credits, Statuses) = Share(tx[r], a, Credits, Statuses)
      /\ Share(t, a, {"WITHDRAWAL"}, {"WITHDRAWN"}) = 0
      /\ Share(tx[r], a, {"WITHDRAWAL"}, {"WITHDRAWN"}) = 0
      /\ Share(t, a, {"CREDIT_PENDING"}, {"PENDING"}) = 0
      /\ Share(tx[r], a, {"CREDIT_PENDING"}, {"PENDING"}) = Moving(job[h], a)
  BY <1>1, <1>2, <1>4 DEF Share, Moving, Credits, Statuses
<1>9. Moving(job[h], a) \in Nat /\ Share(tx[r], a, Credits, Statuses) \in Nat
  BY <1>2, AmountNat DEF Moving, Share
<1>10. /\ Earned(a)' = Earned(a) /\ Withdrawn(a)' = Withdrawn(a)
       /\ Held(a)' = Held(a) - Moving(job[h], a)
  <2> HIDE DEF t, r
  <2>1. /\ Earned(a)' = Earned(a) - Share(tx[r], a, Credits, Statuses)
                                  + Share(t, a, Credits, Statuses)
        /\ Withdrawn(a)' = Withdrawn(a) - Share(tx[r], a, {"WITHDRAWAL"}, {"WITHDRAWN"})
                                        + Share(t, a, {"WITHDRAWAL"}, {"WITHDRAWN"})
        /\ Held(a)' = Held(a) - Share(tx[r], a, {"CREDIT_PENDING"}, {"PENDING"})
                              + Share(t, a, {"CREDIT_PENDING"}, {"PENDING"})
    BY <1>2, <1>3, SumsAfter
  <2>2. QED
    BY <1>7, <1>8, <1>9, <2>1
<1>11. /\ Funds(wallet[a]) + Withdrawn(a) = Earned(a)
       /\ wallet[a].pending + Moving(job[h], a) >= Held(a)
       /\ (\E q \in job[h].todo : tx[q].account = a) => job[h].seen[a].pending >= Held(a)
  BY <1>1, <1>7 DEF BooksOf, Unrecorded, ReleasePoints, Funds
<1>12. /\ Unrecorded(job[h], a, Credits)' = 0 /\ Unrecorded(job[h], a, {"CREDIT_PENDING"})' = 0
       /\ Moving(job[h], a)' = 0
  BY <1>6 DEF Unrecorded, Moving
<1>13. (\E q \in job'[h].todo : tx'[q].account = a) => job'[h].seen[a].pending >= Held(a)'
  <2> SUFFICES ASSUME NEW q \in job'[h].todo, tx'[q].account = a
               PROVE  job'[h].seen[a].pending >= Held(a)'
    OBVIOUS
  <2>1. q \in Rows /\ q \in job[h].todo
    BY <1>1, <1>6
  <2>2. tx[q].account = a
    BY <1>2, <1>3, <1>4, <2>1 DEF TypeInv, TypeOK
  <2>3. job[h].seen[a].pending \in Int
    BY Facts DEF Balance
  <2>4. QED
    BY <1>6, <1>7, <1>9, <1>10, <1>11, <2>1, <2>2, <2>3
<1>14. QED
  BY <1>1, <1>7, <1>9, <1>10, <1>11, <1>12, <1>13 DEF BooksOf, Funds

LEMMA DecisionBooks ==
  ASSUME TypeInv, TypeInv', RowInv, SerialInv, FinitelyMany, FinitelyMany', BooksInv, failures = 0,
         NEW h, Handlers = {h}, NEW a \in Accounts, Approve(h) \/ Decide(h)
  PROVE  BooksOf(job[h], a)'
<1> DEFINE r == job[h].row
           t == job[h].draft
<1>1. /\ job[h].at \in {"approve", "decide"} /\ DecisionShape(job[h]) /\ tx \in [Rows -> Tx]
      /\ wallet \in [Accounts -> Balance] /\ tx' = [tx EXCEPT ![r] = t]
      /\ \A q \in Rows : tx[q] = NoTx \/ WellFormed(tx[q])
  BY Facts DEF JobShape, SerialInv, RowShape, Approve, Decide
<1>2. r \in Rows /\ Awaits(tx[r])
  BY <1>1 DEF DecisionShape
<1>3. PICK verdict \in {"WITHDRAWN", "REJECTED", "CANCELLED"} :
        /\ t = [tx[r] EXCEPT !.status = verdict]
        /\ verdict = "WITHDRAWN" <=> job[h].at = "approve"
  BY <1>1 DEF DecisionShape
<1>4. /\ t.account = tx[r].account /\ t.amount = tx[r].amount /\ t.type = "WITHDRAWAL"
      /\ t.status = verdict /\ t.amount \in Int /\ tx[r].type = "WITHDRAWAL"
      /\ tx[r].status = "PENDING" /\ t.account \in Accounts
  <2>1. /\ t.account = tx[r].account /\ t.amount = tx[r].amount /\ t.type = "WITHDRAWAL"
        /\ t.status = verdict
    BY <1>1, <1>2, <1>3 DEF Tx, Awaits
  <2>2. WellFormed(tx[r])
    BY <1>1, <1>2, NoTxUndecided DEF Awaits
  <2>3. QED
    BY <1>1, <1>2, <2>1, <2>2, AmountType DEF Awaits, WellFormed
<1>5. job'[h] = Idle
  BY JobAfter DEF Approve, Decide
<1>6. /\ BooksOf(job[h], a) /\ wallet[a].available \in Int /\ wallet[a].pending \in Int
      /\ Earned(a) \in Nat /\ Withdrawn(a) \in Nat /\ Held(a) \in Nat
  BY BooksFacts
<1> DEFINE paid == IF job[h].at = "approve" /\ t.account = a THEN t.amount ELSE 0
<1>7. /\ Share(t, a, Credits, Statuses) = 0 /\ Share(tx[r], a, Credits, Statuses) = 0
      /\ Share(t, a, {"WITHDRAWAL"}, {"WITHDRAWN"}) = paid
      /\ Share(tx[r], a, {"WITHDRAWAL"}, {"WITHDRAWN"}) = 0
      /\ Share(t, a, {"CREDIT_PENDING"}, {"PENDING"}) = 0
      /\ Share(tx[r], a, {"CREDIT_PENDING"}, {"PENDING"}) = 0
  BY <1>3, <1>4 DEF Share, Credits
<1>8. paid \in Int
  BY <1>4
<1>9. wallet'[a].available = wallet[a].available - paid /\ wallet'[a].pending = wallet[a].pending
  <2>1. CASE job[h].at = "decide"
    <3>1. wallet' = wallet
      BY <2>1 DEF Approve, Decide
    <3>2. QED
      BY <1>6, <2>1, <3>1
  <2>2. CASE job[h].at = "approve"
    <3>1. job[h].seen[t.account] = wallet[t.account]
      BY <1>1, <1>4, <2>2 DEF DecisionShape
    <3>2. wallet' = [wallet EXCEPT ![t.account] = [wallet[t.account] EXCEPT !.available = @ - t.amount]]
      BY <2>2, <3>1 DEF Approve, Decide
    <3>3. CASE a = t.account
      BY <1>1, <1>4, <2>2, <3>2, <3>3 DEF Balance
    <3>4. CASE a # t.account
      BY <1>1, <1>4, <1>6, <2>2, <3>2, <3>4
    <3>5. QED
      BY <3>3, <3>4
  <2>3. QED
    BY <1>1, <2>1, <2>2
<1> HIDE DEF paid
<1>10. /\ Earned(a)' = Earned(a) /\ Withdrawn(a)' = Withdrawn(a) + paid /\ Held(a)' = Held(a)
  <2> HIDE DEF t, r
  <2>1. /\ Earned(a)' = Earned(a) - Share(tx[r], a, Credits, Statuses)
                                  + Share(t, a, Credits, Statuses)
        /\ Withdrawn(a)' = Withdrawn(a) - Share(tx[r], a, {"WITHDRAWAL"}, {"WITHDRAWN"})
                                        + Share(t, a, {"WITHDRAWAL"}, {"WITHDRAWN"})
        /\ Held(a)' = Held(a) - Share(tx[r], a, {"CREDIT_PENDING"}, {"PENDING"})
                              + Share(t, a, {"CREDIT_PENDING"}, {"PENDING"})
    BY <1>1, <1>2, SumsAfter
  <2>2. QED
    BY <1>6, <1>7, <1>8, <2>1
<1>11. /\ Funds(wallet[a]) + Withdrawn(a) = Earned(a) /\ wallet[a].pending >= Held(a)
  BY <1>1, <1>6 DEF BooksOf, Unrecorded, Moving, Funds
<1>12. /\ Unrecorded(job[h], a, Credits)' = 0 /\ Unrecorded(job[h], a, {"CREDIT_PENDING"})' = 0
       /\ Moving(job[h], a)' = 0 /\ ~ (job'[h].at \in ReleasePoints)
  BY <1>5, IdleRow DEF Unrecorded, Moving, ReleasePoints
<1>13. QED
  BY <1>6, <1>8, <1>9, <1>10, <1>11, <1>12 DEF BooksOf, Funds

LEMMA OtherBooks ==
  ASSUME TypeInv, RowInv, SerialInv, FinitelyMany, BooksInv, failures = 0,
         NEW h, Handlers = {h}, NEW a \in Accounts,
         \/ InsertWallet(h) \/ ReleaseAudit(h) \/ Begin(h)
         \/ \E b \in Accounts : OpenWallet(b)
         \/ \E r \in Rows : HoldElapses(r)
         \/ UNCHANGED vars
  PROVE  BooksOf(job[h], a)'
<1>1. job[h] \in Job /\ Idle \in Job /\ tx \in [Rows -> Tx]
  BY Facts, IdleIsJob
<1>2. CASE InsertWallet(h)
  <2> DEFINE j == [job[h] EXCEPT !.at = "save_credit"]
  <2>1. j.at = "save_credit"
    BY <1>1 DEF Job
  <2>2. job'[h] = Idle \/ job'[h] = j
    BY <1>2, JobAfter DEF InsertWallet
  <2>3. job'[h].at \in {"idle", "save_credit"}
    BY <2>1, <2>2, IdleRow
  <2>4. wallet' = wallet /\ tx' = tx /\ job[h].at = "insert_wallet"
    BY <1>2 DEF InsertWallet
  <2>5. QED
    BY <2>3, <2>4, BooksStill DEF ReleasePoints
<1>3. CASE ReleaseAudit(h)
  <2> DEFINE left == job[h].todo \ {job[h].row}
             j == [job[h] EXCEPT !.at = "release_wallet", !.row = None, !.todo = left]
  <2>1. j.at = "release_wallet" /\ j.todo = left /\ j.seen = job[h].seen
    BY <1>1 DEF Job
  <2>2. job'[h] = Idle \/ job'[h] = j
    BY <1>3, JobAfter DEF ReleaseAudit
  <2>3. wallet' = wallet /\ tx' = tx /\ job[h].at = "release_audit"
    BY <1>3 DEF ReleaseAudit
  <2>4. (\E q \in job[h].todo : tx[q].account = a) => job[h].seen[a].pending >= Held(a)
    BY <2>3, BooksFacts DEF BooksOf, ReleasePoints
  <2>5. CASE job'[h] = Idle
    <3>1. job'[h].at = "idle"
      BY <2>5, IdleRow
    <3>2. QED
      BY <2>3, <3>1, BooksStill DEF ReleasePoints
  <2>6. CASE job'[h] = j
    <3>1. /\ job'[h].at = "release_wallet" /\ job'[h].todo \subseteq job[h].todo
          /\ job'[h].seen = job[h].seen
      BY <2>1, <2>6
    <3>2. (\E q \in job'[h].todo : tx[q].account = a) => job'[h].seen[a].pending >= Held(a)
      BY <2>4, <3>1
    <3>3. QED
      BY <2>3, <3>1, <3>2, BooksStill
  <2>7. QED
    BY <2>2, <2>5, <2>6
<1>4. CASE ReleaseRead(h)
  <2> DEFINE A == {tx[r].account : r \in Releasable}
             j == [Idle EXCEPT !.at = "release_wallet", !.todo = Releasable, !.seen = Copy(A)]
  <2>1. j.at = "release_wallet" /\ j.todo = Releasable /\ j.seen = Copy(A)
    BY <1>1 DEF Job
  <2>2. job'[h] = j
    BY <1>4, JobAfter DEF ReleaseRead
  <2>3. job'[h].at = "release_wallet" /\ job'[h].todo = Releasable /\ job'[h].seen = Copy(A)
    BY <2>1, <2>2
  <2>4. wallet' = wallet /\ tx' = tx /\ job[h].at = "idle"
    BY <1>4 DEF ReleaseRead
  <2>5. wallet[a].pending >= Held(a)
    BY <2>4, BooksFacts DEF BooksOf, Unrecorded, Moving
  <2>6. (\E q \in Releasable : tx[q].account = a) => Copy(A)[a].pending >= Held(a)
    BY <2>5, CopyAt
  <2>7. QED
    BY <2>3, <2>4, <2>6, BooksStill
<1>5. ASSUME NEW r \in Rows, NEW b \in Accounts, NEW x \in Amounts,
             NEW type \in {"CREDIT_PENDING", "CREDIT_AVAILABLE"}, CreditRead(h, r, type, b, x)
      PROVE  BooksOf(job[h], a)'
  <2>1. /\ job'[h].at \in {"save_credit", "insert_wallet"} /\ wallet' = wallet /\ tx' = tx
        /\ job[h].at = "idle"
    BY <1>5, JobAfter, ZenonT(30) DEF CreditRead
  <2>2. QED
    BY <2>1, BooksStill DEF ReleasePoints
<1>6. ASSUME NEW r \in Rows, NEW b \in Accounts, NEW x \in Amounts, RequestWithdrawal(h, r, b, x)
      PROVE  BooksOf(job[h], a)'
  <2> DEFINE t == [type |-> "WITHDRAWAL", status |-> "PENDING", account |-> b, amount |-> x]
             j == [Idle EXCEPT !.at = "insert_row", !.row = r, !.draft = t]
  <2>1. j.at = "insert_row" /\ j.draft.type = "WITHDRAWAL"
    BY <1>1 DEF Job
  <2>2. job'[h] = j
    BY <1>6, JobAfter DEF RequestWithdrawal
  <2>3. job'[h].at = "insert_row" /\ job'[h].draft.type = "WITHDRAWAL"
    BY <2>1, <2>2
  <2>4. wallet' = wallet /\ tx' = tx /\ job[h].at = "idle"
    BY <1>6 DEF RequestWithdrawal
  <2>5. QED
    BY <2>3, <2>4, BooksStill DEF ReleasePoints
<1>7. ASSUME NEW r \in Rows, ApproveRead(h, r) PROVE BooksOf(job[h], a)'
  <2> DEFINE j == [Idle EXCEPT !.at = "approve", !.row = r, !.seen = Copy({tx[r].account}),
                               !.draft = [tx[r] EXCEPT !.status = "WITHDRAWN"]]
  <2>1. j.at = "approve"
    BY <1>1 DEF Job
  <2>2. job'[h] = j
    BY <1>7, JobAfter DEF ApproveRead
  <2>3. job'[h].at = "approve"
    BY <2>1, <2>2
  <2>4. wallet' = wallet /\ tx' = tx /\ job[h].at = "idle"
    BY <1>7 DEF ApproveRead
  <2>5. QED
    BY <2>3, <2>4, BooksStill DEF ReleasePoints
<1>7a. ASSUME NEW r \in Rows, NEW verdict \in {"REJECTED", "CANCELLED"}, DecideRead(h, r, verdict)
       PROVE  BooksOf(job[h], a)'
  <2> DEFINE j == [Idle EXCEPT !.at = "decide", !.row = r,
                               !.draft = [tx[r] EXCEPT !.status = verdict]]
  <2>1. j.at = "decide"
    BY <1>1 DEF Job
  <2>2. job'[h] = j
    BY <1>7a, JobAfter DEF DecideRead
  <2>3. job'[h].at = "decide"
    BY <2>1, <2>2
  <2>4. wallet' = wallet /\ tx' = tx /\ job[h].at = "idle"
    BY <1>7a DEF DecideRead
  <2>5. QED
    BY <2>3, <2>4, BooksStill DEF ReleasePoints
<1>8. CASE (\E b \in Accounts : OpenWallet(b)) \/ (\E r \in Rows : HoldElapses(r)) \/ UNCHANGED vars
  <2>1. job' = job /\ wallet' = wallet /\ tx' = tx
    BY <1>8 DEF OpenWallet, HoldElapses, vars
  <2>2. BooksOf(job[h], a)
    BY BooksFacts
  <2>3. Earned(a)' = Earned(a) /\ Withdrawn(a)' = Withdrawn(a) /\ Held(a)' = Held(a)
    BY <2>1, SumsSame
  <2>4. QED
    BY <2>1, <2>2, <2>3 DEF BooksOf, Unrecorded, Moving, Funds
<1>9. QED
  BY <1>2, <1>3, <1>4, <1>5, <1>6, <1>7, <1>7a, <1>8 DEF Begin

LEMMA StepKeepsBooks ==
  ASSUME TypeInv, TypeInv', RowInv, SerialInv, FinitelyMany, FinitelyMany', BooksInv,
         [Next]_vars, NEW h, Handlers = {h}
  PROVE  BooksInv'
<1> SUFFICES ASSUME failures' = 0, NEW a \in Accounts PROVE BooksOf(job[h], a)'
  BY DEF BooksInv
<1>1. ~ Fail(h)
  <2>1. failures + 1 # 0
    BY DEF TypeInv, TypeOK
  <2>2. QED
    BY <2>1 DEF Fail
<1>2. failures = 0
  <2>1. CASE Continue(h)
    BY <2>1 DEF Continue, InsertWallet, SaveCredit, InsertRow, ReleaseWallet, ReleaseRow,
                ReleaseAudit, Approve, Decide
  <2>2. CASE Begin(h)
    BY <2>2 DEF Begin, ReleaseRead, CreditRead, RequestWithdrawal, ApproveRead, DecideRead
  <2>3. ASSUME ~ Continue(h), ~ Begin(h) PROVE failures = 0
    BY <1>1, <2>3 DEF Next, OpenWallet, HoldElapses, vars
  <2>4. QED
    BY <2>1, <2>2, <2>3
<1>3. CASE Continue(h)
  BY <1>2, <1>3, OtherBooks, SaveCreditBooks, InsertRowBooks, ReleaseWalletBooks, ReleaseRowBooks,
     DecisionBooks DEF Continue
<1>4. CASE ~ Continue(h)
  <2>1. \/ Begin(h)
        \/ \E b \in Accounts : OpenWallet(b)
        \/ \E r \in Rows : HoldElapses(r)
        \/ UNCHANGED vars
    BY <1>1, <1>4 DEF Next
  <2>2. QED
    BY <1>2, <2>1, OtherBooks
<1>5. QED
  BY <1>3, <1>4

\* Everything that holds of the wallets with one request at a time.
OneRequestInv == TypeInv /\ RowInv /\ SafeInv /\ SerialInv /\ FinitelyMany /\ BooksInv

LEMMA OneRequestAlways ==
  ASSUME NEW h, Handlers = {h} PROVE Spec => []OneRequestInv
<1>1. Init => OneRequestInv
  <2> SUFFICES ASSUME Init PROVE OneRequestInv
    OBVIOUS
  <2>1. RowInv /\ SafeInv
    BY IdleRow, IdleSafe DEF Init, RowInv, SafeInv, NoNegativeAvailable, Zero
  <2>2. TypeInv /\ SerialInv /\ FinitelyMany
    BY TypeInvInit, SerialInit, FinitelyManyInit
  <2>3. ASSUME NEW a \in Accounts, NEW types, NEW statuses, "NONE" \notin types
        PROVE  Total(RowsOf(a, types, statuses)) = 0
    <3>1. RowsOf(a, types, statuses) = {}
      BY <2>3, NoTxUndecided DEF Init, RowsOf
    <3>2. QED
      BY <3>1, SumOfEmpty DEF Total
  <2>4. ASSUME NEW a \in Accounts PROVE BooksOf(job[h], a)
    <3>1. Earned(a) = 0 /\ Withdrawn(a) = 0 /\ Held(a) = 0
      BY <2>3 DEF Earned, Withdrawn, Held, CreditsOf
    <3>2. job[h].at = "idle" /\ wallet[a].available = 0 /\ wallet[a].pending = 0
      BY IdleRow DEF Init, Zero
    <3>3. QED
      BY <3>1, <3>2 DEF BooksOf, Unrecorded, Moving, Funds, ReleasePoints
  <2>5. QED
    BY <2>1, <2>2, <2>4 DEF OneRequestInv, BooksInv
<1>2. OneRequestInv /\ [Next]_vars => OneRequestInv'
  <2> SUFFICES ASSUME OneRequestInv, [Next]_vars PROVE OneRequestInv'
    OBVIOUS
  <2>1. TypeInv' /\ RowInv' /\ SafeInv' /\ SerialInv' /\ FinitelyMany'
    BY StepKeepsType, StepKeepsRows, StepSafe, StepKeepsShape, StepKeepsFinite DEF OneRequestInv
  <2>2. BooksInv'
    BY <2>1, StepKeepsBooks DEF OneRequestInv
  <2>3. QED
    BY <2>1, <2>2 DEF OneRequestInv
<1>3. QED
  BY <1>1, <1>2, PTL DEF Spec

\* With requests one at a time and nothing failed, no money appears or disappears: when none is
\* in flight the balances and what was withdrawn add up to the credits, in every account.
THEOREM BooksAlwaysBalance ==
  ASSUME NEW h, Handlers = {h} PROVE Spec => []BooksBalance
<1>1. OneRequestInv => BooksBalance
  <2> SUFFICES ASSUME OneRequestInv, Quiet, failures = 0, NEW a \in Accounts
               PROVE  wallet[a].available + wallet[a].pending
                        + Total(RowsOf(a, {"WITHDRAWAL"}, {"WITHDRAWN"})) = Total(CreditsOf(a))
    BY DEF BooksBalance
  <2>1. BooksOf(job[h], a) /\ Earned(a) \in Nat /\ job[h].at = "idle"
    BY BooksFacts DEF OneRequestInv, Quiet
  <2>2. Funds(wallet[a]) + Withdrawn(a) = Earned(a)
    BY <2>1 DEF BooksOf, Unrecorded
  <2>3. QED
    BY <2>2 DEF Funds, Withdrawn, Earned
<1>2. QED
  BY <1>1, OneRequestAlways, PTL

\* With requests one at a time and nothing failed, the pending balance covers every credit still
\* held, however many credits of an account one run of the release job goes through.
THEOREM HeldCreditsAreCovered ==
  ASSUME NEW h, Handlers = {h} PROVE Spec => []HeldCreditsCovered
<1>1. OneRequestInv => HeldCreditsCovered
  <2> SUFFICES ASSUME OneRequestInv, Quiet, failures = 0, NEW a \in Accounts
               PROVE  wallet[a].pending >= Total(RowsOf(a, {"CREDIT_PENDING"}, {"PENDING"}))
    BY DEF HeldCreditsCovered
  <2>1. /\ BooksOf(job[h], a) /\ Held(a) \in Nat /\ wallet[a].pending \in Int
        /\ job[h].at = "idle"
    BY BooksFacts DEF OneRequestInv, Quiet
  <2>2. wallet[a].pending >= Held(a)
    BY <2>1 DEF BooksOf, Unrecorded, Moving
  <2>3. QED
    BY <2>2 DEF Held
<1>2. QED
  BY <1>1, OneRequestAlways, PTL

-----------------------------------------------------------------------------
(* The wallets implement Escrow *)

LEMMA HeldForAfter ==
  ASSUME NEW a \in Accounts
  PROVE  heldFor[a] = Funds(wallet[a]) /\ heldFor'[a] = Funds(wallet'[a])
  BY DEF heldFor, Funds

\* A step that leaves every sum of balances and every paid withdrawal alone.
LEMMA EscrowStutters ==
  ASSUME \A a \in Accounts : Funds(wallet'[a]) = Funds(wallet[a]),
         \A r \in Rows : tx'[r].status = "WITHDRAWN" <=> tx[r].status = "WITHDRAWN"
  PROVE  UNCHANGED Promise!vars
<1>1. heldFor' = heldFor
  BY DEF heldFor, Funds
<1>2. paidOut' = paidOut
  BY DEF paidOut
<1>3. QED
  BY <1>1, <1>2 DEF Promise!vars

LEMMA DepositStep ==
  ASSUME TypeInv, RowInv, SerialInv, NEW h, Handlers = {h}, SaveCredit(h)
  PROVE  Promise!Next
<1> DEFINE t == job[h].draft
           b == t.account
<1>1. /\ wallet \in [Accounts -> Balance] /\ b \in Accounts /\ t.amount \in Amounts
      /\ t.amount \in Int /\ job[h].seen[b] = wallet[b]
  <2>1. JobShape(job[h]) /\ wallet \in [Accounts -> Balance] /\ t \in Tx
    BY Facts
  <2>2. QED
    BY <2>1, AmountType DEF SaveCredit, JobShape, CreditShape
<1>2. \A a \in Accounts : wallet'[a] = IF a = b THEN Credited(wallet[a], t) ELSE wallet[a]
  BY <1>1 DEF SaveCredit
<1>3. Funds(Credited(wallet[b], t)) = Funds(wallet[b]) + t.amount
  <2>1. wallet[b] \in Balance
    BY <1>1
  <2>2. wallet[b].available \in Int /\ wallet[b].pending \in Int
    BY <2>1 DEF Balance
  <2>3. CASE t.type = "CREDIT_PENDING"
    <3>1. Credited(wallet[b], t).available = wallet[b].available
          /\ Credited(wallet[b], t).pending = wallet[b].pending + t.amount
      BY <2>1, <2>3 DEF Credited, Balance
    <3>2. QED
      BY <1>1, <2>2, <3>1 DEF Funds
  <2>4. CASE t.type # "CREDIT_PENDING"
    <3>1. Credited(wallet[b], t).available = wallet[b].available + t.amount
          /\ Credited(wallet[b], t).pending = wallet[b].pending
      BY <2>1, <2>4 DEF Credited, Balance
    <3>2. QED
      BY <1>1, <2>2, <3>1 DEF Funds
  <2>5. QED
    BY <2>3, <2>4
<1>4. heldFor' = [heldFor EXCEPT ![b] = @ + t.amount]
  <2>1. \A a \in Accounts : heldFor'[a] = IF a = b THEN heldFor[a] + t.amount ELSE heldFor[a]
    BY <1>2, <1>3, HeldForAfter
  <2>2. heldFor' = [a \in Accounts |-> heldFor'[a]] /\ heldFor = [a \in Accounts |-> heldFor[a]]
    BY DEF heldFor
  <2>3. QED
    BY <2>1, <2>2
<1>5. paidOut' = paidOut
  BY DEF SaveCredit, paidOut
<1>6. Promise!Deposit(b, t.amount)
  BY <1>4, <1>5 DEF Promise!Deposit
<1>7. QED
  BY <1>1, <1>6 DEF Promise!Next

LEMMA PayOutStep ==
  ASSUME TypeInv, RowInv, SafeInv, SerialInv, FinitelyMany, BooksInv, failures = 0,
         NEW h, Handlers = {h}, Approve(h)
  PROVE  Promise!Next
<1> DEFINE r == job[h].row
           t == job[h].draft
           b == t.account
<1>1. /\ job[h].at = "approve" /\ tx' = [tx EXCEPT ![r] = t]
      /\ wallet' = [wallet EXCEPT ![b] = [job[h].seen[b] EXCEPT !.available = @ - t.amount]]
  BY DEF Approve
<1>2. /\ DecisionShape(job[h]) /\ wallet \in [Accounts -> Balance] /\ tx \in [Rows -> Tx]
      /\ \A q \in Rows : tx[q] = NoTx \/ WellFormed(tx[q])
  BY Facts DEF JobShape, SerialInv, RowShape
<1>3. /\ r \in Rows /\ Awaits(tx[r]) /\ t = [tx[r] EXCEPT !.status = "WITHDRAWN"]
      /\ job[h].seen[tx[r].account] = wallet[tx[r].account]
  BY <1>1, <1>2 DEF DecisionShape
<1>4. WellFormed(tx[r]) /\ tx[r] \in Tx
  BY <1>2, <1>3, NoTxUndecided DEF Awaits
<1>5. t.account = tx[r].account /\ t.amount = tx[r].amount /\ t.status = "WITHDRAWN"
  BY <1>3, <1>4 DEF Tx
<1>6. b \in Accounts /\ t.amount \in Amounts /\ t.amount \in Int /\ job[h].seen[b] = wallet[b]
  BY <1>3, <1>4, <1>5, AmountType DEF WellFormed
<1>7. wallet[b].available \in Int /\ wallet[b].pending \in Int
  BY <1>2, <1>6 DEF Balance
<1>8. t.amount <= wallet[b].available
  BY <1>1, <1>6 DEF SafeInv, JobSafe
<1>9. wallet[b].pending >= 0
  <2>1. BooksOf(job[h], b) /\ Held(b) \in Nat
    BY <1>6, BooksFacts
  <2>2. wallet[b].pending >= Held(b)
    BY <1>1, <1>7, <2>1 DEF BooksOf, Unrecorded, Moving
  <2>3. QED
    BY <1>7, <2>1, <2>2
<1>10. t.amount <= heldFor[b]
  BY <1>6, <1>7, <1>8, <1>9 DEF heldFor
<1>11. /\ \A a \in Accounts : a # b => wallet'[a] = wallet[a]
       /\ wallet'[b].available = wallet[b].available - t.amount
       /\ wallet'[b].pending = wallet[b].pending
  BY <1>1, <1>2, <1>6 DEF Balance
<1>12. heldFor' = [heldFor EXCEPT ![b] = @ - t.amount]
  <2>1. Funds(wallet'[b]) = Funds(wallet[b]) - t.amount
    BY <1>6, <1>7, <1>11 DEF Funds
  <2>2. \A a \in Accounts : heldFor'[a] = IF a = b THEN heldFor[a] - t.amount ELSE heldFor[a]
    BY <1>11, <2>1, HeldForAfter
  <2>3. heldFor' = [a \in Accounts |-> heldFor'[a]] /\ heldFor = [a \in Accounts |-> heldFor[a]]
    BY DEF heldFor
  <2>4. QED
    BY <2>2, <2>3
<1>13. r \notin paidOut
  BY <1>3 DEF paidOut, Awaits
<1>14. paidOut' = paidOut \union {r}
  <2>1. \A q \in Rows : tx'[q] = IF q = r THEN t ELSE tx[q]
    BY <1>1, <1>2
  <2>2. \A q \in Rows : tx'[q].status = "WITHDRAWN" <=> q = r \/ tx[q].status = "WITHDRAWN"
    BY <1>5, <2>1
  <2> HIDE DEF r
  <2>3. QED
    BY <1>3, <2>2 DEF paidOut
<1>15. Promise!PayOut(b, t.amount, r)
  BY <1>10, <1>12, <1>13, <1>14 DEF Promise!PayOut
<1>16. QED
  BY <1>3, <1>6, <1>15 DEF Promise!Next

LEMMA QuietStep ==
  ASSUME TypeInv, RowInv, SerialInv, NEW h, Handlers = {h}, [Next]_vars,
         ~ SaveCredit(h), ~ Approve(h)
  PROVE  UNCHANGED Promise!vars
<1>1. CASE wallet' = wallet /\ tx' = tx
  BY <1>1, EscrowStutters
<1>2. ASSUME NEW r \in Rows, ReleaseWallet(h, r) PROVE UNCHANGED Promise!vars
  <2> DEFINE b == tx[r].account
             x == tx[r].amount
  <2>1. /\ ReleaseShape(job[h]) /\ wallet \in [Accounts -> Balance]
        /\ job[h].seen \in [Accounts -> Balance] /\ tx[r] \in Tx
        /\ tx[r] = NoTx \/ WellFormed(tx[r])
    BY Facts DEF JobShape, SerialInv, RowShape
  <2>2. /\ tx[r].type = "CREDIT_PENDING" /\ Funds(job[h].seen[b]) = Funds(wallet[b])
    BY <1>2, <2>1 DEF ReleaseShape, ReleasePoints, ReleaseWallet
  <2>3. b \in Accounts /\ x \in Int
    BY <2>1, <2>2, NoTxUndecided, AmountType DEF WellFormed
  <2>4. \A c \in Accounts : wallet'[c] = IF c = b THEN Released(job[h].seen[b], x) ELSE wallet[c]
    BY <1>2, <2>1, <2>3 DEF ReleaseWallet
  <2>5. Funds(Released(job[h].seen[b], x)) = Funds(wallet[b])
    <3>1. job[h].seen[b].available \in Int /\ job[h].seen[b].pending \in Int
      BY <2>1, <2>3 DEF Balance
    <3>2. QED
      BY <2>2, <2>3, <3>1 DEF Released, Funds
  <2>6. \A c \in Accounts : Funds(wallet'[c]) = Funds(wallet[c])
    BY <2>4, <2>5
  <2>7. tx' = tx
    BY <1>2 DEF ReleaseWallet
  <2>8. QED
    BY <2>6, <2>7, EscrowStutters
<1>3. ASSUME wallet' = wallet, NEW r \in Rows, \A q \in Rows : q # r => tx'[q] = tx[q],
             tx[r].status # "WITHDRAWN", tx'[r].status # "WITHDRAWN"
      PROVE  UNCHANGED Promise!vars
  BY <1>3, EscrowStutters
<1>4. CASE ReleaseRow(h)
  <2>1. ReleaseShape(job[h]) /\ tx \in [Rows -> Tx] /\ job[h].todo \in SUBSET Rows
    BY Facts DEF JobShape
  <2>2. job[h].row \in Rows /\ tx[job[h].row].status = "PENDING"
    BY <1>4, <2>1 DEF ReleaseShape, ReleasePoints, ReleaseRow
  <2>3. /\ wallet' = wallet /\ tx'[job[h].row].status = "RELEASED"
        /\ \A q \in Rows : q # job[h].row => tx'[q] = tx[q]
    BY <1>4, <2>1, <2>2 DEF ReleaseRow, Tx
  <2>4. QED
    BY <1>3, <2>2, <2>3
<1>5. CASE InsertRow(h)
  <2>1. /\ CreditShape(job[h]) /\ JobRow(job[h]) /\ tx \in [Rows -> Tx]
    BY Facts DEF JobShape
  <2>2. /\ job[h].row \in Rows /\ tx[job[h].row].status = "NONE"
        /\ NewCredit(job[h].draft) \/ Awaits(job[h].draft)
    BY <1>5, <2>1, NoTxUndecided DEF CreditShape, JobRow, Inserting, InsertRow
  <2>3. /\ wallet' = wallet /\ tx'[job[h].row] = job[h].draft
        /\ \A q \in Rows : q # job[h].row => tx'[q] = tx[q]
    BY <1>5, <2>1, <2>2 DEF InsertRow
  <2>4. tx'[job[h].row].status # "WITHDRAWN"
    BY <2>2, <2>3 DEF NewCredit, Awaits
  <2>5. QED
    BY <1>3, <2>2, <2>3, <2>4
<1>6. CASE Decide(h)
  <2>1. DecisionShape(job[h]) /\ tx \in [Rows -> Tx] /\ job[h].draft \in Tx
    BY Facts DEF JobShape
  <2>2. job[h].row \in Rows /\ Awaits(tx[job[h].row])
    BY <1>6, <2>1 DEF DecisionShape, Decide
  <2>3. PICK verdict \in {"REJECTED", "CANCELLED"} :
          job[h].draft = [tx[job[h].row] EXCEPT !.status = verdict]
    BY <1>6, <2>1 DEF DecisionShape, Decide
  <2>4. /\ wallet' = wallet /\ tx'[job[h].row] = job[h].draft
        /\ \A q \in Rows : q # job[h].row => tx'[q] = tx[q]
    BY <1>6, <2>1, <2>2 DEF Decide
  <2>5. job[h].draft.status = verdict
    BY <2>1, <2>2, <2>3 DEF Tx
  <2>6. tx[job[h].row].status # "WITHDRAWN" /\ tx'[job[h].row].status # "WITHDRAWN"
    BY <2>2, <2>4, <2>5 DEF Awaits
  <2>7. QED
    BY <1>3, <2>2, <2>4, <2>6
<1>7. CASE InsertWallet(h) \/ ReleaseAudit(h) \/ Begin(h) \/ Fail(h)
  <2>1. wallet' = wallet /\ tx' = tx
    BY <1>7 DEF InsertWallet, ReleaseAudit, Fail, Begin, ReleaseRead, CreditRead, RequestWithdrawal,
                ApproveRead, DecideRead
  <2>2. QED
    BY <1>1, <2>1
<1>8. ASSUME ~ Continue(h), ~ Begin(h), ~ Fail(h) PROVE wallet' = wallet /\ tx' = tx
  BY <1>8 DEF Next, OpenWallet, HoldElapses, vars
<1>9. CASE Continue(h)
  BY <1>2, <1>4, <1>5, <1>6, <1>7, <1>9 DEF Continue
<1>10. QED
  BY <1>1, <1>7, <1>8, <1>9

\* With requests one at a time, as long as none has failed, every statement of WalletService is a
\* deposit of Escrow, a payment of Escrow, or nothing that Escrow sees: the release of held credits
\* makes no money, and approveWithdrawal pays a request once, from money that is there.
THEOREM WalletImplementsEscrow ==
  ASSUME NEW h, Handlers = {h} PROVE Spec => ImplementsEscrow
<1>1. Init => Promise!Init
  <2> SUFFICES ASSUME Init PROVE Promise!Init
    OBVIOUS
  <2>1. heldFor = [a \in Accounts |-> 0]
    BY DEF Init, heldFor, Zero
  <2>2. paidOut = {}
    BY NoTxUndecided DEF Init, paidOut
  <2>3. QED
    BY <2>1, <2>2 DEF Promise!Init
<1>2. OneRequestInv /\ [Next]_vars => [failures = 0 => Promise!Next]_(Promise!vars)
  <2> SUFFICES ASSUME OneRequestInv, [Next]_vars, failures = 0
               PROVE  Promise!Next \/ UNCHANGED Promise!vars
    OBVIOUS
  <2>1. CASE SaveCredit(h)
    BY <2>1, DepositStep DEF OneRequestInv
  <2>2. CASE Approve(h)
    BY <2>2, PayOutStep DEF OneRequestInv
  <2>3. CASE ~ SaveCredit(h) /\ ~ Approve(h)
    BY <2>3, QuietStep DEF OneRequestInv
  <2>4. QED
    BY <2>1, <2>2, <2>3
<1>3. QED
  BY <1>1, <1>2, OneRequestAlways, PTL DEF Spec, ImplementsEscrow
=============================================================================
