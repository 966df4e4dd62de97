------------------------------- MODULE Escrow -------------------------------
(***************************************************************************)
(* What the wallets of the marketplace promise, with no database and no    *)
(* request handler in sight: the money held for an account changes only    *)
(* when a payment is credited to it, or when one withdrawal request is     *)
(* paid out, once, from money the account has.                             *)
(***************************************************************************)
EXTENDS Integers

CONSTANTS Accounts,  \* owners of a wallet: offices and the platform's admin
          Rows,      \* identities of wallet_transactions rows
          Amounts    \* amounts a payment or a withdrawal can have

VARIABLES funds,     \* money held for each account
          settled    \* withdrawal requests that have been paid out

vars == <<funds, settled>>

Init ==
  /\ funds = [a \in Accounts |-> 0]
  /\ settled = {}

Deposit(a, x) ==
  /\ funds' = [funds EXCEPT ![a] = @ + x]
  /\ UNCHANGED settled

PayOut(a, x, r) ==
  /\ r \notin settled
  /\ x <= funds[a]
  /\ funds' = [funds EXCEPT ![a] = @ - x]
  /\ settled' = settled \union {r}

Next ==
  \E a \in Accounts, x \in Amounts :
    \/ Deposit(a, x)
    \/ \E r \in Rows : PayOut(a, x, r)

Spec == Init /\ [][Next]_vars
=============================================================================
