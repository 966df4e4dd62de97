------------------------------ MODULE MCWallet ------------------------------
(* Instances of Wallet for TLC: ids of rows and handlers are interchangeable. *)
EXTENDS Wallet, TLC

RowSymmetry == Permutations(Rows)
IdSymmetry == Permutations(Rows) \union Permutations(Handlers)
=============================================================================
