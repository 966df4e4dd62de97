----------------------------- MODULE MCCheckout -----------------------------
(* Instances of Checkout for TLC. *)
EXTENDS Checkout, TLC

OneRate == {[advance |-> 25, commission |-> 10, tax |-> 15]}
TwoRates == OneRate \union {[advance |-> 50, commission |-> 0, tax |-> 0]}

IdSymmetry ==
  Permutations(Offers) \union Permutations(Offices)
    \union Permutations(Payments) \union Permutations(Handlers)
=============================================================================
