--------------------------- MODULE MCMarketplace ---------------------------
(* Instances of Marketplace for TLC: two offices bid, one can bid twice. *)
EXTENDS Marketplace, TLC

IdSymmetry ==
  Permutations(Offers) \union Permutations(Offices) \union Permutations(Handlers)
=============================================================================
