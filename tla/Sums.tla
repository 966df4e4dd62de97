-------------------------------- MODULE Sums --------------------------------
(***************************************************************************)
(* Sums of the amounts recorded in rows, as the properties about money     *)
(* write them.                                                             *)
(***************************************************************************)
EXTENDS Integers, FiniteSetsExt

\* The sum of f[x] for the x of a finite set S.
SumOf(f, S) == MapThenSumSet(LAMBDA x : f[x], S)
=============================================================================
