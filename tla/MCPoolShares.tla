---------------------------- MODULE MCPoolShares ----------------------------
(***************************************************************************)
(* The risk pool's liquidity on a small instance.  Splits and reinsurance  *)
(* terms are records, which a configuration file cannot write.             *)
(***************************************************************************)
EXTENDS PoolShares

\* Four fifths to the LPs, as the defaults have it, or three fifths.
MostToLPs == [lp |-> 8, treasury |-> 1, backstop |-> 1]
OtherSplits == {[lp |-> 6, treasury |-> 2, backstop |-> 2]}

SomeTerms == {[active |-> TRUE, attachment |-> 1, limit |-> 2]}

ProviderSymmetry == Permutations(Providers)
=============================================================================
