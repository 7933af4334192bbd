-------------------------------- MODULE Sums --------------------------------
(***************************************************************************)
(* Sums over finite sets: of stakes, balances and claims.                  *)
(***************************************************************************)
EXTENDS Integers, FiniteSets, FiniteSetsExt

\* The sum of f[x] for the x in S
SumOver(f, S) == MapThenSumSet(LAMBDA x : f[x], S)

=============================================================================
