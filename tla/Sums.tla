-------------------------------- MODULE Sums --------------------------------
(***************************************************************************)
(* Sums over finite sets, as Prisma's aggregate and the loops of the       *)
(* services compute them.                                                  *)
(***************************************************************************)
EXTENDS Integers, FiniteSetsExt

(* The sum of f[x] for x \in S.                                            *)
SumOver(f, S) == MapThenSumSet(LAMBDA x : f[x], S)
=============================================================================
