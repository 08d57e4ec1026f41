---------------------------- MODULE MC_Collector ----------------------------
(* Instances of Collector for TLC.                                         *)
EXTENDS CollectorRefinement, TLC

CONSTANTS w1, w2, c1, c2, t1, t2, t3, acc1, acc2

\* Standard strategy: every child account pays for its own transfer.
OwnAccounts == c1 :> acc1 @@ c2 :> acc2

\* Gasless strategies: one relayer account pays for every transfer.
Relayed == c1 :> acc1 @@ c2 :> acc1

\* Two collections of one child account, created one after the other.
SameChild == c1 :> acc1 @@ c2 :> acc1

\* One collection only.
Single == c1 :> acc1

SymmetricTxIds == Permutations(TxIds)
SymmetricWorkersAndTxIds == Permutations(Workers) \cup Permutations(TxIds)
=============================================================================
