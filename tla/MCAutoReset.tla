----------------------------- MODULE MCAutoReset -----------------------------
\* Instances of AutoReset: one credit, and two accounts with one credit each.
EXTENDS AutoReset, TLC

CONSTANTS w1, w2, a1, a2, c1, c2, b1, b2

OneCredit == c1 :> a1
TwoAccounts == c1 :> a1 @@ c2 :> a2
OneRank == c1 :> 1
Ranks == c1 :> 1 @@ c2 :> 2

WorkerSymmetry == Permutations(Workers)
=============================================================================
