----------------------------- MODULE MCAccounts -----------------------------
(* One account of either kind, two replicas and the console.               *)
EXTENDS AccountHealth, TLC

Replicas == Permutations(Workers)
=============================================================================
