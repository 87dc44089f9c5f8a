-------------------------- MODULE MCReconciliation --------------------------
(* Reconciliation on a small instance.                                     *)
EXTENDS Reconciliation, TLC

MCOpening == [a \in Accounts |-> 0]

MCSymmetry ==
  Permutations(Accounts) \cup Permutations(Rows) \cup Permutations(Sessions)
=============================================================================
