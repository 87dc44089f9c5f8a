------------------------------ MODULE MCCredits ------------------------------
(* Credits on a small instance.                                            *)
EXTENDS Credits, TLC

MCSymmetry ==
  Permutations(Payments) \cup Permutations(Operations) \cup Permutations(Sessions)
=============================================================================
