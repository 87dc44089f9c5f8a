------------------------------ MODULE MCAiOAuth ------------------------------
(* AiOAuth on a small instance.                                            *)
EXTENDS AiOAuth, TLC

MCSymmetry == Permutations(Codes) \cup Permutations(Sessions)
=============================================================================
