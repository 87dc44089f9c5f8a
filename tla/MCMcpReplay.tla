----------------------------- MODULE MCMcpReplay -----------------------------
(* McpReplay on a small instance.                                          *)
EXTENDS McpReplay, TLC

MCSymmetry == Permutations(Callers) \cup Permutations(Keys) \cup Permutations(Arguments)
=============================================================================
