----------------------------- MODULE MCAiAccess ------------------------------
(* AiAccess on a small instance.                                             *)
EXTENDS AiAccess, TLC

CONSTANTS c1, own

MCAsked == [c \in Connections |-> {"read"}]

MCTried ==
  {r \in Routes : <<r.area, r.method>> \in {<<"data", "read">>, <<"import", "write">>}}

MCSymmetry == Permutations(Requests) \cup Permutations(Pairs)
=============================================================================
