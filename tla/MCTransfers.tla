----------------------------- MODULE MCTransfers -----------------------------
(* Transfers on a small instance.  Each request differs from the first in   *)
(* some of the columns, so that two updates can share a transfer between    *)
(* them, and two of them together would join an account to itself.  The     *)
(* card is renamed in between, so that an update may write a name and not   *)
(* the account.                                                             *)
EXTENDS Transfers, TLC

CONSTANTS card, cash, deposit

MCRequest(from, fromName, to, sent, received, rub, date, charge) ==
  [from |-> from, fromName |-> fromName,
   to |-> to, toName |-> IF to = cash THEN "cash" ELSE "deposit",
   sent |-> sent, received |-> received, rub |-> rub, date |-> date, fee |-> charge]

MCRequests ==
  {MCRequest(card, "card", cash, 1, 1, 1, 1, 0),
   MCRequest(card, "card", deposit, 1, 1, 1, 1, 1),
   MCRequest(deposit, "deposit", cash, 1, 1, 1, 1, 2),
   MCRequest(card, "visa", cash, 2, 1, 2, 1, 0),
   MCRequest(card, "visa", cash, 1, 2, 1, 2, 1)}

MCSymmetry == Permutations(Sessions) \cup Permutations(Fees)
=============================================================================
