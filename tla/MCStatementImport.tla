-------------------------- MODULE MCStatementImport --------------------------
(* StatementImport on a small instance.  A day has four ticks and the owner *)
(* lives one tick ahead: two coffees are bought together, and the ticket    *)
(* after the owner's midnight and before midnight in UTC.                   *)
EXTENDS StatementImport

CONSTANTS coffee, ticket

MCCoffee == [at |-> 2, amount |-> coffee]

MCTicket == [at |-> 3, amount |-> ticket]

MCOperations == {MCCoffee, MCTicket}

MCBank == [a \in Accounts |-> [o \in Operations |-> IF o = MCCoffee THEN 2 ELSE 1]]
=============================================================================
