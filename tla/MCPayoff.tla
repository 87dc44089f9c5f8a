------------------------------ MODULE MCPayoff -------------------------------
(* Up to three credits with terms from a small set, on the tenth of a        *)
(* February: dear and cheap, with days of payment that short months cut, due *)
(* in this month and in the next, last paid long ago, and some that cannot   *)
(* be planned.                                                               *)
EXTENDS Payoff

\* Months of 2026.
Day(m, d) == [month |-> 12 * 2026 + m - 1, day |-> d]

MCToday == Day(2, 10)

MCTerms(balance, rate, payment, day, since) ==
  [balance |-> balance, rate |-> rate, payment |-> payment, day |-> day,
   since |-> since, priced |-> TRUE]

MCOffers ==
  {MCTerms(40, 9000, 20, 31, Day(1, 20)),
   MCTerms(40, 24000, 20, 9, Day(1, 9)),
   MCTerms(60, 0, 12, 20, Day(1, 31)),
   MCTerms(100, 14400, 11, 10, Day(1, 5)),
   MCTerms(25, 12000, 9, 5, [month |-> 12 * 2026 - 4, day |-> 9]),
   [MCTerms(10, 100, 5, 1, Day(1, 3)) EXCEPT !.since = None],
   [MCTerms(10, 100, 5, 1, Day(1, 3)) EXCEPT !.priced = FALSE]}
=============================================================================
