------------------------------ MODULE Calendar -------------------------------
(***************************************************************************)
(* Dates of payments.  The schedule of one credit, the plan of all of them *)
(* and the daily allowance each walk from one payment day to the next:     *)
(* projection.next_due, payoff.effective_since and summary._due_dates.     *)
(*                                                                         *)
(* A date is a day of a month, and months are numbered without a break     *)
(* (payoff._month_index: year * 12 + month - 1).                           *)
(***************************************************************************)
EXTENDS Integers

\* monthrange: the number of days of a month.
MonthLength(month) ==
  LET year == month \div 12
      leap == year % 4 = 0 /\ (year % 100 # 0 \/ year % 400 = 0)
      of == (month % 12) + 1
  IN IF of = 2 THEN IF leap THEN 29 ELSE 28
     ELSE IF of \in {4, 6, 9, 11} THEN 30
     ELSE 31

Date == {d \in [month : Nat, day : 1 .. 31] : d.day <= MonthLength(d.month)}

IsBefore(a, b) == a.month < b.month \/ (a.month = b.month /\ a.day < b.day)

PaymentDays == 1 .. 31

\* The day of payment in a month, cut to its length.
DueIn(month, paymentDay) ==
  [month |-> month,
   day |-> IF paymentDay <= MonthLength(month) THEN paymentDay ELSE MonthLength(month)]

\* next_due: the first day of payment strictly after a date.
NextDue(after, paymentDay) ==
  LET candidate == DueIn(after.month, paymentDay)
  IN IF IsBefore(after, candidate) THEN candidate ELSE DueIn(after.month + 1, paymentDay)

\* effective_since: the walk over the days of payment from since stops at the
\* last of them before today, and stays at since when there is none.
EffectiveSince(since, paymentDay, today) ==
  IF ~IsBefore(NextDue(since, paymentDay), today) THEN since
  ELSE IF IsBefore(DueIn(today.month, paymentDay), today) THEN DueIn(today.month, paymentDay)
  ELSE DueIn(today.month - 1, paymentDay)

\* (end - start).days, for an end in the month of start or in the next one.
DaysBetween(start, end) ==
  end.day - start.day + IF end.month = start.month THEN 0 ELSE MonthLength(start.month)

\* months_until: a part of a month counts as a month.
MonthsUntil(today, end) ==
  LET months == end.month - today.month + IF end.day > today.day THEN 1 ELSE 0
  IN IF months < 0 THEN 0 ELSE months

\* _due_dates: the days of payment after a date and up to the horizon.
DueDates(paymentDay, after, horizon) ==
  {due \in {DueIn(m, paymentDay) : m \in after.month .. horizon.month} :
     IsBefore(after, due) /\ ~IsBefore(horizon, due)}
=============================================================================
