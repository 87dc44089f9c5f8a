------------------------------- MODULE Payoff --------------------------------
(***************************************************************************)
(* The plan that pays off all credits of the owner (payoff.simulate_payoff)*)
(* and the schedule of each credit by itself (projection.project_credit),  *)
(* as CreditService.payoff_plan works them out: first the schedule of each *)
(* credit, which decides whether the credit can be planned at all, then    *)
(* the plan, month by month.                                               *)
(*                                                                         *)
(* Sums are whole kopecks, and interest is rounded to kopecks.             *)
(***************************************************************************)
EXTENDS Calendar, Sequences, FiniteSets, Sums

CONSTANTS
  Credits,      \* active credits, in the order of their names: a set of numbers
  Offers,       \* the terms that a credit may have
  Extras,       \* what the owner may add to the payments of a month
  Today,
  MaxPayments,  \* MAX_PAYMENTS: bound
  None          \* a term that is not filled in; a debt that is not paid off

VARIABLES
  terms,     \* the rows of the credits
  strategy, extra,  \* the request
  skipped,   \* the reason for each credit that is not planned
  schedule,  \* for each credit checked so far, its payments, the start first
  phase,     \* what payoff_plan is at
  month,     \* the calendar month that simulate_payoff is at
  plan       \* the _State of each planned debt

payoffVars == <<terms, strategy, extra, skipped, schedule, phase, month, plan>>

-----------------------------------------------------------------------------
Strategies == {"avalanche", "snowball"}

\* Rates are in hundredths of a percent a year; `priced` says that the currency
\* of the credit has a rate to roubles.
Terms ==
  [balance : Nat, rate : Nat \cup {None}, payment : (Nat \ {0}) \cup {None},
   day : PaymentDays \cup {None}, since : Date \cup {None}, priced : BOOLEAN]

ASSUME PayoffAssumption ==
  /\ Credits \subseteq Nat
  /\ IsFiniteSet(Credits)
  /\ Offers \subseteq Terms
  /\ Extras \subseteq Nat
  /\ Today \in Date
  /\ MaxPayments \in Nat
  /\ None \notin Nat \cup Date

Least(a, b) == IF a < b THEN a ELSE b

\* accrued_interest: actual / 365, half up.
YearOfRate == 100 * 100 * 365

Interest(balance, rate, start, end) ==
  (2 * balance * rate * DaysBetween(start, end) + YearOfRate) \div (2 * YearOfRate)

\* What the plan cannot count, in the order of the checks.
CannotCount(t) ==
  IF None \in {t.rate, t.payment, t.day, t.since} THEN "missing_terms"
  ELSE IF ~t.priced THEN "missing_rate"
  ELSE "none"

-----------------------------------------------------------------------------
\* One credit by itself.
Since(c) == EffectiveSince(terms[c].since, terms[c].day, Today)

Start(c) == [on |-> Since(c), remaining |-> terms[c].balance, interest |-> 0]

\* One round of project_credit's loop.
DueAfter(c, entry) == NextDue(entry.on, terms[c].day)

OwedAfter(c, entry) ==
  entry.remaining + Interest(entry.remaining, terms[c].rate, entry.on, DueAfter(c, entry))

NextScheduled(c, entry) ==
  [on |-> DueAfter(c, entry),
   remaining |-> OwedAfter(c, entry) - Least(OwedAfter(c, entry), terms[c].payment),
   interest |-> entry.interest + OwedAfter(c, entry) - entry.remaining]

\* The payment must pay more than the interest, or the last of the debt.
Amortizes(c, entry) ==
  \/ OwedAfter(c, entry) <= terms[c].payment
  \/ NextScheduled(c, entry).remaining < entry.remaining

Last(s) == s[Len(s)]

Scheduled(c) == schedule[c] # <<>> /\ Last(schedule[c]).remaining = 0

Checked(c) == terms[c].balance = 0 \/ skipped[c] # "none" \/ Scheduled(c)

\* The credit that the loop over the active credits is at.
Checking(c) ==
  /\ phase = "checking"
  /\ ~Checked(c)
  /\ \A d \in Credits : d < c => Checked(d)

CheckSkips(c) ==
  /\ Checking(c)
  /\ schedule[c] = <<>>
  /\ CannotCount(terms[c]) # "none"
  /\ skipped' = [skipped EXCEPT ![c] = CannotCount(terms[c])]
  /\ UNCHANGED <<terms, strategy, extra, schedule, phase, month, plan>>

CheckStarts(c) ==
  /\ Checking(c)
  /\ schedule[c] = <<>>
  /\ CannotCount(terms[c]) = "none"
  /\ schedule' = [schedule EXCEPT ![c] = <<Start(c)>>]
  /\ UNCHANGED <<terms, strategy, extra, skipped, phase, month, plan>>

CheckPayment(c) ==
  /\ Checking(c)
  /\ schedule[c] # <<>>
  /\ Len(schedule[c]) <= MaxPayments
  /\ Amortizes(c, Last(schedule[c]))
  /\ schedule' = [schedule EXCEPT ![c] = Append(@, NextScheduled(c, Last(@)))]
  /\ UNCHANGED <<terms, strategy, extra, skipped, phase, month, plan>>

\* NeverAmortizesError: the plan does without this credit.
CheckFails(c) ==
  /\ Checking(c)
  /\ schedule[c] # <<>>
  /\ Len(schedule[c]) > MaxPayments \/ ~Amortizes(c, Last(schedule[c]))
  /\ skipped' = [skipped EXCEPT ![c] = "never_amortizes"]
  /\ UNCHANGED <<terms, strategy, extra, schedule, phase, month, plan>>

-----------------------------------------------------------------------------
\* _credit_dues of the daily allowance, which looks at the day of payment and
\* not at the debt: the dates of a credit that money is set aside for.
Reserved(c, until) ==
  IF None \in {terms[c].payment, terms[c].day} THEN {}
  ELSE DueDates(terms[c].day, Today, until)

-----------------------------------------------------------------------------
\* The plan of all of them.
Debts == {c \in Credits : terms[c].balance > 0 /\ skipped[c] = "none"}

FirstDue(c) == NextDue(Since(c), terms[c].day)

\* _start
DebtAtStart(c) ==
  [remaining |-> terms[c].balance, previous |-> Since(c), due |-> FirstDue(c),
   interest |-> 0, payoff |-> None]

\* simulate_payoff begins at the month of the first payment of all.
Begin ==
  /\ phase = "checking"
  /\ \A c \in Credits : Checked(c)
  /\ plan' = [c \in Debts |-> DebtAtStart(c)]
  /\ IF Debts = {} THEN phase' = "planned" /\ UNCHANGED month
     ELSE /\ phase' = "planning"
          /\ \E c \in Debts :
               /\ \A d \in Debts : FirstDue(c).month <= FirstDue(d).month
               /\ month' = FirstDue(c).month
  /\ UNCHANGED <<terms, strategy, extra, skipped, schedule>>

FirstMonth(c) == FirstDue(c).month

Open(c) == plan[c].payoff = None

\* prioritize: the target comes before the others; names decide what the rate
\* and the balance leave open.
Ahead(c, d) ==
  LET richer == terms[c].rate > terms[d].rate
      smaller == terms[c].balance < terms[d].balance
      sameRate == terms[c].rate = terms[d].rate
      sameBalance == terms[c].balance = terms[d].balance
      named == sameRate /\ sameBalance /\ c < d
  IN IF strategy = "avalanche" THEN richer \/ (sameRate /\ smaller) \/ named
     ELSE smaller \/ (sameBalance /\ richer) \/ named

Paying == {c \in DOMAIN plan : Open(c) /\ plan[c].due.month = month}

Accrued(c) == Interest(plan[c].remaining, terms[c].rate, plan[c].previous, plan[c].due)

Owed(c) == plan[c].remaining + Accrued(c)

\* A fault for the runs: the last payment is not cut to the debt.
Uncut(c) == terms[c].payment

Obligatory(c) == Least(terms[c].payment, Owed(c))

\* A fault for the runs: the payments of closed credits are not passed on.
BudgetOfOpen ==
  LET begun == {c \in DOMAIN plan : FirstMonth(c) <= month /\ Open(c)}
  IN extra + SumOf([c \in begun |-> terms[c].payment])

\* The sum of the month: every credit that has begun brings its payment, be it
\* closed or not.
Budget ==
  LET begun == {c \in DOMAIN plan : FirstMonth(c) <= month}
  IN extra + SumOf([c \in begun |-> terms[c].payment])

\* What is left of it goes to the first target, and on to the next.
AfterPayment(c) == Owed(c) - Obligatory(c)

LeftFor(c) ==
  Budget - SumOf([d \in Paying |-> Obligatory(d)])
    - SumOf([d \in {e \in Paying : Ahead(e, c)} |-> AfterPayment(d)])

Early(c) == IF LeftFor(c) <= 0 THEN 0 ELSE Least(LeftFor(c), AfterPayment(c))

\* A fault for the runs: the date that interest counts from stays.
AfterMonthFromStart(c) ==
  LET left == AfterPayment(c) - Early(c)
      paid == [plan[c] EXCEPT !.remaining = left, !.interest = @ + Accrued(c)]
  IN IF left = 0 THEN [paid EXCEPT !.payoff = plan[c].due]
     ELSE [paid EXCEPT !.due = NextDue(plan[c].due, terms[c].day)]

\* What becomes of a debt in a month it is paid in.
AfterMonth(c) ==
  LET left == AfterPayment(c) - Early(c)
      paid == [plan[c] EXCEPT !.remaining = left, !.interest = @ + Accrued(c)]
  IN IF left = 0 THEN [paid EXCEPT !.payoff = plan[c].due]
     ELSE [paid EXCEPT !.previous = plan[c].due, !.due = NextDue(plan[c].due, terms[c].day)]

\* A fault for the runs: the rounds are counted from this month.
MonthsGoneFromToday == month - Today.month + 1

MonthsGone == month - (CHOOSE m \in {FirstMonth(c) : c \in DOMAIN plan} :
                         \A c \in DOMAIN plan : m <= FirstMonth(c))

PayMonth ==
  /\ phase = "planning"
  /\ \E c \in DOMAIN plan : Open(c)
  /\ MonthsGone < MaxPayments
  /\ plan' = [c \in DOMAIN plan |-> IF c \in Paying THEN AfterMonth(c) ELSE plan[c]]
  /\ month' = month + 1
  /\ UNCHANGED <<terms, strategy, extra, skipped, schedule, phase>>

\* The loop ends by a break, or else raises: also when the last debt was paid
\* off in the last of its rounds.
Finish ==
  /\ phase = "planning"
  /\ \A c \in DOMAIN plan : ~Open(c)
  /\ MonthsGone < MaxPayments
  /\ phase' = "planned"
  /\ UNCHANGED <<terms, strategy, extra, skipped, schedule, month, plan>>

GiveUp ==
  /\ phase = "planning"
  /\ MonthsGone >= MaxPayments
  /\ phase' = "failed"
  /\ UNCHANGED <<terms, strategy, extra, skipped, schedule, month, plan>>
-----------------------------------------------------------------------------
PayoffInit ==
  /\ terms \in [Credits -> Offers]
  /\ strategy \in Strategies
  /\ extra \in Extras
  /\ skipped = [c \in Credits |-> "none"]
  /\ schedule = [c \in Credits |-> <<>>]
  /\ phase = "checking"
  /\ month = Today.month
  /\ plan = <<>>

Check(c) == CheckSkips(c) \/ CheckStarts(c) \/ CheckPayment(c) \/ CheckFails(c)

PayoffNext == (\E c \in Credits : Check(c)) \/ Begin \/ PayMonth \/ Finish \/ GiveUp

PayoffSpec == PayoffInit /\ [][PayoffNext]_payoffVars

-----------------------------------------------------------------------------
Entry == [on : Date, remaining : Nat, interest : Nat]

Debt ==
  [remaining : Nat, previous : Date, due : Date, interest : Nat,
   payoff : Date \cup {None}]

\* The schedules and the plan are made of dates and of sums that are not
\* negative, and only credits with all of their terms have them.
PayoffTypeOK ==
  /\ terms \in [Credits -> Offers]
  /\ strategy \in Strategies
  /\ extra \in Extras
  /\ skipped \in [Credits -> {"none", "missing_terms", "missing_rate", "never_amortizes"}]
  /\ schedule \in [Credits -> Seq(Entry)]
  /\ \A c \in Credits : schedule[c] # <<>> => CannotCount(terms[c]) = "none"
  /\ phase \in {"checking", "planning", "planned", "failed"}
  /\ month \in Nat
  /\ DOMAIN plan \subseteq Credits
  /\ plan \in [DOMAIN plan -> Debt]

\* Payments made on a debt since its first one was due.
Made(c) ==
  IF Open(c) THEN plan[c].due.month - FirstMonth(c)
  ELSE plan[c].payoff.month - FirstMonth(c) + 1

\* After as many payments the plan owes no more on a credit than its own
\* schedule, and has paid no more interest; no credit is paid off later.
NeverBehind ==
  \A c \in DOMAIN plan :
    /\ Made(c) + 1 \in DOMAIN schedule[c]
    /\ plan[c].remaining <= schedule[c][Made(c) + 1].remaining
    /\ plan[c].interest <= schedule[c][Made(c) + 1].interest

\* A single credit without an addition is paid as its schedule says.
AloneAsScheduled ==
  \A c \in DOMAIN plan :
    DOMAIN plan = {c} /\ extra = 0 =>
      /\ plan[c].remaining = schedule[c][Made(c) + 1].remaining
      /\ plan[c].interest = schedule[c][Made(c) + 1].interest
      /\ ~Open(c) => plan[c].payoff = Last(schedule[c]).on

InterestSaved ==
  SumOf([c \in DOMAIN plan |-> Last(schedule[c]).interest])
    - SumOf([c \in DOMAIN plan |-> plan[c].interest])

\* What the assistant tells the owner is never that the plan costs more or
\* takes longer than paying as before: by _summarize, the months to freedom are
\* those until the last of the dates.
NothingLost ==
  phase = "planned" =>
    /\ InterestSaved >= 0
    /\ \A c \in DOMAIN plan : \E d \in DOMAIN plan :
         MonthsUntil(Today, plan[c].payoff) <= MonthsUntil(Today, Last(schedule[d]).on)

\* The daily allowance has its own walk over the days of payment.  Between the
\* start of a schedule and its last payment it finds the dates that the schedule
\* names after today; a payment that is due today it takes for made.  Before the
\* start and past the last payment it goes on by itself.
DuesAgree ==
  \A c \in Credits :
    schedule[c] # <<>> =>
      {due \in Reserved(c, Last(schedule[c]).on) : IsBefore(schedule[c][1].on, due)}
        = {due \in {schedule[c][i].on : i \in 2 .. Len(schedule[c])} : IsBefore(Today, due)}

\* The plan against the schedules it is compared with: two algorithms with one
\* formula for interest and dates (payoff.py: with no addition the plan of one
\* credit is its schedule), and the schedules against the dates that the allowance
\* finds after today.
PlanKeepsToSchedules == NeverBehind /\ AloneAsScheduled /\ NothingLost /\ DuesAgree

\* What the owner gives in a month: the addition, and the payments of the debts
\* that have come to be due or have been paid off.
MonthlySum ==
  LET begun == {c \in DOMAIN plan : Open(c) => plan[c].due.month <= month}
  IN extra + SumOf([c \in begun |-> terms[c].payment])

\* Each month one and the same sum goes to the credits, and the target gets what
\* closed ones no longer take (payoff.py: the payment of a closed credit does
\* not disappear); less only when it pays off all the debts that have begun.
SameSumEveryMonth ==
  [][plan # <<>> /\ month' # month =>
       LET paid == SumOf([c \in Paying |-> Owed(c) - plan'[c].remaining])
       IN \/ paid = MonthlySum
          \/ /\ paid < MonthlySum
             /\ \A c \in Paying : plan'[c].payoff # None]_payoffVars

\* Of credits that each end by themselves, a plan raises only when the last
\* payment of one of them falls in the last month the loop looks at, or later.
FailsOnlyAtTheLimit ==
  phase = "failed" =>
    \E c, d \in DOMAIN plan :
      FirstMonth(c) + Len(schedule[c]) - 1 - FirstMonth(d) >= MaxPayments
=============================================================================
