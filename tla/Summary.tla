------------------------------- MODULE Summary -------------------------------
(***************************************************************************)
(* The daily allowance (SummaryService.daily_allowance): what the owner    *)
(* may spend of the money on the accounts, once the obligations of the     *)
(* month and the savings are set aside; and the goals set on envelopes     *)
(* (GoalService).                                                          *)
(*                                                                         *)
(* Both only read.  Accounts and recurring expenses are in roubles here,   *)
(* and the credits, whose payments are set aside as well, are in Credits   *)
(* and Payoff.                                                             *)
(***************************************************************************)
EXTENDS Accounts, Recurring, Budgets

CONSTANT Debt  \* what is left of the owner's credits that are not archived

\* _liquid_rub: archived accounts do not count.
Liquid(tables) ==
  LET counted == {o \in DOMAIN tables.operations :
                    tables.operations[o].account \in Active(tables.accounts)}
  IN SumOf([a \in Active(tables.accounts) |-> tables.accounts[a].initial])
       + SumOf([o \in counted |-> tables.operations[o].amount])

\* _spent_this_month, for the categories of a scope.
SpentThisMonth(tables, month, scope) == -Spent(tables.operations, scope, {month})

\* A fault for the runs: an obligation is set aside in full until the month ends.
ItemInFull(tables, month, i) == tables.items[i].monthly

\* _plan_minimum_left: of an item, what the spending of its category leaves.
ItemLeft(tables, month, i) ==
  LET item == tables.items[i]
      left == item.monthly - SpentThisMonth(tables, month, {item.category})
  IN IF left > 0 THEN left ELSE 0

PlanMinimumLeft(tables, month) ==
  SumOf([i \in Active(tables.items) |-> ItemLeft(tables, month, i)])

\* `committed`, for the categories of a scope.
Committed(tables, month, scope) ==
  LET items == {i \in Active(tables.items) : tables.items[i].category \in scope}
  IN SumOf([i \in items |-> ItemLeft(tables, month, i)])

\* A fault for the runs: only the category itself.
ScopeAlone(categories, c) == {c}

\* _scope_of: with the children, the archived ones among them.
ScopeOf(categories, c) == {c} \cup {d \in DOMAIN categories : categories[d].parent = c}

\* What is left of a plan beside what its branch has already set aside.
PlanLeft(tables, b) ==
  LET plan == tables.plans[b]
      scope == ScopeOf(tables.categories, plan.category)
      left == plan.planned - SpentThisMonth(tables, plan.month, scope)
                - Committed(tables, plan.month, scope)
  IN IF left > 0 THEN left ELSE 0

\* Savings are set aside, an ordinary limit is not.
Savings(tables, month) ==
  LET saving == {b \in DOMAIN tables.plans :
                   tables.plans[b].month = month /\ tables.plans[b].rollover}
  IN SumOf([b \in saving |-> PlanLeft(tables, b)])

SafeToSpend(tables, month) ==
  Liquid(tables) - PlanMinimumLeft(tables, month) - Savings(tables, month)

-----------------------------------------------------------------------------
\* What the pages show of the same operations.  Interest and fees of credits,
\* which the queries of spending add, are in Credits.
OfKind(operations, kinds, when) ==
  {o \in DOMAIN operations : operations[o].kind \in kinds /\ operations[o].month \in when}

\* cashflow: a refund lessens what was spent; an adjustment, a loan, a leg of a
\* transfer and a payment of a credit are neither.
Income(operations, when) ==
  SumOf([o \in OfKind(operations, {"income"}, when) |-> operations[o].amount])

Expense(operations, when) ==
  -SumOf([o \in OfKind(operations, {"expense", "refund"}, when) |-> operations[o].amount])

\* by_category and income_by_category: what has no category is shown too.
ByCategory(operations, kinds, month) ==
  LET counted == OfKind(operations, kinds, {month})
  IN [c \in {operations[o].category : o \in counted} |->
        SumOf([o \in {q \in counted : operations[q].category = c} |-> operations[o].amount])]

\* dashboard: the balance of each account that is in use, and the capital that
\* is left of them once the debt is taken off.
ShownBalances(tables) ==
  [a \in Active(tables.accounts) |->
     tables.accounts[a].initial
       + SumOf([o \in {q \in DOMAIN tables.operations : tables.operations[q].account = a} |->
                  tables.operations[o].amount])]

Capital(tables) == SumOf(ShownBalances(tables)) - Debt

-----------------------------------------------------------------------------
\* months_between, with the month that has begun.
MonthsBetween(start, end) == IF end < start THEN 1 ELSE end - start + 1

\* _progress: what has been gathered, and what this month must add; up to whole
\* hundredths.  saved is the envelope without the plan of the month.
Need(goal, month, saved) ==
  LET target == IF goal.due = None THEN month ELSE goal.due
      monthsLeft == MonthsBetween(month, target)
      left == goal.amount - saved
  IN IF goal.kind = "monthly" THEN goal.amount
     ELSE IF left <= 0 THEN 0
     ELSE (left + monthsLeft - 1) \div monthsLeft

Saved(tables, c, month) ==
  LET ofMonth == {b \in DOMAIN tables.plans :
                    tables.plans[b].category = c /\ tables.plans[b].month = month}
      view(b) == Envelope(tables.categories, tables.operations, tables.plans, b)
  IN IF ofMonth = {} THEN
       EnvelopeWithoutPlan(tables.categories, tables.operations, tables.plans, c, month)
     ELSE LET b == CHOOSE b \in ofMonth : TRUE IN view(b).rollover - view(b).spent

StillToAdd(tables, g, month) ==
  LET goal == tables.goals[g]
      ofMonth == {b \in DOMAIN tables.plans :
                    tables.plans[b].category = goal.category /\ tables.plans[b].month = month}
      more == Need(goal, month, Saved(tables, goal.category, month))
                - SumOf([b \in ofMonth |-> tables.plans[b].planned])
  IN IF more > 0 THEN more ELSE 0
=============================================================================
