------------------------------ MODULE Budgets -------------------------------
(***************************************************************************)
(* Monthly plans by category (BudgetService), the envelopes that are       *)
(* counted from them, and the goals set on categories (GoalService).       *)
(*                                                                         *)
(* What an envelope holds is a function of the tables it is counted from;  *)
(* the requests here only change plans and goals.                          *)
(***************************************************************************)
EXTENDS Categories

CONSTANTS
  Amounts,       \* planned amounts a client may send
  GoalRequests   \* goals a client may set: [kind, amount, due]

-----------------------------------------------------------------------------
\* _build_category_scopes over the active categories.  A category that is not
\* among them stands for itself.
Scope(categories, c) ==
  {c} \cup IF c \in Active(categories)
             THEN {d \in Active(categories) : categories[d].parent = c}
             ELSE {}

\* spent_by_category and spent_before: expenses and refunds, as they are signed.
Spent(operations, scope, when) ==
  LET counted == {o \in DOMAIN operations :
                    /\ operations[o].category \in scope
                    /\ operations[o].kind \in {"expense", "refund"}
                    /\ operations[o].month \in when}
  IN SumOf([o \in counted |-> operations[o].amount])

Before(month) == {m \in Months : m < month}

PlannedBefore(plans, c, month) ==
  LET earlier == {b \in DOMAIN plans : plans[b].category = c /\ plans[b].month < month}
  IN SumOf([b \in earlier |-> plans[b].planned])

\* _enrich: the view of one plan.
Envelope(categories, operations, plans, b) ==
  LET plan == plans[b]
      scope == Scope(categories, plan.category)
      spent == -Spent(operations, scope, {plan.month})
      rollover ==
        IF plan.rollover
          THEN PlannedBefore(plans, plan.category, plan.month)
                 + Spent(operations, scope, Before(plan.month))
          ELSE 0
      available == plan.planned + rollover
  IN [rollover |-> rollover, available |-> available, spent |-> spent,
      remaining |-> available - spent]

\* envelope_without_plan: what lies there in a month that has no plan yet.
EnvelopeWithoutPlan(categories, operations, plans, c, month) ==
  LET scope == Scope(categories, c)
  IN PlannedBefore(plans, c, month)
       + Spent(operations, scope, Before(month))
       + Spent(operations, scope, {month})

-----------------------------------------------------------------------------
PlanOf(month, c) ==
  {b \in DOMAIN db.plans : db.plans[b].month = month /\ db.plans[b].category = c}

FreePlans == PlanIds \ Held("plans")

NewPlan(month, c, planned, rollover) ==
  Insert([month |-> month, category |-> c, planned |-> planned, rollover |-> rollover])

CreateBudget(s) ==
  \E b \in FreePlans, month \in Months, c \in CategoryIds, planned \in Amounts,
     rollover \in BOOLEAN :
    /\ ForExpenses(c)
    /\ PlanOf(month, c) = {}
    /\ Look(s, "create_budget",
            To("plans", b, NewPlan(month, c, planned, rollover)))

UpdateBudget(s) ==
  \E b \in DOMAIN db.plans :
    \E new \in [planned : Amounts] \cup [rollover : BOOLEAN] :
      Look(s, "update_budget", To("plans", b, Update(db.plans[b], new)))

DeleteBudget(s) ==
  \E b \in DOMAIN db.plans :
    Look(s, "delete_budget", To("plans", b, Delete))

\* The change that one item of an import makes.
Replaced(b, month, c, planned) ==
  IF PlanOf(month, c) = {} THEN NewPlan(month, c, planned, FALSE)
  ELSE Update(db.plans[b], [planned |-> planned, rollover |-> FALSE])

\* import_budgets: the plans of a month, each made or overwritten.
ImportBudgets(s) ==
  \E month \in Months, c, d \in CategoryIds, a, b \in PlanIds, planned \in Amounts :
    /\ c # d /\ a # b
    /\ ForExpenses(c) /\ ForExpenses(d)
    /\ a \in IF PlanOf(month, c) = {} THEN FreePlans ELSE PlanOf(month, c)
    /\ b \in IF PlanOf(month, d) = {} THEN FreePlans ELSE PlanOf(month, d)
    /\ Look(s, "import_budgets",
            [Nowhere EXCEPT !.plans =
               [r \in {a, b} |-> Replaced(r, month, IF r = a THEN c ELSE d, planned)]])

Raised(b, amount) == Update(db.plans[b], [planned |-> db.plans[b].planned + amount])

\* move_planned reads both plans and writes each as a value.
MovePlanned(s) ==
  \E month \in Months, from, to \in CategoryIds, amount \in Amounts \ {0} :
    /\ from # to
    /\ ForExpenses(from) /\ ForExpenses(to)
    /\ \E source \in PlanOf(month, from),
          target \in IF PlanOf(month, to) = {} THEN FreePlans ELSE PlanOf(month, to) :
         LET left == db.plans[source].planned - amount IN
         /\ left >= 0
         /\ Look(s, "move_planned",
                 [Nowhere EXCEPT !.plans =
                    [r \in {source, target} |->
                       IF r = source THEN Update(db.plans[r], [planned |-> left])
                       ELSE IF PlanOf(month, to) = {} THEN NewPlan(month, to, amount, FALSE)
                       ELSE Raised(r, amount)]])

-----------------------------------------------------------------------------
GoalOf(c) == {g \in DOMAIN db.goals : db.goals[g].category = c}

\* upsert_goal asks of the category only that it exists.
UpsertGoal(s) ==
  \E c \in DOMAIN db.categories, q \in GoalRequests,
     g \in GoalIds :
    LET row == [category |-> c, kind |-> q.kind, amount |-> q.amount, due |-> q.due] IN
    /\ g \in IF GoalOf(c) = {} THEN GoalIds \ Held("goals") ELSE GoalOf(c)
    /\ Look(s, "upsert_goal",
            To("goals", g,
               IF GoalOf(c) = {} THEN Insert(row) ELSE Update(db.goals[g], row)))

DeleteGoal(s) ==
  \E g \in DOMAIN db.goals :
    Look(s, "delete_goal", To("goals", g, Delete))

AskBudgets(s) ==
  \/ CreateBudget(s) \/ UpdateBudget(s) \/ DeleteBudget(s) \/ ImportBudgets(s)
  \/ MovePlanned(s) \/ UpsertGoal(s) \/ DeleteGoal(s)
=============================================================================
