----------------------------- MODULE Recurring ------------------------------
(***************************************************************************)
(* Recurring expenses (RecurringService): the obligatory monthly payments  *)
(* of the owner by category, and the generator that proposes them from     *)
(* what has been spent.                                                    *)
(*                                                                         *)
(* The generator works on the three tables that it is given.               *)
(***************************************************************************)
EXTENDS Categories

MonthsWindow == 3  \* _MONTHS_WINDOW

\* required_spend_by_category, for the category of a proposal.
RequiredSpend(operations, window, c) ==
  LET counted == {o \in DOMAIN operations :
                    /\ operations[o].category = c
                    /\ operations[o].kind = "expense"
                    /\ operations[o].required
                    /\ operations[o].month \in window}
  IN SumOf([o \in counted |-> operations[o].amount])

Magnitude(n) == IF n < 0 THEN -n ELSE n

\* (abs(total) / 3), in hundredths, half up.  Amounts are whole hundredths.
Monthly(total) == (2 * Magnitude(total) + MonthsWindow) \div (2 * MonthsWindow)

Live(categories) ==
  {c \in DOMAIN categories : ~categories[c].archived /\ categories[c].kind = "expense"}

Planned(items) == {items[i].category : i \in Active(items)}

Children(categories, root) ==
  {c \in Live(categories) : categories[c].parent = root}

\* A fault for the runs: the generator does not look for details of a branch.
NeverDetailed(categories, items, root) == FALSE

Detailed(categories, items, root) ==
  Children(categories, root) \cap Planned(items) # {}

\* _build_generation_proposals: a root that is not planned, nor any of its
\* children, is proposed with the spending of the whole branch; where some of
\* the children are planned, each of the others on its own; and a child whose
\* parent is not in the list on its own too.
ProposedFor(categories, items, c) ==
  LET parent == categories[c].parent
      offered ==
        IF parent = None THEN ~Detailed(categories, items, c)
        ELSE parent \in Live(categories) =>
               parent \notin Planned(items) /\ Detailed(categories, items, parent)
  IN IF c \in Planned(items) \/ ~offered THEN {}
     ELSE {c} \cup IF parent = None THEN Children(categories, c) ELSE {}

\* The categories whose spending the proposal for c is made of, with the sum.
Proposals(categories, operations, items, window) ==
  LET amount(c) ==
        LET scope == ProposedFor(categories, items, c)
        IN Monthly(SumOf([d \in scope |-> RequiredSpend(operations, window, d)]))
  IN [c \in {d \in Live(categories) : amount(d) > 0} |-> amount(c)]

-----------------------------------------------------------------------------
\* Amounts are in roubles, of which the rate is one.
CreateRecurring(s) ==
  \E i \in ItemIds \ Held("items"), c \in CategoryIds :
    /\ ForExpenses(c)
    /\ Look(s, "create_recurring",
            To("items", i, Insert([category |-> c, monthly |-> 1, archived |-> FALSE])))

UpdateRecurring(s) ==
  \E i \in DOMAIN db.items, c \in CategoryIds :
    /\ ForExpenses(c)
    /\ Look(s, "update_recurring",
            To("items", i, Update(db.items[i], [category |-> c])))

ArchiveRecurring(s) ==
  \E i \in DOMAIN db.items :
    Look(s, "archive_recurring",
         To("items", i, Update(db.items[i], [archived |-> TRUE])))

\* generate_from_categories: all of the categories asked for are still
\* proposed, and each becomes an item of its own.
GenerateRecurring(s) ==
  LET proposed == Proposals(db.categories, db.operations, db.items, Months)
  IN \E chosen \in (SUBSET DOMAIN proposed) \ {{}},
        ids \in SUBSET (ItemIds \ Held("items")) :
       /\ Cardinality(ids) = Cardinality(chosen)
       /\ \E of \in [ids -> chosen] :
            /\ {of[i] : i \in ids} = chosen
            /\ Look(s, "generate_from_categories",
                    [Nowhere EXCEPT !.items =
                       [i \in ids |->
                          Insert([category |-> of[i], monthly |-> proposed[of[i]],
                                  archived |-> FALSE])]])

AskRecurring(s) ==
  \/ CreateRecurring(s) \/ UpdateRecurring(s) \/ ArchiveRecurring(s)
  \/ GenerateRecurring(s)
=============================================================================
