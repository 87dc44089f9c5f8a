----------------------------- MODULE Categories -----------------------------
(***************************************************************************)
(* Categories of the owner (CategoryService): a tree of two levels, kept   *)
(* as a parent in the row of each child, and the set of categories that a  *)
(* new owner is given.                                                     *)
(***************************************************************************)
EXTENDS Tables

CONSTANTS
  ExpenseTree,  \* the default set: for the id of each parent its name and children
  IncomeTree    \* its flat income categories: a function from ids to names

Sibling(parent, name) ==
  {c \in Active(db.categories) :
     db.categories[c].parent = parent /\ db.categories[c].name = name}

HasChildren(c) == \E d \in Active(db.categories) : db.categories[d].parent = c

\* A fault for the runs: the level of the parent is not looked at.
IsLive(parent) == ~db.categories[parent].archived

MayHaveChildren(parent) ==
  db.categories[parent].parent = None /\ ~db.categories[parent].archived

\* A child takes the kind of its parent, whatever the client has sent.
CreateCategory(s) ==
  \E c \in CategoryIds \ Held("categories"), name \in Names, kind \in CategoryKinds,
     parent \in DOMAIN db.categories \cup {None} :
    /\ parent # None => MayHaveChildren(parent)
    /\ Sibling(parent, name) = {}
    /\ Look(s, "create_category",
            To("categories", c,
               Insert([name |-> name, parent |-> parent, archived |-> FALSE,
                       kind |-> IF parent = None THEN kind ELSE db.categories[parent].kind])))

\* CategoryUpdate has no kind and no parent; icon and order are left out.
UpdateCategory(s) ==
  \E c \in DOMAIN db.categories, name \in Names :
    LET row == db.categories[c] IN
    /\ name # row.name => Sibling(row.parent, name) \subseteq {c}
    /\ Look(s, "update_category",
            To("categories", c, Update(row, [name |-> name])))

ArchiveCategory(s) ==
  \E c \in DOMAIN db.categories :
    /\ ~HasChildren(c)
    /\ Look(s, "archive_category",
            To("categories", c, Update(db.categories[c], [archived |-> TRUE])))

AskCategories(s) == CreateCategory(s) \/ UpdateCategory(s) \/ ArchiveCategory(s)

\* _validate_category of budgets and of recurring expenses.
ForExpenses(c) ==
  /\ c \in DOMAIN db.categories
  /\ ~db.categories[c].archived
  /\ db.categories[c].kind = "expense"

-----------------------------------------------------------------------------
\* apply_defaults: the rows a new owner starts with.
DefaultRow(name, kind, parent) ==
  [name |-> name, kind |-> kind, parent |-> parent, archived |-> FALSE]

RootOf(c) == CHOOSE root \in DOMAIN ExpenseTree : c \in DOMAIN ExpenseTree[root].children

DefaultCategories ==
  LET below == UNION {DOMAIN ExpenseTree[root].children : root \in DOMAIN ExpenseTree}
  IN [c \in DOMAIN ExpenseTree \cup below \cup DOMAIN IncomeTree |->
        IF c \in DOMAIN ExpenseTree THEN DefaultRow(ExpenseTree[c].name, "expense", None)
        ELSE IF c \in below
          THEN DefaultRow(ExpenseTree[RootOf(c)].children[c], "expense", RootOf(c))
        ELSE DefaultRow(IncomeTree[c], "income", None)]
=============================================================================
