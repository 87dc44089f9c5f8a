-------------------------- MODULE RegistersProofs ---------------------------
(***************************************************************************)
(* Proofs about the registers of the backend: for any sessions, ids,       *)
(* names, months, requests, rows to begin with and backups.                *)
(***************************************************************************)
EXTENDS Registers, SumsProofs

-----------------------------------------------------------------------------
(* Rows and changes of rows.                                               *)

RowType ==
  [accounts |-> Account, categories |-> Category(Ids), payees |-> Payee(Ids),
   operations |-> Operation(Ids), items |-> Item(Ids), plans |-> Plan(Ids),
   goals |-> Goal(Ids)]

Overwritten(row, columns) ==
  [c \in DOMAIN row |-> IF c \in DOMAIN columns THEN columns[c] ELSE row[c]]

\* The change leaves rows of the type.
Apt(change, rows) ==
  /\ change.do = "insert" => change.columns \in rows
  /\ change.do = "update" => \A row \in rows : Overwritten(row, change.columns) \in rows

\* What was computed from a row changes the columns that were given.
LEMMA UpdateOf ==
  ASSUME NEW row, NEW new
  PROVE  /\ Update(row, new).do = "update"
         /\ DOMAIN Update(row, new).columns = {c \in DOMAIN new : new[c] # row[c]}
         /\ \A c \in DOMAIN Update(row, new).columns : Update(row, new).columns[c] = new[c]
  BY DEF Update

\* A row that is added is written as it is.
LEMMA InsertOf ==
  ASSUME NEW row
  PROVE  Insert(row).do = "insert" /\ Insert(row).columns = row
  BY DEF Insert

\* A deletion is no other change.
LEMMA DeleteOf == Delete.do = "delete"
  BY DEF Delete

\* Accounts.
LEMMA AccountApt ==
  ASSUME NEW row, NEW new, DOMAIN new \subseteq {"name", "initial", "archived"},
         "name" \in DOMAIN new => new.name \in Names,
         "initial" \in DOMAIN new => new.initial \in Int,
         "archived" \in DOMAIN new => new.archived \in BOOLEAN
  PROVE  Apt(Update(row, new), Account)
<1> SUFFICES ASSUME NEW other \in Account
             PROVE  Overwritten(other, Update(row, new).columns) \in Account
  BY UpdateOf DEF Apt
<1>1. /\ other.name \in Names /\ other.initial \in Int /\ other.archived \in BOOLEAN
      /\ DOMAIN other = {"name", "initial", "archived"}
  BY DEF Account
<1> DEFINE cols == Update(row, new).columns
           all == Overwritten(other, cols)
<1>2. DOMAIN cols \subseteq DOMAIN new /\ \A c \in DOMAIN cols : cols[c] = new[c]
  BY UpdateOf
<1>. HIDE DEF cols
<1>3. /\ all.name \in Names /\ all.initial \in Int /\ all.archived \in BOOLEAN
      /\ all = [c \in {"name", "initial", "archived"} |-> all[c]]
  BY <1>1, <1>2 DEF Overwritten
<1>. HIDE DEF all
<1>4. all = [name |-> all.name, initial |-> all.initial, archived |-> all.archived]
  BY <1>3
<1>. QED BY <1>3, <1>4 DEF Account, all, cols

\* Rows of Category.
LEMMA CategoryRow ==
  ASSUME NEW row \in Category(Ids)
  PROVE  /\ row.name \in Names /\ row.kind \in CategoryKinds
         /\ row.parent \in CategoryIds \cup {None} /\ row.archived \in BOOLEAN
         /\ DOMAIN row = {"name", "kind", "parent", "archived"}
  BY DEF Category, Ids

\* The columns that handlers set of a category, when they are of its types.
LEMMA CategoryApt ==
  ASSUME NEW row, NEW new, DOMAIN new \subseteq {"name", "archived"},
         "name" \in DOMAIN new => new.name \in Names,
         "archived" \in DOMAIN new => new.archived \in BOOLEAN
  PROVE  Apt(Update(row, new), Category(Ids))
<1> SUFFICES ASSUME NEW other \in Category(Ids)
             PROVE  Overwritten(other, Update(row, new).columns) \in Category(Ids)
  BY UpdateOf DEF Apt
<1> DEFINE cols == Update(row, new).columns
           all == Overwritten(other, cols)
<1>2. DOMAIN cols \subseteq DOMAIN new /\ \A c \in DOMAIN cols : cols[c] = new[c]
  BY UpdateOf
<1>. HIDE DEF cols
<1>3. /\ all.name \in Names /\ all.kind \in CategoryKinds
      /\ all.parent \in CategoryIds \cup {None} /\ all.archived \in BOOLEAN
      /\ all = [c \in {"name", "kind", "parent", "archived"} |-> all[c]]
  BY CategoryRow, <1>2 DEF Overwritten
<1>. HIDE DEF all
<1>4. all = [name |-> all.name, kind |-> all.kind, parent |-> all.parent,
              archived |-> all.archived]
  BY <1>3
<1>. QED BY <1>3, <1>4 DEF Category, Ids, all, cols

\* Rows of Payee.
LEMMA PayeeRow ==
  ASSUME NEW row \in Payee(Ids)
  PROVE  /\ row.key \in Keys /\ row.last \in CategoryIds \cup {None} /\ row.varied \in BOOLEAN
         /\ DOMAIN row = {"key", "last", "varied"}
  BY DEF Payee, Ids

\* The columns that handlers set of a payee.
LEMMA PayeeApt ==
  ASSUME NEW row, NEW new, DOMAIN new \subseteq {"key", "last", "varied"},
         "key" \in DOMAIN new => new.key \in Keys,
         "last" \in DOMAIN new => new.last \in CategoryIds \cup {None},
         "varied" \in DOMAIN new => new.varied \in BOOLEAN
  PROVE  Apt(Update(row, new), Payee(Ids))
<1> SUFFICES ASSUME NEW other \in Payee(Ids)
             PROVE  Overwritten(other, Update(row, new).columns) \in Payee(Ids)
  BY UpdateOf DEF Apt
<1> DEFINE cols == Update(row, new).columns
           all == Overwritten(other, cols)
<1>2. DOMAIN cols \subseteq DOMAIN new /\ \A c \in DOMAIN cols : cols[c] = new[c]
  BY UpdateOf
<1>. HIDE DEF cols
<1>3. /\ all.key \in Keys /\ all.last \in CategoryIds \cup {None} /\ all.varied \in BOOLEAN
      /\ all = [c \in {"key", "last", "varied"} |-> all[c]]
  BY PayeeRow, <1>2 DEF Overwritten
<1>. HIDE DEF all
<1>4. all = [key |-> all.key, last |-> all.last, varied |-> all.varied]
  BY <1>3
<1>. QED BY <1>3, <1>4 DEF Payee, Ids, all, cols

\* Rows of Operation.
LEMMA OperationRow ==
  ASSUME NEW row \in Operation(Ids)
  PROVE  /\ row.account \in AccountIds /\ row.kind \in OperationKinds /\ row.amount \in Int
         /\ row.category \in CategoryIds \cup {None} /\ row.payee \in PayeeIds \cup {None}
         /\ row.required \in BOOLEAN /\ row.month \in Months
         /\ DOMAIN row = {"account", "kind", "amount", "category", "payee", "required", "month"}
  BY DEF Operation, Ids

\* The columns that handlers set of an operation.
LEMMA OperationApt ==
  ASSUME NEW row, NEW new, DOMAIN new \subseteq {"category", "payee"},
         "category" \in DOMAIN new => new.category \in CategoryIds \cup {None},
         "payee" \in DOMAIN new => new.payee \in PayeeIds \cup {None}
  PROVE  Apt(Update(row, new), Operation(Ids))
<1> SUFFICES ASSUME NEW other \in Operation(Ids)
             PROVE  Overwritten(other, Update(row, new).columns) \in Operation(Ids)
  BY UpdateOf DEF Apt
<1> DEFINE cols == Update(row, new).columns
           all == Overwritten(other, cols)
<1>2. DOMAIN cols \subseteq DOMAIN new /\ \A c \in DOMAIN cols : cols[c] = new[c]
  BY UpdateOf
<1>. HIDE DEF cols
<1>3. /\ all.account \in AccountIds /\ all.kind \in OperationKinds /\ all.amount \in Int
      /\ all.category \in CategoryIds \cup {None} /\ all.payee \in PayeeIds \cup {None}
      /\ all.required \in BOOLEAN /\ all.month \in Months
      /\ all = [c \in {"account", "kind", "amount", "category", "payee", "required", "month"} |-> all[c]]
  BY OperationRow, <1>2 DEF Overwritten
<1>. HIDE DEF all
<1>4. all = [account |-> all.account, kind |-> all.kind, amount |-> all.amount,
              category |-> all.category, payee |-> all.payee, required |-> all.required,
              month |-> all.month]
  BY <1>3
<1>. QED BY <1>3, <1>4 DEF Operation, Ids, all, cols

\* Rows of Item.
LEMMA ItemRow ==
  ASSUME NEW row \in Item(Ids)
  PROVE  /\ row.category \in CategoryIds /\ row.monthly \in Nat /\ row.archived \in BOOLEAN
         /\ DOMAIN row = {"category", "monthly", "archived"}
  BY DEF Item, Ids

\* The columns that handlers set of a recurring expense.
LEMMA ItemApt ==
  ASSUME NEW row, NEW new, DOMAIN new \subseteq {"category", "archived"},
         "category" \in DOMAIN new => new.category \in CategoryIds,
         "archived" \in DOMAIN new => new.archived \in BOOLEAN
  PROVE  Apt(Update(row, new), Item(Ids))
<1> SUFFICES ASSUME NEW other \in Item(Ids)
             PROVE  Overwritten(other, Update(row, new).columns) \in Item(Ids)
  BY UpdateOf DEF Apt
<1> DEFINE cols == Update(row, new).columns
           all == Overwritten(other, cols)
<1>2. DOMAIN cols \subseteq DOMAIN new /\ \A c \in DOMAIN cols : cols[c] = new[c]
  BY UpdateOf
<1>. HIDE DEF cols
<1>3. /\ all.category \in CategoryIds /\ all.monthly \in Nat /\ all.archived \in BOOLEAN
      /\ all = [c \in {"category", "monthly", "archived"} |-> all[c]]
  BY ItemRow, <1>2 DEF Overwritten
<1>. HIDE DEF all
<1>4. all = [category |-> all.category, monthly |-> all.monthly, archived |-> all.archived]
  BY <1>3
<1>. QED BY <1>3, <1>4 DEF Item, Ids, all, cols

\* Rows of Plan.
LEMMA PlanRow ==
  ASSUME NEW row \in Plan(Ids)
  PROVE  /\ row.month \in Months /\ row.category \in CategoryIds /\ row.planned \in Int
         /\ row.rollover \in BOOLEAN
         /\ DOMAIN row = {"month", "category", "planned", "rollover"}
  BY DEF Plan, Ids

\* The columns that handlers set of a plan.
LEMMA PlanApt ==
  ASSUME NEW row, NEW new, DOMAIN new \subseteq {"planned", "rollover"},
         "planned" \in DOMAIN new => new.planned \in Int,
         "rollover" \in DOMAIN new => new.rollover \in BOOLEAN
  PROVE  Apt(Update(row, new), Plan(Ids))
<1> SUFFICES ASSUME NEW other \in Plan(Ids)
             PROVE  Overwritten(other, Update(row, new).columns) \in Plan(Ids)
  BY UpdateOf DEF Apt
<1> DEFINE cols == Update(row, new).columns
           all == Overwritten(other, cols)
<1>2. DOMAIN cols \subseteq DOMAIN new /\ \A c \in DOMAIN cols : cols[c] = new[c]
  BY UpdateOf
<1>. HIDE DEF cols
<1>3. /\ all.month \in Months /\ all.category \in CategoryIds /\ all.planned \in Int
      /\ all.rollover \in BOOLEAN
      /\ all = [c \in {"month", "category", "planned", "rollover"} |-> all[c]]
  BY PlanRow, <1>2 DEF Overwritten
<1>. HIDE DEF all
<1>4. all = [month |-> all.month, category |-> all.category, planned |-> all.planned,
              rollover |-> all.rollover]
  BY <1>3
<1>. QED BY <1>3, <1>4 DEF Plan, Ids, all, cols

\* Rows of Goal.
LEMMA GoalRow ==
  ASSUME NEW row \in Goal(Ids)
  PROVE  /\ row.category \in CategoryIds /\ row.kind \in GoalKinds /\ row.amount \in Nat
         /\ row.due \in Months \cup {None}
         /\ DOMAIN row = {"category", "kind", "amount", "due"}
  BY DEF Goal, Ids

\* The columns that handlers set of a goal.
LEMMA GoalApt ==
  ASSUME NEW row, NEW new, DOMAIN new \subseteq {"category", "kind", "amount", "due"},
         "category" \in DOMAIN new => new.category \in CategoryIds,
         "kind" \in DOMAIN new => new.kind \in GoalKinds,
         "amount" \in DOMAIN new => new.amount \in Nat,
         "due" \in DOMAIN new => new.due \in Months \cup {None}
  PROVE  Apt(Update(row, new), Goal(Ids))
<1> SUFFICES ASSUME NEW other \in Goal(Ids)
             PROVE  Overwritten(other, Update(row, new).columns) \in Goal(Ids)
  BY UpdateOf DEF Apt
<1> DEFINE cols == Update(row, new).columns
           all == Overwritten(other, cols)
<1>2. DOMAIN cols \subseteq DOMAIN new /\ \A c \in DOMAIN cols : cols[c] = new[c]
  BY UpdateOf
<1>. HIDE DEF cols
<1>3. /\ all.category \in CategoryIds /\ all.kind \in GoalKinds /\ all.amount \in Nat
      /\ all.due \in Months \cup {None}
      /\ all = [c \in {"category", "kind", "amount", "due"} |-> all[c]]
  BY GoalRow, <1>2 DEF Overwritten
<1>. HIDE DEF all
<1>4. all = [category |-> all.category, kind |-> all.kind, amount |-> all.amount,
              due |-> all.due]
  BY <1>3
<1>. QED BY <1>3, <1>4 DEF Goal, Ids, all, cols

-----------------------------------------------------------------------------
(* The inductive invariant.                                                *)

\* The changes write a reference to the category.
Refers(changes, c) ==
  \E ref \in References : \E r \in DOMAIN changes[ref.of] :
    /\ ref.to = "categories"
    /\ Writes(changes[ref.of][r], ref.column)
    /\ changes[ref.of][r].columns[ref.column] = c

Adds(changes, c) ==
  c \in DOMAIN changes.categories /\ changes.categories[c].do = "insert"

\* The rows that are written have the types of their tables.
FitTypes(changes) ==
  \A t \in TableNames :
    /\ DOMAIN changes[t] \subseteq Ids[t]
    /\ \A i \in DOMAIN changes[t] : Apt(changes[t][i], RowType[t])

\* A category keeps its kind and its parent, a plan its category, and no plan becomes
\* negative.
FitColumns(changes) ==
  /\ \A c \in DOMAIN changes.categories :
       changes.categories[c].do = "update" =>
         {"kind", "parent"} \cap DOMAIN changes.categories[c].columns = {}
  /\ \A b \in DOMAIN changes.plans :
       LET change == changes.plans[b] IN
       /\ change.do = "update" => "category" \notin DOMAIN change.columns
       /\ Writes(change, "planned") => change.columns.planned >= 0

\* If there is such a category, now or with these changes, it is of expenses.
IfAnyOfExpenses(changes, categories, c) ==
  /\ c \in DOMAIN categories => categories[c].kind = "expense"
  /\ Adds(changes, c) => changes.categories[c].columns.kind = "expense"

IfAnyRootOf(changes, categories, c, kind) ==
  /\ c \in DOMAIN categories =>
       categories[c].parent = None /\ categories[c].kind = kind
  /\ Adds(changes, c) =>
       /\ changes.categories[c].columns.parent = None
       /\ changes.categories[c].columns.kind = kind

\* What is written refers to categories that fit, if they are still there.
FitCategories(changes, categories) ==
  /\ \A c \in DOMAIN changes.categories :
       LET row == changes.categories[c].columns IN
       Adds(changes, c) /\ row.parent # None => IfAnyRootOf(changes, categories, row.parent, row.kind)
  /\ \A t \in {"plans", "items"} : \A r \in DOMAIN changes[t] :
       Writes(changes[t][r], "category") =>
         IfAnyOfExpenses(changes, categories, changes[t][r].columns.category)

Fit(changes, categories) ==
  FitTypes(changes) /\ FitColumns(changes) /\ FitCategories(changes, categories)

Busy(s) == work[s] # None

\* A category that a session adds is not there, and no other session knows of it.
Apart ==
  \A s \in Sessions : Busy(s) =>
    \A c \in DOMAIN work[s].changes.categories : Adds(work[s].changes, c) =>
      /\ c \notin DOMAIN db.categories
      /\ \A t \in Sessions \ {s} : Busy(t) =>
           c \notin DOMAIN work[t].changes.categories /\ ~Refers(work[t].changes, c)

\* The tables that changes would leave.
Result(tables, changes) ==
  LET flushed == [t \in TableNames |-> Flushed(tables[t], changes[t])]
  IN [flushed EXCEPT !.operations = LetGo(@, "payee", flushed.payees),
                     !.payees = LetGo(@, "last", flushed.categories),
                     !.goals = Kept(@, flushed.categories)]

\* Until a session that was overtaken has committed, the rows are in order, and what a
\* session that was not overtaken commits leaves them so.
OrderInv ==
  ~raced =>
    /\ InOrder(db)
    /\ \A s \in Sessions \ stale : Busy(s) => InOrder(Result(db, work[s].changes))

RowsInv ==
  /\ TypeOK
  /\ Whole(db)
  /\ Agree(db)
  /\ work = [s \in Sessions |-> work[s]]
  /\ \A s \in Sessions : Busy(s) => Fit(work[s].changes, db.categories)
  /\ Apart
  /\ OrderInv

-----------------------------------------------------------------------------
(* A commit.                                                               *)

\* The tables, their ids and their rows by name.
LEMMA IdsOf ==
  /\ TableNames = {"accounts", "categories", "payees", "operations", "items", "plans", "goals"}
  /\ Ids.accounts = AccountIds /\ Ids.categories = CategoryIds /\ Ids.payees = PayeeIds
  /\ Ids.operations = OperationIds /\ Ids.items = ItemIds /\ Ids.plans = PlanIds
  /\ Ids.goals = GoalIds
  /\ RowType.accounts = Account /\ RowType.categories = Category(Ids)
  /\ RowType.payees = Payee(Ids) /\ RowType.operations = Operation(Ids)
  /\ RowType.items = Item(Ids) /\ RowType.plans = Plan(Ids) /\ RowType.goals = Goal(Ids)
  /\ \A t \in TableNames : IsFiniteSet(Ids[t]) /\ None \notin Ids[t]
  BY RegistersAssumption DEF TableNames, Ids, RowType, RegistersAssumption

\* The rows of a table after its changes.
LEMMA FlushedRows ==
  ASSUME NEW table, NEW changes, NEW new, new = Flushed(table, changes)
  PROVE  /\ DOMAIN new =
              (DOMAIN table \cup {i \in DOMAIN changes : changes[i].do = "insert"})
                \ {i \in DOMAIN changes : changes[i].do = "delete"}
         /\ \A i \in DOMAIN new : i \in DOMAIN changes /\ changes[i].do = "insert" =>
              new[i] = changes[i].columns
         /\ \A i \in DOMAIN new : i \in DOMAIN changes /\ changes[i].do = "update" =>
              new[i] = Overwritten(table[i], changes[i].columns)
         /\ \A i \in DOMAIN new :
              i \notin DOMAIN changes \/ changes[i].do \notin {"insert", "update"} =>
                new[i] = table[i]
         /\ new = [i \in DOMAIN new |-> new[i]]
  BY DEF Flushed, Overwritten

\* Changes of the types of a table leave it typed.
LEMMA FlushedType ==
  ASSUME NEW table, NEW changes, NEW ids, NEW rows, IsTable(table, ids, rows),
         DOMAIN changes \subseteq ids, \A i \in DOMAIN changes : Apt(changes[i], rows)
  PROVE  IsTable(Flushed(table, changes), ids, rows)
<1>1. PICK new : new = Flushed(table, changes)
  OBVIOUS
<1>2. DOMAIN new =
        (DOMAIN table \cup {i \in DOMAIN changes : changes[i].do = "insert"})
          \ {i \in DOMAIN changes : changes[i].do = "delete"}
  BY <1>1 DEF Flushed
<1>3. new = [i \in DOMAIN new |-> new[i]]
  BY <1>1 DEF Flushed
<1>4. ASSUME NEW i \in DOMAIN table PROVE table[i] \in rows
  BY DEF IsTable
<1>5. ASSUME NEW i \in DOMAIN new PROVE new[i] \in rows
  <2>1. CASE i \in DOMAIN changes /\ changes[i].do = "insert"
    BY <1>1, <2>1 DEF Apt, Flushed
  <2>2. CASE i \in DOMAIN changes /\ changes[i].do = "update"
    <3>1. new[i] = Overwritten(table[i], changes[i].columns)
      BY <1>1, <2>2 DEF Flushed, Overwritten
    <3>2. table[i] \in rows
      BY <1>2, <1>4, <2>2
    <3>. QED BY <2>2, <3>1, <3>2 DEF Apt
  <2>3. CASE i \notin DOMAIN changes \/ changes[i].do \notin {"insert", "update"}
    BY <1>1, <1>2, <1>4, <2>3 DEF Flushed
  <2>. QED BY <2>1, <2>2, <2>3
<1>6. new \in [DOMAIN new -> rows] /\ DOMAIN new \subseteq ids
  BY <1>2, <1>3, <1>5 DEF IsTable
<1>. QED BY <1>1, <1>6 DEF IsTable

\* The tables after the commit.
LEMMA ResultTables ==
  ASSUME NEW tables, NEW changes
  PROVE  LET payees == Flushed(tables.payees, changes.payees)
             categories == Flushed(tables.categories, changes.categories)
             result == Result(tables, changes)
         IN /\ result.accounts = Flushed(tables.accounts, changes.accounts)
            /\ result.categories = categories
            /\ result.payees = LetGo(payees, "last", categories)
            /\ result.operations =
                 LetGo(Flushed(tables.operations, changes.operations), "payee", payees)
            /\ result.items = Flushed(tables.items, changes.items)
            /\ result.plans = Flushed(tables.plans, changes.plans)
            /\ result.goals = Kept(Flushed(tables.goals, changes.goals), categories)
  BY DEF Result, TableNames

\* The tables after the commit of a session.
LEMMA AfterTables ==
  ASSUME NEW s
  PROVE  LET changes == work[s].changes
             payees == Flushed(db.payees, changes.payees)
             categories == Flushed(db.categories, changes.categories)
         IN /\ After(s).accounts = Flushed(db.accounts, changes.accounts)
            /\ After(s).categories = categories
            /\ After(s).payees = LetGo(payees, "last", categories)
            /\ After(s).operations =
                 LetGo(Flushed(db.operations, changes.operations), "payee", payees)
            /\ After(s).items = Flushed(db.items, changes.items)
            /\ After(s).plans = Flushed(db.plans, changes.plans)
            /\ After(s).goals = Kept(Flushed(db.goals, changes.goals), categories)
  BY DEF After, TableNames

\* References that are let go of leave the rows typed.
LEMMA LetGoType ==
  ASSUME NEW table, NEW targets
  PROVE  /\ IsTable(table, PayeeIds, Payee(Ids)) =>
              IsTable(LetGo(table, "last", targets), PayeeIds, Payee(Ids))
         /\ IsTable(table, OperationIds, Operation(Ids)) =>
              IsTable(LetGo(table, "payee", targets), OperationIds, Operation(Ids))
<1>1. ASSUME NEW row \in Payee(Ids) PROVE [row EXCEPT !["last"] = None] \in Payee(Ids)
  BY DEF Payee
<1>2. ASSUME NEW row \in Operation(Ids) PROVE [row EXCEPT !["payee"] = None] \in Operation(Ids)
  BY DEF Operation
<1>. QED BY <1>1, <1>2 DEF LetGo, IsTable

\* The rows are typed after the commit.
LEMMA AfterType ==
  ASSUME RowsInv, NEW s \in Sessions, Busy(s)
  PROVE  Typed(After(s), Ids)
<1> DEFINE changes == work[s].changes
<1>1. Typed(db, Ids) /\ FitTypes(changes)
  BY DEF RowsInv, TypeOK, Fit
<1>2. /\ IsTable(Flushed(db.accounts, changes.accounts), AccountIds, Account)
      /\ IsTable(Flushed(db.categories, changes.categories), CategoryIds, Category(Ids))
      /\ IsTable(Flushed(db.payees, changes.payees), PayeeIds, Payee(Ids))
      /\ IsTable(Flushed(db.operations, changes.operations), OperationIds, Operation(Ids))
      /\ IsTable(Flushed(db.items, changes.items), ItemIds, Item(Ids))
      /\ IsTable(Flushed(db.plans, changes.plans), PlanIds, Plan(Ids))
      /\ IsTable(Flushed(db.goals, changes.goals), GoalIds, Goal(Ids))
  BY <1>1, IdsOf, FlushedType DEF Typed, FitTypes
<1>3. ASSUME NEW goals, NEW categories, IsTable(goals, GoalIds, Goal(Ids))
      PROVE  IsTable(Kept(goals, categories), GoalIds, Goal(Ids))
  BY <1>3 DEF Kept, IsTable
<1>. QED BY <1>2, <1>3, AfterTables, LetGoType, IdsOf DEF Typed

\* A category after the commit is one that the session has added, as it was added, or
\* was there, with its kind and its parent.
LEMMA CategoryAfter ==
  ASSUME RowsInv, NEW s \in Sessions, Busy(s), NEW c \in DOMAIN After(s).categories
  PROVE  \/ /\ Adds(work[s].changes, c)
            /\ c \notin DOMAIN db.categories
            /\ After(s).categories[c] = work[s].changes.categories[c].columns
         \/ /\ ~Adds(work[s].changes, c)
            /\ c \in DOMAIN db.categories
            /\ After(s).categories[c].kind = db.categories[c].kind
            /\ After(s).categories[c].parent = db.categories[c].parent
<1> DEFINE changes == work[s].changes.categories
<1>1. After(s).categories = Flushed(db.categories, changes)
  BY AfterTables
<1>2. PICK new : new = Flushed(db.categories, changes)
  OBVIOUS
<1>3. DOMAIN new =
        (DOMAIN db.categories \cup {i \in DOMAIN changes : changes[i].do = "insert"})
          \ {i \in DOMAIN changes : changes[i].do = "delete"}
  BY <1>2 DEF Flushed
<1>4. FitColumns(work[s].changes) /\ Typed(db, Ids)
  BY DEF RowsInv, Fit, TypeOK
<1>5. CASE Adds(work[s].changes, c)
  <2>1. c \notin DOMAIN db.categories
    BY <1>5 DEF RowsInv, Apart, Adds
  <2>2. new[c] = changes[c].columns
    BY <1>1, <1>2, <1>5 DEF Flushed, Adds
  <2>. QED BY <1>1, <1>2, <1>5, <2>1, <2>2
<1>6. CASE ~Adds(work[s].changes, c)
  <2>1. c \in DOMAIN db.categories
    BY <1>1, <1>2, <1>3, <1>6 DEF Adds
  <2>2. CASE c \in DOMAIN changes /\ changes[c].do = "update"
    <3>1. new[c] = Overwritten(db.categories[c], changes[c].columns)
      BY <1>1, <1>2, <2>2 DEF Flushed, Overwritten
    <3>2. {"kind", "parent"} \cap DOMAIN changes[c].columns = {}
      BY <1>4, <2>2 DEF FitColumns
    <3>3. db.categories[c] \in Category(Ids)
      BY <1>4, <2>1 DEF Typed, IsTable
    <3>4. {"kind", "parent"} \subseteq DOMAIN db.categories[c]
      BY <3>3 DEF Category
    <3>5. new[c].kind = db.categories[c].kind /\ new[c].parent = db.categories[c].parent
      BY <3>1, <3>2, <3>4 DEF Overwritten
    <3>. QED BY <1>1, <1>2, <1>6, <2>1, <3>5
  <2>3. CASE ~(c \in DOMAIN changes /\ changes[c].do = "update")
    <3>1. new[c] = db.categories[c]
      BY <1>1, <1>2, <1>6, <2>3 DEF Flushed, Adds
    <3>. QED BY <1>1, <1>2, <1>6, <2>1, <3>1
  <2>. QED BY <2>2, <2>3
<1>. QED BY <1>5, <1>6

\* The tree keeps its two levels.
LEMMA TreeAfter ==
  ASSUME RowsInv, NEW s \in Sessions, Busy(s), Whole(After(s))
  PROVE  TwoLevels(After(s).categories)
<1>1. PICK new : new = After(s).categories
  OBVIOUS
<1>2. SUFFICES ASSUME NEW c \in DOMAIN new, NEW p, p = new[c].parent, p # None
               PROVE  /\ p \in DOMAIN new
                      /\ new[p].parent = None
                      /\ new[p].kind = new[c].kind
  BY <1>1 DEF TwoLevels
<1>3. p \in DOMAIN new
  <2>1. [of |-> "categories", column |-> "parent", to |-> "categories"] \in References
    BY DEF References
  <2>2. new[c].parent \in DOMAIN new \cup {None}
    BY <1>1, <2>1 DEF Whole
  <2>. QED BY <1>2, <2>2
<1>4. \A d \in DOMAIN new :
        \/ /\ Adds(work[s].changes, d)
           /\ d \notin DOMAIN db.categories
           /\ new[d] = work[s].changes.categories[d].columns
        \/ /\ ~Adds(work[s].changes, d)
           /\ d \in DOMAIN db.categories
           /\ new[d].kind = db.categories[d].kind
           /\ new[d].parent = db.categories[d].parent
  BY <1>1, CategoryAfter
<1>5. CASE Adds(work[s].changes, c)
  <2>1. new[c] = work[s].changes.categories[c].columns
    BY <1>4, <1>5
  <2>2. IfAnyRootOf(work[s].changes, db.categories, p, new[c].kind)
    BY <1>2, <1>5, <2>1 DEF RowsInv, Fit, FitCategories, Adds
  <2>. QED BY <1>3, <1>4, <2>2 DEF IfAnyRootOf
<1>6. CASE ~Adds(work[s].changes, c)
  <2>1. /\ c \in DOMAIN db.categories
        /\ new[c].kind = db.categories[c].kind
        /\ db.categories[c].parent = p
    BY <1>2, <1>4, <1>6
  <2>2. /\ p \in DOMAIN db.categories
        /\ db.categories[p].parent = None
        /\ db.categories[p].kind = db.categories[c].kind
    BY <1>2, <2>1 DEF RowsInv, Agree, TwoLevels
  <2>. QED BY <1>3, <1>4, <2>1, <2>2
<1>. QED BY <1>5, <1>6

\* Plans and recurring expenses stay with categories of expenses.
LEMMA OfExpensesAfter ==
  ASSUME RowsInv, NEW s \in Sessions, Busy(s), Whole(After(s)), NEW t \in {"plans", "items"}
  PROVE  OfExpenses(After(s)[t], After(s).categories)
<1> DEFINE changes == work[s].changes[t]
<1>1. PICK new : new = After(s)[t]
  OBVIOUS
<1>2. PICK categories : categories = After(s).categories
  OBVIOUS
<1>3. new = Flushed(db[t], changes)
  BY <1>1, AfterTables
<1>4. SUFFICES ASSUME NEW r \in DOMAIN new
               PROVE  /\ new[r].category \in DOMAIN categories
                      /\ categories[new[r].category].kind = "expense"
  BY <1>1, <1>2 DEF OfExpenses
<1>5. new[r].category \in CategoryIds
  BY <1>1, <1>4, AfterType, IdsOf DEF Typed, IsTable, Plan, Item
<1>6. new[r].category \in DOMAIN categories
  <2>1. [of |-> t, column |-> "category", to |-> "categories"] \in References
    BY DEF References
  <2>2. new[r].category \in DOMAIN categories \cup {None}
    BY <1>1, <1>2, <1>4, <2>1 DEF Whole
  <2>. QED BY <1>5, <2>2, IdsOf DEF TableNames
<1>7. \A d \in DOMAIN categories :
        \/ /\ Adds(work[s].changes, d)
           /\ categories[d] = work[s].changes.categories[d].columns
        \/ /\ ~Adds(work[s].changes, d)
           /\ d \in DOMAIN db.categories
           /\ categories[d].kind = db.categories[d].kind
  BY <1>2, CategoryAfter
<1>8. CASE /\ r \in DOMAIN changes
           /\ Writes(changes[r], "category")
           /\ changes[r].columns.category = new[r].category
  <2>1. IfAnyOfExpenses(work[s].changes, db.categories, new[r].category)
    BY <1>8 DEF RowsInv, Fit, FitCategories
  <2>. QED BY <1>6, <1>7, <2>1 DEF IfAnyOfExpenses
<1>9. CASE r \in DOMAIN db[t] /\ db[t][r].category = new[r].category
  <2>1. db.categories[new[r].category].kind = "expense" /\ new[r].category \in DOMAIN db.categories
    BY <1>9 DEF RowsInv, Agree, PlansHold, OfExpenses
  <2>2. ~Adds(work[s].changes, new[r].category)
    BY <2>1 DEF RowsInv, Apart, Adds
  <2>. QED BY <1>6, <1>7, <2>1, <2>2
<1>10. CASE r \in DOMAIN changes /\ changes[r].do = "insert"
  <2>1. new[r] = changes[r].columns
    BY <1>3, <1>4, <1>10 DEF Flushed
  <2>2. Apt(changes[r], RowType[t])
    BY <1>10 DEF RowsInv, Fit, FitTypes, TableNames
  <2>3. changes[r].columns \in RowType[t]
    BY <1>10, <2>2 DEF Apt
  <2>4. "category" \in DOMAIN changes[r].columns
    BY <2>3, IdsOf, PlanRow, ItemRow
  <2>. QED BY <1>8, <1>10, <2>1, <2>4 DEF Writes
<1>11. CASE r \in DOMAIN changes /\ changes[r].do = "update"
  <2>1. new[r] = Overwritten(db[t][r], changes[r].columns) /\ r \in DOMAIN db[t]
    BY <1>3, <1>4, <1>11 DEF Flushed, Overwritten
  <2>2. db[t][r] \in RowType[t]
    BY <2>1, IdsOf DEF RowsInv, TypeOK, Typed, IsTable
  <2>3. "category" \in DOMAIN db[t][r]
    BY <2>2, IdsOf, PlanRow, ItemRow
  <2>4. CASE "category" \in DOMAIN changes[r].columns
    BY <1>8, <1>11, <2>1, <2>3, <2>4 DEF Overwritten, Writes
  <2>5. CASE "category" \notin DOMAIN changes[r].columns
    BY <1>9, <2>1, <2>3, <2>5 DEF Overwritten
  <2>. QED BY <2>4, <2>5
<1>12. CASE r \notin DOMAIN changes \/ changes[r].do \notin {"insert", "update"}
  <2>1. new[r] = db[t][r] /\ r \in DOMAIN db[t]
    BY <1>3, <1>4, <1>12 DEF Flushed
  <2>. QED BY <1>9, <2>1
<1>. QED BY <1>10, <1>11, <1>12

\* No plan becomes negative.
LEMMA PlannedAfter ==
  ASSUME RowsInv, NEW s \in Sessions, Busy(s), NEW b \in DOMAIN After(s).plans
  PROVE  After(s).plans[b].planned >= 0
<1> DEFINE changes == work[s].changes.plans
<1>1. PICK new : new = After(s).plans
  OBVIOUS
<1>2. new = Flushed(db.plans, changes)
  BY <1>1, AfterTables
<1>3. \A r \in DOMAIN changes :
        Writes(changes[r], "planned") => changes[r].columns.planned >= 0
  BY DEF RowsInv, Fit, FitColumns
<1>4. \A r \in DOMAIN db.plans : db.plans[r].planned >= 0 /\ db.plans[r] \in Plan(Ids)
  BY DEF RowsInv, Agree, PlansHold, TypeOK, Typed, IsTable
<1>5. CASE b \in DOMAIN changes /\ changes[b].do = "insert"
  <2>1. new[b] = changes[b].columns
    BY <1>1, <1>2, <1>5 DEF Flushed
  <2>2. Apt(changes[b], Plan(Ids))
    BY <1>5, IdsOf DEF RowsInv, Fit, FitTypes
  <2>3. "planned" \in DOMAIN changes[b].columns
    BY <1>5, <2>2, PlanRow DEF Apt
  <2>. QED BY <1>1, <1>3, <1>5, <2>1, <2>3 DEF Writes
<1>6. CASE b \in DOMAIN changes /\ changes[b].do = "update"
  <2>1. new[b] = Overwritten(db.plans[b], changes[b].columns) /\ b \in DOMAIN db.plans
    BY <1>1, <1>2, <1>6 DEF Flushed, Overwritten
  <2>2. "planned" \in DOMAIN db.plans[b]
    BY <1>4, <2>1, PlanRow
  <2>. QED BY <1>1, <1>3, <1>4, <1>6, <2>1, <2>2 DEF Writes, Overwritten
<1>7. CASE b \notin DOMAIN changes \/ changes[b].do \notin {"insert", "update"}
  <2>1. new[b] = db.plans[b] /\ b \in DOMAIN db.plans
    BY <1>1, <1>2, <1>7 DEF Flushed
  <2>. QED BY <1>1, <1>4, <2>1
<1>. QED BY <1>5, <1>6, <1>7

\* The rows agree after the commit.
LEMMA AgreeAfter ==
  ASSUME RowsInv, NEW s \in Sessions, Busy(s), Whole(After(s))
  PROVE  Agree(After(s))
<1>1. TwoLevels(After(s).categories)
  BY TreeAfter
<1>2. PlansHold(After(s))
  BY PlannedAfter, OfExpensesAfter DEF PlansHold
<1>3. [of |-> "operations", column |-> "payee", to |-> "payees"] \in References
  BY DEF References
<1>4. OperationsHavePayees(After(s))
  BY <1>3 DEF Whole, OperationsHavePayees
<1>. QED BY <1>1, <1>2, <1>4 DEF Agree


\* What fitted the tables fits them as a commit leaves them.
LEMMA FitKept ==
  ASSUME NEW changes, NEW old, NEW new, Fit(changes, old),
         \A c \in DOMAIN new : Refers(changes, c) =>
           /\ c \in DOMAIN old
           /\ new[c].kind = old[c].kind
           /\ new[c].parent = old[c].parent
  PROVE  Fit(changes, new)
<1>1. ASSUME NEW c \in DOMAIN changes.categories, Adds(changes, c),
             changes.categories[c].columns.parent # None
      PROVE  IfAnyRootOf(changes, new, changes.categories[c].columns.parent,
                         changes.categories[c].columns.kind)
  <2>1. PICK p : p = changes.categories[c].columns.parent
    OBVIOUS
  <2>2. Apt(changes.categories[c], Category(Ids))
    BY IdsOf DEF Fit, FitTypes
  <2>3. "parent" \in DOMAIN changes.categories[c].columns
    BY <1>1, <2>2, CategoryRow DEF Apt, Adds
  <2>4. Refers(changes, p)
    BY <1>1, <2>1, <2>3 DEF Refers, References, Writes, Adds
  <2>5. IfAnyRootOf(changes, old, p, changes.categories[c].columns.kind)
    BY <1>1, <2>1 DEF Fit, FitCategories
  <2>. QED BY <2>1, <2>4, <2>5 DEF IfAnyRootOf
<1>2. ASSUME NEW t \in {"plans", "items"}, NEW r \in DOMAIN changes[t],
             Writes(changes[t][r], "category")
      PROVE  IfAnyOfExpenses(changes, new, changes[t][r].columns.category)
  <2>1. PICK c : c = changes[t][r].columns.category
    OBVIOUS
  <2>2. [of |-> t, column |-> "category", to |-> "categories"] \in References
    BY DEF References
  <2>3. Refers(changes, c)
    BY <1>2, <2>1, <2>2 DEF Refers
  <2>4. IfAnyOfExpenses(changes, old, c)
    BY <1>2, <2>1 DEF Fit, FitCategories
  <2>. QED BY <2>1, <2>3, <2>4 DEF IfAnyOfExpenses
<1>. QED BY <1>1, <1>2 DEF Fit, FitCategories

\* A commit keeps the invariant.
LEMMA CommitKeeps ==
  ASSUME RowsInv, NEW s \in Sessions, Commit(s)
  PROVE  RowsInv'
<1>1. Busy(s) /\ Whole(After(s)) /\ db' = After(s)
  BY DEF Commit, Busy, Accepts
<1>2. work' = [work EXCEPT ![s] = None] /\ work = [t \in Sessions |-> work[t]]
  BY DEF Commit, RowsInv
<1>3. work'[s] = None /\ \A t \in Sessions \ {s} : work'[t] = work[t]
  BY <1>2
<1>4. work' = [t \in Sessions |-> work'[t]]
  BY <1>2
<1>5. TypeOK'
  <2>1. Typed(db, Ids)'
    BY <1>1, AfterType DEF Typed
  <2>2. stale' \subseteq {t \in Sessions : work'[t] # None}
    BY <1>3 DEF Commit, RowsInv, TypeOK
  <2>3. raced' \in BOOLEAN /\ received' \in 0 .. MaxRequests
    BY DEF Commit, RowsInv, TypeOK
  <2>. QED BY <2>1, <2>2, <2>3 DEF TypeOK
<1>6. Whole(db)' /\ Agree(db)'
  <2>1. Whole(After(s)) /\ Agree(After(s))
    BY <1>1, AgreeAfter
  <2>. QED BY <1>1, <2>1 DEF Whole, Agree, TwoLevels, PlansHold, OfExpenses, OperationsHavePayees
<1>7. ASSUME NEW t \in Sessions \ {s}, Busy(t), NEW c \in DOMAIN After(s).categories,
             Refers(work[t].changes, c)
      PROVE  /\ c \in DOMAIN db.categories
             /\ After(s).categories[c].kind = db.categories[c].kind
             /\ After(s).categories[c].parent = db.categories[c].parent
  <2>1. ~Adds(work[s].changes, c)
    BY <1>1, <1>7 DEF RowsInv, Apart, Adds
  <2>. QED BY <1>1, <2>1, CategoryAfter
<1>8. ASSUME NEW t \in Sessions \ {s}, Busy(t)
      PROVE  Fit(work[t].changes, After(s).categories)
  <2>1. Fit(work[t].changes, db.categories)
    BY <1>8 DEF RowsInv
  <2>. QED BY <1>7, <1>8, <2>1, FitKept
<1>9. \A t \in Sessions : Busy(t)' => Fit(work'[t].changes, db'.categories)
  BY <1>1, <1>3, <1>8 DEF Busy
<1>10. Apart'
  <2>1. ASSUME NEW t \in Sessions \ {s}, Busy(t), NEW c \in DOMAIN work[t].changes.categories,
               Adds(work[t].changes, c)
        PROVE  c \notin DOMAIN After(s).categories
    BY <1>1, <2>1, CategoryAfter DEF RowsInv, Apart, Adds
  <2>. QED BY <1>1, <1>3, <2>1 DEF RowsInv, Apart, Busy
<1>11. OrderInv'
  <2>1. raced' = (raced \/ s \in stale) /\ After(s) = Result(db, work[s].changes)
    BY DEF Commit, After, Result
  <2>2. stale' = IF db' = db THEN stale \ {s} ELSE {t \in Sessions \ {s} : work[t] # None}
    BY DEF Commit
  <2>3. ASSUME ~raced' PROVE InOrder(db')
    BY <1>1, <2>1, <2>3 DEF RowsInv, OrderInv
  <2>4. ASSUME ~raced', NEW t \in Sessions \ stale', work'[t] # None
        PROVE  InOrder(Result(db', work'[t].changes))
    <3>1. t # s /\ work'[t] = work[t]
      BY <1>3, <2>4
    <3>2. db' = db /\ t \notin stale
      BY <2>2, <2>4, <3>1
    <3>. QED BY <2>1, <2>4, <3>1, <3>2 DEF RowsInv, OrderInv, Busy
  <2>. QED BY <2>3, <2>4 DEF OrderInv, Busy
<1>. QED BY <1>4, <1>5, <1>6, <1>9, <1>10, <1>11 DEF RowsInv

\* The changes of a request that looks: what it adds has a new id, and it refers to
\* categories that are there or that it adds.
Drawn(changes) ==
  /\ \A c \in DOMAIN changes.categories :
       IF Adds(changes, c) THEN c \notin Held("categories") ELSE c \in DOMAIN db.categories
  /\ \A c : Refers(changes, c) =>
       c \in DOMAIN db.categories \cup {None} \/ Adds(changes, c)

\* No table and no session has a free id.
LEMMA FreeCategory ==
  ASSUME NEW c, c \notin Held("categories")
  PROVE  /\ c \notin DOMAIN db.categories
         /\ \A s \in Sessions : Busy(s) =>
              c \notin DOMAIN work[s].changes.categories /\ ~Refers(work[s].changes, c)
<1>1. c \notin DOMAIN db.categories
  BY DEF Held
<1> DEFINE into == {rf \in References : rf.to = "categories"}
           named(changes, rf) ==
             {changes[rf.of][i].columns[rf.column] :
                i \in {j \in DOMAIN changes[rf.of] : Writes(changes[rf.of][j], rf.column)}}
           led(changes) == UNION {named(changes, rf) : rf \in into}
           busy == {t \in Sessions : work[t] # None}
           of(t) == DOMAIN work[t].changes["categories"] \cup led(work[t].changes)
<1>2. Held("categories") = DOMAIN db["categories"] \cup UNION {of(t) : t \in busy}
  BY DEF Held
<1>. HIDE DEF named
<1>3. ASSUME NEW s \in Sessions, Busy(s), c \in of(s)
      PROVE  FALSE
  <2>1. s \in busy
    BY <1>3 DEF Busy
  <2>. HIDE DEF of, busy
  <2>2. c \in UNION {of(t) : t \in busy}
    BY <1>3, <2>1
  <2>. QED BY <1>2, <2>2
<1>4. ASSUME NEW s \in Sessions, Busy(s), c \in DOMAIN work[s].changes.categories
      PROVE  FALSE
  BY <1>3, <1>4
<1>5. ASSUME NEW s \in Sessions, Busy(s), Refers(work[s].changes, c)
      PROVE  FALSE
  <2>1. PICK ref \in References : \E r \in DOMAIN work[s].changes[ref.of] :
          /\ ref.to = "categories"
          /\ Writes(work[s].changes[ref.of][r], ref.column)
          /\ work[s].changes[ref.of][r].columns[ref.column] = c
    BY <1>5 DEF Refers
  <2>2. c \in named(work[s].changes, ref)
    BY <2>1 DEF named
  <2>3. c \in led(work[s].changes)
    BY <2>1, <2>2
  <2>. QED BY <1>3, <1>5, <2>3
<1>. QED BY <1>1, <1>4, <1>5

\* A request that looks keeps the invariant when its changes fit, its new ids are free and
\* the rows would be in order if it committed now.
LEMMA LookKeeps ==
  ASSUME RowsInv, NEW s \in Sessions, Idle(s), NEW handler, NEW changes,
         Look(s, handler, changes), Fit(changes, db.categories), Drawn(changes),
         InOrder(db) => InOrder(Result(db, changes))
  PROVE  RowsInv'
<1>1. /\ work[s] = None
      /\ work' = [work EXCEPT ![s] = [handler |-> handler, changes |-> changes]]
      /\ received' = received + 1 /\ received < MaxRequests
      /\ db' = db /\ stale' = stale /\ raced' = raced
  BY DEF Look, Idle
<1>2. work = [t \in Sessions |-> work[t]]
  BY DEF RowsInv
<1>3. work'[s].changes = changes /\ \A t \in Sessions \ {s} : work'[t] = work[t]
  BY <1>1, <1>2
<1>4. work' = [t \in Sessions |-> work'[t]]
  BY <1>1, <1>2
<1>5. TypeOK'
  <2>1. Typed(db, Ids)'
    BY <1>1 DEF RowsInv, TypeOK
  <2>2. stale' \subseteq {t \in Sessions : work'[t] # None}
    BY <1>1, <1>3 DEF RowsInv, TypeOK
  <2>3. raced' \in BOOLEAN /\ received' \in 0 .. MaxRequests
    BY <1>1, RegistersAssumption DEF RowsInv, TypeOK, RegistersAssumption
  <2>. QED BY <2>1, <2>2, <2>3 DEF TypeOK
<1>6. Whole(db)' /\ Agree(db)'
  BY <1>1 DEF RowsInv
<1>7. \A t \in Sessions : Busy(t)' => Fit(work'[t].changes, db'.categories)
  BY <1>1, <1>3 DEF RowsInv, Busy
<1>8. Apart'
  <2>1. ASSUME NEW c \in DOMAIN changes.categories, Adds(changes, c)
        PROVE  /\ c \notin DOMAIN db.categories
               /\ \A t \in Sessions \ {s} : Busy(t) =>
                    c \notin DOMAIN work[t].changes.categories /\ ~Refers(work[t].changes, c)
    BY <2>1, FreeCategory DEF Drawn
  <2>2. ASSUME NEW t \in Sessions \ {s}, Busy(t),
               NEW c \in DOMAIN work[t].changes.categories, Adds(work[t].changes, c)
        PROVE  /\ c \notin DOMAIN db.categories
               /\ c \notin DOMAIN changes.categories /\ ~Refers(changes, c)
    <3>1. c \notin DOMAIN db.categories
      BY <2>2 DEF RowsInv, Apart
    <3>2. c # None
      BY <2>2, IdsOf DEF RowsInv, Fit, FitTypes
    <3>3. c \in Held("categories")
      BY <2>2, FreeCategory
    <3>. QED BY <3>1, <3>2, <3>3 DEF Drawn, Adds
  <2>3. ASSUME NEW t \in Sessions \ {s}, Busy(t), NEW u \in Sessions \ {s, t}, Busy(u),
               NEW c \in DOMAIN work[t].changes.categories, Adds(work[t].changes, c)
        PROVE  c \notin DOMAIN work[u].changes.categories /\ ~Refers(work[u].changes, c)
    BY <2>3 DEF RowsInv, Apart
  <2>. QED BY <1>1, <1>3, <2>1, <2>2, <2>3 DEF Apart, Busy
<1>9. OrderInv'
  BY <1>1, <1>3 DEF RowsInv, OrderInv, Busy
<1>. QED BY <1>4, <1>5, <1>6, <1>7, <1>8, <1>9 DEF RowsInv

\* A request that is given up leaves the rows alone.
LEMMA RollBackKeeps ==
  ASSUME RowsInv, NEW s \in Sessions, RollBack(s)
  PROVE  RowsInv'
<1>1. /\ work' = [work EXCEPT ![s] = None] /\ stale' = stale \ {s}
      /\ db' = db /\ raced' = raced /\ received' = received
  BY DEF RollBack
<1>2. work = [t \in Sessions |-> work[t]]
  BY DEF RowsInv
<1>3. work'[s] = None /\ \A t \in Sessions \ {s} : work'[t] = work[t]
  BY <1>1, <1>2
<1>4. work' = [t \in Sessions |-> work'[t]]
  BY <1>1, <1>2
<1>5. TypeOK'
  BY <1>1, <1>3 DEF RowsInv, TypeOK
<1>6. Whole(db)' /\ Agree(db)'
  BY <1>1 DEF RowsInv
<1>7. \A t \in Sessions : Busy(t)' => Fit(work'[t].changes, db'.categories)
  BY <1>1, <1>3 DEF RowsInv, Busy
<1>8. Apart'
  BY <1>1, <1>3 DEF RowsInv, Apart, Busy
<1>9. OrderInv'
  BY <1>1, <1>3 DEF RowsInv, OrderInv, Busy
<1>. QED BY <1>4, <1>5, <1>6, <1>7, <1>8, <1>9 DEF RowsInv

\* Payees whose references a deletion takes away still forget.
LEMMA OrderFrom ==
  ASSUME NEW changes, NEW categories, NEW payees,
         categories = Flushed(db.categories, changes.categories),
         payees = Flushed(db.payees, changes.payees),
         RootNamesDistinct(categories), ParentsLive(categories), VariedForget(payees),
         IsTable(payees, PayeeIds, Payee(Ids))
  PROVE  InOrder(Result(db, changes))
<1> DEFINE result == Result(db, changes)
<1>1. result.categories = categories /\ result.payees = LetGo(payees, "last", categories)
  BY ResultTables
<1>2. VariedForget(LetGo(payees, "last", categories))
  <2>1. ASSUME NEW p \in DOMAIN payees
        PROVE  /\ LetGo(payees, "last", categories)[p].varied = payees[p].varied
               /\ LetGo(payees, "last", categories)[p].last \in {payees[p].last, None}
    <3>1. payees[p] \in Payee(Ids)
      BY DEF IsTable
    <3>. QED BY <3>1 DEF LetGo, Payee
  <2>. QED BY <2>1 DEF VariedForget, LetGo
<1>. HIDE DEF result
<1>. QED BY <1>1, <1>2 DEF InOrder, result

\* A table without changes stays.
LEMMA FlushedNone ==
  ASSUME NEW table, NEW changes, DOMAIN changes = {}, table = [i \in DOMAIN table |-> table[i]]
  PROVE  Flushed(table, changes) = table
  BY DEF Flushed

\* The value a row has after an UPDATE that was computed from it.
LEMMA OverwrittenUpdate ==
  ASSUME NEW row, NEW new, DOMAIN new \subseteq DOMAIN row
  PROVE  Overwritten(row, Update(row, new).columns)
           = [c \in DOMAIN row |-> IF c \in DOMAIN new THEN new[c] ELSE row[c]]
  BY UpdateOf DEF Overwritten

Forgets(row) == row.varied => row.last = None

\* The change leaves a payee that forgets, if it was one.
Forgetting(p, change) ==
  /\ change.do = "insert" => Forgets(change.columns)
  /\ change.do = "update" =>
       (p \in DOMAIN db.payees /\ Forgets(db.payees[p]) =>
          Forgets(Overwritten(db.payees[p], change.columns)))

\* Payees forget after changes that let them.
LEMMA PayeesForget ==
  ASSUME RowsInv, InOrder(db), NEW changes, \A p \in DOMAIN changes : Forgetting(p, changes[p])
  PROVE  VariedForget(Flushed(db.payees, changes))
<1>1. PICK new : new = Flushed(db.payees, changes)
  OBVIOUS
<1>2. SUFFICES ASSUME NEW p \in DOMAIN new PROVE Forgets(new[p])
  BY <1>1 DEF VariedForget, Forgets
<1>3. \A q \in DOMAIN db.payees : Forgets(db.payees[q])
  BY DEF InOrder, VariedForget, Forgets
<1>4. CASE p \in DOMAIN changes /\ changes[p].do = "insert"
  BY <1>1, <1>4 DEF Flushed, Forgetting
<1>5. CASE p \in DOMAIN changes /\ changes[p].do = "update"
  <2>1. p \in DOMAIN db.payees /\ new[p] = Overwritten(db.payees[p], changes[p].columns)
    BY <1>1, <1>5 DEF Flushed, Overwritten
  <2>. QED BY <1>3, <1>5, <2>1 DEF Forgetting
<1>6. CASE p \notin DOMAIN changes \/ changes[p].do \notin {"insert", "update"}
  <2>1. p \in DOMAIN db.payees /\ new[p] = db.payees[p]
    BY <1>1, <1>6 DEF Flushed
  <2>. QED BY <1>3, <2>1
<1>. QED BY <1>4, <1>5, <1>6

-----------------------------------------------------------------------------
(* Requests that do not touch categories.                                  *)

Known(change, column) ==
  Writes(change, column) => change.columns[column] \in DOMAIN db.categories \cup {None}

ForExpense(change) ==
  Writes(change, "category") =>
    /\ change.columns.category \in DOMAIN db.categories
    /\ db.categories[change.columns.category].kind = "expense"

\* A change that a handler may make of a row of the table.
Sound(t, i, change) ==
  /\ i \in Ids[t]
  /\ Apt(change, RowType[t])
  /\ t = "payees" => Known(change, "last") /\ Forgetting(i, change)
  /\ t \in {"operations", "goals"} => Known(change, "category")
  /\ t \in {"plans", "items"} => ForExpense(change)
  /\ t = "plans" =>
       /\ change.do = "update" => "category" \notin DOMAIN change.columns
       /\ Writes(change, "planned") => change.columns.planned >= 0

Plain(changes) ==
  /\ DOMAIN changes.categories = {}
  /\ \A t \in TableNames : \A i \in DOMAIN changes[t] : Sound(t, i, changes[t][i])

\* Such changes fit the categories, which stay.
LEMMA PlainFits ==
  ASSUME RowsInv, NEW changes, Plain(changes)
  PROVE  Fit(changes, db.categories) /\ Drawn(changes)
<1>1. FitTypes(changes)
  BY DEF Plain, Sound, FitTypes
<1>2. FitColumns(changes)
  BY IdsOf DEF Plain, Sound, FitColumns
<1>3. \A c : ~Adds(changes, c)
  BY DEF Plain, Adds
<1>4. FitCategories(changes, db.categories)
  <2>1. ASSUME NEW t \in {"plans", "items"}, NEW r \in DOMAIN changes[t],
               Writes(changes[t][r], "category")
        PROVE  IfAnyOfExpenses(changes, db.categories, changes[t][r].columns.category)
    <3>1. ForExpense(changes[t][r])
      BY DEF Plain, Sound, TableNames
    <3>. QED BY <1>3, <2>1, <3>1 DEF ForExpense, IfAnyOfExpenses
  <2>. QED BY <1>3, <2>1 DEF FitCategories
<1>5. ASSUME NEW c, Refers(changes, c)
      PROVE  c \in DOMAIN db.categories \cup {None}
  <2>1. PICK ref \in References : \E r \in DOMAIN changes[ref.of] :
          /\ ref.to = "categories"
          /\ Writes(changes[ref.of][r], ref.column)
          /\ changes[ref.of][r].columns[ref.column] = c
    BY <1>5 DEF Refers
  <2>2. PICK r \in DOMAIN changes[ref.of] :
          /\ ref.to = "categories"
          /\ Writes(changes[ref.of][r], ref.column)
          /\ changes[ref.of][r].columns[ref.column] = c
    BY <2>1
  <2>3. ref.of \in TableNames
    BY DEF References, TableNames
  <2>4. Sound(ref.of, r, changes[ref.of][r])
    BY <2>3 DEF Plain
  <2>5. \/ ref.of = "categories"
        \/ ref.of = "payees" /\ ref.column = "last"
        \/ ref.of \in {"operations", "goals", "plans", "items"} /\ ref.column = "category"
    BY <2>2 DEF References
  <2>6. ref.of # "categories"
    BY DEF Plain
  <2>. QED BY <2>2, <2>4, <2>5, <2>6 DEF Sound, Known, ForExpense
<1>. QED BY <1>1, <1>2, <1>3, <1>4, <1>5 DEF Fit, Drawn, Adds, Plain

\* Nor do they put the rows out of order.
LEMMA PlainOrder ==
  ASSUME RowsInv, NEW changes, Plain(changes), InOrder(db)
  PROVE  InOrder(Result(db, changes))
<1> DEFINE payees == Flushed(db.payees, changes.payees)
<1>1. /\ IsTable(db.payees, PayeeIds, Payee(Ids))
      /\ IsTable(db.categories, CategoryIds, Category(Ids))
  BY IdsOf DEF RowsInv, TypeOK, Typed
<1>2. IsTable(payees, PayeeIds, Payee(Ids))
  BY <1>1, IdsOf, FlushedType DEF Plain, Sound
<1>3. VariedForget(payees)
  BY PayeesForget, IdsOf DEF Plain, Sound
<1>4. Flushed(db.categories, changes.categories) = db.categories
  BY <1>1, FlushedNone DEF Plain, IsTable
<1>. HIDE DEF payees
<1>. QED BY <1>2, <1>3, <1>4, OrderFrom DEF InOrder, payees

\* So a request that makes such changes keeps the invariant.
LEMMA PlainLook ==
  ASSUME RowsInv, NEW s \in Sessions, Idle(s), NEW handler, NEW changes,
         Look(s, handler, changes), Plain(changes)
  PROVE  RowsInv'
  BY PlainFits, PlainOrder, LookKeeps

\* Changes of one table.
LEMMA OneTable ==
  ASSUME NEW t \in TableNames, NEW rows
  PROVE  LET changes == [Nowhere EXCEPT ![t] = rows] IN
         /\ changes[t] = rows
         /\ \A u \in TableNames \ {t} : changes[u] = <<>>
         /\ DOMAIN <<>> = {}
  BY DEF Nowhere

\* Sound changes of one table are plain,
LEMMA OneTablePlain ==
  ASSUME NEW t \in TableNames \ {"categories"}, NEW rows,
         \A i \in DOMAIN rows : Sound(t, i, rows[i])
  PROVE  Plain([Nowhere EXCEPT ![t] = rows])
  BY OneTable DEF Plain, TableNames

\* and so is a sound change of one row.
LEMMA ToPlain ==
  ASSUME NEW t \in TableNames \ {"categories"}, NEW i, NEW change, Sound(t, i, change)
  PROVE  Plain(To(t, i, change))
<1> DEFINE rows == [r \in {i} |-> change]
<1>1. \A r \in DOMAIN rows : Sound(t, r, rows[r])
  OBVIOUS
<1>. HIDE DEF rows
<1>2. Plain([Nowhere EXCEPT ![t] = rows])
  BY <1>1, OneTablePlain
<1>. QED BY <1>2 DEF To, rows

\* A row of the type of the table may be added,
LEMMA InsertApt ==
  ASSUME NEW rows, NEW row \in rows
  PROVE  Apt(Insert(row), rows)
  BY DEF Apt, Insert

\* and any may be deleted.
LEMMA DeleteSound ==
  ASSUME NEW t \in TableNames, NEW i \in Ids[t]
  PROVE  Sound(t, i, Delete)
  BY DEF Sound, Apt, Delete, Known, ForExpense, Writes, Forgetting

-----------------------------------------------------------------------------
(* Accounts.                                                               *)

\* A change of an account is sound when it has the types of its columns.
LEMMA AccountSound ==
  ASSUME NEW i \in AccountIds, NEW change, Apt(change, Account)
  PROVE  Sound("accounts", i, change)
  BY IdsOf DEF Sound

\* So is a request that changes one account.
LEMMA AccountLook ==
  ASSUME RowsInv, NEW s \in Sessions, Idle(s), NEW handler, NEW i \in AccountIds, NEW change,
         Look(s, handler, To("accounts", i, change)), Apt(change, Account)
  PROVE  RowsInv'
  BY AccountSound, ToPlain, PlainLook, IdsOf

\* AccountService: create, update, archive, restore.
LEMMA AccountsKeep ==
  ASSUME RowsInv, NEW s \in Sessions, Idle(s), AskAccounts(s)
  PROVE  RowsInv'
<1>1. DOMAIN db.accounts \subseteq AccountIds
  BY IdsOf DEF RowsInv, TypeOK, Typed, IsTable
<1>2. CASE CreateAccount(s)
  <2>1. PICK a \in AccountIds, name \in Names, initial \in Balances :
          Look(s, "create_account",
            To("accounts", a, Insert([name |-> name, initial |-> initial, archived |-> FALSE])))
    BY <1>2 DEF CreateAccount
  <2>2. [name |-> name, initial |-> initial, archived |-> FALSE] \in Account
    BY InputsAssumption DEF Account, InputsAssumption
  <2>. QED BY <2>1, <2>2, InsertApt, AccountLook
<1>3. CASE UpdateAccount(s)
  <2>1. PICK a \in DOMAIN db.accounts,
             new \in [name : Names] \cup [initial : Balances] \cup [name : Names, initial : Balances] :
          Look(s, "update_account", To("accounts", a, Update(db.accounts[a], new)))
    BY <1>3 DEF UpdateAccount
  <2>2. /\ DOMAIN new \subseteq {"name", "initial", "archived"}
        /\ "name" \in DOMAIN new => new.name \in Names
        /\ "initial" \in DOMAIN new => new.initial \in Int
        /\ "archived" \notin DOMAIN new
    BY InputsAssumption DEF InputsAssumption
  <2>3. Apt(Update(db.accounts[a], new), Account)
    BY <2>2, AccountApt
  <2>. QED BY <1>1, <2>1, <2>3, AccountLook
<1>4. CASE ArchiveAccount(s)
  <2>1. PICK a \in DOMAIN db.accounts :
          Look(s, "archive_account",
            To("accounts", a, Update(db.accounts[a], [archived |-> TRUE])))
    BY <1>4 DEF ArchiveAccount
  <2>2. Apt(Update(db.accounts[a], [archived |-> TRUE]), Account)
    BY AccountApt
  <2>. QED BY <1>1, <2>1, <2>2, AccountLook
<1>5. CASE RestoreAccount(s)
  <2>1. PICK a \in DOMAIN db.accounts :
          Look(s, "restore_account",
            To("accounts", a, Update(db.accounts[a], [archived |-> FALSE])))
    BY <1>5 DEF RestoreAccount
  <2>2. Apt(Update(db.accounts[a], [archived |-> FALSE]), Account)
    BY AccountApt
  <2>. QED BY <1>1, <2>1, <2>2, AccountLook
<1>. QED BY <1>2, <1>3, <1>4, <1>5 DEF AskAccounts

-----------------------------------------------------------------------------
(* Categories.                                                             *)

\* CategoryService.  A new category is a root or the child of a live one, whose kind it takes,
\* siblings have other names, and what is archived has no live child.
LEMMA CategoriesKeep ==
  ASSUME RowsInv, NEW s \in Sessions, Idle(s), AskCategories(s)
  PROVE  RowsInv'
<1>1. /\ DOMAIN db.categories \subseteq CategoryIds
      /\ \A c \in DOMAIN db.categories : db.categories[c] \in Category(Ids)
  BY IdsOf DEF RowsInv, TypeOK, Typed, IsTable
<1>2. ASSUME NEW c \in CategoryIds, NEW change, NEW handler,
             Look(s, handler, To("categories", c, change)),
             Apt(change, Category(Ids)),
             \/ /\ change.do = "update" /\ c \in DOMAIN db.categories
                /\ {"kind", "parent"} \cap DOMAIN change.columns = {}
             \/ /\ change.do = "insert" /\ c \notin Held("categories")
                /\ change.columns.parent # None =>
                     /\ change.columns.parent \in DOMAIN db.categories
                     /\ db.categories[change.columns.parent].parent = None
                     /\ db.categories[change.columns.parent].kind = change.columns.kind,
             InOrder(db) =>
               LET new == Flushed(db.categories, [r \in {c} |-> change])
               IN RootNamesDistinct(new) /\ ParentsLive(new)
      PROVE  RowsInv'
  <2>1. PICK changes : changes = To("categories", c, change)
    OBVIOUS
  <2>2. /\ changes.categories = [r \in {c} |-> change]
        /\ \A u \in TableNames \ {"categories"} : DOMAIN changes[u] = {}
    BY <2>1 DEF To, Nowhere, TableNames
  <2>3. DOMAIN changes.categories = {c} /\ changes.categories[c] = change
    BY <2>2
  <2>4. FitTypes(changes)
    BY <1>2, <2>2, <2>3, IdsOf DEF FitTypes
  <2>5. FitColumns(changes)
    BY <1>2, <2>2, <2>3 DEF FitColumns, TableNames
  <2>6. FitCategories(changes, db.categories)
    <3>1. ASSUME Adds(changes, c), change.columns.parent # None
          PROVE  IfAnyRootOf(changes, db.categories, change.columns.parent, change.columns.kind)
      <4>1. change.columns.parent \in DOMAIN db.categories /\ c \notin DOMAIN db.categories
        BY <1>2, <2>3, <3>1, FreeCategory DEF Adds
      <4>. QED BY <1>2, <2>3, <3>1, <4>1 DEF Adds, IfAnyRootOf
    <3>. QED BY <2>2, <2>3, <3>1 DEF FitCategories, Adds, TableNames
  <2>7. Drawn(changes)
    <3>1. ASSUME NEW d, Refers(changes, d)
          PROVE  d \in DOMAIN db.categories \cup {None}
      <4>1. Writes(change, "parent") /\ change.columns.parent = d
        BY <2>2, <2>3, <3>1 DEF Refers, References, TableNames
      <4>. QED BY <1>2, <4>1 DEF Writes
    <3>. QED BY <1>2, <2>3, <3>1 DEF Drawn, Adds
  <2>8. ASSUME InOrder(db) PROVE InOrder(Result(db, changes))
    <3>1. IsTable(db.payees, PayeeIds, Payee(Ids))
      BY IdsOf DEF RowsInv, TypeOK, Typed
    <3>2. Flushed(db.payees, changes.payees) = db.payees
      BY <2>2, <3>1, FlushedNone, IdsOf DEF IsTable
    <3>. QED BY <1>2, <2>2, <2>8, <3>1, <3>2, OrderFrom DEF InOrder
  <2>. QED BY <1>2, <2>1, <2>4, <2>5, <2>6, <2>7, <2>8, LookKeeps DEF Fit
<1>3. CASE CreateCategory(s)
  <2>1. PICK c \in CategoryIds \ Held("categories"), name \in Names, kind \in CategoryKinds,
             parent \in DOMAIN db.categories \cup {None} :
          /\ parent # None => MayHaveChildren(parent)
          /\ Sibling(parent, name) = {}
          /\ Look(s, "create_category",
               To("categories", c,
                  Insert([name |-> name, parent |-> parent, archived |-> FALSE,
                          kind |-> IF parent = None THEN kind ELSE db.categories[parent].kind])))
    BY <1>3 DEF CreateCategory
  <2> DEFINE row == [name |-> name, parent |-> parent, archived |-> FALSE,
                     kind |-> IF parent = None THEN kind ELSE db.categories[parent].kind]
  <2>2. row \in Category(Ids)
    BY <1>1, CategoryRow, IdsOf DEF Category
  <2>3. /\ row.parent = parent
        /\ parent # None => row.kind = db.categories[parent].kind
    OBVIOUS
  <2>4. Look(s, "create_category", To("categories", c, Insert(row)))
    BY <2>1
  <2>5. parent # None => db.categories[parent].parent = None
    BY <2>1 DEF MayHaveChildren
  <2>. HIDE DEF row
  <2>6. Apt(Insert(row), Category(Ids)) /\ Insert(row).do = "insert" /\ Insert(row).columns = row
    BY <2>2, InsertApt, InsertOf
  <2>7. row.name = name /\ ~row.archived /\ c \notin DOMAIN db.categories
    BY FreeCategory DEF row
  <2>8. ASSUME InOrder(db), NEW new, new = Flushed(db.categories, [r \in {c} |-> Insert(row)])
        PROVE  RootNamesDistinct(new) /\ ParentsLive(new)
    <3>1. /\ DOMAIN new = DOMAIN db.categories \cup {c}
          /\ new[c] = row
          /\ \A d \in DOMAIN db.categories : new[d] = db.categories[d]
      BY <2>7, <2>8 DEF Flushed, Insert
    <3>2. Active(new) = Active(db.categories) \cup {c}
      BY <2>7, <3>1 DEF Active
    <3>3. \A d, e \in Active(db.categories) :
            /\ db.categories[d].parent = None /\ db.categories[e].parent = None
            /\ db.categories[d].name = db.categories[e].name
            => d = e
      BY <2>8 DEF InOrder, RootNamesDistinct, IsInjective
    <3>4. \A d \in Active(db.categories) :
            ~(db.categories[d].parent = parent /\ db.categories[d].name = name)
      BY <2>1 DEF Sibling
    <3>5. \A d \in Active(db.categories) : d \in DOMAIN db.categories
      BY DEF Active
    <3>6. RootNamesDistinct(new)
      BY <2>3, <2>7, <3>1, <3>2, <3>3, <3>4, <3>5 DEF RootNamesDistinct, IsInjective
    <3>7. \A d \in Active(db.categories) : db.categories[d].parent # None =>
            /\ db.categories[d].parent \in DOMAIN db.categories
            /\ ~db.categories[db.categories[d].parent].archived
      BY <2>8, <3>5 DEF InOrder, ParentsLive, RowsInv, Agree, TwoLevels
    <3>8. parent # None => parent \in DOMAIN db.categories /\ ~db.categories[parent].archived
      BY <2>1 DEF MayHaveChildren
    <3>9. ParentsLive(new)
      BY <2>3, <2>7, <3>1, <3>2, <3>5, <3>7, <3>8 DEF ParentsLive
    <3>. QED BY <3>6, <3>9
  <2>. QED BY <1>2, <2>3, <2>4, <2>5, <2>6, <2>8
<1>4. CASE UpdateCategory(s)
  <2>1. PICK c \in DOMAIN db.categories, name \in Names :
          /\ name # db.categories[c].name => Sibling(db.categories[c].parent, name) \subseteq {c}
          /\ Look(s, "update_category",
               To("categories", c, Update(db.categories[c], [name |-> name])))
    BY <1>4 DEF UpdateCategory
  <2>2. Apt(Update(db.categories[c], [name |-> name]), Category(Ids))
    BY CategoryApt
  <2>3. /\ Update(db.categories[c], [name |-> name]).do = "update"
        /\ DOMAIN Update(db.categories[c], [name |-> name]).columns \subseteq {"name"}
    BY UpdateOf
  <2>4. ASSUME InOrder(db), NEW new,
               new = Flushed(db.categories,
                             [r \in {c} |-> Update(db.categories[c], [name |-> name])])
        PROVE  RootNamesDistinct(new) /\ ParentsLive(new)
    <3>1. /\ DOMAIN new = DOMAIN db.categories
          /\ new[c].name = name /\ new[c].parent = db.categories[c].parent
          /\ new[c].archived = db.categories[c].archived
          /\ \A d \in DOMAIN db.categories \ {c} : new[d] = db.categories[d]
      <4>1. /\ DOMAIN new = DOMAIN db.categories
            /\ new[c] = Overwritten(db.categories[c],
                                    Update(db.categories[c], [name |-> name]).columns)
            /\ \A d \in DOMAIN db.categories \ {c} : new[d] = db.categories[d]
        BY <2>3, <2>4 DEF Flushed, Overwritten
      <4>2. DOMAIN db.categories[c] = {"name", "kind", "parent", "archived"}
        BY <1>1, CategoryRow
      <4>3. PICK columns : columns = [name |-> name]
        OBVIOUS
      <4>4. DOMAIN columns = {"name"} /\ columns["name"] = name
        BY <4>3
      <4>5. Overwritten(db.categories[c], Update(db.categories[c], columns).columns)
              = [k \in DOMAIN db.categories[c] |->
                   IF k \in DOMAIN columns THEN columns[k] ELSE db.categories[c][k]]
        BY <4>2, <4>4, OverwrittenUpdate
      <4>6. new[c] = [k \in {"name", "kind", "parent", "archived"} |->
                        IF k = "name" THEN name ELSE db.categories[c][k]]
        BY <4>1, <4>2, <4>3, <4>4, <4>5
      <4>. QED BY <4>1, <4>6
    <3>2. Active(new) = Active(db.categories)
      BY <3>1 DEF Active
    <3>3. \A d, e \in Active(db.categories) :
            /\ db.categories[d].parent = None /\ db.categories[e].parent = None
            /\ db.categories[d].name = db.categories[e].name
            => d = e
      BY <2>4 DEF InOrder, RootNamesDistinct, IsInjective
    <3>4. name # db.categories[c].name =>
            \A d \in Active(db.categories) \ {c} :
              ~(db.categories[d].parent = db.categories[c].parent /\ db.categories[d].name = name)
      BY <2>1 DEF Sibling
    <3>5. \A d \in Active(db.categories) : d \in DOMAIN db.categories
      BY DEF Active
    <3>6. RootNamesDistinct(new)
      BY <3>1, <3>2, <3>3, <3>4, <3>5 DEF RootNamesDistinct, IsInjective
    <3>7. \A d \in Active(db.categories) : db.categories[d].parent # None =>
            /\ db.categories[d].parent \in DOMAIN db.categories
            /\ ~db.categories[db.categories[d].parent].archived
      BY <2>4, <3>5 DEF InOrder, ParentsLive, RowsInv, Agree, TwoLevels
    <3>8. ParentsLive(new)
      BY <3>1, <3>2, <3>5, <3>7 DEF ParentsLive
    <3>. QED BY <3>6, <3>8
  <2>. QED BY <1>1, <1>2, <2>1, <2>2, <2>3, <2>4
<1>5. CASE ArchiveCategory(s)
  <2>1. PICK c \in DOMAIN db.categories :
          /\ ~HasChildren(c)
          /\ Look(s, "archive_category",
               To("categories", c, Update(db.categories[c], [archived |-> TRUE])))
    BY <1>5 DEF ArchiveCategory
  <2>2. Apt(Update(db.categories[c], [archived |-> TRUE]), Category(Ids))
    BY CategoryApt
  <2>3. /\ Update(db.categories[c], [archived |-> TRUE]).do = "update"
        /\ DOMAIN Update(db.categories[c], [archived |-> TRUE]).columns \subseteq {"archived"}
    BY UpdateOf
  <2>4. ASSUME InOrder(db), NEW new,
               new = Flushed(db.categories,
                             [r \in {c} |-> Update(db.categories[c], [archived |-> TRUE])])
        PROVE  RootNamesDistinct(new) /\ ParentsLive(new)
    <3>1. /\ DOMAIN new = DOMAIN db.categories
          /\ new[c].archived
          /\ \A d \in DOMAIN db.categories \ {c} : new[d] = db.categories[d]
      <4>1. /\ DOMAIN new = DOMAIN db.categories
            /\ new[c] = Overwritten(db.categories[c],
                                    Update(db.categories[c], [archived |-> TRUE]).columns)
            /\ \A d \in DOMAIN db.categories \ {c} : new[d] = db.categories[d]
        BY <2>3, <2>4 DEF Flushed, Overwritten
      <4>2. DOMAIN db.categories[c] = {"name", "kind", "parent", "archived"}
        BY <1>1, CategoryRow
      <4>3. PICK columns : columns = [archived |-> TRUE]
        OBVIOUS
      <4>4. DOMAIN columns = {"archived"} /\ columns["archived"] = TRUE
        BY <4>3
      <4>5. Overwritten(db.categories[c], Update(db.categories[c], columns).columns)
              = [k \in DOMAIN db.categories[c] |->
                   IF k \in DOMAIN columns THEN columns[k] ELSE db.categories[c][k]]
        BY <4>2, <4>4, OverwrittenUpdate
      <4>6. new[c] = [k \in {"name", "kind", "parent", "archived"} |->
                        IF k = "archived" THEN TRUE ELSE db.categories[c][k]]
        BY <4>1, <4>2, <4>3, <4>4, <4>5, ZenonT(40)
      <4>. QED BY <4>1, <4>6
    <3>2. Active(new) = Active(db.categories) \ {c}
      BY <3>1 DEF Active
    <3>3. \A d, e \in Active(db.categories) :
            /\ db.categories[d].parent = None /\ db.categories[e].parent = None
            /\ db.categories[d].name = db.categories[e].name
            => d = e
      BY <2>4 DEF InOrder, RootNamesDistinct, IsInjective
    <3>4. \A d \in Active(db.categories) : db.categories[d].parent # c
      BY <2>1 DEF HasChildren
    <3>5. \A d \in Active(db.categories) : d \in DOMAIN db.categories
      BY DEF Active
    <3>6. RootNamesDistinct(new)
      BY <3>1, <3>2, <3>3, <3>5 DEF RootNamesDistinct, IsInjective
    <3>7. \A d \in Active(db.categories) : db.categories[d].parent # None =>
            /\ db.categories[d].parent \in DOMAIN db.categories
            /\ ~db.categories[db.categories[d].parent].archived
      BY <2>4, <3>5 DEF InOrder, ParentsLive, RowsInv, Agree, TwoLevels
    <3>8. ParentsLive(new)
      BY <3>1, <3>2, <3>4, <3>5, <3>7 DEF ParentsLive
    <3>. QED BY <3>6, <3>8
  <2>. QED BY <1>1, <1>2, <2>1, <2>2, <2>3, <2>4
<1>. QED BY <1>3, <1>4, <1>5 DEF AskCategories

-----------------------------------------------------------------------------
(* Payees and operations.                                                  *)

\* A change of a payee is sound when it forgets and refers to a category that is there.
LEMMA PayeeSound ==
  ASSUME NEW i \in PayeeIds, NEW change, Apt(change, Payee(Ids)), Known(change, "last"),
         Forgetting(i, change)
  PROVE  Sound("payees", i, change)
  BY IdsOf DEF Sound

\* One of an operation, when its category is there.
LEMMA OperationSound ==
  ASSUME NEW i \in OperationIds, NEW change, Apt(change, Operation(Ids)),
         Known(change, "category")
  PROVE  Sound("operations", i, change)
  BY IdsOf DEF Sound

\* Requests that change one operation and payees.
LEMMA PayeesPlain ==
  ASSUME NEW operations, NEW payees,
         \A o \in DOMAIN operations : Sound("operations", o, operations[o]),
         \A p \in DOMAIN payees : Sound("payees", p, payees[p])
  PROVE  Plain([Nowhere EXCEPT !.operations = operations, !.payees = payees])
<1> DEFINE changes == [Nowhere EXCEPT !.operations = operations, !.payees = payees]
<1>1. changes.operations = operations /\ changes.payees = payees
  BY DEF Nowhere, TableNames
<1>2. \A t \in TableNames \ {"operations", "payees"} : changes[t] = <<>>
  BY DEF Nowhere, TableNames
<1>3. DOMAIN <<>> = {}
  OBVIOUS
<1>. HIDE DEF changes
<1>4. Plain(changes)
  BY <1>1, <1>2, <1>3 DEF Plain, TableNames
<1>. QED BY <1>4 DEF changes

\* What the rows of payees and operations hold.
LEMMA PayeesKnown ==
  ASSUME RowsInv
  PROVE  /\ DOMAIN db.payees \subseteq PayeeIds
         /\ \A p \in DOMAIN db.payees :
              /\ db.payees[p] \in Payee(Ids)
              /\ db.payees[p].last \in (DOMAIN db.categories \cup {None}) \cap (CategoryIds \cup {None})
         /\ DOMAIN db.operations \subseteq OperationIds
         /\ \A o \in DOMAIN db.operations :
              /\ db.operations[o] \in Operation(Ids)
              /\ db.operations[o].category
                   \in (DOMAIN db.categories \cup {None}) \cap (CategoryIds \cup {None})
         /\ DOMAIN db.categories \subseteq CategoryIds
<1>1. Typed(db, Ids) /\ Whole(db)
  BY DEF RowsInv, TypeOK
<1>2. /\ [of |-> "payees", column |-> "last", to |-> "categories"] \in References
      /\ [of |-> "operations", column |-> "category", to |-> "categories"] \in References
  BY DEF References
<1>3. /\ \A p \in DOMAIN db.payees : db.payees[p].last \in DOMAIN db.categories \cup {None}
      /\ \A o \in DOMAIN db.operations :
           db.operations[o].category \in DOMAIN db.categories \cup {None}
  BY <1>1, <1>2 DEF Whole
<1>. QED BY <1>1, <1>3, IdsOf DEF Typed, IsTable

\* A request that changes one payee.
LEMMA PayeeLook ==
  ASSUME RowsInv, NEW s \in Sessions, Idle(s), NEW handler, NEW i \in PayeeIds, NEW change,
         Look(s, handler, To("payees", i, change)), Apt(change, Payee(Ids)),
         Known(change, "last"), Forgetting(i, change)
  PROVE  RowsInv'
  BY PayeeSound, ToPlain, PlainLook, IdsOf

\* A new payee remembers nothing.
LEMMA NewPayeeApt ==
  ASSUME NEW key \in Keys, NEW varied \in BOOLEAN
  PROVE  /\ Apt(NewPayee(key, varied), Payee(Ids)) /\ Known(NewPayee(key, varied), "last")
         /\ \A p : Forgetting(p, NewPayee(key, varied))
<1>1. [key |-> key, last |-> None, varied |-> varied] \in Payee(Ids)
  BY DEF Payee
<1>2. PICK row : row = [key |-> key, last |-> None, varied |-> varied]
  OBVIOUS
<1>3. /\ Apt(Insert(row), Payee(Ids)) /\ Insert(row).do = "insert" /\ Insert(row).columns = row
      /\ row.last = None
  BY <1>1, <1>2, InsertApt, InsertOf
<1>4. \A p : Forgetting(p, Insert(row))
  BY <1>3 DEF Forgetting, Forgets
<1>. QED BY <1>2, <1>3, <1>4 DEF NewPayee, Known

\* An update of a payee that leaves it forgetful and with a category that is there.
LEMMA PayeeUpdate ==
  ASSUME NEW row, NEW new \in Payee(Ids), new.last \in DOMAIN db.categories \cup {None}
  PROVE  /\ Apt(Update(row, new), Payee(Ids))
         /\ Known(Update(row, new), "last")
         /\ row \in Payee(Ids) => Overwritten(row, Update(row, new).columns) = new
<1>1. Apt(Update(row, new), Payee(Ids))
  BY PayeeApt, PayeeRow
<1>2. ASSUME row \in Payee(Ids) PROVE Overwritten(row, Update(row, new).columns) = new
  <2>1. DOMAIN row = {"key", "last", "varied"}
    BY <1>2, PayeeRow
  <2>2. new = [c \in {"key", "last", "varied"} |-> new[c]]
    BY DEF Payee
  <2>3. DOMAIN new = {"key", "last", "varied"}
    BY PayeeRow
  <2>. QED BY <2>1, <2>2, <2>3, OverwrittenUpdate
<1>. QED BY <1>1, <1>2, UpdateOf DEF Known, Writes

\* The row of a payee that an operation is recorded with.
LEMMA EnsuredSound ==
  ASSUME RowsInv, NEW p \in PayeeIds, NEW name \in Spellings,
         NEW category \in (DOMAIN db.categories \cup {None}) \cap (CategoryIds \cup {None})
  PROVE  Sound("payees", p, EnsuredRow(p, name, category))
<1>1. ASSUME NEW row \in Payee(Ids), row.last \in DOMAIN db.categories \cup {None}
      PROVE  /\ Remembered(row, category) \in Payee(Ids)
             /\ Remembered(row, category).last \in DOMAIN db.categories \cup {None}
             /\ Forgets(row) => Forgets(Remembered(row, category))
  <2>1. CASE category = None \/ row.varied
    BY <1>1, <2>1 DEF Remembered, Forgets
  <2>2. CASE ~(category = None \/ row.varied)
    <3>1. Remembered(row, category) = [row EXCEPT !.last = category]
      BY <2>2 DEF Remembered
    <3>2. /\ [row EXCEPT !.last = category] \in Payee(Ids)
          /\ [row EXCEPT !.last = category].last = category
          /\ [row EXCEPT !.last = category].varied = row.varied
      BY IdsOf DEF Payee
    <3>. QED BY <2>2, <3>1, <3>2 DEF Forgets
  <2>. QED BY <2>1, <2>2
<1>2. CASE p \in DOMAIN db.payees
  <2>1. EnsuredRow(p, name, category) = Update(db.payees[p], Remembered(db.payees[p], category))
    BY <1>2 DEF EnsuredRow
  <2>2. db.payees[p] \in Payee(Ids) /\ db.payees[p].last \in DOMAIN db.categories \cup {None}
    BY <1>2, PayeesKnown
  <2>3. PICK new : new = Remembered(db.payees[p], category)
    OBVIOUS
  <2>4. /\ new \in Payee(Ids) /\ new.last \in DOMAIN db.categories \cup {None}
        /\ Forgets(db.payees[p]) => Forgets(new)
    BY <1>1, <2>2, <2>3
  <2>5. Forgetting(p, Update(db.payees[p], new))
    BY <2>2, <2>4, PayeeUpdate, UpdateOf DEF Forgetting
  <2>. QED BY <2>1, <2>3, <2>4, <2>5, PayeeUpdate, PayeeSound
<1>3. CASE p \notin DOMAIN db.payees
  <2> DEFINE fresh == [key |-> PayeeKey[name], last |-> None, varied |-> name \in Marketplaces]
  <2>1. EnsuredRow(p, name, category) = Insert(Remembered(fresh, category))
    BY <1>3 DEF EnsuredRow
  <2>2. PayeeKey[name] \in Keys
    BY InputsAssumption DEF InputsAssumption
  <2>3. fresh \in Payee(Ids) /\ fresh.last = None
    BY <2>2 DEF Payee
  <2>. HIDE DEF fresh
  <2>4. /\ Apt(Insert(Remembered(fresh, category)), Payee(Ids))
        /\ Known(Insert(Remembered(fresh, category)), "last")
        /\ Forgetting(p, Insert(Remembered(fresh, category)))
    BY <1>1, <2>3, InsertApt, InsertOf DEF Known, Forgetting, Forgets
  <2>. QED BY <2>1, <2>4, PayeeSound
<1>. QED BY <1>2, <1>3

\* An operation is given a payee and a category that is there.
LEMMA OperationUpdate ==
  ASSUME NEW row, NEW new, DOMAIN new \subseteq {"category", "payee"},
         "payee" \in DOMAIN new => new.payee \in PayeeIds \cup {None},
         "category" \in DOMAIN new =>
           new.category \in (DOMAIN db.categories \cup {None}) \cap (CategoryIds \cup {None}),
         NEW o \in OperationIds
  PROVE  Sound("operations", o, Update(row, new))
<1>1. Apt(Update(row, new), Operation(Ids))
  BY OperationApt
<1>2. Known(Update(row, new), "category")
  BY UpdateOf DEF Known, Writes
<1>. QED BY <1>1, <1>2, OperationSound

\* PayeeService.create.
LEMMA CreatePayeeKeeps ==
  ASSUME RowsInv, NEW s \in Sessions, Idle(s), CreatePayee(s)
  PROVE  RowsInv'
<1>1. PICK p \in FreePayees, name \in Spellings :
        Look(s, "create_payee", To("payees", p, NewPayee(PayeeKey[name], FALSE)))
  BY DEF CreatePayee
<1>2. PayeeKey[name] \in Keys
  BY InputsAssumption DEF InputsAssumption
<1>3. p \in PayeeIds
  BY DEF FreePayees
<1>. QED BY <1>1, <1>2, <1>3, NewPayeeApt, PayeeLook

\* PayeeService.update: the mark of varied categories wipes what is remembered.
LEMMA UpdatePayeeKeeps ==
  ASSUME RowsInv, NEW s \in Sessions, Idle(s), UpdatePayee(s)
  PROVE  RowsInv'
<1>1. PICK p \in DOMAIN db.payees, given \in SUBSET {"name", "varied"},
           name \in Spellings, varied \in BOOLEAN :
        LET row == db.payees[p]
            key == IF "name" \in given THEN PayeeKey[name] ELSE row.key
            mark == IF "varied" \in given THEN varied ELSE row.varied
            wiped == "varied" \in given /\ varied
        IN Look(s, "update_payee",
               To("payees", p,
                  Update(row, [key |-> key, varied |-> mark,
                               last |-> IF wiped THEN None ELSE row.last])))
  BY DEF UpdatePayee
<1> DEFINE row == db.payees[p]
           key == IF "name" \in given THEN PayeeKey[name] ELSE row.key
           mark == IF "varied" \in given THEN varied ELSE row.varied
           wiped == "varied" \in given /\ varied
           last == IF wiped THEN None ELSE row.last
           new == [key |-> key, varied |-> mark, last |-> last]
<1>2. Look(s, "update_payee", To("payees", p, Update(row, new)))
  BY <1>1
<1>3. row \in Payee(Ids) /\ p \in PayeeIds /\ row.last \in DOMAIN db.categories \cup {None}
  BY PayeesKnown
<1>4. key \in Keys /\ mark \in BOOLEAN
  BY <1>3, PayeeRow, InputsAssumption DEF InputsAssumption
<1>5. last \in (DOMAIN db.categories \cup {None}) \cap (CategoryIds \cup {None})
  BY <1>3, PayeeRow
<1>. HIDE DEF row, key, mark, last
<1>6. new \in Payee(Ids) /\ new.last \in DOMAIN db.categories \cup {None}
  BY <1>4, <1>5, IdsOf DEF Payee
<1>7. Forgets(row) => Forgets(new)
  BY DEF Forgets, row, mark, last
<1>. HIDE DEF new
<1>8. Forgetting(p, Update(row, new))
  BY <1>3, <1>6, <1>7, PayeeUpdate, UpdateOf DEF Forgetting, row
<1>. QED BY <1>2, <1>3, <1>6, <1>8, PayeeUpdate, PayeeLook

\* PayeeService.merge: the target learns from the source what it lacks.
LEMMA MergePayeesKeeps ==
  ASSUME RowsInv, NEW s \in Sessions, Idle(s), MergePayees(s)
  PROVE  RowsInv'
<1>1. PICK source \in DOMAIN db.payees, target \in DOMAIN db.payees :
        LET from == db.payees[source]
            to == db.payees[target]
            varied == to.varied \/ from.varied
            moved == {o \in DOMAIN db.operations : db.operations[o].payee = source}
        IN /\ source # target
           /\ Look(s, "merge_payees",
                [Nowhere EXCEPT
                  !.operations =
                    [o \in moved |-> Update(db.operations[o], [payee |-> target])],
                  !.payees =
                    [p \in {source, target} |->
                       IF p = source THEN Delete
                       ELSE Update(to, [varied |-> varied,
                              last |-> IF varied THEN None
                                       ELSE IF to.last = None THEN from.last ELSE to.last])]])
  BY DEF MergePayees
<1> DEFINE from == db.payees[source]
           to == db.payees[target]
           varied == to.varied \/ from.varied
           moved == {o \in DOMAIN db.operations : db.operations[o].payee = source}
           last == IF varied THEN None ELSE IF to.last = None THEN from.last ELSE to.last
           new == [varied |-> varied, last |-> last]
           operations == [o \in moved |-> Update(db.operations[o], [payee |-> target])]
           payees == [p \in {source, target} |-> IF p = source THEN Delete ELSE Update(to, new)]
<1>2. Look(s, "merge_payees", [Nowhere EXCEPT !.operations = operations, !.payees = payees])
  BY <1>1
<1>3. source \in PayeeIds /\ target \in PayeeIds /\ moved \subseteq OperationIds
  BY PayeesKnown
<1>4. /\ varied \in BOOLEAN
      /\ last \in (DOMAIN db.categories \cup {None}) \cap (CategoryIds \cup {None})
  BY PayeesKnown, PayeeRow
<1>5. ASSUME NEW o \in moved PROVE Sound("operations", o, operations[o])
  BY <1>3, OperationUpdate
<1>. HIDE DEF last, varied
<1>6. Apt(Update(to, new), Payee(Ids))
  BY <1>4, PayeeApt
<1>7. Known(Update(to, new), "last")
  BY <1>4, UpdateOf DEF Known, Writes
<1>11. Forgetting(target, Update(to, new))
  <2>1. DOMAIN to = {"key", "last", "varied"} /\ DOMAIN new = {"varied", "last"}
    BY PayeesKnown, PayeeRow
  <2>2. Overwritten(to, Update(to, new).columns)
          = [c \in DOMAIN to |-> IF c \in DOMAIN new THEN new[c] ELSE to[c]]
    BY <2>1, OverwrittenUpdate
  <2>3. /\ Overwritten(to, Update(to, new).columns).varied = varied
        /\ Overwritten(to, Update(to, new).columns).last = last
    BY <2>1, <2>2
  <2>. QED BY <2>3, UpdateOf DEF Forgetting, Forgets, last
<1>8. ASSUME NEW p \in {source, target} PROVE Sound("payees", p, payees[p])
  BY <1>3, <1>6, <1>7, <1>11, PayeeSound, DeleteSound, IdsOf
<1>9. /\ \A o \in DOMAIN operations : Sound("operations", o, operations[o])
      /\ \A p \in DOMAIN payees : Sound("payees", p, payees[p])
  BY <1>5, <1>8
<1>. HIDE DEF new, operations, payees
<1>10. Plain([Nowhere EXCEPT !.operations = operations, !.payees = payees])
  BY <1>9, PayeesPlain
<1>. QED BY <1>2, <1>10, PlainLook

\* PayeeService.delete.
LEMMA DeletePayeeKeeps ==
  ASSUME RowsInv, NEW s \in Sessions, Idle(s), DeletePayee(s)
  PROVE  RowsInv'
<1>1. PICK p \in DOMAIN db.payees : Look(s, "delete_payee", To("payees", p, Delete))
  BY DEF DeletePayee
<1>. QED BY <1>1, PayeesKnown, DeleteSound, ToPlain, PlainLook, IdsOf

\* A category that fits an operation is there.
LEMMA FitsKnown ==
  ASSUME RowsInv, NEW category, NEW kind, CategoryFits(category, kind)
  PROVE  category \in (DOMAIN db.categories \cup {None}) \cap (CategoryIds \cup {None})
  BY PayeesKnown DEF CategoryFits, LiveOfKind

\* create_transaction, with the payee it makes or finds.
LEMMA RecordKeeps ==
  ASSUME RowsInv, NEW s \in Sessions, Idle(s), RecordOperation(s)
  PROVE  RowsInv'
<1>1. PICK o \in OperationIds, q \in Records, p \in PayeeIds \cup {None} :
        /\ CategoryFits(q.category, q.kind)
        /\ IF q.payee = None THEN p = None ELSE Ensured(p, q.payee)
        /\ Look(s, "create_transaction",
                [To("operations", o, Insert([q EXCEPT !.amount = Signed(@, q.kind), !.payee = p]))
                   EXCEPT !.payees =
                     [r \in {p} \ {None} |-> EnsuredRow(r, q.payee, q.category)]])
  BY DEF RecordOperation
<1>2. q \in [account : AccountIds, kind : OperationKinds, amount : Int,
             category : CategoryIds \cup {None}, payee : Spellings \cup {None},
             required : BOOLEAN, month : Months]
  BY InputsAssumption DEF InputsAssumption, OrdinaryKinds
<1> DEFINE row == [q EXCEPT !.amount = Signed(@, q.kind), !.payee = p]
           operations == [r \in {o} |-> Insert(row)]
           payees == [r \in {p} \ {None} |-> EnsuredRow(r, q.payee, q.category)]
<1>3. Look(s, "create_transaction", [Nowhere EXCEPT !.operations = operations, !.payees = payees])
  BY <1>1 DEF To
<1>4. Signed(q.amount, q.kind) \in Int
  BY <1>2 DEF Signed
<1>5. row \in Operation(Ids) /\ row.category = q.category
  BY <1>2, <1>4, IdsOf DEF Operation
<1>6. q.category \in (DOMAIN db.categories \cup {None}) \cap (CategoryIds \cup {None})
  BY <1>1, FitsKnown
<1>7. Sound("operations", o, Insert(row))
  <2>. HIDE DEF row
  <2>1. Known(Insert(row), "category")
    BY <1>5, <1>6, InsertOf DEF Known
  <2>. QED BY <1>5, <2>1, InsertApt, OperationSound
<1>8. ASSUME NEW r \in {p} \ {None} PROVE Sound("payees", r, EnsuredRow(r, q.payee, q.category))
  <2>1. q.payee \in Spellings /\ r \in PayeeIds
    BY <1>1, <1>2
  <2>. QED BY <1>6, <2>1, EnsuredSound
<1>. HIDE DEF row
<1>9. /\ \A r \in DOMAIN operations : Sound("operations", r, operations[r])
      /\ \A r \in DOMAIN payees : Sound("payees", r, payees[r])
  BY <1>7, <1>8
<1>. HIDE DEF operations, payees
<1>10. Plain([Nowhere EXCEPT !.operations = operations, !.payees = payees])
  BY <1>9, PayeesPlain
<1>. QED BY <1>3, <1>10, PlainLook

\* update_transaction, of the payee and the category.
LEMMA LabelKeeps ==
  ASSUME RowsInv, NEW s \in Sessions, Idle(s), LabelOperation(s)
  PROVE  RowsInv'
<1>1. PICK o \in DOMAIN db.operations, name \in Spellings, p \in PayeeIds,
           given \in BOOLEAN, category \in CategoryIds :
        LET row == db.operations[o]
            new == IF given THEN category ELSE row.category
        IN /\ row.kind \in OrdinaryKinds
           /\ given => CategoryFits(category, row.kind)
           /\ Ensured(p, name)
           /\ Look(s, "update_transaction",
                   [To("operations", o, Update(row, [payee |-> p, category |-> new]))
                      EXCEPT !.payees = [r \in {p} |-> EnsuredRow(r, name, new)]])
  BY DEF LabelOperation
<1> DEFINE row == db.operations[o]
           new == IF given THEN category ELSE row.category
           columns == [payee |-> p, category |-> new]
           operations == [r \in {o} |-> Update(row, columns)]
           payees == [r \in {p} |-> EnsuredRow(r, name, new)]
<1>2. Look(s, "update_transaction", [Nowhere EXCEPT !.operations = operations, !.payees = payees])
  BY <1>1 DEF To
<1>3. new \in (DOMAIN db.categories \cup {None}) \cap (CategoryIds \cup {None})
  BY <1>1, FitsKnown, PayeesKnown
<1>4. o \in OperationIds
  BY PayeesKnown
<1>. HIDE DEF new
<1>5. Sound("operations", o, Update(row, columns))
  BY <1>3, <1>4, OperationUpdate
<1>6. Sound("payees", p, EnsuredRow(p, name, new))
  BY <1>3, EnsuredSound
<1>. HIDE DEF columns, row
<1>7. /\ \A r \in DOMAIN operations : Sound("operations", r, operations[r])
      /\ \A r \in DOMAIN payees : Sound("payees", r, payees[r])
  BY <1>5, <1>6
<1>. HIDE DEF operations, payees
<1>8. Plain([Nowhere EXCEPT !.operations = operations, !.payees = payees])
  BY <1>7, PayeesPlain
<1>. QED BY <1>2, <1>8, PlainLook

\* Every request of payees and operations.
LEMMA PayeesKeep ==
  ASSUME RowsInv, NEW s \in Sessions, Idle(s), AskPayees(s)
  PROVE  RowsInv'
  BY CreatePayeeKeeps, UpdatePayeeKeeps, MergePayeesKeeps, DeletePayeeKeeps, RecordKeeps,
     LabelKeeps DEF AskPayees

-----------------------------------------------------------------------------
(* Recurring expenses.                                                     *)

\* A change of a recurring expense is sound when its category is one of expenses.
LEMMA ItemSound ==
  ASSUME NEW i \in ItemIds, NEW change, Apt(change, Item(Ids)), ForExpense(change)
  PROVE  Sound("items", i, change)
  BY IdsOf DEF Sound

\* A request that changes one recurring expense.
LEMMA ItemLook ==
  ASSUME RowsInv, NEW s \in Sessions, Idle(s), NEW handler, NEW i \in ItemIds, NEW change,
         Look(s, handler, To("items", i, change)), Apt(change, Item(Ids)), ForExpense(change)
  PROVE  RowsInv'
  BY ItemSound, ToPlain, PlainLook, IdsOf

\* A new one of a category of expenses.
LEMMA NewItem ==
  ASSUME NEW c \in DOMAIN db.categories, db.categories[c].kind = "expense", c \in CategoryIds,
         NEW monthly \in Nat, NEW row, row = [category |-> c, monthly |-> monthly, archived |-> FALSE]
  PROVE  Apt(Insert(row), Item(Ids)) /\ ForExpense(Insert(row))
<1>1. row \in Item(Ids) /\ row.category = c
  BY IdsOf DEF Item
<1>. QED BY <1>1, InsertApt, InsertOf DEF ForExpense

\* The sum that is proposed for a category.
LEMMA ProposedNat ==
  ASSUME RowsInv, NEW proposed,
         proposed = Proposals(db.categories, db.operations, db.items, Months),
         NEW c \in DOMAIN proposed
  PROVE  /\ c \in DOMAIN db.categories /\ db.categories[c].kind = "expense"
         /\ proposed[c] \in Nat
<1>1. /\ \A o \in DOMAIN db.operations : db.operations[o].amount \in Int
      /\ IsFiniteSet(DOMAIN db.operations)
  <2>1. IsFiniteSet(OperationIds)
    BY IdsOf
  <2>2. DOMAIN db.operations \subseteq OperationIds
    BY PayeesKnown
  <2>. QED BY <2>1, <2>2, PayeesKnown, OperationRow, FS_Subset
<1>2. IsFiniteSet(DOMAIN db.categories)
  BY IdsOf, PayeesKnown, FS_Subset
<1>3. ASSUME NEW d PROVE RequiredSpend(db.operations, Months, d) \in Int
  <2> DEFINE counted == {o \in DOMAIN db.operations :
                    /\ db.operations[o].category = d
                    /\ db.operations[o].kind = "expense"
                    /\ db.operations[o].required
                    /\ db.operations[o].month \in Months}
             amounts == [o \in counted |-> db.operations[o].amount]
  <2>1. IsFiniteSet(counted)
    BY <1>1, FS_Subset
  <2>2. amounts \in [counted -> Int]
    BY <1>1
  <2>3. SumOf(amounts) \in Int
    BY <2>1, <2>2, SumType
  <2>. QED BY <2>3 DEF RequiredSpend
<1> DEFINE scope(d) == ProposedFor(db.categories, db.items, d)
           total(d) == SumOf([e \in scope(d) |-> RequiredSpend(db.operations, Months, e)])
<1>4. ASSUME NEW d \in Live(db.categories) PROVE total(d) \in Int
  <2>1. scope(d) \subseteq DOMAIN db.categories
    BY DEF ProposedFor, Children, Live
  <2>2. IsFiniteSet(scope(d))
    BY <1>2, <2>1, FS_Subset
  <2>. HIDE DEF scope
  <2>3. [e \in scope(d) |-> RequiredSpend(db.operations, Months, e)] \in [scope(d) -> Int]
    BY <1>3
  <2>. QED BY <2>2, <2>3, SumType
<1>5. c \in Live(db.categories) /\ proposed[c] = Monthly(total(c))
  BY DEF Proposals
<1>. HIDE DEF total
<1>6. ASSUME NEW n \in Int PROVE Monthly(n) \in Nat
  <2>1. Magnitude(n) \in Nat
    BY DEF Magnitude
  <2>. QED BY <2>1 DEF Monthly, MonthsWindow
<1>. QED BY <1>4, <1>5, <1>6 DEF Live

\* generate_from_categories: what is proposed is of categories of expenses.
LEMMA GenerateKeeps ==
  ASSUME RowsInv, NEW s \in Sessions, Idle(s), GenerateRecurring(s)
  PROVE  RowsInv'
<1> DEFINE proposed == Proposals(db.categories, db.operations, db.items, Months)
<1>0. PICK chosen \in (SUBSET DOMAIN proposed) \ {{}}, ids \in SUBSET (ItemIds \ Held("items")) :
        \E of \in [ids -> chosen] :
          Look(s, "generate_from_categories",
                    [Nowhere EXCEPT !.items =
                       [i \in ids |->
                          Insert([category |-> of[i], monthly |-> proposed[of[i]],
                                  archived |-> FALSE])]])
  BY DEF GenerateRecurring
<1>1. PICK of \in [ids -> chosen] :
        Look(s, "generate_from_categories",
                    [Nowhere EXCEPT !.items =
                       [i \in ids |->
                          Insert([category |-> of[i], monthly |-> proposed[of[i]],
                                  archived |-> FALSE])]])
  BY <1>0
<1>2. \A c \in chosen : /\ c \in DOMAIN db.categories /\ db.categories[c].kind = "expense"
                        /\ proposed[c] \in Nat
  BY ProposedNat
<1>. HIDE DEF proposed
<1> DEFINE rows == [i \in ids |-> Insert([category |-> of[i], monthly |-> proposed[of[i]],
                                          archived |-> FALSE])]
<1>3. ASSUME NEW i \in DOMAIN rows PROVE Sound("items", i, rows[i])
  <2>1. of[i] \in DOMAIN db.categories /\ db.categories[of[i]].kind = "expense"
        /\ proposed[of[i]] \in Nat /\ of[i] \in CategoryIds /\ i \in ItemIds
    BY <1>2, PayeesKnown
  <2>2. PICK row : row = [category |-> of[i], monthly |-> proposed[of[i]], archived |-> FALSE]
    OBVIOUS
  <2>3. Apt(Insert(row), Item(Ids)) /\ ForExpense(Insert(row))
    BY <2>1, <2>2, NewItem
  <2>4. rows[i] = Insert(row)
    BY <2>2
  <2>. QED BY <2>1, <2>3, <2>4, ItemSound
<1>4. Look(s, "generate_from_categories", [Nowhere EXCEPT !["items"] = rows])
  BY <1>1
<1>. HIDE DEF rows
<1>5. Plain([Nowhere EXCEPT !["items"] = rows])
  BY <1>3, OneTablePlain, IdsOf
<1>. QED BY <1>4, <1>5, PlainLook

\* Every request of recurring expenses.
LEMMA RecurringKeep ==
  ASSUME RowsInv, NEW s \in Sessions, Idle(s), AskRecurring(s)
  PROVE  RowsInv'
<1>1. DOMAIN db.items \subseteq ItemIds
  BY IdsOf DEF RowsInv, TypeOK, Typed, IsTable
<1>2. CASE CreateRecurring(s)
  <2>1. PICK i \in ItemIds, c \in CategoryIds :
          /\ ForExpenses(c)
          /\ Look(s, "create_recurring",
               To("items", i, Insert([category |-> c, monthly |-> 1, archived |-> FALSE])))
    BY <1>2 DEF CreateRecurring
  <2>2. PICK row : row = [category |-> c, monthly |-> 1, archived |-> FALSE]
    OBVIOUS
  <2>3. Apt(Insert(row), Item(Ids)) /\ ForExpense(Insert(row))
    BY <2>1, <2>2, NewItem DEF ForExpenses
  <2>. QED BY <2>1, <2>2, <2>3, ItemLook
<1>3. CASE UpdateRecurring(s)
  <2>1. PICK i \in DOMAIN db.items, c \in CategoryIds :
          /\ ForExpenses(c)
          /\ Look(s, "update_recurring", To("items", i, Update(db.items[i], [category |-> c])))
    BY <1>3 DEF UpdateRecurring
  <2>2. Apt(Update(db.items[i], [category |-> c]), Item(Ids))
    BY ItemApt
  <2>3. ForExpense(Update(db.items[i], [category |-> c]))
    BY <2>1, UpdateOf DEF ForExpense, Writes, ForExpenses
  <2>. QED BY <1>1, <2>1, <2>2, <2>3, ItemLook
<1>4. CASE ArchiveRecurring(s)
  <2>1. PICK i \in DOMAIN db.items :
          Look(s, "archive_recurring", To("items", i, Update(db.items[i], [archived |-> TRUE])))
    BY <1>4 DEF ArchiveRecurring
  <2>2. Apt(Update(db.items[i], [archived |-> TRUE]), Item(Ids))
    BY ItemApt
  <2>3. ForExpense(Update(db.items[i], [archived |-> TRUE]))
    BY UpdateOf DEF ForExpense, Writes
  <2>. QED BY <1>1, <2>1, <2>2, <2>3, ItemLook
<1>. QED BY <1>2, <1>3, <1>4, GenerateKeeps DEF AskRecurring

-----------------------------------------------------------------------------
(* Budgets and goals.                                                      *)

PlanSound(change) ==
  /\ Apt(change, Plan(Ids))
  /\ ForExpense(change)
  /\ change.do = "update" => "category" \notin DOMAIN change.columns
  /\ Writes(change, "planned") => change.columns.planned >= 0

\* Requests that change plans alone.
LEMMA PlansPlain ==
  ASSUME NEW plans, DOMAIN plans \subseteq PlanIds, \A b \in DOMAIN plans : PlanSound(plans[b])
  PROVE  Plain([Nowhere EXCEPT !["plans"] = plans])
<1>1. \A b \in DOMAIN plans : Sound("plans", b, plans[b])
  BY IdsOf DEF Sound, PlanSound
<1>. QED BY <1>1, OneTablePlain, IdsOf

\* So they keep the invariant,
LEMMA PlansLook ==
  ASSUME RowsInv, NEW s \in Sessions, Idle(s), NEW handler, NEW plans,
         DOMAIN plans \subseteq PlanIds, \A b \in DOMAIN plans : PlanSound(plans[b]),
         Look(s, handler, [Nowhere EXCEPT !["plans"] = plans])
  PROVE  RowsInv'
  BY PlansPlain, PlainLook

\* and a request that changes one.
LEMMA PlanLook ==
  ASSUME RowsInv, NEW s \in Sessions, Idle(s), NEW handler, NEW b \in PlanIds, NEW change,
         PlanSound(change), Look(s, handler, To("plans", b, change))
  PROVE  RowsInv'
<1> DEFINE plans == [r \in {b} |-> change]
<1>1. DOMAIN plans \subseteq PlanIds /\ \A r \in DOMAIN plans : PlanSound(plans[r])
  OBVIOUS
<1>2. Look(s, handler, [Nowhere EXCEPT !["plans"] = plans])
  BY DEF To
<1>. HIDE DEF plans
<1>. QED BY <1>1, <1>2, PlansLook

\* A new plan of a category of expenses that is not negative.
LEMMA NewPlanSound ==
  ASSUME RowsInv, NEW month \in Months, NEW c, ForExpenses(c), NEW planned \in Nat,
         NEW rollover \in BOOLEAN
  PROVE  PlanSound(NewPlan(month, c, planned, rollover))
<1> DEFINE row == [month |-> month, category |-> c, planned |-> planned, rollover |-> rollover]
<1>1. c \in CategoryIds /\ c \in DOMAIN db.categories /\ db.categories[c].kind = "expense"
  BY PayeesKnown DEF ForExpenses
<1>2. row \in Plan(Ids) /\ row.category = c /\ row.planned = planned
  BY <1>1, IdsOf DEF Plan
<1>. HIDE DEF row
<1>3. PlanSound(Insert(row))
  BY <1>1, <1>2, InsertApt, InsertOf DEF PlanSound, ForExpense, Writes
<1>. QED BY <1>3 DEF NewPlan, row

\* An update of a plan to sums that are not negative.
LEMMA PlanUpdate ==
  ASSUME NEW row, NEW new, DOMAIN new \subseteq {"planned", "rollover"},
         "planned" \in DOMAIN new => new.planned \in Nat,
         "rollover" \in DOMAIN new => new.rollover \in BOOLEAN
  PROVE  PlanSound(Update(row, new))
<1>1. Apt(Update(row, new), Plan(Ids))
  BY PlanApt
<1>2. /\ Update(row, new).do = "update"
      /\ DOMAIN Update(row, new).columns \subseteq {"planned", "rollover"}
      /\ "planned" \in DOMAIN Update(row, new).columns =>
           Update(row, new).columns.planned \in Nat
  BY UpdateOf
<1>. QED BY <1>1, <1>2 DEF PlanSound, ForExpense, Writes

\* A plan may be deleted.
LEMMA PlanDelete == PlanSound(Delete)
  BY DEF PlanSound, Apt, Delete, ForExpense, Writes

\* The plans that there are.
LEMMA PlansKnown ==
  ASSUME RowsInv
  PROVE  /\ DOMAIN db.plans \subseteq PlanIds
         /\ \A b \in DOMAIN db.plans : db.plans[b].planned \in Nat /\ db.plans[b] \in Plan(Ids)
<1>1. IsTable(db.plans, PlanIds, Plan(Ids))
  BY IdsOf DEF RowsInv, TypeOK, Typed
<1>2. \A b \in DOMAIN db.plans : db.plans[b].planned >= 0
  BY DEF RowsInv, Agree, PlansHold
<1>. QED BY <1>1, <1>2, PlanRow DEF IsTable

\* import_budgets: the plans of a month are made or overwritten.
LEMMA ImportKeeps ==
  ASSUME RowsInv, NEW s \in Sessions, Idle(s), ImportBudgets(s)
  PROVE  RowsInv'
<1>1. PICK month \in Months, c \in CategoryIds, d \in CategoryIds, a \in PlanIds, b \in PlanIds,
           planned \in Amounts :
        /\ c # d /\ a # b
        /\ ForExpenses(c) /\ ForExpenses(d)
        /\ a \in IF PlanOf(month, c) = {} THEN FreePlans ELSE PlanOf(month, c)
        /\ b \in IF PlanOf(month, d) = {} THEN FreePlans ELSE PlanOf(month, d)
        /\ Look(s, "import_budgets",
            [Nowhere EXCEPT !.plans =
               [r \in {a, b} |-> Replaced(r, month, IF r = a THEN c ELSE d, planned)]])
  BY DEF ImportBudgets
<1>2. planned \in Nat
  BY InputsAssumption DEF InputsAssumption
<1> DEFINE plans == [r \in {a, b} |-> Replaced(r, month, IF r = a THEN c ELSE d, planned)]
<1>3. ASSUME NEW r \in {a, b} PROVE PlanSound(Replaced(r, month, IF r = a THEN c ELSE d, planned))
  <2>1. PICK e : e = IF r = a THEN c ELSE d
    OBVIOUS
  <2>2. PlanSound(NewPlan(month, e, planned, FALSE))
    BY <1>1, <1>2, <2>1, NewPlanSound
  <2>3. PlanSound(Update(db.plans[r], [planned |-> planned, rollover |-> FALSE]))
    BY <1>2, PlanUpdate
  <2>4. PlanSound(Replaced(r, month, e, planned))
    BY <2>2, <2>3 DEF Replaced
  <2>. QED BY <2>1, <2>4
<1>4. DOMAIN plans \subseteq PlanIds /\ \A r \in DOMAIN plans : PlanSound(plans[r])
  BY <1>3
<1>5. Look(s, "import_budgets", [Nowhere EXCEPT !["plans"] = plans])
  BY <1>1
<1>. HIDE DEF plans
<1>. QED BY <1>4, <1>5, PlansLook

\* move_planned: what is left in the source has been checked.
LEMMA MoveKeeps ==
  ASSUME RowsInv, NEW s \in Sessions, Idle(s), MovePlanned(s)
  PROVE  RowsInv'
<1>1. PICK month \in Months, from \in CategoryIds, to \in CategoryIds, amount \in Amounts \ {0} :
        /\ from # to
        /\ ForExpenses(from) /\ ForExpenses(to)
        /\ \E source \in PlanOf(month, from),
              target \in IF PlanOf(month, to) = {} THEN FreePlans ELSE PlanOf(month, to) :
             LET left == db.plans[source].planned - amount IN
             /\ left >= 0
             /\ Look(s, "move_planned",
                 [Nowhere EXCEPT !.plans =
                    [r \in {source, target} |->
                       IF r = source THEN Update(db.plans[r], [planned |-> left])
                       ELSE IF PlanOf(month, to) = {} THEN NewPlan(month, to, amount, FALSE)
                       ELSE Raised(r, amount)]])
  BY DEF MovePlanned
<1>2. PICK source \in PlanOf(month, from),
           target \in IF PlanOf(month, to) = {} THEN FreePlans ELSE PlanOf(month, to) :
        /\ db.plans[source].planned - amount >= 0
        /\ Look(s, "move_planned",
             [Nowhere EXCEPT !.plans =
                [r \in {source, target} |->
                   IF r = source
                     THEN Update(db.plans[r], [planned |-> db.plans[source].planned - amount])
                   ELSE IF PlanOf(month, to) = {} THEN NewPlan(month, to, amount, FALSE)
                   ELSE Raised(r, amount)]])
  BY <1>1
<1> DEFINE left == db.plans[source].planned - amount
           plans == [r \in {source, target} |->
                       IF r = source THEN Update(db.plans[r], [planned |-> left])
                       ELSE IF PlanOf(month, to) = {} THEN NewPlan(month, to, amount, FALSE)
                       ELSE Raised(r, amount)]
<1>3. amount \in Nat
  BY InputsAssumption DEF InputsAssumption
<1>4. source \in DOMAIN db.plans /\ left \in Nat
  BY <1>2, <1>3, PlansKnown DEF PlanOf
<1>5. target \in PlanIds /\ (PlanOf(month, to) # {} => target \in DOMAIN db.plans)
  BY PlansKnown DEF PlanOf, FreePlans
<1>. HIDE DEF left
<1>6. PlanSound(Update(db.plans[source], [planned |-> left]))
  BY <1>4, PlanUpdate
<1>7. PlanSound(NewPlan(month, to, amount, FALSE))
  BY <1>1, <1>3, NewPlanSound
<1>8. ASSUME PlanOf(month, to) # {} PROVE PlanSound(Raised(target, amount))
  <2>1. db.plans[target].planned + amount \in Nat
    BY <1>3, <1>5, <1>8, PlansKnown
  <2>. QED BY <2>1, PlanUpdate DEF Raised
<1>9. DOMAIN plans \subseteq PlanIds /\ \A r \in DOMAIN plans : PlanSound(plans[r])
  BY <1>4, <1>5, <1>6, <1>7, <1>8, PlansKnown
<1>10. Look(s, "move_planned", [Nowhere EXCEPT !["plans"] = plans])
  BY <1>2 DEF left
<1>. HIDE DEF plans
<1>. QED BY <1>9, <1>10, PlansLook

\* A request that changes one goal.
LEMMA GoalLook ==
  ASSUME RowsInv, NEW s \in Sessions, Idle(s), NEW handler, NEW g \in GoalIds, NEW change,
         Apt(change, Goal(Ids)), Known(change, "category"),
         Look(s, handler, To("goals", g, change))
  PROVE  RowsInv'
<1>1. Sound("goals", g, change)
  BY IdsOf DEF Sound
<1>. QED BY <1>1, ToPlain, PlainLook, IdsOf

\* upsert_goal and delete_goal.
LEMMA GoalsKeep ==
  ASSUME RowsInv, NEW s \in Sessions, Idle(s), UpsertGoal(s) \/ DeleteGoal(s)
  PROVE  RowsInv'
<1>1. CASE UpsertGoal(s)
  <2>1. PICK c \in DOMAIN db.categories, q \in GoalRequests, g \in GoalIds :
          LET row == [category |-> c, kind |-> q.kind, amount |-> q.amount, due |-> q.due] IN
          /\ g \in IF GoalOf(c) = {} THEN GoalIds \ Held("goals") ELSE GoalOf(c)
          /\ Look(s, "upsert_goal",
               To("goals", g,
                  IF GoalOf(c) = {} THEN Insert(row) ELSE Update(db.goals[g], row)))
    BY <1>1 DEF UpsertGoal
  <2>2. PICK row : row = [category |-> c, kind |-> q.kind, amount |-> q.amount, due |-> q.due]
    OBVIOUS
  <2>3. q \in [kind : GoalKinds, amount : Nat, due : Months \cup {None}]
    BY InputsAssumption DEF InputsAssumption
  <2>4. row \in Goal(Ids) /\ row.category = c
    BY <2>2, <2>3, PayeesKnown, IdsOf DEF Goal
  <2>5. Apt(Insert(row), Goal(Ids)) /\ Known(Insert(row), "category")
    BY <2>4, InsertApt, InsertOf DEF Known
  <2>6. Apt(Update(db.goals[g], row), Goal(Ids))
    BY <2>4, GoalApt, GoalRow
  <2>7. Known(Update(db.goals[g], row), "category")
    BY <2>4, UpdateOf DEF Known, Writes
  <2>8. PICK change : change = IF GoalOf(c) = {} THEN Insert(row) ELSE Update(db.goals[g], row)
    OBVIOUS
  <2>9. Look(s, "upsert_goal", To("goals", g, change))
    BY <2>1, <2>2, <2>8
  <2>. QED BY <2>5, <2>6, <2>7, <2>8, <2>9, GoalLook
<1>2. CASE DeleteGoal(s)
  <2>1. PICK g \in DOMAIN db.goals : Look(s, "delete_goal", To("goals", g, Delete))
    BY <1>2 DEF DeleteGoal
  <2>2. g \in GoalIds
    BY IdsOf DEF RowsInv, TypeOK, Typed, IsTable
  <2>. QED BY <2>1, <2>2, GoalLook DEF Apt, Delete, Known, Writes
<1>. QED BY <1>1, <1>2

\* Every request of budgets and goals.
LEMMA BudgetsKeep ==
  ASSUME RowsInv, NEW s \in Sessions, Idle(s), AskBudgets(s)
  PROVE  RowsInv'
<1>1. CASE CreateBudget(s)
  <2>1. PICK b \in FreePlans, month \in Months, c \in CategoryIds, planned \in Amounts,
             rollover \in BOOLEAN :
          /\ ForExpenses(c)
          /\ Look(s, "create_budget", To("plans", b, NewPlan(month, c, planned, rollover)))
    BY <1>1 DEF CreateBudget
  <2>2. planned \in Nat /\ b \in PlanIds
    BY InputsAssumption DEF InputsAssumption, FreePlans
  <2>3. PlanSound(NewPlan(month, c, planned, rollover))
    BY <2>1, <2>2, NewPlanSound
  <2>. QED BY <2>1, <2>2, <2>3, PlanLook
<1>2. CASE UpdateBudget(s)
  <2>1. PICK b \in DOMAIN db.plans, new \in [planned : Amounts] \cup [rollover : BOOLEAN] :
          Look(s, "update_budget", To("plans", b, Update(db.plans[b], new)))
    BY <1>2 DEF UpdateBudget
  <2>2. /\ DOMAIN new \subseteq {"planned", "rollover"}
        /\ "planned" \in DOMAIN new => new.planned \in Nat
        /\ "rollover" \in DOMAIN new => new.rollover \in BOOLEAN
    BY InputsAssumption DEF InputsAssumption
  <2>3. PlanSound(Update(db.plans[b], new)) /\ b \in PlanIds
    BY <2>2, PlanUpdate, PlansKnown
  <2>. QED BY <2>1, <2>3, PlanLook
<1>3. CASE DeleteBudget(s)
  <2>1. PICK b \in DOMAIN db.plans : Look(s, "delete_budget", To("plans", b, Delete))
    BY <1>3 DEF DeleteBudget
  <2>. QED BY <2>1, PlanDelete, PlansKnown, PlanLook
<1>. QED BY <1>1, <1>2, <1>3, ImportKeeps, MoveKeeps, GoalsKeep DEF AskBudgets

-----------------------------------------------------------------------------
(* The restoration of a backup.                                            *)

\* A set that is no larger fits into another, each element in its own place.
LEMMA InjectionExists ==
  ASSUME NEW S, NEW T, IsFiniteSet(S), IsFiniteSet(T), Cardinality(S) <= Cardinality(T)
  PROVE  \E f \in [S -> T] : \A i, j \in S : f[i] = f[j] => i = j
<1> DEFINE n == Cardinality(S)
           m == Cardinality(T)
<1>1. n \in Nat /\ m \in Nat /\ n <= m
  BY FS_CardinalityType
<1>2. PICK g \in Bijection(1 .. n, S) : TRUE
  BY FS_CardinalityType DEF ExistsBijection
<1>3. PICK h \in Bijection(1 .. m, T) : TRUE
  BY FS_CardinalityType DEF ExistsBijection
<1>4. g \in [1 .. n -> S] /\ \A x \in S : \E k \in 1 .. n : g[k] = x
  BY <1>2 DEF Bijection, Surjection
<1>5. h \in [1 .. m -> T] /\ \A k, l \in 1 .. m : h[k] = h[l] => k = l
  BY <1>3 DEF Bijection, Injection, IsInjective
<1> DEFINE place(x) == CHOOSE k \in 1 .. n : g[k] = x
           f == [x \in S |-> h[place(x)]]
<1>6. \A x \in S : place(x) \in 1 .. n /\ g[place(x)] = x
  BY <1>4
<1>7. \A x \in S : place(x) \in 1 .. m
  BY <1>1, <1>6
<1>. HIDE DEF place, n, m
<1>8. f \in [S -> T]
  BY <1>5, <1>7
<1>9. ASSUME NEW i \in S, NEW j \in S, f[i] = f[j] PROVE i = j
  <2>1. h[place(i)] = h[place(j)]
    BY <1>9
  <2>2. place(i) = place(j)
    BY <1>5, <1>7, <2>1
  <2>. QED BY <1>6, <2>2
<1>. QED BY <1>8, <1>9

\* The new ids of the rows of a table are free, and no two rows have the same.
LEMMA NewIdsFree ==
  ASSUME NEW t \in TableNames, NEW rows, IsFiniteSet(DOMAIN rows),
         Cardinality(DOMAIN rows) <= Cardinality(Ids[t] \ Held(t))
  PROVE  /\ NewIds(t, rows) \in [DOMAIN rows -> Ids[t] \ Held(t)]
         /\ \A i, j \in DOMAIN rows : NewIds(t, rows)[i] = NewIds(t, rows)[j] => i = j
<1>1. IsFiniteSet(Ids[t] \ Held(t))
  BY IdsOf, FS_Subset
<1>2. PICK free : free = Ids[t] \ Held(t)
  OBVIOUS
<1>3. \E f \in [DOMAIN rows -> free] : \A i, j \in DOMAIN rows : f[i] = f[j] => i = j
  BY <1>1, <1>2, InjectionExists
<1>4. NewIds(t, rows) = CHOOSE f \in [DOMAIN rows -> free] :
                          \A i, j \in DOMAIN rows : f[i] = f[j] => i = j
  BY <1>2 DEF NewIds
<1>. QED BY <1>2, <1>3, <1>4

\* A reference is led to the new id of its row, and nothing else of a row changes.
LEMMA RemappedReference ==
  ASSUME NEW ref \in References, NEW row, ref.column \in DOMAIN row, NEW ids
  PROVE  Remapped(ref.of, row, ids)[ref.column]
           = IF row[ref.column] = None THEN None ELSE ids[ref.to][row[ref.column]]
<1> DEFINE led == {r.to : r \in {q \in References : q.of = ref.of /\ q.column = ref.column}}
<1>1. \A q \in References : q.of = ref.of /\ q.column = ref.column => q.to = ref.to
  BY DEF References
<1>2. led = {ref.to}
  BY <1>1
<1>3. (CHOOSE t \in led : TRUE) = ref.to
  BY <1>2
<1>. HIDE DEF led
<1>4. Remapped(ref.of, row, ids)[ref.column] =
        IF led = {} \/ row[ref.column] = None THEN row[ref.column]
        ELSE ids[CHOOSE t \in led : TRUE][row[ref.column]]
  BY DEF Remapped, led
<1>. QED BY <1>2, <1>3, <1>4

\* A column that refers to nothing is copied.
LEMMA RemappedOther ==
  ASSUME NEW table, NEW row, NEW c \in DOMAIN row, NEW ids,
         \A ref \in References : ~(ref.of = table /\ ref.column = c)
  PROVE  Remapped(table, row, ids)[c] = row[c]
<1> DEFINE led == {r.to : r \in {q \in References : q.of = table /\ q.column = c}}
<1>1. led = {}
  OBVIOUS
<1>2. Remapped(table, row, ids)[c] =
        IF led = {} \/ row[c] = None THEN row[c] ELSE ids[CHOOSE t \in led : TRUE][row[c]]
  BY DEF Remapped
<1>. QED BY <1>1, <1>2

\* The reference of a restored row.
NewReference(ids, to, old) == IF old = None THEN None ELSE ids[to][old]

\* Every row that is restored has a new id.
Leads(ids, from) ==
  \A t \in TableNames : ids[t] \in [from[t] -> Ids[t]] /\ None \notin from[t]

\* The columns of a row stay.
LEMMA RemappedColumns ==
  ASSUME NEW ids, NEW row
  PROVE  /\ \A t \in TableNames :
              Remapped(t, row, ids) = [c \in DOMAIN row |-> Remapped(t, row, ids)[c]]
         /\ \A ref \in References : ref.column \in DOMAIN row =>
              Remapped(ref.of, row, ids)[ref.column] = NewReference(ids, ref.to, row[ref.column])
         /\ \A t \in TableNames : \A c \in DOMAIN row :
              (\A ref \in References : ~(ref.of = t /\ ref.column = c)) =>
                Remapped(t, row, ids)[c] = row[c]
<1>1. \A t \in TableNames :
        Remapped(t, row, ids) = [c \in DOMAIN row |-> Remapped(t, row, ids)[c]]
  BY DEF Remapped
<1>2. \A ref \in References : ref.column \in DOMAIN row =>
        Remapped(ref.of, row, ids)[ref.column] = NewReference(ids, ref.to, row[ref.column])
  BY RemappedReference DEF NewReference
<1>3. \A t \in TableNames : \A c \in DOMAIN row :
        (\A ref \in References : ~(ref.of = t /\ ref.column = c)) =>
          Remapped(t, row, ids)[c] = row[c]
  BY RemappedOther
<1>. QED BY <1>1, <1>2, <1>3

\* A new reference is to a new id, or to nothing.
LEMMA NewReferenceType ==
  ASSUME NEW ids, NEW from, Leads(ids, from), NEW t \in TableNames
  PROVE  /\ \A x \in from[t] : NewReference(ids, t, x) \in Ids[t]
         /\ \A x \in from[t] \cup {None} : NewReference(ids, t, x) \in Ids[t] \cup {None}
  BY DEF NewReference, Leads

\* Rows of a backup under new ids are rows of the tables: an account,
LEMMA RemappedAccount ==
  ASSUME NEW ids, NEW from, Leads(ids, from), NEW row \in Account
  PROVE  Remapped("accounts", row, ids) \in Account
<1>1. DOMAIN row = {"name", "initial", "archived"}
  BY DEF Account
<1>2. PICK new : new = Remapped("accounts", row, ids)
  OBVIOUS
<1>3. \A c \in DOMAIN row : new[c] = row[c]
  BY RemappedColumns, <1>1, <1>2 DEF References, TableNames
<1>4. new = [c \in DOMAIN row |-> row[c]]
  BY RemappedColumns, <1>2, <1>3 DEF TableNames
<1>5. new = row
  BY <1>1, <1>4 DEF Account
<1>. QED BY <1>2, <1>5

\* a category,
LEMMA RemappedCategory ==
  ASSUME NEW ids, NEW from, Leads(ids, from), NEW row \in Category(from)
  PROVE  /\ Remapped("categories", row, ids) \in Category(Ids)
         /\ Remapped("categories", row, ids).kind = row.kind
         /\ Remapped("categories", row, ids).name = row.name
         /\ Remapped("categories", row, ids).archived = row.archived
         /\ Remapped("categories", row, ids).parent
              = NewReference(ids, "categories", row.parent)
<1>1. /\ DOMAIN row = {"name", "kind", "parent", "archived"}
      /\ row.name \in Names /\ row.kind \in CategoryKinds /\ row.archived \in BOOLEAN
      /\ row.parent \in from["categories"] \cup {None}
  BY DEF Category
<1>2. PICK new : new = Remapped("categories", row, ids)
  OBVIOUS
<1>3. new.name = row.name /\ new.kind = row.kind /\ new.archived = row.archived
  BY RemappedColumns, <1>1, <1>2 DEF References, TableNames
<1>4. new.parent = NewReference(ids, "categories", row.parent)
  BY RemappedColumns, <1>1, <1>2 DEF References
<1>5. new = [c \in {"name", "kind", "parent", "archived"} |-> new[c]]
  BY RemappedColumns, <1>1, <1>2 DEF TableNames
<1>6. new = [name |-> new.name, kind |-> new.kind, parent |-> new.parent,
             archived |-> new.archived]
  BY <1>5
<1>7. new.parent \in Ids.categories \cup {None}
  BY NewReferenceType, <1>1, <1>4 DEF TableNames
<1>8. new \in Category(Ids)
  BY <1>1, <1>3, <1>6, <1>7 DEF Category
<1>. QED BY <1>2, <1>3, <1>4, <1>8

\* a payee,
LEMMA RemappedPayee ==
  ASSUME NEW ids, NEW from, Leads(ids, from), NEW row \in Payee(from)
  PROVE  /\ Remapped("payees", row, ids) \in Payee(Ids)
         /\ Remapped("payees", row, ids).varied = row.varied
         /\ Remapped("payees", row, ids).last = NewReference(ids, "categories", row.last)
<1>1. /\ DOMAIN row = {"key", "last", "varied"}
      /\ row.key \in Keys /\ row.varied \in BOOLEAN
      /\ row.last \in from["categories"] \cup {None}
  BY DEF Payee
<1>2. PICK new : new = Remapped("payees", row, ids)
  OBVIOUS
<1>3. new.key = row.key /\ new.varied = row.varied
  BY RemappedColumns, <1>1, <1>2 DEF References, TableNames
<1>4. new.last = NewReference(ids, "categories", row.last)
  BY RemappedColumns, <1>1, <1>2 DEF References
<1>5. new = [c \in {"key", "last", "varied"} |-> new[c]]
  BY RemappedColumns, <1>1, <1>2 DEF TableNames
<1>6. new = [key |-> new.key, last |-> new.last, varied |-> new.varied]
  BY <1>5
<1>7. new.last \in Ids.categories \cup {None}
  BY NewReferenceType, <1>1, <1>4 DEF TableNames
<1>8. new \in Payee(Ids)
  BY <1>1, <1>3, <1>6, <1>7 DEF Payee
<1>. QED BY <1>2, <1>3, <1>4, <1>8

\* an operation,
LEMMA RemappedOperation ==
  ASSUME NEW ids, NEW from, Leads(ids, from), NEW row \in Operation(from)
  PROVE  /\ Remapped("operations", row, ids) \in Operation(Ids)
         /\ Remapped("operations", row, ids).category
              = NewReference(ids, "categories", row.category)
<1>1. /\ DOMAIN row =
           {"account", "kind", "amount", "category", "payee", "required", "month"}
      /\ row.account \in from["accounts"] /\ row.kind \in OperationKinds /\ row.amount \in Int
      /\ row.category \in from["categories"] \cup {None}
      /\ row.payee \in from["payees"] \cup {None}
      /\ row.required \in BOOLEAN /\ row.month \in Months
  BY DEF Operation
<1>2. PICK new : new = Remapped("operations", row, ids)
  OBVIOUS
<1>3. /\ new.kind = row.kind /\ new.amount = row.amount /\ new.required = row.required
      /\ new.month = row.month
  BY RemappedColumns, <1>1, <1>2 DEF References, TableNames
<1>4. /\ new.category = NewReference(ids, "categories", row.category)
      /\ new.payee = NewReference(ids, "payees", row.payee)
      /\ new.account = NewReference(ids, "accounts", row.account)
  BY RemappedColumns, <1>1, <1>2 DEF References
<1>5. new = [c \in {"account", "kind", "amount", "category", "payee", "required", "month"}
               |-> new[c]]
  BY RemappedColumns, <1>1, <1>2 DEF TableNames
<1>6. new = [account |-> new.account, kind |-> new.kind, amount |-> new.amount,
             category |-> new.category, payee |-> new.payee, required |-> new.required,
             month |-> new.month]
  BY <1>5
<1>7. /\ new.category \in Ids.categories \cup {None} /\ new.payee \in Ids.payees \cup {None}
      /\ new.account \in Ids.accounts
  BY NewReferenceType, <1>1, <1>4 DEF TableNames
<1>8. new \in Operation(Ids)
  BY <1>1, <1>3, <1>6, <1>7 DEF Operation
<1>. QED BY <1>2, <1>4, <1>8

\* a recurring expense,
LEMMA RemappedItem ==
  ASSUME NEW ids, NEW from, Leads(ids, from), NEW row \in Item(from)
  PROVE  /\ Remapped("items", row, ids) \in Item(Ids)
         /\ Remapped("items", row, ids).category
              = NewReference(ids, "categories", row.category)
<1>1. /\ DOMAIN row = {"category", "monthly", "archived"}
      /\ row.monthly \in Nat /\ row.archived \in BOOLEAN /\ row.category \in from["categories"]
  BY DEF Item
<1>2. PICK new : new = Remapped("items", row, ids)
  OBVIOUS
<1>3. new.monthly = row.monthly /\ new.archived = row.archived
  BY RemappedColumns, <1>1, <1>2 DEF References, TableNames
<1>4. new.category = NewReference(ids, "categories", row.category)
  BY RemappedColumns, <1>1, <1>2 DEF References
<1>5. new = [c \in {"category", "monthly", "archived"} |-> new[c]]
  BY RemappedColumns, <1>1, <1>2 DEF TableNames
<1>6. new = [category |-> new.category, monthly |-> new.monthly, archived |-> new.archived]
  BY <1>5
<1>7. new.category \in Ids.categories
  BY NewReferenceType, <1>1, <1>4 DEF TableNames
<1>8. new \in Item(Ids)
  BY <1>1, <1>3, <1>6, <1>7 DEF Item
<1>. QED BY <1>2, <1>4, <1>8

\* a plan,
LEMMA RemappedPlan ==
  ASSUME NEW ids, NEW from, Leads(ids, from), NEW row \in Plan(from)
  PROVE  /\ Remapped("plans", row, ids) \in Plan(Ids)
         /\ Remapped("plans", row, ids).planned = row.planned
         /\ Remapped("plans", row, ids).category
              = NewReference(ids, "categories", row.category)
<1>1. /\ DOMAIN row = {"month", "category", "planned", "rollover"}
      /\ row.month \in Months /\ row.planned \in Int /\ row.rollover \in BOOLEAN
      /\ row.category \in from["categories"]
  BY DEF Plan
<1>2. PICK new : new = Remapped("plans", row, ids)
  OBVIOUS
<1>3. new.month = row.month /\ new.planned = row.planned /\ new.rollover = row.rollover
  BY RemappedColumns, <1>1, <1>2 DEF References, TableNames
<1>4. new.category = NewReference(ids, "categories", row.category)
  BY RemappedColumns, <1>1, <1>2 DEF References
<1>5. new = [c \in {"month", "category", "planned", "rollover"} |-> new[c]]
  BY RemappedColumns, <1>1, <1>2 DEF TableNames
<1>6. new = [month |-> new.month, category |-> new.category, planned |-> new.planned,
             rollover |-> new.rollover]
  BY <1>5
<1>7. new.category \in Ids.categories
  BY NewReferenceType, <1>1, <1>4 DEF TableNames
<1>8. new \in Plan(Ids)
  BY <1>1, <1>3, <1>6, <1>7 DEF Plan
<1>. QED BY <1>2, <1>3, <1>4, <1>8

\* a goal.
LEMMA RemappedGoal ==
  ASSUME NEW ids, NEW from, Leads(ids, from), NEW row \in Goal(from)
  PROVE  /\ Remapped("goals", row, ids) \in Goal(Ids)
         /\ Remapped("goals", row, ids).category
              = NewReference(ids, "categories", row.category)
<1>1. /\ DOMAIN row = {"category", "kind", "amount", "due"}
      /\ row.kind \in GoalKinds /\ row.amount \in Nat /\ row.due \in Months \cup {None}
      /\ row.category \in from["categories"]
  BY DEF Goal
<1>2. PICK new : new = Remapped("goals", row, ids)
  OBVIOUS
<1>3. new.kind = row.kind /\ new.amount = row.amount /\ new.due = row.due
  BY RemappedColumns, <1>1, <1>2 DEF References, TableNames
<1>4. new.category = NewReference(ids, "categories", row.category)
  BY RemappedColumns, <1>1, <1>2 DEF References
<1>5. new = [c \in {"category", "kind", "amount", "due"} |-> new[c]]
  BY RemappedColumns, <1>1, <1>2 DEF TableNames
<1>6. new = [category |-> new.category, kind |-> new.kind, amount |-> new.amount,
             due |-> new.due]
  BY <1>5
<1>7. new.category \in Ids.categories
  BY NewReferenceType, <1>1, <1>4 DEF TableNames
<1>8. new \in Goal(Ids)
  BY <1>1, <1>3, <1>6, <1>7 DEF Goal
<1>. QED BY <1>2, <1>4, <1>8

\* What a restoration does: each row of the backup is added under a new id, and the default
\* categories are deleted.
Brings(tables, ids, changes) ==
  /\ Whole(tables)
  /\ \A t \in TableNames :
       /\ ids[t] \in [DOMAIN tables[t] -> Ids[t] \ Held(t)]
       /\ \A i, j \in DOMAIN tables[t] : ids[t][i] = ids[t][j] => i = j
       /\ \A r \in DOMAIN tables[t] :
            /\ ids[t][r] \in DOMAIN changes[t]
            /\ changes[t][ids[t][r]] = RestoredRow(t, tables[t][r], ids)
       /\ \A i \in DOMAIN changes[t] :
            \/ t = "categories" /\ i \in DOMAIN db.categories /\ changes[t][i] = Delete
            \/ \E r \in DOMAIN tables[t] :
                 i = ids[t][r] /\ changes[t][i] = RestoredRow(t, tables[t][r], ids)
  /\ \A c \in DOMAIN db.categories :
       c \in DOMAIN changes.categories /\ changes.categories[c] = Delete

\* restore_all.
LEMMA RestoreBrings ==
  ASSUME RowsInv, NEW s \in Sessions, NEW backup \in Backups, RestoreFrom(s, backup)
  PROVE  \E ids, changes :
           Look(s, "restore_all", changes) /\ Brings(backup.tables, ids, changes)
<1> DEFINE D == backup.tables
           ids == [t \in TableNames |-> NewIds(t, D[t])]
           new == [t \in TableNames |-> Restored(t, D[t], ids)]
           changes == [new EXCEPT !.categories = Joined(Cleared, @)]
<1>2. Whole(D) /\ EnoughIds(D) /\ Look(s, "restore_all", changes)
  BY DEF RestoreFrom
<1>3. \A t \in TableNames : IsFiniteSet(DOMAIN D[t])
  BY <1>2, BackupsAssumption DEF BackupsAssumption
<1>4. ASSUME NEW t \in TableNames
      PROVE  /\ ids[t] \in [DOMAIN D[t] -> Ids[t] \ Held(t)]
             /\ \A i, j \in DOMAIN D[t] : ids[t][i] = ids[t][j] => i = j
  <2>1. Cardinality(DOMAIN D[t]) <= Cardinality(Ids[t] \ Held(t))
    BY <1>2 DEF EnoughIds
  <2>2. IsFiniteSet(DOMAIN D[t])
    BY <1>3
  <2>. HIDE DEF D
  <2>3. ids[t] = NewIds(t, D[t])
    OBVIOUS
  <2>. QED BY <2>1, <2>2, <2>3, NewIdsFree
<1>. HIDE DEF D, ids
<1>5. \A t \in TableNames :
        /\ DOMAIN new[t] = {ids[t][r] : r \in DOMAIN D[t]}
        /\ \A r \in DOMAIN D[t] : new[t][ids[t][r]] = RestoredRow(t, D[t][r], ids)
  <2> TAKE t \in TableNames
  <2>1. PICK rows : rows = D[t]
    OBVIOUS
  <2>2. \A i, j \in DOMAIN rows : ids[t][i] = ids[t][j] => i = j
    BY <1>4, <2>1
  <2>3. /\ DOMAIN Restored(t, rows, ids) = {ids[t][r] : r \in DOMAIN rows}
        /\ \A r \in DOMAIN rows :
             Restored(t, rows, ids)[ids[t][r]] = RestoredRow(t, rows[r], ids)
    <3>1. ASSUME NEW r \in DOMAIN rows
          PROVE  (CHOOSE q \in DOMAIN rows : ids[t][q] = ids[t][r]) = r
      BY <2>2
    <3>. QED BY <3>1 DEF Restored
  <2>. QED BY <2>1, <2>3
<1>6. /\ changes.categories = Joined(Cleared, new.categories)
      /\ \A t \in TableNames \ {"categories"} : changes[t] = new[t]
  BY DEF TableNames
<1>7. \A r \in DOMAIN D.categories : ids.categories[r] \notin DOMAIN db.categories
  BY <1>4, IdsOf, FreeCategory
<1>. HIDE DEF new
<1>8. /\ DOMAIN changes.categories = DOMAIN db.categories \cup DOMAIN new.categories
      /\ \A c \in DOMAIN db.categories : changes.categories[c] = Delete
      /\ \A c \in DOMAIN new.categories \ DOMAIN db.categories :
           changes.categories[c] = new.categories[c]
  BY <1>6 DEF Joined, Cleared
<1>. HIDE DEF changes
<1>9. \A r \in DOMAIN D.categories :
        /\ ids.categories[r] \in DOMAIN changes.categories
        /\ changes.categories[ids.categories[r]]
             = RestoredRow("categories", D.categories[r], ids)
  BY <1>5, <1>7, <1>8, IdsOf
<1>10. ASSUME NEW t \in TableNames, NEW i \in DOMAIN changes[t]
       PROVE  \/ t = "categories" /\ i \in DOMAIN db.categories /\ changes[t][i] = Delete
              \/ \E r \in DOMAIN D[t] :
                   i = ids[t][r] /\ changes[t][i] = RestoredRow(t, D[t][r], ids)
  BY <1>5, <1>6, <1>8, <1>9
<1>11. ASSUME NEW t \in TableNames, NEW r \in DOMAIN D[t]
       PROVE  /\ ids[t][r] \in DOMAIN changes[t]
              /\ changes[t][ids[t][r]] = RestoredRow(t, D[t][r], ids)
  BY <1>5, <1>6, <1>9
<1>12. Brings(D, ids, changes)
  BY <1>2, <1>4, <1>8, <1>10, <1>11 DEF Brings
<1>13. Look(s, "restore_all", changes)
  BY <1>2 DEF changes, new
<1>. QED BY <1>12, <1>13 DEF D

\* restore_all: what agreed and was in order under the ids of the backup does so under new
\* ids, once the default categories have made room.
LEMMA RestoreKeeps ==
  ASSUME RowsInv, NEW s \in Sessions, Idle(s), NEW backup \in Backups, RestoreFrom(s, backup)
  PROVE  RowsInv'
<1>2. PICK ids, changes :
        Look(s, "restore_all", changes) /\ Brings(backup.tables, ids, changes)
  BY RestoreBrings
<1> DEFINE D == backup.tables
           from == [t \in TableNames |-> DOMAIN D[t]]
<1>3. Whole(D)
  BY <1>2 DEF Brings
<1>4. /\ \A t \in TableNames : IsFiniteSet(DOMAIN D[t]) /\ None \notin DOMAIN D[t]
      /\ Typed(D, from) /\ Agree(D) /\ InOrder(D)
  BY <1>3, BackupsAssumption DEF BackupsAssumption
<1>5. Brings(D, ids, changes)
  BY <1>2
<1>. HIDE DEF D
<1>6. ASSUME NEW t \in TableNames
      PROVE  /\ ids[t] \in [DOMAIN D[t] -> Ids[t] \ Held(t)]
             /\ \A i, j \in DOMAIN D[t] : ids[t][i] = ids[t][j] => i = j
  BY <1>5 DEF Brings
<1>7. Leads(ids, from) /\ \A t \in TableNames : from[t] = DOMAIN D[t]
  BY <1>4, <1>6 DEF Leads
<1>. HIDE DEF from
<1>8. \A t \in TableNames : \A r \in DOMAIN D[t] :
        /\ RestoredRow(t, D[t][r], ids).do = "insert"
        /\ t # "items" =>
             RestoredRow(t, D[t][r], ids).columns = Remapped(t, D[t][r], ids)
        /\ t = "items" =>
             RestoredRow(t, D[t][r], ids).columns
               = [Remapped(t, D[t][r], ids) EXCEPT !.archived = FALSE]
  BY InsertOf DEF RestoredRow
<1>9. \A t \in TableNames : \A r \in DOMAIN D[t] :
        /\ t = "accounts" => D[t][r] \in Account
        /\ t = "categories" => D[t][r] \in Category(from)
        /\ t = "payees" => D[t][r] \in Payee(from)
        /\ t = "operations" => D[t][r] \in Operation(from)
        /\ t = "items" => D[t][r] \in Item(from)
        /\ t = "plans" => D[t][r] \in Plan(from)
        /\ t = "goals" => D[t][r] \in Goal(from)
  BY <1>4, <1>7 DEF Typed, IsTable, TableNames
<1>10. \A t \in TableNames : \A r \in DOMAIN D[t] :
        /\ t = "accounts" => Remapped(t, D[t][r], ids) \in Account
        /\ t = "categories" =>
             /\ Remapped(t, D[t][r], ids) \in Category(Ids)
             /\ Remapped(t, D[t][r], ids).kind = D[t][r].kind
             /\ Remapped(t, D[t][r], ids).name = D[t][r].name
             /\ Remapped(t, D[t][r], ids).archived = D[t][r].archived
             /\ Remapped(t, D[t][r], ids).parent = NewReference(ids, "categories", D[t][r].parent)
        /\ t = "payees" =>
             /\ Remapped(t, D[t][r], ids) \in Payee(Ids)
             /\ Remapped(t, D[t][r], ids).varied = D[t][r].varied
             /\ Remapped(t, D[t][r], ids).last = NewReference(ids, "categories", D[t][r].last)
        /\ t = "operations" =>
             /\ Remapped(t, D[t][r], ids) \in Operation(Ids)
             /\ Remapped(t, D[t][r], ids).category
                  = NewReference(ids, "categories", D[t][r].category)
        /\ t = "items" =>
             /\ Remapped(t, D[t][r], ids) \in Item(Ids)
             /\ Remapped(t, D[t][r], ids).category
                  = NewReference(ids, "categories", D[t][r].category)
        /\ t = "plans" =>
             /\ Remapped(t, D[t][r], ids) \in Plan(Ids)
             /\ Remapped(t, D[t][r], ids).planned = D[t][r].planned
             /\ Remapped(t, D[t][r], ids).category
                  = NewReference(ids, "categories", D[t][r].category)
        /\ t = "goals" =>
             /\ Remapped(t, D[t][r], ids) \in Goal(Ids)
             /\ Remapped(t, D[t][r], ids).category
                  = NewReference(ids, "categories", D[t][r].category)
  <2>1. ASSUME NEW t \in TableNames, NEW r \in DOMAIN D[t], NEW row, row = D[t][r]
        PROVE  /\ t = "accounts" => Remapped(t, row, ids) \in Account
               /\ t = "categories" =>
                    /\ Remapped(t, row, ids) \in Category(Ids)
                    /\ Remapped(t, row, ids).kind = row.kind
                    /\ Remapped(t, row, ids).name = row.name
                    /\ Remapped(t, row, ids).archived = row.archived
                    /\ Remapped(t, row, ids).parent = NewReference(ids, "categories", row.parent)
               /\ t = "payees" =>
                    /\ Remapped(t, row, ids) \in Payee(Ids)
                    /\ Remapped(t, row, ids).varied = row.varied
                    /\ Remapped(t, row, ids).last = NewReference(ids, "categories", row.last)
               /\ t = "operations" =>
                    /\ Remapped(t, row, ids) \in Operation(Ids)
                    /\ Remapped(t, row, ids).category
                         = NewReference(ids, "categories", row.category)
               /\ t = "items" =>
                    /\ Remapped(t, row, ids) \in Item(Ids)
                    /\ Remapped(t, row, ids).category
                         = NewReference(ids, "categories", row.category)
               /\ t = "plans" =>
                    /\ Remapped(t, row, ids) \in Plan(Ids)
                    /\ Remapped(t, row, ids).planned = row.planned
                    /\ Remapped(t, row, ids).category
                         = NewReference(ids, "categories", row.category)
               /\ t = "goals" =>
                    /\ Remapped(t, row, ids) \in Goal(Ids)
                    /\ Remapped(t, row, ids).category
                         = NewReference(ids, "categories", row.category)
    <3>1. CASE t = "accounts"
      <4>1. row \in Account
        BY <1>9, <2>1, <3>1
      <4>. QED BY <1>7, <3>1, <4>1, RemappedAccount
    <3>2. CASE t = "categories"
      <4>1. row \in Category(from)
        BY <1>9, <2>1, <3>2
      <4>. QED BY <1>7, <3>2, <4>1, RemappedCategory
    <3>3. CASE t = "payees"
      <4>1. row \in Payee(from)
        BY <1>9, <2>1, <3>3
      <4>. QED BY <1>7, <3>3, <4>1, RemappedPayee
    <3>4. CASE t = "operations"
      <4>1. row \in Operation(from)
        BY <1>9, <2>1, <3>4
      <4>. QED BY <1>7, <3>4, <4>1, RemappedOperation
    <3>5. CASE t = "items"
      <4>1. row \in Item(from)
        BY <1>9, <2>1, <3>5
      <4>. QED BY <1>7, <3>5, <4>1, RemappedItem
    <3>6. CASE t = "plans"
      <4>1. row \in Plan(from)
        BY <1>9, <2>1, <3>6
      <4>. QED BY <1>7, <3>6, <4>1, RemappedPlan
    <3>7. CASE t = "goals"
      <4>1. row \in Goal(from)
        BY <1>9, <2>1, <3>7
      <4>. QED BY <1>7, <3>7, <4>1, RemappedGoal
    <3>. QED BY <3>1, <3>2, <3>3, <3>4, <3>5, <3>6, <3>7 DEF TableNames
  <2>. QED BY <2>1
<1>11. ASSUME NEW row \in Item(Ids)
       PROVE  [row EXCEPT !.archived = FALSE] \in Item(Ids)
              /\ [row EXCEPT !.archived = FALSE].category = row.category
  BY DEF Item
<1>12. ASSUME NEW t \in TableNames, NEW r \in DOMAIN D[t]
       PROVE  /\ RestoredRow(t, D[t][r], ids).columns \in RowType[t]
              /\ t = "categories" =>
                   /\ RestoredRow(t, D[t][r], ids).columns.kind = D[t][r].kind
                   /\ RestoredRow(t, D[t][r], ids).columns.name = D[t][r].name
                   /\ RestoredRow(t, D[t][r], ids).columns.archived = D[t][r].archived
                   /\ RestoredRow(t, D[t][r], ids).columns.parent
                        = NewReference(ids, "categories", D[t][r].parent)
              /\ t = "payees" =>
                   /\ RestoredRow(t, D[t][r], ids).columns.varied = D[t][r].varied
                   /\ RestoredRow(t, D[t][r], ids).columns.last
                        = NewReference(ids, "categories", D[t][r].last)
              /\ t \in {"operations", "items", "plans", "goals"} =>
                   RestoredRow(t, D[t][r], ids).columns.category
                     = NewReference(ids, "categories", D[t][r].category)
              /\ t = "plans" =>
                   RestoredRow(t, D[t][r], ids).columns.planned = D[t][r].planned
  <2>1. PICK old : old = D[t][r]
    OBVIOUS
  <2>2. CASE t = "items"
    <3>1. PICK row : row = Remapped(t, old, ids)
      OBVIOUS
    <3>2. row \in Item(Ids) /\ row.category = NewReference(ids, "categories", old.category)
      BY <1>10, <2>1, <2>2, <3>1
    <3>3. RestoredRow(t, old, ids).columns = [row EXCEPT !.archived = FALSE]
      BY <1>8, <2>1, <2>2, <3>1
    <3>. QED BY <1>11, <2>1, <2>2, <3>2, <3>3, IdsOf
  <2>3. CASE t # "items"
    <3>1. RestoredRow(t, old, ids).columns = Remapped(t, old, ids)
      BY <1>8, <2>1, <2>3
    <3>. QED BY <1>10, <2>1, <2>3, <3>1, IdsOf DEF TableNames
  <2>. QED BY <2>2, <2>3
<1>13. \A r \in DOMAIN D.categories :
         /\ ids.categories[r] \in CategoryIds
         /\ ids.categories[r] \notin Held("categories")
         /\ ids.categories[r] \notin DOMAIN db.categories
  BY <1>6, IdsOf, FreeCategory
<1>14. \A c \in DOMAIN db.categories :
         c \in DOMAIN changes.categories /\ changes.categories[c] = Delete
  BY <1>5 DEF Brings
<1>15. \A r \in DOMAIN D.categories :
         /\ ids.categories[r] \in DOMAIN changes.categories
         /\ changes.categories[ids.categories[r]]
              = RestoredRow("categories", D.categories[r], ids)
  BY <1>5 DEF Brings, TableNames
<1>16. ASSUME NEW t \in TableNames, NEW i \in DOMAIN changes[t]
       PROVE  \/ t = "categories" /\ i \in DOMAIN db.categories /\ changes[t][i] = Delete
              \/ \E r \in DOMAIN D[t] :
                   i = ids[t][r] /\ changes[t][i] = RestoredRow(t, D[t][r], ids)
  BY <1>5 DEF Brings
<1>17. FitTypes(changes)
  <2>1. ASSUME NEW t \in TableNames, NEW i \in DOMAIN changes[t]
        PROVE  i \in Ids[t] /\ Apt(changes[t][i], RowType[t])
    <3>1. CASE t = "categories" /\ i \in DOMAIN db.categories /\ changes[t][i] = Delete
      BY <3>1, PayeesKnown, IdsOf DEF Apt, Delete
    <3>2. CASE \E r \in DOMAIN D[t] :
                 i = ids[t][r] /\ changes[t][i] = RestoredRow(t, D[t][r], ids)
      <4>1. PICK r \in DOMAIN D[t] :
              i = ids[t][r] /\ changes[t][i] = RestoredRow(t, D[t][r], ids)
        BY <3>2
      <4>2. i \in Ids[t]
        BY <1>6, <4>1
      <4>5. changes[t][i].do = "insert"
        BY <1>8, <4>1, ZenonT(40)
      <4>3. changes[t][i].columns \in RowType[t]
        BY <1>12, <4>1
      <4>4. \A change, rows : change.do = "insert" /\ change.columns \in rows => Apt(change, rows)
        BY DEF Apt
      <4>. QED BY <4>2, <4>3, <4>4, <4>5
    <3>. QED BY <1>16, <3>1, <3>2
  <2>. QED BY <2>1 DEF FitTypes
<1>18. \A t \in TableNames : \A i \in DOMAIN changes[t] : changes[t][i].do # "update"
  BY <1>8, <1>16, DeleteOf
<1>19. FitColumns(changes)
  <2>1. ASSUME NEW b \in DOMAIN changes.plans, Writes(changes.plans[b], "planned")
        PROVE  changes.plans[b].columns.planned >= 0
    <3>1. PICK r \in DOMAIN D.plans :
            changes.plans[b] = RestoredRow("plans", D.plans[r], ids)
      BY <1>16, IdsOf
    <3>2. D.plans[r].planned >= 0
      BY <1>4 DEF Agree, PlansHold
    <3>. QED BY <1>12, <3>1, <3>2, IdsOf
  <2>. QED BY <1>18, <2>1, IdsOf DEF FitColumns
<1>20. ASSUME NEW x \in DOMAIN D.categories, NEW c, c = NewReference(ids, "categories", x)
       PROVE  /\ Adds(changes, c) /\ c \notin DOMAIN db.categories
              /\ changes.categories[c].columns.kind = D.categories[x].kind
              /\ changes.categories[c].columns.parent
                   = NewReference(ids, "categories", D.categories[x].parent)
  <2>1. x # None
    BY <1>4, IdsOf
  <2>2. c = ids.categories[x]
    BY <1>20, <2>1 DEF NewReference
  <2>. QED BY <1>8, <1>12, <1>13, <1>15, <2>2, IdsOf, SMTT(30) DEF Adds
<1>21. FitCategories(changes, db.categories)
  <2>1. ASSUME NEW c \in DOMAIN changes.categories, Adds(changes, c),
               NEW row, row = changes.categories[c].columns, row.parent # None
        PROVE  IfAnyRootOf(changes, db.categories, row.parent, row.kind)
    <3>1. changes.categories[c] # Delete
      BY <2>1, DeleteOf DEF Adds
    <3>2. PICK r \in DOMAIN D.categories :
            changes.categories[c] = RestoredRow("categories", D.categories[r], ids)
      BY <1>16, <3>1, IdsOf
    <3>3. /\ row.kind = D.categories[r].kind
          /\ row.parent = NewReference(ids, "categories", D.categories[r].parent)
      BY <1>12, <2>1, <3>2, IdsOf
    <3>4. D.categories[r].parent # None
      BY <2>1, <3>3 DEF NewReference
    <3>5. /\ D.categories[r].parent \in DOMAIN D.categories
          /\ D.categories[D.categories[r].parent].parent = None
          /\ D.categories[D.categories[r].parent].kind = D.categories[r].kind
      BY <1>4, <3>4 DEF Agree, TwoLevels
    <3>. QED BY <1>20, <3>3, <3>5 DEF IfAnyRootOf, NewReference
  <2>2. ASSUME NEW t \in {"plans", "items"}, NEW i \in DOMAIN changes[t],
               Writes(changes[t][i], "category")
        PROVE  IfAnyOfExpenses(changes, db.categories, changes[t][i].columns.category)
    <3>1. PICK r \in DOMAIN D[t] : changes[t][i] = RestoredRow(t, D[t][r], ids)
      BY <1>16, IdsOf
    <3>2. /\ D[t][r].category \in DOMAIN D.categories
          /\ D.categories[D[t][r].category].kind = "expense"
      BY <1>4 DEF Agree, PlansHold, OfExpenses
    <3>3. changes[t][i].columns.category = NewReference(ids, "categories", D[t][r].category)
      BY <1>12, <3>1, IdsOf
    <3>. QED BY <1>20, <3>2, <3>3 DEF IfAnyOfExpenses
  <2>. QED BY <2>1, <2>2 DEF FitCategories
<1>22. Drawn(changes)
  <2>1. ASSUME NEW c \in DOMAIN changes.categories
        PROVE  IF Adds(changes, c) THEN c \notin Held("categories")
               ELSE c \in DOMAIN db.categories
    <3>1. CASE c \in DOMAIN db.categories /\ changes.categories[c] = Delete
      BY <3>1, DeleteOf DEF Adds
    <3>2. CASE \E r \in DOMAIN D.categories :
                 /\ c = ids.categories[r]
                 /\ changes.categories[c] = RestoredRow("categories", D.categories[r], ids)
      BY <1>8, <1>13, <3>2, IdsOf DEF Adds
    <3>. QED BY <1>16, <3>1, <3>2, IdsOf
  <2>2. ASSUME NEW c, Refers(changes, c)
        PROVE  c = None \/ Adds(changes, c)
    <3>1. PICK ref \in References : \E i \in DOMAIN changes[ref.of] :
            /\ ref.to = "categories"
            /\ Writes(changes[ref.of][i], ref.column)
            /\ changes[ref.of][i].columns[ref.column] = c
      BY <2>2 DEF Refers
    <3>2. PICK i \in DOMAIN changes[ref.of] :
            /\ ref.to = "categories"
            /\ Writes(changes[ref.of][i], ref.column)
            /\ changes[ref.of][i].columns[ref.column] = c
      BY <3>1
    <3>3. ref.of \in TableNames
      BY DEF References, TableNames
    <3>4. changes[ref.of][i] # Delete
      BY <3>2, DeleteOf DEF Writes
    <3>5. PICK r \in DOMAIN D[ref.of] :
            changes[ref.of][i] = RestoredRow(ref.of, D[ref.of][r], ids)
      BY <1>16, <3>3, <3>4
    <3>6. c = NewReference(ids, "categories", D[ref.of][r][ref.column])
      <4>1. \/ ref.of = "categories" /\ ref.column = "parent"
            \/ ref.of = "payees" /\ ref.column = "last"
            \/ ref.of \in {"operations", "goals", "plans", "items"} /\ ref.column = "category"
        BY <3>2 DEF References
      <4>. QED BY <1>12, <3>2, <3>3, <3>5, <4>1
    <3>7. D[ref.of][r][ref.column] \in DOMAIN D.categories \cup {None}
      BY <1>3, <3>2 DEF Whole
    <3>8. CASE D[ref.of][r][ref.column] = None
      BY <3>6, <3>8 DEF NewReference
    <3>9. CASE D[ref.of][r][ref.column] \in DOMAIN D.categories
      BY <1>20, <3>6, <3>9
    <3>. QED BY <3>7, <3>8, <3>9
  <2>. QED BY <2>1, <2>2 DEF Drawn
<1>23. Fit(changes, db.categories)
  BY <1>17, <1>19, <1>21 DEF Fit
<1>24. Look(s, "restore_all", changes)
  BY <1>2
<1>25. ASSUME InOrder(db) PROVE InOrder(Result(db, changes))
  <2>1. PICK categories : categories = Flushed(db.categories, changes.categories)
    OBVIOUS
  <2>2. PICK payees : payees = Flushed(db.payees, changes.payees)
    OBVIOUS
  <2>3. PICK old : old = D.categories
    OBVIOUS
  <2>4. ASSUME NEW p \in DOMAIN changes.payees PROVE Forgetting(p, changes.payees[p])
    <3>1. PICK r \in DOMAIN D.payees :
            changes.payees[p] = RestoredRow("payees", D.payees[r], ids)
      BY <1>16, IdsOf
    <3>2. D.payees[r].varied => D.payees[r].last = None
      BY <1>4 DEF InOrder, VariedForget
    <3>. QED
      BY <1>8, <1>12, <3>1, <3>2, IdsOf, SMTT(30) DEF Forgetting, Forgets, NewReference
  <2>5. VariedForget(payees)
    BY <2>2, <2>4, <1>25, PayeesForget
  <2>6. IsTable(payees, PayeeIds, Payee(Ids))
    <3>1. IsTable(db.payees, PayeeIds, Payee(Ids))
      BY IdsOf DEF RowsInv, TypeOK, Typed
    <3>. QED BY <1>17, <2>2, <3>1, FlushedType, IdsOf DEF FitTypes
  <2>7. ASSUME NEW c \in DOMAIN categories
        PROVE  \E r \in DOMAIN old :
                 /\ c = ids.categories[r]
                 /\ categories[c] = RestoredRow("categories", old[r], ids).columns
    <3>1. c \in DOMAIN changes.categories /\ changes.categories[c] # Delete
      BY <1>14, <2>1, DeleteOf DEF Flushed
    <3>2. PICK r \in DOMAIN old :
            /\ c = ids.categories[r]
            /\ changes.categories[c] = RestoredRow("categories", old[r], ids)
      BY <1>16, <2>3, <3>1, IdsOf
    <3>3. changes.categories[c].do = "insert"
      BY <1>8, <2>3, <3>2, IdsOf
    <3>4. categories[c] = changes.categories[c].columns
      BY <2>1, <3>1, <3>3 DEF Flushed
    <3>. QED BY <3>2, <3>4
  <2>8. ASSUME NEW r \in DOMAIN old
        PROVE  /\ ids.categories[r] \in DOMAIN categories
               /\ categories[ids.categories[r]].name = old[r].name
               /\ categories[ids.categories[r]].archived = old[r].archived
               /\ categories[ids.categories[r]].parent
                    = NewReference(ids, "categories", old[r].parent)
    <3>1. PICK c : c = ids.categories[r]
      OBVIOUS
    <3>2. c \in DOMAIN changes.categories /\ changes.categories[c].do = "insert"
      BY <1>8, <1>15, <2>3, <3>1, IdsOf
    <3>3. c \in DOMAIN categories /\ categories[c] = changes.categories[c].columns
      BY <2>1, <3>2 DEF Flushed
    <3>. QED BY <1>12, <1>15, <2>3, <3>1, <3>3, IdsOf
  <2>9. \A r \in DOMAIN old :
          (old[r].parent = None) <=> (NewReference(ids, "categories", old[r].parent) = None)
    <3>1. ASSUME NEW r \in DOMAIN old, old[r].parent # None
          PROVE  NewReference(ids, "categories", old[r].parent) # None
      <4>1. old[r].parent \in DOMAIN old
        BY <1>4, <2>3, <3>1 DEF Agree, TwoLevels
      <4>2. ids.categories[old[r].parent] \in CategoryIds
        BY <1>13, <2>3, <4>1
      <4>. QED BY <3>1, <4>2, IdsOf DEF NewReference
    <3>. QED BY <3>1 DEF NewReference
  <2>10. RootNamesDistinct(old) /\ ParentsLive(old)
    BY <1>4, <2>3 DEF InOrder
  <2>11. RootNamesDistinct(categories)
    <3>1. SUFFICES ASSUME NEW c \in Active(categories), NEW d \in Active(categories),
                          categories[c].parent = None, categories[d].parent = None,
                          categories[c].name = categories[d].name
                   PROVE  c = d
      BY DEF RootNamesDistinct, IsInjective
    <3>2. PICK q \in DOMAIN old : c = ids.categories[q]
      BY <2>7 DEF Active
    <3>3. PICK r \in DOMAIN old : d = ids.categories[r]
      BY <2>7 DEF Active
    <3>4. /\ q \in Active(old) /\ r \in Active(old)
          /\ old[q].parent = None /\ old[r].parent = None /\ old[q].name = old[r].name
      BY <2>8, <2>9, <3>1, <3>2, <3>3 DEF Active
    <3>5. q = r
      BY <2>10, <3>4 DEF RootNamesDistinct, IsInjective
    <3>. QED BY <3>2, <3>3, <3>5
  <2>12. ParentsLive(categories)
    <3>1. SUFFICES ASSUME NEW c \in Active(categories), categories[c].parent # None
                   PROVE  ~categories[categories[c].parent].archived
      BY DEF ParentsLive
    <3>2. PICK r \in DOMAIN old : c = ids.categories[r]
      BY <2>7 DEF Active
    <3>3. r \in Active(old) /\ old[r].parent # None
      BY <2>8, <2>9, <3>1, <3>2 DEF Active
    <3>4. old[r].parent \in DOMAIN old /\ ~old[old[r].parent].archived
      BY <1>4, <2>3, <2>10, <3>3 DEF Agree, TwoLevels, ParentsLive, Active
    <3>5. categories[c].parent = ids.categories[old[r].parent]
      BY <2>8, <3>2, <3>3 DEF NewReference
    <3>. QED BY <2>8, <3>4, <3>5
  <2>. QED BY <2>1, <2>2, <2>5, <2>6, <2>11, <2>12, OrderFrom
<1>. QED BY <1>22, <1>23, <1>24, <1>25, LookKeeps

-----------------------------------------------------------------------------
\* An owner begins with rows that agree.
LEMMA InitRows ==
  ASSUME Init
  PROVE  RowsInv
<1>1. PICK rows \in Starts : db = Started(rows)
  BY DEF Init
<1>2. Typed(db, Ids) /\ Whole(db) /\ Agree(db)
  BY <1>1, StartsAssumption DEF StartsAssumption
<1>3. /\ work = [s \in Sessions |-> None] /\ stale = {} /\ raced = FALSE /\ received = 0
  BY DEF Init
<1>4. \A s \in Sessions : ~Busy(s)
  BY <1>3 DEF Busy
<1>5. MaxRequests \in Nat
  BY RegistersAssumption DEF RegistersAssumption
<1>6. received \in 0 .. MaxRequests
  BY <1>3, <1>5
<1>7. TypeOK
  BY <1>2, <1>3, <1>6 DEF TypeOK
<1>8. InOrder(db)
  BY <1>1, StartsAssumption DEF StartsAssumption
<1>. QED BY <1>2, <1>3, <1>4, <1>7, <1>8 DEF RowsInv, Apart, OrderInv

\* Every step keeps the invariant.
LEMMA NextRows ==
  ASSUME RowsInv, [Next]_vars
  PROVE  RowsInv'
<1>1. CASE UNCHANGED vars
  <2>1. db' = db /\ work' = work /\ stale' = stale /\ raced' = raced /\ received' = received
    BY <1>1 DEF vars
  <2>2. TypeOK' /\ Whole(db)' /\ Agree(db)'
    BY <2>1 DEF RowsInv, TypeOK
  <2>3. Apart'
    BY <2>1 DEF RowsInv, Apart, Busy
  <2>4. OrderInv'
    BY <2>1 DEF RowsInv, OrderInv, Busy
  <2>. QED BY <2>1, <2>2, <2>3, <2>4 DEF RowsInv, Busy
<1>2. ASSUME NEW s \in Sessions, Ask(s) PROVE RowsInv'
  BY <1>2, AccountsKeep, CategoriesKeep, PayeesKeep, RecurringKeep, BudgetsKeep, RestoreKeeps
     DEF Ask, AskBackup
<1>3. ASSUME NEW s \in Sessions, Commit(s) \/ RollBack(s) PROVE RowsInv'
  BY <1>3, CommitKeeps, RollBackKeeps
<1>. QED BY <1>1, <1>2, <1>3 DEF Next

\* However requests interleave, the inductive invariant of the tables and of what sessions are
\* about to commit holds.
THEOREM Correct == Spec => []RowsInv
  BY InitRows, NextRows, PTL DEF Spec

\* Every row has the type of its table: what handlers flush is of its columns' types, and what
\* is let go of when a row is deleted too.
THEOREM RegistersTypeCorrect == Spec => []TypeOK
<1>1. RowsInv => TypeOK
  BY DEF RowsInv
<1>. QED BY <1>1, Correct, PTL

\* The tree of categories has two levels of one kind, plans are not negative, plans and recurring
\* expenses are of expense categories, and operations name payees that there are, however
\* requests interleave.
THEOREM RowsAlwaysAgree == Spec => []RowsAgree
<1>1. RowsInv => RowsAgree
  BY DEF RowsInv, RowsAgree
<1>. QED BY <1>1, Correct, PTL

\* Until a request that was overtaken has committed, names of roots are distinct, parents of live
\* categories are live and payees of varied categories remember none.
THEOREM OrderKept == Spec => []KeptOneByOne
<1>1. RowsInv => KeptOneByOne
  BY DEF RowsInv, OrderInv, KeptOneByOne
<1>. QED BY <1>1, Correct, PTL

-----------------------------------------------------------------------------
(* The figures of the owner.                                               *)

\* What operations have changed on their accounts, as they are signed.
AmountsOf(operations) == [o \in DOMAIN operations |-> operations[o].amount]

\* The sum over operations that are counted is that of a part of them.
LEMMA AmountsOfPart ==
  ASSUME NEW operations, NEW counted \in SUBSET DOMAIN operations
  PROVE  [o \in counted |-> operations[o].amount] = Restrict(AmountsOf(operations), counted)
  BY DEF AmountsOf, Restrict

\* The tables that figures are counted from are finite, and sums of money.
LEMMA FiguresType ==
  ASSUME RegistersAssumption, NEW tables, Typed(tables, Ids)
  PROVE  /\ IsFiniteSet(DOMAIN tables.operations) /\ IsFiniteSet(DOMAIN tables.accounts)
         /\ AmountsOf(tables.operations) \in [DOMAIN tables.operations -> Int]
         /\ \A a \in DOMAIN tables.accounts : tables.accounts[a].initial \in Int
         /\ \A o \in DOMAIN tables.operations : tables.operations[o].kind \in OperationKinds
<1>1. /\ IsFiniteSet(Ids.operations) /\ DOMAIN tables.operations \subseteq Ids.operations
      /\ IsFiniteSet(Ids.accounts) /\ DOMAIN tables.accounts \subseteq Ids.accounts
  BY DEF RegistersAssumption, TableNames, Typed, IsTable
<1>2. IsFiniteSet(DOMAIN tables.operations) /\ IsFiniteSet(DOMAIN tables.accounts)
  BY <1>1, FS_Subset
<1>3. \A o \in DOMAIN tables.operations : tables.operations[o] \in Operation(Ids)
  BY DEF Typed, IsTable
<1>4. \A a \in DOMAIN tables.accounts : tables.accounts[a] \in Account
  BY DEF Typed, IsTable
<1>. QED BY <1>2, <1>3, <1>4 DEF AmountsOf, Operation, Account

\* Where no child of the branch is archived, envelopes and the daily allowance look for the
\* children of a category alike.
LEMMA EnvelopesCountAlike ==
  ASSUME NEW b \in DOMAIN db.plans,
         ScopeOf(db.categories, db.plans[b].category) \subseteq Active(db.categories)
  PROVE  Envelope(db.categories, db.operations, db.plans, b).spent
           = SpentThisMonth(db, db.plans[b].month, ScopeOf(db.categories, db.plans[b].category))
<1> DEFINE c == db.plans[b].category
<1>1. Scope(db.categories, c) = ScopeOf(db.categories, c)
  BY DEF Scope, ScopeOf, Active
<1>. QED BY <1>1 DEF Envelope, SpentThisMonth

\* The operations of the accounts in use are the operations of each of them.
LEMMA ShownIsLiquid ==
  ASSUME RegistersAssumption, Typed(db, Ids)
  PROVE  SumOf(ShownBalances(db)) = Liquid(db)
<1> DEFINE used == Active(db.accounts)
           counted == {o \in DOMAIN db.operations : db.operations[o].account \in used}
           on(a) == {q \in DOMAIN db.operations : db.operations[q].account = a}
           moved == Restrict(AmountsOf(db.operations), counted)
           key == [o \in counted |-> db.operations[o].account]
           initial == [a \in used |-> db.accounts[a].initial]
           total == [a \in used |-> SumOf(Restrict(moved, {o \in counted : key[o] = a}))]
<1>1. /\ IsFiniteSet(used) /\ IsFiniteSet(counted)
      /\ moved \in [counted -> Int] /\ key \in [counted -> used] /\ initial \in [used -> Int]
  <2>1. used \in SUBSET DOMAIN db.accounts /\ counted \in SUBSET DOMAIN db.operations
    BY DEF Active
  <2>2. key \in [counted -> used]
    OBVIOUS
  <2>. HIDE DEF used, counted
  <2>. QED BY <2>1, <2>2, FiguresType, FS_Subset DEF Restrict
<1>2. SumOf(total) = SumOf(moved)
  <2>. HIDE DEF counted, moved, key, used
  <2>. QED BY <1>1, SumGrouped
<1>3. total \in [used -> Int]
  <2>1. \A a \in used : {o \in counted : key[o] = a} \in SUBSET counted
    OBVIOUS
  <2>. HIDE DEF counted, moved, key, used
  <2>. QED BY <1>1, <2>1, SumPart
<1>4. \A a \in used : total[a] = SumOf([o \in on(a) |-> db.operations[o].amount])
  <2> TAKE a \in used
  <2>1. {o \in counted : key[o] = a} = on(a) /\ on(a) \subseteq counted
    OBVIOUS
  <2>2. Restrict(moved, on(a)) = [o \in on(a) |-> db.operations[o].amount]
    BY <2>1 DEF Restrict, AmountsOf
  <2>. HIDE DEF counted, moved, key, used, on
  <2>. QED BY <2>1, <2>2
<1>5. ShownBalances(db) = [a \in used |-> initial[a] + total[a]]
  <2>. HIDE DEF total
  <2>. QED BY <1>4 DEF ShownBalances
<1>6. SumOf(ShownBalances(db)) = SumOf(initial) + SumOf(total)
  <2>. HIDE DEF initial, total, used
  <2>. QED BY <1>1, <1>3, <1>5, SumAdd
<1>7. [o \in counted |-> db.operations[o].amount] = moved
  BY DEF AmountsOf, Restrict
<1>. QED BY <1>2, <1>6, <1>7 DEF Liquid

\* The sums by category have the sum of the month.
LEMMA CategoriesAddUp ==
  ASSUME RegistersAssumption, Typed(db, Ids), NEW kinds, NEW m
  PROVE  SumOf(ByCategory(db.operations, kinds, m))
           = SumOf(Restrict(AmountsOf(db.operations), OfKind(db.operations, kinds, {m})))
<1> DEFINE counted == OfKind(db.operations, kinds, {m})
           used == {db.operations[o].category : o \in counted}
           moved == Restrict(AmountsOf(db.operations), counted)
           key == [o \in counted |-> db.operations[o].category]
           of(c) == {q \in counted : db.operations[q].category = c}
           total == [c \in used |-> SumOf(Restrict(moved, {o \in counted : key[o] = c}))]
<1>1. IsFiniteSet(counted) /\ moved \in [counted -> Int] /\ key \in [counted -> used]
  <2>1. counted \in SUBSET DOMAIN db.operations
    BY DEF OfKind
  <2>2. key \in [counted -> used]
    OBVIOUS
  <2>. HIDE DEF used, counted
  <2>. QED BY <2>1, <2>2, FiguresType, FS_Subset DEF Restrict
<1>2. IsFiniteSet(used)
  <2>1. key \in Surjection(counted, used)
    <3>. HIDE DEF counted
    <3>. QED BY DEF Surjection
  <2>. HIDE DEF used, counted, key
  <2>. QED BY <1>1, <2>1, FS_Surjection
<1>3. SumOf(total) = SumOf(moved)
  <2>. HIDE DEF counted, moved, key, used
  <2>. QED BY <1>1, <1>2, SumGrouped
<1>4. \A c \in used : total[c] = SumOf([o \in of(c) |-> db.operations[o].amount])
  <2> TAKE c \in used
  <2>1. {o \in counted : key[o] = c} = of(c)
    OBVIOUS
  <2>2. Restrict(moved, of(c)) = [o \in of(c) |-> db.operations[o].amount]
    BY DEF Restrict, AmountsOf, OfKind
  <2>. HIDE DEF counted, moved, key, used, of
  <2>. QED BY <2>1, <2>2
<1>5. ByCategory(db.operations, kinds, m) = total
  <2>1. total = [c \in used |-> total[c]]
    OBVIOUS
  <2>. HIDE DEF total
  <2>. QED BY <1>4, <2>1 DEF ByCategory
<1>. QED BY <1>3, <1>5

\* Of any tables whose rows have their types the queries count alike.
LEMMA FiguresOfTyped ==
  ASSUME RegistersAssumption, Typed(db, Ids)
  PROVE  FiguresAgree
<1>1. EnvelopesAgree
  BY EnvelopesCountAlike DEF EnvelopesAgree
<1>2. CapitalAgrees
  <2>1. \A a \in Active(db.accounts) : ShownBalances(db)[a] = CurrentBalance(a)
    BY DEF ShownBalances, CurrentBalance, TransactionTotal, OperationsOn
  <2>. QED BY <2>1, ShownIsLiquid DEF CapitalAgrees, Capital
<1>3. ASSUME NEW m \in Months
      PROVE  /\ SumOf(ByCategory(db.operations, {"expense", "refund"}, m)) = -Expense(db.operations, {m})
             /\ SumOf(ByCategory(db.operations, {"income"}, m)) = Income(db.operations, {m})
  <2> DEFINE part(kinds) == OfKind(db.operations, kinds, {m})
             sum(kinds) == SumOf(Restrict(AmountsOf(db.operations), part(kinds)))
  <2>1. \A kinds : [o \in part(kinds) |-> db.operations[o].amount]
                     = Restrict(AmountsOf(db.operations), part(kinds))
    <3>1. \A kinds : part(kinds) \in SUBSET DOMAIN db.operations
      BY DEF OfKind
    <3>. HIDE DEF part
    <3>. QED BY <3>1, AmountsOfPart
  <2>2. sum({"expense", "refund"}) \in Int
    <3>1. part({"expense", "refund"}) \in SUBSET DOMAIN db.operations
      BY DEF OfKind
    <3>. HIDE DEF part
    <3>. QED BY <3>1, FiguresType, SumPart
  <2>3. Income(db.operations, {m}) = sum({"income"}) /\ Expense(db.operations, {m}) = -sum({"expense", "refund"})
    BY <2>1 DEF Income, Expense
  <2>4. \A kinds : SumOf(ByCategory(db.operations, kinds, m)) = sum(kinds)
    BY CategoriesAddUp
  <2>. HIDE DEF sum
  <2>. QED BY <2>2, <2>3, <2>4
<1>. QED BY <1>1, <1>2, <1>3 DEF FiguresAgree, MonthsAgree

\* Envelopes and the daily allowance count the plans alike where no child of the branch is
\* archived, the dashboard's capital is what the allowance starts from less the debt of the
\* credits, and the categories of a month add up to its income and its expense, in every state
\* that requests can reach.
THEOREM FiguresAlwaysAgree == Spec => []FiguresAgree
<1>1. RowsInv => FiguresAgree
  BY FiguresOfTyped, RegistersAssumption DEF RowsInv, TypeOK
<1>. QED BY <1>1, Correct, PTL

-----------------------------------------------------------------------------
(* An expense that had been set aside.                                     *)

\* The sum of operations that are counted.
Total(operations, counted) == SumOf(Restrict(AmountsOf(operations), counted))

SpentOn(operations, scope, when) ==
  {o \in DOMAIN operations :
     /\ operations[o].category \in scope
     /\ operations[o].kind \in {"expense", "refund"}
     /\ operations[o].month \in when}

\* What was spent is the sum of those operations.
LEMMA SpentTotal ==
  ASSUME NEW operations, NEW scope, NEW when
  PROVE  Spent(operations, scope, when) = Total(operations, SpentOn(operations, scope, when))
<1>1. SpentOn(operations, scope, when) \in SUBSET DOMAIN operations
  BY DEF SpentOn
<1>2. [o \in SpentOn(operations, scope, when) |-> operations[o].amount]
        = Restrict(AmountsOf(operations), SpentOn(operations, scope, when))
  BY <1>1, AmountsOfPart
<1>. QED BY <1>2 DEF Spent, SpentOn, Total

\* One operation more, of v, which leaves of the others all but their payees.
OneMore(old, new, o, v) ==
  /\ o \notin DOMAIN old
  /\ DOMAIN new = DOMAIN old \cup {o}
  /\ v \in Int /\ new[o].amount = v
  /\ \A q \in DOMAIN old :
       /\ new[q].account = old[q].account
       /\ new[q].kind = old[q].kind
       /\ new[q].amount = old[q].amount
       /\ new[q].category = old[q].category
       /\ new[q].month = old[q].month

\* What is counted of the operations there were, and with the one more.
CountsMore(old, new, o, v) ==
  \A counted \in SUBSET DOMAIN old :
    /\ Total(old, counted) \in Int
    /\ Total(new, counted) = Total(old, counted)
    /\ Total(new, counted \cup {o}) = Total(old, counted) + v

\* One operation more adds its amount to what it is counted in, and to nothing else.
LEMMA TotalMore ==
  ASSUME RegistersAssumption, NEW old, NEW new, Typed(old, Ids), Typed(new, Ids),
         NEW o, NEW v, OneMore(old.operations, new.operations, o, v)
  PROVE  CountsMore(old.operations, new.operations, o, v)
<1> SUFFICES ASSUME NEW counted \in SUBSET DOMAIN old.operations
             PROVE  /\ Total(old.operations, counted) \in Int
                    /\ Total(new.operations, counted) = Total(old.operations, counted)
                    /\ Total(new.operations, counted \cup {o}) = Total(old.operations, counted) + v
  BY DEF CountsMore
<1> DEFINE f == AmountsOf(old.operations)
           g == AmountsOf(new.operations)
<1>1. /\ IsFiniteSet(DOMAIN old.operations) /\ f \in [DOMAIN old.operations -> Int]
      /\ IsFiniteSet(DOMAIN new.operations) /\ g \in [DOMAIN new.operations -> Int]
  BY FiguresType
<1>2. Restrict(g, counted) = Restrict(f, counted)
  BY DEF Restrict, AmountsOf, OneMore
<1>3. /\ counted \in SUBSET DOMAIN new.operations /\ o \in DOMAIN new.operations
      /\ o \notin counted /\ g[o] = v
  BY DEF OneMore, AmountsOf
<1>. HIDE DEF f, g
<1>4. SumOf(Restrict(g, counted \cup {o})) = SumOf(Restrict(g, counted)) + g[o]
  BY <1>1, <1>3, SumOneMore
<1>5. SumOf(Restrict(f, counted)) \in Int
  BY <1>1, SumPart
<1>. QED BY <1>2, <1>3, <1>4, <1>5 DEF Total, f, g

\* An expense of the month more.
ExpenseMore(old, new, o, v, month) ==
  OneMore(old, new, o, v) /\ new[o].kind = "expense" /\ new[o].month = month

\* What has been spent, with the operation or without it.
SpendsMore(old, new, o, v, month) ==
  \A scope :
    /\ Spent(old, scope, {month}) \in Int
    /\ Spent(new, scope, {month})
         = Spent(old, scope, {month}) + IF new[o].category \in scope THEN v ELSE 0

\* An expense of the month more is spent on the scopes of its category.
LEMMA SpentMore ==
  ASSUME RegistersAssumption, NEW old, NEW new, Typed(old, Ids), Typed(new, Ids),
         NEW o, NEW v, NEW month, ExpenseMore(old.operations, new.operations, o, v, month)
  PROVE  SpendsMore(old.operations, new.operations, o, v, month)
<1> SUFFICES ASSUME NEW scope
             PROVE  /\ Spent(old.operations, scope, {month}) \in Int
                    /\ Spent(new.operations, scope, {month})
                         = Spent(old.operations, scope, {month})
                             + IF new.operations[o].category \in scope THEN v ELSE 0
  BY DEF SpendsMore
<1> DEFINE before == SpentOn(old.operations, scope, {month})
           after == SpentOn(new.operations, scope, {month})
<1>1. before \in SUBSET DOMAIN old.operations
  BY DEF SpentOn
<1>2. after = IF new.operations[o].category \in scope THEN before \cup {o} ELSE before
  BY DEF SpentOn, OneMore, ExpenseMore
<1>. HIDE DEF before, after
<1>3. /\ Total(old.operations, before) \in Int
      /\ Total(new.operations, before) = Total(old.operations, before)
      /\ Total(new.operations, before \cup {o})
           = Total(old.operations, before) + v
  <2>1. OneMore(old.operations, new.operations, o, v)
    BY DEF ExpenseMore
  <2>2. CountsMore(old.operations, new.operations, o, v)
    BY <2>1, TotalMore
  <2>. QED BY <1>1, <2>2 DEF CountsMore
<1>4. /\ Spent(old.operations, scope, {month}) = Total(old.operations, before)
      /\ Spent(new.operations, scope, {month}) = Total(new.operations, after)
  BY SpentTotal DEF before, after
<1>. QED BY <1>2, <1>3, <1>4

\* An operation more on a live account adds its amount to what is on the accounts.
LEMMA LiquidMore ==
  ASSUME RegistersAssumption, NEW old, NEW new, Typed(old, Ids), Typed(new, Ids),
         NEW o, NEW v, OneMore(old.operations, new.operations, o, v),
         new.accounts = old.accounts, new.operations[o].account \in Active(old.accounts)
  PROVE  Liquid(old) \in Int /\ Liquid(new) = Liquid(old) + v
<1> DEFINE used == Active(old.accounts)
           before == {q \in DOMAIN old.operations : old.operations[q].account \in used}
           after == {q \in DOMAIN new.operations : new.operations[q].account \in used}
           initial == [a \in used |-> old.accounts[a].initial]
<1>1. before \in SUBSET DOMAIN old.operations /\ after \in SUBSET DOMAIN new.operations
  OBVIOUS
<1>2. after = before \cup {o}
  BY DEF OneMore
<1>3. SumOf(initial) \in Int
  <2>1. /\ IsFiniteSet(DOMAIN old.accounts) /\ used \in SUBSET DOMAIN old.accounts
        /\ \A a \in DOMAIN old.accounts : old.accounts[a].initial \in Int
    BY FiguresType DEF Active
  <2>2. IsFiniteSet(used) /\ initial \in [used -> Int]
    BY <2>1, FS_Subset
  <2>. HIDE DEF used, initial
  <2>. QED BY <2>2, SumType
<1>4. /\ SumOf([q \in before |-> old.operations[q].amount]) = Total(old.operations, before)
      /\ SumOf([q \in after |-> new.operations[q].amount]) = Total(new.operations, after)
  <2>. HIDE DEF before, after
  <2>. QED BY <1>1, AmountsOfPart DEF Total
<1>5. Liquid(old) = SumOf(initial) + Total(old.operations, before)
  BY <1>4 DEF Liquid
<1>6. Liquid(new) = SumOf(initial) + Total(new.operations, after)
  BY <1>4 DEF Liquid
<1>7. /\ Total(old.operations, before) \in Int
      /\ Total(new.operations, before \cup {o})
           = Total(old.operations, before) + v
  <2>1. CountsMore(old.operations, new.operations, o, v)
    BY TotalMore
  <2>. HIDE DEF before
  <2>. QED BY <1>1, <2>1 DEF CountsMore
<1>8. v \in Int
  BY DEF OneMore
<1>. HIDE DEF initial, before, after
<1>. QED BY <1>2, <1>3, <1>5, <1>6, <1>7, <1>8

\* What is left to pay for live recurring expenses.
Lefts(tables, month) == [i \in Active(tables.items) |-> ItemLeft(tables, month, i)]

\* There are finitely many, and nothing that is left is negative.
LEMMA LeftsType ==
  ASSUME RegistersAssumption, NEW tables, Typed(tables, Ids), NEW month
  PROVE  /\ IsFiniteSet(Active(tables.items))
         /\ Lefts(tables, month) \in [Active(tables.items) -> Nat]
         /\ \A scope : Spent(tables.operations, scope, {month}) \in Int
<1>1. \A scope : Spent(tables.operations, scope, {month}) \in Int
  <2> TAKE scope
  <2>1. SpentOn(tables.operations, scope, {month}) \in SUBSET DOMAIN tables.operations
    BY DEF SpentOn
  <2>2. Total(tables.operations, SpentOn(tables.operations, scope, {month})) \in Int
    BY <2>1, FiguresType, SumPart DEF Total
  <2>. QED BY <2>2, SpentTotal
<1>2. \A i \in Active(tables.items) : tables.items[i].monthly \in Nat
  BY DEF Typed, IsTable, Item, Active
<1>3. \A i \in Active(tables.items) : ItemLeft(tables, month, i) \in Nat
  <2> TAKE i \in Active(tables.items)
  <2>1. Spent(tables.operations, {tables.items[i].category}, {month}) \in Int
    BY <1>1
  <2>2. tables.items[i].monthly \in Nat
    BY <1>2
  <2>. QED BY <2>1, <2>2 DEF ItemLeft, SpentThisMonth
<1>4. IsFiniteSet(Active(tables.items))
  <2>1. /\ IsFiniteSet(Ids.items) /\ DOMAIN tables.items \subseteq Ids.items
        /\ Active(tables.items) \subseteq DOMAIN tables.items
    BY DEF RegistersAssumption, TableNames, Typed, IsTable, Active
  <2>. QED BY <2>1, FS_Subset
<1>. QED BY <1>1, <1>3, <1>4 DEF Lefts

\* What is committed, and what is left of the minimum, are sums of what is left.
LEMMA CommittedPart ==
  ASSUME NEW tables, NEW month, NEW scope
  PROVE  LET items == {i \in Active(tables.items) : tables.items[i].category \in scope}
         IN /\ items \in SUBSET Active(tables.items)
            /\ Committed(tables, month, scope) = SumOf(Restrict(Lefts(tables, month), items))
            /\ PlanMinimumLeft(tables, month) = SumOf(Lefts(tables, month))
<1> DEFINE items == {i \in Active(tables.items) : tables.items[i].category \in scope}
<1>1. [i \in items |-> ItemLeft(tables, month, i)] = Restrict(Lefts(tables, month), items)
  BY DEF Restrict, Lefts
<1>. QED BY <1>1 DEF Committed, PlanMinimumLeft, Lefts

\* An expense of the month that pays for one of them, at most what is left of it.
Pays(old, new, o, v, i, month) ==
  LET paid == new.operations[o] IN
  /\ ExpenseMore(old.operations, new.operations, o, v, month)
  /\ new.accounts = old.accounts
  /\ new.categories = old.categories
  /\ new.items = old.items
  /\ new.plans = old.plans
  /\ v \in Int /\ v <= 0
  /\ {j \in Active(old.items) : old.items[j].category = paid.category} = {i}
  /\ -v <= ItemLeft(old, month, i)

\* It is taken off what is left of this one.
LEMMA LeftsLess ==
  ASSUME RegistersAssumption, NEW old, NEW new, Typed(old, Ids), Typed(new, Ids),
         NEW o, NEW v, NEW i, NEW month, Pays(old, new, o, v, i, month)
  PROVE  /\ i \in Active(old.items)
         /\ Lefts(new, month)
              = [Lefts(old, month) EXCEPT ![i] = Lefts(old, month)[i] + v]
<1> DEFINE c == new.operations[o].category
<1>1. i \in Active(old.items) /\ old.items[i].category = c
  BY DEF Pays
<1>2. \A scope : /\ Spent(old.operations, scope, {month}) \in Int
                 /\ Spent(new.operations, scope, {month})
                      = Spent(old.operations, scope, {month}) + IF c \in scope THEN v ELSE 0
  <2>1. ExpenseMore(old.operations, new.operations, o, v, month)
    BY DEF Pays
  <2>2. SpendsMore(old.operations, new.operations, o, v, month)
    BY <2>1, SpentMore
  <2>. QED BY <2>2 DEF SpendsMore
<1>3. ItemLeft(new, month, i) = ItemLeft(old, month, i) + v
  <2>1. /\ Spent(old.operations, {c}, {month}) \in Int
        /\ Spent(new.operations, {c}, {month}) = Spent(old.operations, {c}, {month}) + v
    BY <1>2
  <2>2. new.items[i].category = c /\ new.items[i].monthly = old.items[i].monthly
        /\ old.items[i].monthly \in Nat
    BY <1>1 DEF Pays, Typed, IsTable, Item, Active
  <2>3. v \in Int /\ v <= 0 /\ -v <= ItemLeft(old, month, i)
    BY DEF Pays
  <2>. QED BY <1>1, <2>1, <2>2, <2>3 DEF ItemLeft, SpentThisMonth
<1>4. ASSUME NEW j \in Active(old.items), j # i
      PROVE  ItemLeft(new, month, j) = ItemLeft(old, month, j)
  <2>1. old.items[j].category # c /\ new.items = old.items
    BY <1>4 DEF Pays
  <2> DEFINE scope == {old.items[j].category}
  <2>4. c \notin scope
    BY <2>1
  <2>2. Spent(new.operations, scope, {month}) = Spent(old.operations, scope, {month})
    <3>. HIDE DEF scope, c
    <3>1. PICK before, after : /\ before = Spent(old.operations, scope, {month})
                               /\ after = Spent(new.operations, scope, {month})
      OBVIOUS
    <3>2. before \in Int /\ after = before + 0
      BY <1>2, <2>4, <3>1
    <3>. QED BY <3>1, <3>2
  <2>3. SpentThisMonth(new, month, {new.items[j].category})
          = SpentThisMonth(old, month, {old.items[j].category})
    BY <2>1, <2>2 DEF SpentThisMonth
  <2>. QED BY <2>1, <2>3 DEF ItemLeft
<1>5. Active(new.items) = Active(old.items)
  BY DEF Pays
<1>. QED BY <1>1, <1>3, <1>4, <1>5 DEF Lefts

\* So what is committed goes down by as much, where the scope has the category, and the minimum too.
LEMMA CommittedLess ==
  ASSUME RegistersAssumption, NEW old, NEW new, Typed(old, Ids), Typed(new, Ids),
         NEW o, NEW v, NEW i, NEW month, Pays(old, new, o, v, i, month), NEW scope
  PROVE  /\ Committed(old, month, scope) \in Int /\ PlanMinimumLeft(old, month) \in Int
         /\ PlanMinimumLeft(new, month) = PlanMinimumLeft(old, month) + v
         /\ Committed(new, month, scope)
              = Committed(old, month, scope)
                  + IF new.operations[o].category \in scope THEN v ELSE 0
<1> DEFINE items == {j \in Active(old.items) : old.items[j].category \in scope}
           f == Lefts(old, month)
           g == Lefts(new, month)
           part == Restrict(f, items)
<1>1. i \in Active(old.items) /\ g = [f EXCEPT ![i] = f[i] + v]
  BY LeftsLess
<1>2. /\ IsFiniteSet(Active(old.items)) /\ f \in [Active(old.items) -> Int]
      /\ items \in SUBSET Active(old.items)
  <2>1. IsFiniteSet(Active(old.items)) /\ f \in [Active(old.items) -> Nat]
    BY LeftsType
  <2>. HIDE DEF f
  <2>. QED BY <2>1
<1>3. /\ Active(new.items) = Active(old.items)
      /\ {j \in Active(new.items) : new.items[j].category \in scope} = items
      /\ (i \in items <=> new.operations[o].category \in scope)
      /\ v \in Int
  BY DEF Pays
<1>4. /\ Committed(old, month, scope) = SumOf(part)
      /\ Committed(new, month, scope) = SumOf(Restrict(g, items))
      /\ PlanMinimumLeft(old, month) = SumOf(f) /\ PlanMinimumLeft(new, month) = SumOf(g)
  <2>1. Committed(old, month, scope) = SumOf(part) /\ PlanMinimumLeft(old, month) = SumOf(f)
    BY CommittedPart
  <2>2. /\ Committed(new, month, scope)
             = SumOf(Restrict(g, {j \in Active(new.items) : new.items[j].category \in scope}))
        /\ PlanMinimumLeft(new, month) = SumOf(g)
    BY CommittedPart
  <2>. HIDE DEF f, g, items, part
  <2>. QED BY <1>3, <2>1, <2>2
<1>5. IsFiniteSet(items) /\ part \in [items -> Int]
  BY <1>2, FS_Subset DEF Restrict
<1>6. SumOf(f) \in Int /\ SumOf(part) \in Int
  <2>. HIDE DEF f, items, part
  <2>. QED BY <1>2, <1>5, SumType
<1>7. f[i] \in Int /\ f[i] + v \in Int
  <2>. HIDE DEF f
  <2>. QED BY <1>1, <1>2, <1>3
<1>8. SumOf(g) = SumOf(f) + v
  <2>. HIDE DEF f, g
  <2>1. \A w \in Int : SumOf([f EXCEPT ![i] = w]) = SumOf(f) - f[i] + w
    BY <1>1, <1>2, SumUpdate
  <2>2. SumOf([f EXCEPT ![i] = f[i] + v]) = SumOf(f) - f[i] + (f[i] + v)
    BY <1>7, <2>1, Zenon
  <2>. QED BY <1>1, <1>3, <1>6, <1>7, <2>2
<1>9. SumOf(Restrict(g, items)) = SumOf(part) + IF i \in items THEN v ELSE 0
  <2>1. CASE i \in items
    <3>1. Restrict(g, items) = [part EXCEPT ![i] = part[i] + v] /\ part[i] = f[i]
      <4>. HIDE DEF f, g, items
      <4>. QED BY <1>1, <1>2, <2>1 DEF Restrict
    <3>. HIDE DEF part, f, g, items
    <3>2. \A w \in Int : SumOf([part EXCEPT ![i] = w]) = SumOf(part) - part[i] + w
      BY <1>5, <2>1, SumUpdate
    <3>3. part[i] + v \in Int
      BY <1>7, <3>1
    <3>4. SumOf([part EXCEPT ![i] = part[i] + v]) = SumOf(part) - part[i] + (part[i] + v)
      BY <3>2, <3>3, Zenon
    <3>. QED BY <1>3, <1>6, <1>7, <2>1, <3>1, <3>4
  <2>2. CASE i \notin items
    <3>1. Restrict(g, items) = part
      <4>. HIDE DEF f, g, items
      <4>. QED BY <1>1, <1>2, <2>2 DEF Restrict
    <3>. HIDE DEF part, f, g, items
    <3>. QED BY <1>6, <2>2, <3>1
  <2>. QED BY <2>1, <2>2
<1>. HIDE DEF f, g, items, part
<1>. QED BY <1>3, <1>4, <1>6, <1>8, <1>9

\* What had been set aside for it is spent: the daily allowance has as much as before.
LEMMA AllowanceStays ==
  ASSUME RegistersAssumption, NEW old, NEW new, Typed(old, Ids), Typed(new, Ids),
         NEW o, NEW v, NEW i, NEW month, Pays(old, new, o, v, i, month),
         new.operations[o].account \in Active(old.accounts)
  PROVE  SafeToSpend(new, month) = SafeToSpend(old, month)
<1> DEFINE c == new.operations[o].category
           saving == {b \in DOMAIN old.plans : old.plans[b].month = month /\ old.plans[b].rollover}
<1>1. Liquid(old) \in Int /\ Liquid(new) = Liquid(old) + v
  BY LiquidMore DEF Pays, ExpenseMore
<1>2. /\ PlanMinimumLeft(old, month) \in Int
      /\ PlanMinimumLeft(new, month) = PlanMinimumLeft(old, month) + v
  BY CommittedLess
<1>3. ASSUME NEW b \in saving
      PROVE  PlanLeft(new, b) = PlanLeft(old, b)
  <2> DEFINE scope == ScopeOf(old.categories, old.plans[b].category)
             less == IF c \in scope THEN v ELSE 0
  <2>1. new.plans[b] = old.plans[b] /\ old.plans[b].month = month
        /\ ScopeOf(new.categories, new.plans[b].category) = scope
        /\ old.plans[b].planned \in Int /\ less \in Int
    BY DEF Pays, Typed, IsTable, Plan
  <2>2. /\ Spent(old.operations, scope, {month}) \in Int
        /\ Spent(new.operations, scope, {month}) = Spent(old.operations, scope, {month}) + less
    <3>1. ExpenseMore(old.operations, new.operations, o, v, month)
      BY DEF Pays
    <3>2. SpendsMore(old.operations, new.operations, o, v, month)
      BY <3>1, SpentMore
    <3>. HIDE DEF scope
    <3>. QED BY <3>2 DEF SpendsMore
  <2>3. /\ Committed(old, month, scope) \in Int
        /\ Committed(new, month, scope) = Committed(old, month, scope) + less
    <3>. HIDE DEF scope
    <3>. QED BY CommittedLess
  <2>4. old.plans[b].planned - (-Spent(old.operations, scope, {month})) - Committed(old, month, scope)
        = old.plans[b].planned - (-Spent(new.operations, scope, {month})) - Committed(new, month, scope)
    <3>. HIDE DEF scope, less
    <3>. QED BY <2>1, <2>2, <2>3
  <2>. HIDE DEF scope, less
  <2>. QED BY <2>1, <2>4 DEF PlanLeft, SpentThisMonth, scope
<1>4. Savings(new, month) = Savings(old, month)
  <2>1. {b \in DOMAIN new.plans : new.plans[b].month = month /\ new.plans[b].rollover} = saving
    BY DEF Pays
  <2>2. [b \in saving |-> PlanLeft(new, b)] = [b \in saving |-> PlanLeft(old, b)]
    <3>. HIDE DEF saving
    <3>. QED BY <1>3
  <2>. QED BY <2>1, <2>2 DEF Savings
<1>5. Savings(old, month) \in Int
  <2>1. \A b \in saving : PlanLeft(old, b) \in Int
    <3> TAKE b \in saving
    <3> DEFINE scope == ScopeOf(old.categories, old.plans[b].category)
    <3>1. old.plans[b].planned \in Int /\ old.plans[b].month = month
      BY DEF Typed, IsTable, Plan
    <3>2. Spent(old.operations, scope, {month}) \in Int /\ Committed(old, month, scope) \in Int
      <4>. HIDE DEF scope
      <4>. QED BY LeftsType, CommittedLess
    <3>. HIDE DEF scope
    <3>. QED BY <3>1, <3>2 DEF PlanLeft, SpentThisMonth, scope
  <2>2. IsFiniteSet(saving)
    <3>1. /\ IsFiniteSet(Ids.plans) /\ DOMAIN old.plans \subseteq Ids.plans
          /\ saving \subseteq DOMAIN old.plans
      BY DEF RegistersAssumption, TableNames, Typed, IsTable
    <3>. QED BY <3>1, FS_Subset
  <2>3. SumOf([b \in saving |-> PlanLeft(old, b)]) \in Int
    <3>1. [b \in saving |-> PlanLeft(old, b)] \in [saving -> Int]
      <4>. HIDE DEF saving
      <4>. QED BY <2>1
    <3>. HIDE DEF saving
    <3>. QED BY <2>2, <3>1, SumType
  <2>. QED BY <2>3 DEF Savings
<1>6. v \in Int
  BY DEF Pays
<1>. QED BY <1>1, <1>2, <1>4, <1>5, <1>6 DEF SafeToSpend

-----------------------------------------------------------------------------
(* Figures of a backup, and of the account it is restored into.            *)

\* Rows of a backup: what is counted are integers, references lead somewhere, and
\* recurring expenses are live.
Filed(tables) ==
  /\ \A t \in TableNames : IsFiniteSet(DOMAIN tables[t]) /\ None \notin DOMAIN tables[t]
  /\ \A a \in DOMAIN tables.accounts : tables.accounts[a].initial \in Int
  /\ \A c \in DOMAIN tables.categories :
       tables.categories[c].parent \in DOMAIN tables.categories \cup {None}
  /\ \A o \in DOMAIN tables.operations :
       /\ tables.operations[o].amount \in Int
       /\ tables.operations[o].account \in DOMAIN tables.accounts
       /\ tables.operations[o].category \in DOMAIN tables.categories \cup {None}
  /\ \A i \in DOMAIN tables.items :
       /\ tables.items[i].monthly \in Int
       /\ tables.items[i].category \in DOMAIN tables.categories
  /\ \A b \in DOMAIN tables.plans :
       /\ tables.plans[b].planned \in Int
       /\ tables.plans[b].category \in DOMAIN tables.categories
  /\ \A g \in DOMAIN tables.goals : tables.goals[g].category \in DOMAIN tables.categories

\* There is one plan of a month for a category.
LEMMA OnePlan ==
  ASSUME NEW tables, PlanKeys(tables), NEW a \in DOMAIN tables.plans,
         NEW b \in DOMAIN tables.plans, tables.plans[a].month = tables.plans[b].month,
         tables.plans[a].category = tables.plans[b].category
  PROVE  a = b
<1> DEFINE key == [d \in DOMAIN tables.plans |-> <<tables.plans[d].month, tables.plans[d].category>>]
<1>1. key[a] = key[b] /\ a \in DOMAIN key /\ b \in DOMAIN key
  OBVIOUS
<1>2. IsInjective(key)
  BY DEF PlanKeys
<1>. HIDE DEF key
<1>. QED BY <1>1, <1>2 DEF IsInjective

\* A table has the rows of another, each under an id of its own.
OneForOne(id, old, new) ==
  /\ id \in [DOMAIN old -> DOMAIN new]
  /\ \A q, r \in DOMAIN old : id[q] = id[r] => q = r
  /\ \A i \in DOMAIN new : \E r \in DOMAIN old : i = id[r]

\* What the rows have in common, whatever their ids.
SameAccount(ids, row, was) == row.initial = was.initial /\ row.archived = was.archived

SameCategory(ids, row, was) ==
  /\ row.name = was.name
  /\ row.kind = was.kind
  /\ row.archived = was.archived
  /\ row.parent = NewReference(ids, "categories", was.parent)

SameOperation(ids, row, was) ==
  /\ row.kind = was.kind
  /\ row.amount = was.amount
  /\ row.required = was.required
  /\ row.month = was.month
  /\ row.account = ids.accounts[was.account]
  /\ row.category = NewReference(ids, "categories", was.category)

SameItem(ids, row, was) ==
  /\ row.category = ids.categories[was.category]
  /\ row.monthly = was.monthly
  /\ ~row.archived

SamePlan(ids, row, was) ==
  /\ row.month = was.month
  /\ row.category = ids.categories[was.category]
  /\ row.planned = was.planned
  /\ row.rollover = was.rollover

SameGoal(ids, row, was) ==
  /\ row.category = ids.categories[was.category]
  /\ row.kind = was.kind
  /\ row.amount = was.amount
  /\ row.due = was.due

\* The tables are those of a backup under new ids.
Mirrors(ids, old, new) ==
  /\ Filed(old)
  /\ \A t \in TableNames : OneForOne(ids[t], old[t], new[t]) /\ None \notin DOMAIN new[t]
  /\ \A r \in DOMAIN old.accounts :
       SameAccount(ids, new.accounts[ids.accounts[r]], old.accounts[r])
  /\ \A r \in DOMAIN old.categories :
       SameCategory(ids, new.categories[ids.categories[r]], old.categories[r])
  /\ \A r \in DOMAIN old.operations :
       SameOperation(ids, new.operations[ids.operations[r]], old.operations[r])
  /\ \A r \in DOMAIN old.items : SameItem(ids, new.items[ids.items[r]], old.items[r])
  /\ \A r \in DOMAIN old.plans : SamePlan(ids, new.plans[ids.plans[r]], old.plans[r])
  /\ \A r \in DOMAIN old.goals : SameGoal(ids, new.goals[ids.goals[r]], old.goals[r])

\* Ids of a set, as they are now.
Led(id, S) == {id[r] : r \in S}

\* Columns of rows that are chosen alike, and are the same row by row, have the same sum.
LEMMA SumAlike ==
  ASSUME NEW id, NEW old, NEW new, OneForOne(id, old, new), IsFiniteSet(DOMAIN old),
         NEW S \in SUBSET DOMAIN old, NEW T \in SUBSET DOMAIN new,
         \A r \in DOMAIN old : id[r] \in T <=> r \in S,
         NEW f \in [S -> Int], NEW g, g = [i \in T |-> g[i]], \A r \in S : g[id[r]] = f[r]
  PROVE  SumOf(g) = SumOf(f) /\ SumOf(f) \in Int
<1>1. IsFiniteSet(S)
  BY FS_Subset
<1>2. \A q, r \in S : id[q] = id[r] => q = r
  BY DEF OneForOne
<1>3. T = {id[r] : r \in S}
  BY DEF OneForOne
<1>4. SumOf(g) = SumOf(f)
  BY <1>1, <1>2, <1>3, SumRenamed
<1>. QED BY <1>1, <1>4, SumType

\* Rows that are chosen alike are the same rows.
LEMMA LedRows ==
  ASSUME NEW id, NEW old, NEW new, OneForOne(id, old, new),
         NEW S \in SUBSET DOMAIN old, NEW T \in SUBSET DOMAIN new,
         \A r \in DOMAIN old : id[r] \in T <=> r \in S
  PROVE  T = Led(id, S)
  BY DEF OneForOne, Led

\* References to categories are the same when the new ones are.
LEMMA SameReference ==
  ASSUME NEW ids, NEW old, NEW new, Mirrors(ids, old, new)
  PROVE  /\ \A c \in DOMAIN old.categories :
              /\ NewReference(ids, "categories", c) = ids.categories[c]
              /\ ids.categories[c] \in DOMAIN new.categories
         /\ \A c \in DOMAIN old.categories \cup {None} : \A d \in DOMAIN old.categories \cup {None} :
              NewReference(ids, "categories", c) = NewReference(ids, "categories", d) => c = d
         /\ \A c \in DOMAIN old.categories \cup {None} : \A scope \in SUBSET DOMAIN old.categories :
              NewReference(ids, "categories", c) \in Led(ids.categories, scope) <=> c \in scope
<1>1. /\ OneForOne(ids.categories, old.categories, new.categories)
      /\ None \notin DOMAIN old.categories /\ None \notin DOMAIN new.categories
  BY DEF Mirrors, Filed, TableNames
<1>. QED BY <1>1 DEF NewReference, OneForOne, Led

\* Spending on categories.
LEMMA SpentRenamed ==
  ASSUME NEW ids, NEW old, NEW new, Mirrors(ids, old, new),
         NEW scope \in SUBSET DOMAIN old.categories, NEW when
  PROVE  /\ Spent(old.operations, scope, when) \in Int
         /\ Spent(new.operations, Led(ids.categories, scope), when)
              = Spent(old.operations, scope, when)
<1> DEFINE spent(operations, among) ==
             {o \in DOMAIN operations :
                /\ operations[o].category \in among
                /\ operations[o].kind \in {"expense", "refund"}
                /\ operations[o].month \in when}
           S == spent(old.operations, scope)
           T == spent(new.operations, Led(ids.categories, scope))
           f == [o \in S |-> old.operations[o].amount]
           g == [o \in T |-> new.operations[o].amount]
<1>1. /\ OneForOne(ids.operations, old.operations, new.operations)
      /\ IsFiniteSet(DOMAIN old.operations)
  BY DEF Mirrors, Filed, TableNames
<1>2. ASSUME NEW o \in DOMAIN old.operations
      PROVE  /\ ids.operations[o] \in T <=> o \in S
             /\ old.operations[o].amount \in Int
             /\ new.operations[ids.operations[o]].amount = old.operations[o].amount
  <2>1. /\ SameOperation(ids, new.operations[ids.operations[o]], old.operations[o])
        /\ old.operations[o].category \in DOMAIN old.categories \cup {None}
        /\ old.operations[o].amount \in Int
    BY DEF Mirrors, Filed
  <2>2. ids.operations[o] \in DOMAIN new.operations
    BY <1>1 DEF OneForOne
  <2>3. new.operations[ids.operations[o]].category \in Led(ids.categories, scope)
          <=> old.operations[o].category \in scope
    BY <2>1, SameReference DEF SameOperation
  <2>. QED BY <2>1, <2>2, <2>3 DEF SameOperation
<1>3. /\ S \in SUBSET DOMAIN old.operations /\ T \in SUBSET DOMAIN new.operations
      /\ f \in [S -> Int] /\ g = [o \in T |-> g[o]]
      /\ \A o \in S : g[ids.operations[o]] = f[o]
  <2>1. S \in SUBSET DOMAIN old.operations /\ T \in SUBSET DOMAIN new.operations
    OBVIOUS
  <2>. HIDE DEF S, T
  <2>. QED BY <1>2, <2>1
<1>4. \A o \in DOMAIN old.operations : ids.operations[o] \in T <=> o \in S
  BY <1>2
<1>5. SumOf(g) = SumOf(f) /\ SumOf(f) \in Int
  <2>. HIDE DEF S, T, f, g
  <2>. QED BY <1>1, <1>3, <1>4, SumAlike
<1>. QED BY <1>5 DEF Spent

\* What is on the accounts.
LEMMA LiquidRenamed ==
  ASSUME NEW ids, NEW old, NEW new, Mirrors(ids, old, new)
  PROVE  Liquid(new) = Liquid(old)
<1> DEFINE A == Active(old.accounts)
           B == Active(new.accounts)
           initial == [a \in A |-> old.accounts[a].initial]
           renamed == [a \in B |-> new.accounts[a].initial]
           S == {o \in DOMAIN old.operations : old.operations[o].account \in A}
           T == {o \in DOMAIN new.operations : new.operations[o].account \in B}
           f == [o \in S |-> old.operations[o].amount]
           g == [o \in T |-> new.operations[o].amount]
<1>1. /\ OneForOne(ids.accounts, old.accounts, new.accounts)
      /\ OneForOne(ids.operations, old.operations, new.operations)
      /\ IsFiniteSet(DOMAIN old.accounts) /\ IsFiniteSet(DOMAIN old.operations)
  BY DEF Mirrors, Filed, TableNames
<1>2. /\ A \in SUBSET DOMAIN old.accounts /\ B \in SUBSET DOMAIN new.accounts
      /\ S \in SUBSET DOMAIN old.operations /\ T \in SUBSET DOMAIN new.operations
  BY DEF Active
<1>3. ASSUME NEW a \in DOMAIN old.accounts
      PROVE  /\ ids.accounts[a] \in B <=> a \in A
             /\ old.accounts[a].initial \in Int
             /\ new.accounts[ids.accounts[a]].initial = old.accounts[a].initial
  BY <1>1 DEF Mirrors, Filed, SameAccount, OneForOne, Active
<1>4. ASSUME NEW o \in DOMAIN old.operations
      PROVE  /\ ids.operations[o] \in T <=> o \in S
             /\ old.operations[o].amount \in Int
             /\ new.operations[ids.operations[o]].amount = old.operations[o].amount
  <2>1. /\ SameOperation(ids, new.operations[ids.operations[o]], old.operations[o])
        /\ old.operations[o].account \in DOMAIN old.accounts
        /\ old.operations[o].amount \in Int
    BY DEF Mirrors, Filed
  <2>2. ids.operations[o] \in DOMAIN new.operations
    BY <1>1 DEF OneForOne
  <2>3. new.operations[ids.operations[o]].account \in B <=> old.operations[o].account \in A
    BY <1>3, <2>1 DEF SameOperation
  <2>. HIDE DEF A, B
  <2>. QED BY <2>1, <2>2, <2>3 DEF SameOperation
<1>. HIDE DEF A, B, S, T
<1>5. SumOf(renamed) = SumOf(initial)
  <2>1. /\ initial \in [A -> Int] /\ renamed = [a \in B |-> renamed[a]]
        /\ \A a \in A : renamed[ids.accounts[a]] = initial[a]
    BY <1>2, <1>3
  <2>2. \A a \in DOMAIN old.accounts : ids.accounts[a] \in B <=> a \in A
    BY <1>3
  <2>. HIDE DEF initial, renamed
  <2>. QED BY <1>1, <1>2, <2>1, <2>2, SumAlike
<1>6. SumOf(g) = SumOf(f)
  <2>1. /\ f \in [S -> Int] /\ g = [o \in T |-> g[o]]
        /\ \A o \in S : g[ids.operations[o]] = f[o]
    BY <1>2, <1>4
  <2>2. \A o \in DOMAIN old.operations : ids.operations[o] \in T <=> o \in S
    BY <1>4
  <2>. HIDE DEF f, g
  <2>. QED BY <1>1, <1>2, <2>1, <2>2, SumAlike
<1>. QED BY <1>5, <1>6 DEF Liquid, A, B, S, T

\* The branch of a category, as the daily allowance and as the envelopes look for it.
SameBranch(ids, old, new, c) ==
  /\ ScopeOf(old, c) \in SUBSET DOMAIN old
  /\ ScopeOf(new, ids.categories[c]) = Led(ids.categories, ScopeOf(old, c))
  /\ Scope(old, c) \in SUBSET DOMAIN old
  /\ Scope(new, ids.categories[c]) = Led(ids.categories, Scope(old, c))

\* It has the same categories.
LEMMA ScopesRenamed ==
  ASSUME NEW ids, NEW old, NEW new, Mirrors(ids, old, new), NEW c \in DOMAIN old.categories
  PROVE  SameBranch(ids, old.categories, new.categories, c)
<1> DEFINE n == ids.categories[c]
<1>1. /\ OneForOne(ids.categories, old.categories, new.categories)
      /\ n \in DOMAIN new.categories
  BY DEF Mirrors, TableNames, OneForOne
<1>2. ASSUME NEW d \in DOMAIN old.categories
      PROVE  /\ new.categories[ids.categories[d]].archived = old.categories[d].archived
             /\ new.categories[ids.categories[d]].parent = n <=> old.categories[d].parent = c
             /\ ids.categories[d] = n <=> d = c
  <2>1. /\ SameCategory(ids, new.categories[ids.categories[d]], old.categories[d])
        /\ old.categories[d].parent \in DOMAIN old.categories \cup {None}
    BY DEF Mirrors, Filed
  <2>2. n = NewReference(ids, "categories", c)
    BY SameReference
  <2>3. new.categories[ids.categories[d]].parent = n <=> old.categories[d].parent = c
    BY <2>1, <2>2, SameReference DEF SameCategory
  <2>. QED BY <1>1, <2>1, <2>3 DEF SameCategory, OneForOne
<1>3. /\ ScopeOf(old.categories, c) \in SUBSET DOMAIN old.categories
      /\ Scope(old.categories, c) \in SUBSET DOMAIN old.categories
      /\ ScopeOf(new.categories, n) \in SUBSET DOMAIN new.categories
      /\ Scope(new.categories, n) \in SUBSET DOMAIN new.categories
  BY <1>1 DEF ScopeOf, Scope, Active
<1>4. \A d \in DOMAIN old.categories :
        /\ ids.categories[d] \in ScopeOf(new.categories, n) <=> d \in ScopeOf(old.categories, c)
        /\ ids.categories[d] \in Scope(new.categories, n) <=> d \in Scope(old.categories, c)
  <2> TAKE d \in DOMAIN old.categories
  <2>1. ids.categories[d] \in DOMAIN new.categories
    BY <1>1 DEF OneForOne
  <2>2. ids.categories[d] \in Active(new.categories) <=> d \in Active(old.categories)
    BY <1>2, <2>1 DEF Active
  <2>3. n \in Active(new.categories) <=> c \in Active(old.categories)
    BY <1>1, <1>2 DEF Active
  <2>. HIDE DEF n
  <2>. QED BY <1>2, <2>1, <2>2, <2>3 DEF ScopeOf, Scope
<1>5. ASSUME NEW S \in SUBSET DOMAIN old.categories, NEW T \in SUBSET DOMAIN new.categories,
             \A d \in DOMAIN old.categories : ids.categories[d] \in T <=> d \in S
      PROVE  T = Led(ids.categories, S)
  BY <1>1, <1>5, LedRows
<1>6. /\ ScopeOf(new.categories, n) = Led(ids.categories, ScopeOf(old.categories, c))
      /\ Scope(new.categories, n) = Led(ids.categories, Scope(old.categories, c))
  <2> DEFINE S1 == ScopeOf(old.categories, c)
             T1 == ScopeOf(new.categories, n)
             S2 == Scope(old.categories, c)
             T2 == Scope(new.categories, n)
  <2>1. /\ S1 \in SUBSET DOMAIN old.categories /\ T1 \in SUBSET DOMAIN new.categories
        /\ S2 \in SUBSET DOMAIN old.categories /\ T2 \in SUBSET DOMAIN new.categories
        /\ \A d \in DOMAIN old.categories : ids.categories[d] \in T1 <=> d \in S1
        /\ \A d \in DOMAIN old.categories : ids.categories[d] \in T2 <=> d \in S2
    BY <1>3, <1>4
  <2>. HIDE DEF S1, T1, S2, T2
  <2>2. T1 = Led(ids.categories, S1) /\ T2 = Led(ids.categories, S2)
    BY <1>5, <2>1
  <2>. QED BY <2>2 DEF S1, T1, S2, T2
<1>. QED BY <1>3, <1>6 DEF SameBranch

\* What is left of a recurring expense.
LEMMA ItemLeftRenamed ==
  ASSUME NEW ids, NEW old, NEW new, Mirrors(ids, old, new), NEW month,
         NEW i \in DOMAIN old.items
  PROVE  /\ ItemLeft(old, month, i) \in Int
         /\ ItemLeft(new, month, ids.items[i]) = ItemLeft(old, month, i)
<1> DEFINE c == old.items[i].category
<1>1. /\ SameItem(ids, new.items[ids.items[i]], old.items[i])
      /\ c \in DOMAIN old.categories /\ old.items[i].monthly \in Int
  BY DEF Mirrors, Filed
<1>2. /\ Spent(old.operations, {c}, {month}) \in Int
      /\ Spent(new.operations, Led(ids.categories, {c}), {month})
           = Spent(old.operations, {c}, {month})
  BY <1>1, SpentRenamed
<1>3. Led(ids.categories, {c}) = {ids.categories[c]}
  BY DEF Led
<1>4. /\ SpentThisMonth(old, month, {c}) \in Int
      /\ SpentThisMonth(new, month, {ids.categories[c]}) = SpentThisMonth(old, month, {c})
  BY <1>2, <1>3 DEF SpentThisMonth
<1>. QED BY <1>1, <1>4 DEF ItemLeft, SameItem

\* What is set aside for all recurring expenses, and for those of a scope.
LEMMA CommittedRenamed ==
  ASSUME NEW ids, NEW old, NEW new, Mirrors(ids, old, new), AllItemsLive(old), NEW month,
         NEW scope \in SUBSET DOMAIN old.categories
  PROVE  /\ PlanMinimumLeft(new, month) = PlanMinimumLeft(old, month)
         /\ Committed(old, month, scope) \in Int
         /\ Committed(new, month, Led(ids.categories, scope)) = Committed(old, month, scope)
<1> DEFINE A == Active(old.items)
           B == Active(new.items)
           S == {i \in A : old.items[i].category \in scope}
           T == {i \in B : new.items[i].category \in Led(ids.categories, scope)}
           sum(P) == [i \in P |-> ItemLeft(old, month, i)]
           renamed(P) == [i \in P |-> ItemLeft(new, month, i)]
<1>1. OneForOne(ids.items, old.items, new.items) /\ IsFiniteSet(DOMAIN old.items)
  BY DEF Mirrors, Filed, TableNames
<1>2. A = DOMAIN old.items /\ B = DOMAIN new.items
  BY <1>1 DEF AllItemsLive, Active, Mirrors, SameItem, OneForOne
<1>3. /\ A \in SUBSET DOMAIN old.items /\ B \in SUBSET DOMAIN new.items
      /\ S \in SUBSET DOMAIN old.items /\ T \in SUBSET DOMAIN new.items
  BY DEF Active
<1>4. \A i \in DOMAIN old.items : ids.items[i] \in B <=> i \in A
  BY <1>1, <1>2 DEF OneForOne
<1>5. \A i \in DOMAIN old.items : ids.items[i] \in T <=> i \in S
  <2> TAKE i \in DOMAIN old.items
  <2>1. /\ SameItem(ids, new.items[ids.items[i]], old.items[i])
        /\ old.items[i].category \in DOMAIN old.categories
    BY DEF Mirrors, Filed
  <2>2. ids.categories[old.items[i].category] \in Led(ids.categories, scope)
          <=> old.items[i].category \in scope
    BY <2>1, SameReference
  <2>. HIDE DEF A, B
  <2>. QED BY <1>2, <1>4, <2>1, <2>2 DEF SameItem
<1>6. \A i \in DOMAIN old.items :
        /\ ItemLeft(old, month, i) \in Int
        /\ ItemLeft(new, month, ids.items[i]) = ItemLeft(old, month, i)
  BY ItemLeftRenamed
<1>. HIDE DEF A, B, S, T
<1>7. ASSUME NEW P \in SUBSET DOMAIN old.items, NEW Q \in SUBSET DOMAIN new.items,
             \A i \in DOMAIN old.items : ids.items[i] \in Q <=> i \in P
      PROVE  SumOf(renamed(Q)) = SumOf(sum(P)) /\ SumOf(sum(P)) \in Int
  <2>1. /\ sum(P) \in [P -> Int] /\ renamed(Q) = [i \in Q |-> renamed(Q)[i]]
        /\ \A i \in P : renamed(Q)[ids.items[i]] = sum(P)[i]
    BY <1>6, <1>7
  <2>. HIDE DEF sum, renamed
  <2>. QED BY <1>1, <1>7, <2>1, SumAlike
<1>8. SumOf(renamed(B)) = SumOf(sum(A))
  <2>. HIDE DEF sum, renamed
  <2>. QED BY <1>3, <1>4, <1>7
<1>9. SumOf(renamed(T)) = SumOf(sum(S)) /\ SumOf(sum(S)) \in Int
  <2>. HIDE DEF sum, renamed
  <2>. QED BY <1>3, <1>5, <1>7
<1>. QED BY <1>8, <1>9 DEF PlanMinimumLeft, Committed, A, B, S, T

\* What is left of a plan.
LEMMA PlanLeftRenamed ==
  ASSUME NEW ids, NEW old, NEW new, Mirrors(ids, old, new), AllItemsLive(old),
         NEW b \in DOMAIN old.plans
  PROVE  PlanLeft(old, b) \in Int /\ PlanLeft(new, ids.plans[b]) = PlanLeft(old, b)
<1> DEFINE c == old.plans[b].category
           month == old.plans[b].month
           scope == ScopeOf(old.categories, c)
           renamed == ScopeOf(new.categories, ids.categories[c])
<1>1. /\ SamePlan(ids, new.plans[ids.plans[b]], old.plans[b])
      /\ c \in DOMAIN old.categories /\ old.plans[b].planned \in Int
  BY DEF Mirrors, Filed
<1>2. scope \in SUBSET DOMAIN old.categories /\ renamed = Led(ids.categories, scope)
  <2>1. SameBranch(ids, old.categories, new.categories, c)
    BY <1>1, ScopesRenamed
  <2>. QED BY <2>1 DEF SameBranch
<1>. HIDE DEF scope, renamed
<1>3. /\ Spent(old.operations, scope, {month}) \in Int
      /\ Spent(new.operations, renamed, {month}) = Spent(old.operations, scope, {month})
  BY <1>2, SpentRenamed
<1>4. /\ Committed(old, month, scope) \in Int
      /\ Committed(new, month, renamed) = Committed(old, month, scope)
  BY <1>2, CommittedRenamed
<1>5. /\ SpentThisMonth(old, month, scope) \in Int
      /\ SpentThisMonth(new, month, renamed) = SpentThisMonth(old, month, scope)
  BY <1>3 DEF SpentThisMonth
<1>. QED BY <1>1, <1>4, <1>5 DEF PlanLeft, SamePlan, scope, renamed

\* What is safe to spend.
LEMMA SafeRenamed ==
  ASSUME NEW ids, NEW old, NEW new, Mirrors(ids, old, new), AllItemsLive(old), NEW month
  PROVE  SafeToSpend(new, month) = SafeToSpend(old, month)
<1> DEFINE saving(plans) == {b \in DOMAIN plans : plans[b].month = month /\ plans[b].rollover}
           S == saving(old.plans)
           T == saving(new.plans)
           f == [b \in S |-> PlanLeft(old, b)]
           g == [b \in T |-> PlanLeft(new, b)]
<1>1. OneForOne(ids.plans, old.plans, new.plans) /\ IsFiniteSet(DOMAIN old.plans)
  BY DEF Mirrors, Filed, TableNames
<1>2. S \in SUBSET DOMAIN old.plans /\ T \in SUBSET DOMAIN new.plans
  OBVIOUS
<1>3. \A b \in DOMAIN old.plans : ids.plans[b] \in T <=> b \in S
  BY <1>1 DEF Mirrors, SamePlan, OneForOne
<1>. HIDE DEF S, T
<1>4. /\ f \in [S -> Int] /\ g = [b \in T |-> g[b]]
      /\ \A b \in S : g[ids.plans[b]] = f[b]
  BY <1>2, <1>3, PlanLeftRenamed
<1>5. SumOf(g) = SumOf(f)
  <2>. HIDE DEF f, g
  <2>. QED BY <1>1, <1>2, <1>3, <1>4, SumAlike
<1>6. Savings(new, month) = Savings(old, month)
  BY <1>5 DEF Savings, S, T
<1>7. PlanMinimumLeft(new, month) = PlanMinimumLeft(old, month)
  BY CommittedRenamed
<1>. QED BY <1>6, <1>7, LiquidRenamed DEF SafeToSpend

\* What was planned before a month.
LEMMA PlannedBeforeRenamed ==
  ASSUME NEW ids, NEW old, NEW new, Mirrors(ids, old, new),
         NEW c \in DOMAIN old.categories, NEW month
  PROVE  PlannedBefore(new.plans, ids.categories[c], month) = PlannedBefore(old.plans, c, month)
<1> DEFINE earlier(plans, d) ==
             {b \in DOMAIN plans : plans[b].category = d /\ plans[b].month < month}
           S == earlier(old.plans, c)
           T == earlier(new.plans, ids.categories[c])
           f == [b \in S |-> old.plans[b].planned]
           g == [b \in T |-> new.plans[b].planned]
<1>1. /\ OneForOne(ids.plans, old.plans, new.plans) /\ IsFiniteSet(DOMAIN old.plans)
      /\ OneForOne(ids.categories, old.categories, new.categories)
  BY DEF Mirrors, Filed, TableNames
<1>2. S \in SUBSET DOMAIN old.plans /\ T \in SUBSET DOMAIN new.plans
  OBVIOUS
<1>3. ASSUME NEW b \in DOMAIN old.plans
      PROVE  /\ ids.plans[b] \in T <=> b \in S
             /\ old.plans[b].planned \in Int
             /\ new.plans[ids.plans[b]].planned = old.plans[b].planned
  <2>1. /\ SamePlan(ids, new.plans[ids.plans[b]], old.plans[b])
        /\ old.plans[b].category \in DOMAIN old.categories /\ old.plans[b].planned \in Int
    BY DEF Mirrors, Filed
  <2>2. ids.categories[old.plans[b].category] = ids.categories[c] <=> old.plans[b].category = c
    BY <1>1, <2>1 DEF OneForOne
  <2>3. ids.plans[b] \in DOMAIN new.plans
    BY <1>1 DEF OneForOne
  <2>. QED BY <2>1, <2>2, <2>3 DEF SamePlan
<1>4. \A b \in DOMAIN old.plans : ids.plans[b] \in T <=> b \in S
  BY <1>3
<1>. HIDE DEF S, T
<1>5. /\ f \in [S -> Int] /\ g = [b \in T |-> g[b]]
      /\ \A b \in S : g[ids.plans[b]] = f[b]
  BY <1>2, <1>3
<1>6. SumOf(g) = SumOf(f)
  <2>. HIDE DEF f, g
  <2>. QED BY <1>1, <1>2, <1>4, <1>5, SumAlike
<1>. QED BY <1>6 DEF PlannedBefore, S, T

\* The envelope of a plan.
LEMMA EnvelopeRenamed ==
  ASSUME NEW ids, NEW old, NEW new, Mirrors(ids, old, new), NEW b \in DOMAIN old.plans
  PROVE  Envelope(new.categories, new.operations, new.plans, ids.plans[b])
           = Envelope(old.categories, old.operations, old.plans, b)
<1> DEFINE c == old.plans[b].category
           scope == Scope(old.categories, c)
           renamed == Scope(new.categories, ids.categories[c])
<1>1. /\ SamePlan(ids, new.plans[ids.plans[b]], old.plans[b])
      /\ c \in DOMAIN old.categories
  BY DEF Mirrors, Filed
<1>2. scope \in SUBSET DOMAIN old.categories /\ renamed = Led(ids.categories, scope)
  <2>1. SameBranch(ids, old.categories, new.categories, c)
    BY <1>1, ScopesRenamed
  <2>. QED BY <2>1 DEF SameBranch
<1>. HIDE DEF scope, renamed
<1>3. \A when : Spent(new.operations, renamed, when) = Spent(old.operations, scope, when)
  BY <1>2, SpentRenamed
<1>4. \A month : PlannedBefore(new.plans, ids.categories[c], month)
                   = PlannedBefore(old.plans, c, month)
  BY <1>1, PlannedBeforeRenamed
<1>. QED BY <1>1, <1>3, <1>4 DEF Envelope, SamePlan, scope, renamed

\* What lies in an envelope without a plan.
LEMMA WithoutPlanRenamed ==
  ASSUME NEW ids, NEW old, NEW new, Mirrors(ids, old, new),
         NEW c \in DOMAIN old.categories, NEW month
  PROVE  EnvelopeWithoutPlan(new.categories, new.operations, new.plans, ids.categories[c], month)
           = EnvelopeWithoutPlan(old.categories, old.operations, old.plans, c, month)
<1> DEFINE scope == Scope(old.categories, c)
           renamed == Scope(new.categories, ids.categories[c])
<1>1. scope \in SUBSET DOMAIN old.categories /\ renamed = Led(ids.categories, scope)
  <2>1. SameBranch(ids, old.categories, new.categories, c)
    BY ScopesRenamed
  <2>. QED BY <2>1 DEF SameBranch
<1>. HIDE DEF scope, renamed
<1>2. \A when : Spent(new.operations, renamed, when) = Spent(old.operations, scope, when)
  BY <1>1, SpentRenamed
<1>3. PlannedBefore(new.plans, ids.categories[c], month) = PlannedBefore(old.plans, c, month)
  BY PlannedBeforeRenamed
<1>. QED BY <1>2, <1>3 DEF EnvelopeWithoutPlan, scope, renamed

\* What is still to be added for a goal.
LEMMA StillToAddRenamed ==
  ASSUME NEW ids, NEW old, NEW new, Mirrors(ids, old, new), PlanKeys(new),
         NEW g \in DOMAIN old.goals, NEW month
  PROVE  StillToAdd(new, ids.goals[g], month) = StillToAdd(old, g, month)
<1> DEFINE c == old.goals[g].category
           n == ids.categories[c]
           plansOf(plans, d) == {b \in DOMAIN plans : plans[b].category = d /\ plans[b].month = month}
           S == plansOf(old.plans, c)
           T == plansOf(new.plans, n)
           f == [b \in S |-> old.plans[b].planned]
           h == [b \in T |-> new.plans[b].planned]
<1>1. /\ OneForOne(ids.plans, old.plans, new.plans) /\ IsFiniteSet(DOMAIN old.plans)
      /\ OneForOne(ids.categories, old.categories, new.categories)
      /\ SameGoal(ids, new.goals[ids.goals[g]], old.goals[g])
      /\ c \in DOMAIN old.categories
  BY DEF Mirrors, Filed, TableNames
<1>2. S \in SUBSET DOMAIN old.plans /\ T \in SUBSET DOMAIN new.plans
  OBVIOUS
<1>3. ASSUME NEW b \in DOMAIN old.plans
      PROVE  /\ ids.plans[b] \in T <=> b \in S
             /\ old.plans[b].planned \in Int
             /\ new.plans[ids.plans[b]].planned = old.plans[b].planned
  <2>1. /\ SamePlan(ids, new.plans[ids.plans[b]], old.plans[b])
        /\ old.plans[b].category \in DOMAIN old.categories /\ old.plans[b].planned \in Int
    BY DEF Mirrors, Filed
  <2>2. ids.categories[old.plans[b].category] = n <=> old.plans[b].category = c
    BY <1>1, <2>1 DEF OneForOne
  <2>3. ids.plans[b] \in DOMAIN new.plans
    BY <1>1 DEF OneForOne
  <2>. QED BY <2>1, <2>2, <2>3 DEF SamePlan
<1>4. \A b \in DOMAIN old.plans : ids.plans[b] \in T <=> b \in S
  BY <1>3
<1>5. \A a, b \in T : a = b
  BY OnePlan
<1>. HIDE DEF S, T
<1>6. SumOf(h) = SumOf(f)
  <2>1. /\ f \in [S -> Int] /\ h = [b \in T |-> h[b]]
        /\ \A b \in S : h[ids.plans[b]] = f[b]
    BY <1>2, <1>3
  <2>. HIDE DEF f, h
  <2>. QED BY <1>1, <1>2, <1>4, <2>1, SumAlike
<1>7. T = Led(ids.plans, S)
  BY <1>1, <1>2, <1>4, LedRows
<1>8. Saved(new, n, month) = Saved(old, c, month)
  <2>1. CASE S = {}
    <3>1. T = {}
      BY <1>7, <2>1 DEF Led
    <3>2. EnvelopeWithoutPlan(new.categories, new.operations, new.plans, n, month)
            = EnvelopeWithoutPlan(old.categories, old.operations, old.plans, c, month)
      BY <1>1, WithoutPlanRenamed
    <3>. QED BY <2>1, <3>1, <3>2 DEF Saved, S, T
  <2>2. CASE S # {}
    <3>1. PICK b \in S : b = CHOOSE a \in S : TRUE
      BY <2>2
    <3>2. T # {} /\ ids.plans[b] = CHOOSE a \in T : TRUE
      BY <1>5, <1>7, <3>1 DEF Led
    <3>3. Envelope(new.categories, new.operations, new.plans, ids.plans[b])
            = Envelope(old.categories, old.operations, old.plans, b)
      BY <1>2, <3>1, EnvelopeRenamed
    <3>4. Saved(old, c, month)
            = LET envelope == Envelope(old.categories, old.operations, old.plans, b)
              IN envelope.rollover - envelope.spent
      BY <2>2, <3>1 DEF Saved, S
    <3>5. Saved(new, n, month)
            = LET envelope == Envelope(new.categories, new.operations, new.plans, ids.plans[b])
              IN envelope.rollover - envelope.spent
      BY <3>2 DEF Saved, T
    <3>. QED BY <3>3, <3>4, <3>5
  <2>. QED BY <2>1, <2>2
<1>9. /\ new.goals[ids.goals[g]].category = n
      /\ \A saved : Need(new.goals[ids.goals[g]], month, saved) = Need(old.goals[g], month, saved)
  BY <1>1 DEF SameGoal, Need
<1>. QED BY <1>6, <1>8, <1>9 DEF StillToAdd, S, T

\* What has been spent of necessity.
LEMMA RequiredRenamed ==
  ASSUME NEW ids, NEW old, NEW new, Mirrors(ids, old, new),
         NEW c \in DOMAIN old.categories, NEW window
  PROVE  /\ RequiredSpend(old.operations, window, c) \in Int
         /\ RequiredSpend(new.operations, window, ids.categories[c])
              = RequiredSpend(old.operations, window, c)
<1> DEFINE n == ids.categories[c]
           counted(operations, d) ==
             {o \in DOMAIN operations :
                /\ operations[o].category = d
                /\ operations[o].kind = "expense"
                /\ operations[o].required
                /\ operations[o].month \in window}
           S == counted(old.operations, c)
           T == counted(new.operations, n)
           f == [o \in S |-> old.operations[o].amount]
           g == [o \in T |-> new.operations[o].amount]
<1>1. /\ OneForOne(ids.operations, old.operations, new.operations)
      /\ IsFiniteSet(DOMAIN old.operations)
  BY DEF Mirrors, Filed, TableNames
<1>2. ASSUME NEW o \in DOMAIN old.operations
      PROVE  /\ ids.operations[o] \in T <=> o \in S
             /\ old.operations[o].amount \in Int
             /\ new.operations[ids.operations[o]].amount = old.operations[o].amount
  <2>1. /\ SameOperation(ids, new.operations[ids.operations[o]], old.operations[o])
        /\ old.operations[o].category \in DOMAIN old.categories \cup {None}
        /\ old.operations[o].amount \in Int
    BY DEF Mirrors, Filed
  <2>2. ids.operations[o] \in DOMAIN new.operations
    BY <1>1 DEF OneForOne
  <2>3. new.operations[ids.operations[o]].category = n <=> old.operations[o].category = c
    BY <2>1, SameReference DEF SameOperation
  <2>. HIDE DEF n
  <2>. QED BY <2>1, <2>2, <2>3 DEF SameOperation
<1>3. /\ S \in SUBSET DOMAIN old.operations /\ T \in SUBSET DOMAIN new.operations
      /\ f \in [S -> Int] /\ g = [o \in T |-> g[o]]
      /\ \A o \in S : g[ids.operations[o]] = f[o]
  <2>1. S \in SUBSET DOMAIN old.operations /\ T \in SUBSET DOMAIN new.operations
    OBVIOUS
  <2>. HIDE DEF S, T
  <2>. QED BY <1>2, <2>1
<1>4. \A o \in DOMAIN old.operations : ids.operations[o] \in T <=> o \in S
  BY <1>2
<1>5. SumOf(g) = SumOf(f) /\ SumOf(f) \in Int
  <2>. HIDE DEF S, T, f, g
  <2>. QED BY <1>1, <1>3, <1>4, SumAlike
<1>. QED BY <1>5 DEF RequiredSpend

\* Categories the generator looks at: in use, planned, and the children of a root.
LEMMA LiveRenamed ==
  ASSUME NEW ids, NEW old, NEW new, Mirrors(ids, old, new), AllItemsLive(old),
         NEW d \in DOMAIN old.categories
  PROVE  /\ ids.categories[d] \in Live(new.categories) <=> d \in Live(old.categories)
         /\ ids.categories[d] \in Planned(new.items) <=> d \in Planned(old.items)
         /\ \A root \in DOMAIN old.categories :
              ids.categories[d] \in Children(new.categories, ids.categories[root])
                <=> d \in Children(old.categories, root)
<1>1. /\ OneForOne(ids.categories, old.categories, new.categories)
      /\ OneForOne(ids.items, old.items, new.items)
      /\ SameCategory(ids, new.categories[ids.categories[d]], old.categories[d])
      /\ old.categories[d].parent \in DOMAIN old.categories \cup {None}
  BY DEF Mirrors, TableNames, Filed
<1>2. ids.categories[d] \in Live(new.categories) <=> d \in Live(old.categories)
  BY <1>1 DEF Live, SameCategory, OneForOne
<1>3. ids.categories[d] \in Planned(new.items) <=> d \in Planned(old.items)
  <2>1. \A i \in DOMAIN old.items :
          /\ ids.items[i] \in Active(new.items) /\ i \in Active(old.items)
          /\ new.items[ids.items[i]].category = ids.categories[old.items[i].category]
          /\ old.items[i].category \in DOMAIN old.categories
    BY <1>1 DEF Mirrors, Filed, SameItem, AllItemsLive, Active, OneForOne
  <2>2. \A i \in DOMAIN old.items :
          new.items[ids.items[i]].category = ids.categories[d] <=> old.items[i].category = d
    BY <1>1, <2>1 DEF OneForOne
  <2>3. ASSUME NEW i \in Active(new.items), new.items[i].category = ids.categories[d]
        PROVE  d \in Planned(old.items)
    <3>1. PICK r \in DOMAIN old.items : i = ids.items[r]
      BY <1>1 DEF OneForOne, Active
    <3>. QED BY <2>1, <2>2, <2>3, <3>1 DEF Planned
  <2>4. ASSUME NEW r \in Active(old.items), old.items[r].category = d
        PROVE  ids.categories[d] \in Planned(new.items)
    BY <2>1, <2>4 DEF Planned, Active
  <2>. QED BY <2>3, <2>4 DEF Planned
<1>4. ASSUME NEW root \in DOMAIN old.categories
      PROVE  ids.categories[d] \in Children(new.categories, ids.categories[root])
               <=> d \in Children(old.categories, root)
  <2>1. new.categories[ids.categories[d]].parent = ids.categories[root]
          <=> old.categories[d].parent = root
    BY <1>1, SameReference DEF SameCategory
  <2>. QED BY <1>2, <2>1 DEF Children
<1>. QED BY <1>2, <1>3, <1>4

\* The categories whose spending a proposal is made of.
LEMMA ProposedRenamed ==
  ASSUME NEW ids, NEW old, NEW new, Mirrors(ids, old, new), AllItemsLive(old),
         NEW c \in DOMAIN old.categories
  PROVE  /\ ProposedFor(old.categories, old.items, c) \in SUBSET DOMAIN old.categories
         /\ ProposedFor(new.categories, new.items, ids.categories[c])
              \in SUBSET DOMAIN new.categories
         /\ \A d \in DOMAIN old.categories :
              ids.categories[d] \in ProposedFor(new.categories, new.items, ids.categories[c])
                <=> d \in ProposedFor(old.categories, old.items, c)
<1> DEFINE n == ids.categories[c]
           parent == old.categories[c].parent
<1>1. /\ OneForOne(ids.categories, old.categories, new.categories)
      /\ SameCategory(ids, new.categories[n], old.categories[c])
      /\ parent \in DOMAIN old.categories \cup {None}
      /\ None \notin DOMAIN old.categories /\ None \notin DOMAIN new.categories
  BY DEF Mirrors, TableNames, Filed
<1>2. n \in DOMAIN new.categories
  BY <1>1 DEF OneForOne
<1>3. /\ ProposedFor(old.categories, old.items, c) \in SUBSET DOMAIN old.categories
      /\ ProposedFor(new.categories, new.items, n) \in SUBSET DOMAIN new.categories
  BY <1>2 DEF ProposedFor, Children, Live
<1>4. ASSUME NEW root \in DOMAIN old.categories
      PROVE  Detailed(new.categories, new.items, ids.categories[root])
               <=> Detailed(old.categories, old.items, root)
  <2>1. \A d \in DOMAIN old.categories :
          /\ ids.categories[d] \in Planned(new.items) <=> d \in Planned(old.items)
          /\ ids.categories[d] \in Children(new.categories, ids.categories[root])
               <=> d \in Children(old.categories, root)
    BY LiveRenamed
  <2>2. /\ \A d \in Children(old.categories, root) : d \in DOMAIN old.categories
        /\ \A d \in Children(new.categories, ids.categories[root]) :
             \E r \in DOMAIN old.categories : d = ids.categories[r]
    BY <1>1 DEF Children, Live, OneForOne
  <2>3. ASSUME NEW d \in Children(old.categories, root), d \in Planned(old.items)
        PROVE  Detailed(new.categories, new.items, ids.categories[root])
    BY <2>1, <2>2, <2>3 DEF Detailed
  <2>4. ASSUME NEW d \in Children(new.categories, ids.categories[root]), d \in Planned(new.items)
        PROVE  Detailed(old.categories, old.items, root)
    <3>1. PICK r \in DOMAIN old.categories : d = ids.categories[r]
      BY <2>2
    <3>. QED BY <2>1, <2>4, <3>1 DEF Detailed
  <2>. QED BY <2>3, <2>4 DEF Detailed
<1>5. new.categories[n].parent = IF parent = None THEN None ELSE ids.categories[parent]
  BY <1>1 DEF SameCategory, NewReference
<1>6. \A d \in DOMAIN old.categories :
        /\ ids.categories[d] \in Live(new.categories) <=> d \in Live(old.categories)
        /\ ids.categories[d] \in Planned(new.items) <=> d \in Planned(old.items)
        /\ ids.categories[d] \in Children(new.categories, n) <=> d \in Children(old.categories, c)
        /\ ids.categories[d] \in DOMAIN new.categories
        /\ ids.categories[d] = n <=> d = c
  BY <1>1, LiveRenamed DEF OneForOne
<1>7. ASSUME NEW d \in DOMAIN old.categories
      PROVE  ids.categories[d] \in ProposedFor(new.categories, new.items, n)
               <=> d \in ProposedFor(old.categories, old.items, c)
  <2>. HIDE DEF n, parent
  <2>1. CASE parent = None
    <3>1. new.categories[n].parent = None
      BY <1>5, <2>1
    <3>2. Detailed(new.categories, new.items, n) <=> Detailed(old.categories, old.items, c)
      BY <1>4 DEF n
    <3>. QED BY <1>6, <2>1, <3>1, <3>2 DEF ProposedFor, parent
  <2>2. CASE parent # None
    <3>1. /\ new.categories[n].parent = ids.categories[parent] /\ parent \in DOMAIN old.categories
          /\ ids.categories[parent] # None
      BY <1>1, <1>5, <1>6, <2>2
    <3>2. Detailed(new.categories, new.items, ids.categories[parent])
            <=> Detailed(old.categories, old.items, parent)
      BY <1>4, <3>1
    <3>. QED BY <1>6, <2>2, <3>1, <3>2 DEF ProposedFor, parent
  <2>. QED BY <2>1, <2>2
<1>. QED BY <1>3, <1>7

\* The sum that is proposed for a category.
Offer(tables, window, c) ==
  LET scope == ProposedFor(tables.categories, tables.items, c)
  IN Monthly(SumOf([d \in scope |-> RequiredSpend(tables.operations, window, d)]))

\* It is the same under new ids.
LEMMA OfferRenamed ==
  ASSUME NEW ids, NEW old, NEW new, Mirrors(ids, old, new), AllItemsLive(old), NEW window,
         NEW c \in DOMAIN old.categories
  PROVE  Offer(new, window, ids.categories[c]) = Offer(old, window, c)
<1> DEFINE S == ProposedFor(old.categories, old.items, c)
           T == ProposedFor(new.categories, new.items, ids.categories[c])
           f == [d \in S |-> RequiredSpend(old.operations, window, d)]
           g == [d \in T |-> RequiredSpend(new.operations, window, d)]
<1>1. /\ OneForOne(ids.categories, old.categories, new.categories)
      /\ IsFiniteSet(DOMAIN old.categories)
  BY DEF Mirrors, Filed, TableNames
<1>2. /\ S \in SUBSET DOMAIN old.categories /\ T \in SUBSET DOMAIN new.categories
      /\ \A d \in DOMAIN old.categories : ids.categories[d] \in T <=> d \in S
  BY ProposedRenamed
<1>. HIDE DEF S, T
<1>3. /\ f \in [S -> Int] /\ g = [d \in T |-> g[d]]
      /\ \A d \in S : g[ids.categories[d]] = f[d]
  BY <1>2, RequiredRenamed
<1>4. SumOf(g) = SumOf(f)
  <2>. HIDE DEF f, g
  <2>. QED BY <1>1, <1>2, <1>3, SumAlike
<1>. QED BY <1>4 DEF Offer, S, T

\* A backup and the account it is restored into show the same.
LEMMA FiguresRenamed ==
  ASSUME NEW ids, NEW old, NEW new, Mirrors(ids, old, new), AllItemsLive(old), PlanKeys(new)
  PROVE  Figures(new) = Figures(old)
<1> DEFINE safe(tables) == [m \in Months |-> SafeToSpend(tables, m)]
           view(tables, b) ==
             <<tables.plans[b].month,
               Envelope(tables.categories, tables.operations, tables.plans, b)>>
           envelopes(tables) == {view(tables, b) : b \in DOMAIN tables.plans}
           goals(tables) == {StillToAdd(tables, g, Now) : g \in DOMAIN tables.goals}
           proposed(tables) ==
             Proposals(tables.categories, tables.operations, tables.items, Months)
           offer(tables, c) == <<tables.categories[c].name, proposed(tables)[c]>>
           proposals(tables) == {offer(tables, c) : c \in DOMAIN proposed(tables)}
<1>1. /\ OneForOne(ids.plans, old.plans, new.plans)
      /\ OneForOne(ids.goals, old.goals, new.goals)
      /\ OneForOne(ids.categories, old.categories, new.categories)
  BY DEF Mirrors, TableNames
<1>2. safe(new) = safe(old)
  BY SafeRenamed
<1>3. envelopes(new) = envelopes(old)
  <2>1. \A b \in DOMAIN old.plans :
          ids.plans[b] \in DOMAIN new.plans /\ view(new, ids.plans[b]) = view(old, b)
    <3> TAKE b \in DOMAIN old.plans
    <3>1. Envelope(new.categories, new.operations, new.plans, ids.plans[b])
            = Envelope(old.categories, old.operations, old.plans, b)
      BY EnvelopeRenamed
    <3>2. new.plans[ids.plans[b]].month = old.plans[b].month
      BY DEF Mirrors, SamePlan
    <3>. QED BY <1>1, <3>1, <3>2 DEF OneForOne
  <2>2. \A i \in DOMAIN new.plans : \E b \in DOMAIN old.plans : i = ids.plans[b]
    BY <1>1 DEF OneForOne
  <2>. HIDE DEF view
  <2>. QED BY <2>1, <2>2
<1>4. goals(new) = goals(old)
  <2>1. \A g \in DOMAIN old.goals :
          /\ ids.goals[g] \in DOMAIN new.goals
          /\ StillToAdd(new, ids.goals[g], Now) = StillToAdd(old, g, Now)
    BY <1>1, StillToAddRenamed DEF OneForOne
  <2>2. \A i \in DOMAIN new.goals : \E g \in DOMAIN old.goals : i = ids.goals[g]
    BY <1>1 DEF OneForOne
  <2>. QED BY <2>1, <2>2
<1>5. proposals(new) = proposals(old)
  <2>1. \A tables :
          proposed(tables) = [c \in {d \in Live(tables.categories) : Offer(tables, Months, d) > 0}
                                |-> Offer(tables, Months, c)]
    BY DEF Proposals, Offer
  <2>. HIDE DEF proposed
  <2>2. \A c \in DOMAIN old.categories :
          /\ Offer(new, Months, ids.categories[c]) = Offer(old, Months, c)
          /\ ids.categories[c] \in Live(new.categories) <=> c \in Live(old.categories)
          /\ new.categories[ids.categories[c]].name = old.categories[c].name
    <3> TAKE c \in DOMAIN old.categories
    <3>1. Offer(new, Months, ids.categories[c]) = Offer(old, Months, c)
      BY OfferRenamed
    <3>2. ids.categories[c] \in Live(new.categories) <=> c \in Live(old.categories)
      BY LiveRenamed
    <3>3. new.categories[ids.categories[c]].name = old.categories[c].name
      BY DEF Mirrors, SameCategory
    <3>. QED BY <3>1, <3>2, <3>3
  <2>3. \A c \in DOMAIN old.categories :
          /\ ids.categories[c] \in DOMAIN proposed(new) <=> c \in DOMAIN proposed(old)
          /\ c \in DOMAIN proposed(old) => offer(new, ids.categories[c]) = offer(old, c)
    BY <2>1, <2>2
  <2>4. /\ \A c \in DOMAIN proposed(old) : c \in DOMAIN old.categories
        /\ \A i \in DOMAIN proposed(new) : \E c \in DOMAIN old.categories : i = ids.categories[c]
    BY <1>1, <2>1 DEF Live, OneForOne
  <2>. HIDE DEF offer
  <2>. QED BY <2>3, <2>4
<1>6. \A tables : Figures(tables) = [safe |-> safe(tables), envelopes |-> envelopes(tables),
                                     goals |-> goals(tables), proposals |-> proposals(tables)]
  BY DEF Figures
<1>. HIDE DEF safe, envelopes, goals, proposals
<1>. QED BY <1>2, <1>3, <1>4, <1>5, <1>6

\* A row under new ids is what it was; a recurring expense is live.
SameRow(t, ids, row, was) ==
  /\ t = "accounts" => SameAccount(ids, row, was)
  /\ t = "categories" => SameCategory(ids, row, was)
  /\ t = "operations" => SameOperation(ids, row, was)
  /\ t = "items" => SameItem(ids, row, was)
  /\ t = "plans" => SamePlan(ids, row, was)
  /\ t = "goals" => SameGoal(ids, row, was)

\* Rows of the tables whose references are to ids that exist in the backup.
RowOf(t, from, row) ==
  /\ t = "accounts" => row \in Account
  /\ t = "categories" => row \in Category(from)
  /\ t = "operations" => row \in Operation(from)
  /\ t = "items" => row \in Item(from)
  /\ t = "plans" => row \in Plan(from)
  /\ t = "goals" => row \in Goal(from)

\* A restored row has the columns of the row of the backup.
LEMMA SameRows ==
  ASSUME NEW ids, NEW from, \A t \in TableNames : None \notin from[t],
         NEW t \in TableNames, NEW row, RowOf(t, from, row)
  PROVE  SameRow(t, ids, RestoredRow(t, row, ids).columns, row)
<1>1. PICK new : new = Remapped(t, row, ids)
  OBVIOUS
<1>2. t # "items" => RestoredRow(t, row, ids).columns = new
  BY <1>1, InsertOf DEF RestoredRow
<1>3. CASE t = "accounts"
  <2>1. DOMAIN row = {"name", "initial", "archived"}
    BY <1>3 DEF RowOf, Account
  <2>2. \A c \in DOMAIN row : new[c] = row[c]
    BY RemappedColumns, <1>1, <1>3, <2>1 DEF References
  <2>3. new.initial = row.initial /\ new.archived = row.archived
    BY <2>1, <2>2
  <2>. QED BY <1>2, <1>3, <2>3 DEF SameRow, SameAccount
<1>4. CASE t = "categories"
  <2>1. DOMAIN row = {"name", "kind", "parent", "archived"}
    BY <1>4 DEF RowOf, Category
  <2>2. new.name = row.name /\ new.kind = row.kind /\ new.archived = row.archived
    BY RemappedColumns, <1>1, <1>4, <2>1 DEF References
  <2>3. new.parent = NewReference(ids, "categories", row.parent)
    BY RemappedColumns, <1>1, <1>4, <2>1 DEF References
  <2>. QED BY <1>2, <1>4, <2>2, <2>3 DEF SameRow, SameCategory
<1>5. CASE t = "operations"
  <2>1. /\ DOMAIN row =
             {"account", "kind", "amount", "category", "payee", "required", "month"}
        /\ row.account \in from["accounts"]
    BY <1>5 DEF RowOf, Operation
  <2>2. /\ new.kind = row.kind /\ new.amount = row.amount /\ new.required = row.required
        /\ new.month = row.month
    BY RemappedColumns, <1>1, <1>5, <2>1 DEF References
  <2>3. /\ new.category = NewReference(ids, "categories", row.category)
        /\ new.account = NewReference(ids, "accounts", row.account)
    BY RemappedColumns, <1>1, <1>5, <2>1 DEF References
  <2>4. new.account = ids.accounts[row.account]
    BY <2>1, <2>3 DEF NewReference, TableNames
  <2>. QED BY <1>2, <1>5, <2>2, <2>3, <2>4 DEF SameRow, SameOperation
<1>6. CASE t = "items"
  <2>1. /\ DOMAIN row = {"category", "monthly", "archived"}
        /\ row.category \in from["categories"]
    BY <1>6 DEF RowOf, Item
  <2>2. new.monthly = row.monthly
    BY RemappedColumns, <1>1, <1>6, <2>1 DEF References
  <2>3. new.category = NewReference(ids, "categories", row.category)
    BY RemappedColumns, <1>1, <1>6, <2>1 DEF References
  <2>4. new.category = ids.categories[row.category]
    BY <2>1, <2>3 DEF NewReference, TableNames
  <2>5. new = [c \in {"category", "monthly", "archived"} |-> new[c]]
    BY RemappedColumns, <1>1, <1>6, <2>1 DEF TableNames
  <2>6. PICK columns : columns = [new EXCEPT !.archived = FALSE]
    OBVIOUS
  <2>7. ~columns.archived /\ columns.monthly = new.monthly /\ columns.category = new.category
    BY <2>5, <2>6
  <2>8. RestoredRow(t, row, ids).columns = columns
    BY <1>1, <1>6, <2>6, InsertOf DEF RestoredRow
  <2>. QED BY <1>6, <2>2, <2>4, <2>7, <2>8 DEF SameRow, SameItem
<1>7. CASE t = "plans"
  <2>1. /\ DOMAIN row = {"month", "category", "planned", "rollover"}
        /\ row.category \in from["categories"]
    BY <1>7 DEF RowOf, Plan
  <2>2. new.month = row.month /\ new.planned = row.planned /\ new.rollover = row.rollover
    BY RemappedColumns, <1>1, <1>7, <2>1 DEF References
  <2>3. new.category = NewReference(ids, "categories", row.category)
    BY RemappedColumns, <1>1, <1>7, <2>1 DEF References
  <2>4. new.category = ids.categories[row.category]
    BY <2>1, <2>3 DEF NewReference, TableNames
  <2>. QED BY <1>2, <1>7, <2>2, <2>4 DEF SameRow, SamePlan
<1>8. CASE t = "goals"
  <2>1. /\ DOMAIN row = {"category", "kind", "amount", "due"}
        /\ row.category \in from["categories"]
    BY <1>8 DEF RowOf, Goal
  <2>2. new.kind = row.kind /\ new.amount = row.amount /\ new.due = row.due
    BY RemappedColumns, <1>1, <1>8, <2>1 DEF References
  <2>3. new.category = NewReference(ids, "categories", row.category)
    BY RemappedColumns, <1>1, <1>8, <2>1 DEF References
  <2>4. new.category = ids.categories[row.category]
    BY <2>1, <2>3 DEF NewReference, TableNames
  <2>. QED BY <1>2, <1>8, <2>2, <2>4 DEF SameRow, SameGoal
<1>9. CASE t = "payees"
  BY <1>9 DEF SameRow
<1>. QED BY <1>3, <1>4, <1>5, <1>6, <1>7, <1>8, <1>9 DEF TableNames

\* The tables are those of the backup.
Recalled(backup, new) == \E ids : Mirrors(ids, backup.tables, new)

\* The account that a backup is restored into has its rows under new ids.
LEMMA RestoreMirrors ==
  ASSUME RowsInv, NEW s \in Sessions, NEW backup \in Backups, RestoreFrom(s, backup)
  PROVE  \E changes : Look(s, "restore_all", changes) /\ Recalled(backup, Result(db, changes))
<1>2. PICK ids, changes :
        Look(s, "restore_all", changes) /\ Brings(backup.tables, ids, changes)
  BY RestoreBrings
<1> DEFINE D == backup.tables
           from == [t \in TableNames |-> DOMAIN D[t]]
           new == Result(db, changes)
           row(t, r) == RestoredRow(t, D[t][r], ids).columns
<1>3. /\ \A t \in TableNames : IsFiniteSet(DOMAIN D[t]) /\ None \notin DOMAIN D[t]
      /\ Typed(D, from) /\ Agree(D) /\ Whole(D)
  BY <1>2, BackupsAssumption DEF BackupsAssumption, Brings
<1>4. Brings(D, ids, changes)
  BY <1>2
<1>5. \A t \in TableNames \ {"categories"} : DOMAIN db[t] = {}
  <2>1. ~HasUserData
    BY DEF RestoreFrom
  <2>2. \A t \in TableNames \ {"categories"} : db[t] = <<>>
    BY <2>1 DEF HasUserData
  <2>. QED BY <2>2
<1>. HIDE DEF D
<1>6. ASSUME NEW t \in TableNames, NEW table, table = Flushed(db[t], changes[t])
      PROVE  /\ DOMAIN table = Led(ids[t], DOMAIN D[t])
             /\ \A r \in DOMAIN D[t] : table[ids[t][r]] = row(t, r)
  <2>1. \A r \in DOMAIN D[t] : RestoredRow(t, D[t][r], ids).do = "insert"
    BY InsertOf DEF RestoredRow
  <2>2. \A i \in DOMAIN changes[t] : changes[t][i].do = "insert" =>
          \E r \in DOMAIN D[t] : i = ids[t][r]
    BY <1>4, DeleteOf DEF Brings
  <2>3. \A i \in DOMAIN db[t] : i \in DOMAIN changes[t] /\ changes[t][i].do = "delete"
    BY <1>4, <1>5, DeleteOf, IdsOf DEF Brings
  <2>4. \A r \in DOMAIN D[t] :
          /\ ids[t][r] \in DOMAIN changes[t] /\ changes[t][ids[t][r]].do = "insert"
          /\ changes[t][ids[t][r]].columns = row(t, r)
    BY <1>4, <2>1 DEF Brings
  <2>5. PICK old, more : old = db[t] /\ more = changes[t]
    OBVIOUS
  <2>6. /\ DOMAIN table = (DOMAIN old \cup {i \in DOMAIN more : more[i].do = "insert"})
                            \ {i \in DOMAIN more : more[i].do = "delete"}
        /\ \A i \in DOMAIN table : i \in DOMAIN more /\ more[i].do = "insert" =>
             table[i] = more[i].columns
    BY <1>6, <2>5 DEF Flushed
  <2>7. /\ \A i \in DOMAIN more : more[i].do = "insert" => i \in Led(ids[t], DOMAIN D[t])
        /\ \A i \in DOMAIN old : i \in DOMAIN more /\ more[i].do = "delete"
        /\ \A i \in Led(ids[t], DOMAIN D[t]) : i \in DOMAIN more /\ more[i].do = "insert"
    BY <2>2, <2>3, <2>4, <2>5 DEF Led
  <2>8. DOMAIN table = Led(ids[t], DOMAIN D[t])
    BY <2>6, <2>7
  <2>. QED BY <2>4, <2>5, <2>6, <2>8 DEF Led
<1>7. Filed(D)
  <2>1. ASSUME NEW tables, Typed(tables, [t \in TableNames |-> DOMAIN tables[t]]),
               \A t \in TableNames : IsFiniteSet(DOMAIN tables[t]) /\ None \notin DOMAIN tables[t]
        PROVE  Filed(tables)
    <3>1. PICK of : of = [t \in TableNames |-> DOMAIN tables[t]]
      OBVIOUS
    <3>2. /\ of["accounts"] = DOMAIN tables.accounts
          /\ of["categories"] = DOMAIN tables.categories
      BY <3>1 DEF TableNames
    <3>3. \A a \in DOMAIN tables.accounts : tables.accounts[a].initial \in Int
      BY <2>1 DEF Typed, IsTable, Account
    <3>4. \A c \in DOMAIN tables.categories :
            tables.categories[c].parent \in DOMAIN tables.categories \cup {None}
      BY <2>1, <3>1, <3>2 DEF Typed, IsTable, Category
    <3>5. \A o \in DOMAIN tables.operations :
            /\ tables.operations[o].amount \in Int
            /\ tables.operations[o].account \in DOMAIN tables.accounts
            /\ tables.operations[o].category \in DOMAIN tables.categories \cup {None}
      BY <2>1, <3>1, <3>2 DEF Typed, IsTable, Operation
    <3>6. \A i \in DOMAIN tables.items :
            /\ tables.items[i].monthly \in Int
            /\ tables.items[i].category \in DOMAIN tables.categories
      <4>1. \A i \in DOMAIN tables.items : tables.items[i] \in Item(of)
        BY <2>1, <3>1, <3>2 DEF Typed, IsTable
      <4>2. \A item \in Item(of) : item.monthly \in Nat /\ item.category \in of["categories"]
        BY DEF Item
      <4>. QED BY <3>2, <4>1, <4>2
    <3>7. \A b \in DOMAIN tables.plans :
            /\ tables.plans[b].planned \in Int
            /\ tables.plans[b].category \in DOMAIN tables.categories
      BY <2>1, <3>1, <3>2 DEF Typed, IsTable, Plan
    <3>8. \A g \in DOMAIN tables.goals : tables.goals[g].category \in DOMAIN tables.categories
      BY <2>1, <3>1, <3>2 DEF Typed, IsTable, Goal
    <3>. QED BY <2>1, <3>3, <3>4, <3>5, <3>6, <3>7, <3>8 DEF Filed
  <2>. QED BY <1>3, <2>1
<1>8. ASSUME NEW t \in TableNames, NEW r \in DOMAIN D[t]
      PROVE  SameRow(t, ids, row(t, r), D[t][r])
  <2>1. /\ \A u \in TableNames : None \notin from[u]
        /\ from["accounts"] = DOMAIN D.accounts /\ from["categories"] = DOMAIN D.categories
    BY <1>3 DEF TableNames
  <2>2. PICK ones : ones = from
    OBVIOUS
  <2>3. PICK old : old = D[t][r]
    OBVIOUS
  <2>4. RowOf(t, ones, old)
    BY <1>3, <2>2, <2>3 DEF RowOf, Typed, IsTable
  <2>5. SameRow(t, ids, RestoredRow(t, old, ids).columns, old)
    BY <2>1, <2>2, <2>4, SameRows
  <2>. QED BY <2>3, <2>5
<1>9. /\ new.categories = Flushed(db.categories, changes.categories)
      /\ new.accounts = Flushed(db.accounts, changes.accounts)
      /\ new.items = Flushed(db.items, changes.items)
      /\ new.plans = Flushed(db.plans, changes.plans)
      /\ new.operations =
           LetGo(Flushed(db.operations, changes.operations), "payee",
                 Flushed(db.payees, changes.payees))
      /\ new.payees = LetGo(Flushed(db.payees, changes.payees), "last", new.categories)
      /\ new.goals = Kept(Flushed(db.goals, changes.goals), new.categories)
  BY ResultTables
<1>10. ASSUME NEW t \in TableNames, NEW table, DOMAIN table = Led(ids[t], DOMAIN D[t])
      PROVE  OneForOne(ids[t], D[t], table) /\ None \notin DOMAIN table
  <2>1. /\ ids[t] \in [DOMAIN D[t] -> Ids[t]]
        /\ \A i, j \in DOMAIN D[t] : ids[t][i] = ids[t][j] => i = j
    BY <1>4 DEF Brings
  <2>2. None \notin Ids[t]
    BY RegistersAssumption DEF RegistersAssumption
  <2>3. PICK old, id : old = D[t] /\ id = ids[t]
    OBVIOUS
  <2>4. OneForOne(id, old, table)
    BY <1>10, <2>1, <2>3 DEF OneForOne, Led
  <2>5. None \notin DOMAIN table
    BY <1>10, <2>1, <2>2 DEF Led
  <2>. QED BY <2>3, <2>4, <2>5
<1>11. ASSUME NEW t \in TableNames, NEW table, table = Flushed(db[t], changes[t])
       PROVE  /\ DOMAIN table = Led(ids[t], DOMAIN D[t])
              /\ OneForOne(ids[t], D[t], table) /\ None \notin DOMAIN table
              /\ \A r \in DOMAIN D[t] : SameRow(t, ids, table[ids[t][r]], D[t][r])
  BY <1>6, <1>8, <1>10, <1>11
<1> DEFINE Columns == {"kind", "amount", "required", "month", "account", "category"}
<1>12. ASSUME NEW table, table = Flushed(db.operations, changes.operations)
       PROVE  \A o \in DOMAIN table : table[o] = [c \in DOMAIN table[o] |-> table[o][c]]
                                       /\ Columns \subseteq DOMAIN table[o]
  <2>1. ASSUME NEW r \in DOMAIN D.operations
        PROVE  /\ row("operations", r) = [c \in DOMAIN row("operations", r) |-> row("operations", r)[c]]
               /\ Columns \subseteq DOMAIN row("operations", r)
    <3>1. PICK old, new1 : old = D.operations[r] /\ new1 = Remapped("operations", old, ids)
      OBVIOUS
    <3>2. Columns \subseteq DOMAIN old
      <4>1. PICK ones : ones = from
        OBVIOUS
      <4>2. old \in Operation(ones)
        BY <1>3, <3>1, <4>1 DEF Typed, IsTable
      <4>. QED BY <4>2 DEF Operation
    <3>3. new1 = [c \in DOMAIN old |-> new1[c]]
      BY <3>1, RemappedColumns DEF TableNames
    <3>4. row("operations", r) = new1
      BY <3>1, InsertOf DEF RestoredRow
    <3>. QED BY <3>2, <3>3, <3>4
  <2>2. /\ DOMAIN table = Led(ids.operations, DOMAIN D.operations)
        /\ \A r \in DOMAIN D.operations : table[ids.operations[r]] = row("operations", r)
    BY <1>6, <1>12 DEF TableNames
  <2>. HIDE DEF row, Columns
  <2>. QED BY <2>1, <2>2 DEF Led
<1>. HIDE DEF row, from, Columns
<1>13. PICK accounts, categories, payees, operations, items, plans, goals :
         /\ accounts = Flushed(db.accounts, changes.accounts)
         /\ categories = Flushed(db.categories, changes.categories)
         /\ payees = Flushed(db.payees, changes.payees)
         /\ operations = Flushed(db.operations, changes.operations)
         /\ items = Flushed(db.items, changes.items)
         /\ plans = Flushed(db.plans, changes.plans)
         /\ goals = Flushed(db.goals, changes.goals)
  OBVIOUS
<1>14. /\ new.accounts = accounts /\ new.categories = categories
       /\ new.items = items /\ new.plans = plans
       /\ new.operations = LetGo(operations, "payee", payees)
       /\ new.payees = LetGo(payees, "last", categories)
       /\ new.goals = Kept(goals, categories)
  BY <1>9, <1>13
<1>15. PICK after : after = new
  OBVIOUS
<1>. HIDE DEF new
<1>16. /\ OneForOne(ids.accounts, D.accounts, after.accounts) /\ None \notin DOMAIN after.accounts
       /\ \A r \in DOMAIN D.accounts :
            SameAccount(ids, after.accounts[ids.accounts[r]], D.accounts[r])
  BY <1>11, <1>13, <1>14, <1>15 DEF SameRow, TableNames
<1>17. /\ OneForOne(ids.categories, D.categories, after.categories)
       /\ None \notin DOMAIN after.categories
       /\ \A r \in DOMAIN D.categories :
            SameCategory(ids, after.categories[ids.categories[r]], D.categories[r])
  BY <1>11, <1>13, <1>14, <1>15 DEF SameRow, TableNames
<1>18. /\ OneForOne(ids.items, D.items, after.items) /\ None \notin DOMAIN after.items
       /\ \A r \in DOMAIN D.items : SameItem(ids, after.items[ids.items[r]], D.items[r])
  BY <1>11, <1>13, <1>14, <1>15 DEF SameRow, TableNames
<1>19. /\ OneForOne(ids.plans, D.plans, after.plans) /\ None \notin DOMAIN after.plans
       /\ \A r \in DOMAIN D.plans : SamePlan(ids, after.plans[ids.plans[r]], D.plans[r])
  BY <1>11, <1>13, <1>14, <1>15 DEF SameRow, TableNames
<1>20. /\ OneForOne(ids.payees, D.payees, after.payees) /\ None \notin DOMAIN after.payees
  <2>1. OneForOne(ids.payees, D.payees, payees) /\ None \notin DOMAIN payees
    BY <1>11, <1>13 DEF TableNames
  <2>2. DOMAIN after.payees = DOMAIN payees
    BY <1>14, <1>15 DEF LetGo
  <2>. QED BY <2>1, <2>2 DEF OneForOne
<1>21. /\ OneForOne(ids.operations, D.operations, after.operations)
       /\ None \notin DOMAIN after.operations
       /\ \A r \in DOMAIN D.operations :
            SameOperation(ids, after.operations[ids.operations[r]], D.operations[r])
  <2>1. /\ OneForOne(ids.operations, D.operations, operations) /\ None \notin DOMAIN operations
        /\ \A r \in DOMAIN D.operations :
             SameOperation(ids, operations[ids.operations[r]], D.operations[r])
    BY <1>11, <1>13 DEF SameRow, TableNames
  <2>2. PICK kept : kept = LetGo(operations, "payee", payees)
    OBVIOUS
  <2>3. DOMAIN kept = DOMAIN operations
    BY <2>2 DEF LetGo
  <2>4. ASSUME NEW o \in DOMAIN operations, NEW column \in Columns
        PROVE  kept[o][column] = operations[o][column]
    <3>1. PICK one : one = operations[o]
      OBVIOUS
    <3>2. kept[o] = one \/ kept[o] = [one EXCEPT !["payee"] = None]
      BY <2>2, <3>1 DEF LetGo
    <3>3. one = [c \in DOMAIN one |-> one[c]] /\ column \in DOMAIN one /\ column # "payee"
      BY <1>13, <1>12, <3>1 DEF Columns
    <3>. QED BY <3>1, <3>2, <3>3
  <2>5. \A r \in DOMAIN D.operations : ids.operations[r] \in DOMAIN operations
    BY <2>1 DEF OneForOne
  <2>6. \A r \in DOMAIN D.operations :
          SameOperation(ids, kept[ids.operations[r]], D.operations[r])
    BY <2>1, <2>4, <2>5 DEF SameOperation, Columns
  <2>7. OneForOne(ids.operations, D.operations, kept)
    BY <2>1, <2>3 DEF OneForOne
  <2>. QED BY <1>14, <1>15, <2>1, <2>2, <2>3, <2>6, <2>7
<1>22. /\ OneForOne(ids.goals, D.goals, after.goals) /\ None \notin DOMAIN after.goals
       /\ \A r \in DOMAIN D.goals : SameGoal(ids, after.goals[ids.goals[r]], D.goals[r])
  <2>1. /\ OneForOne(ids.goals, D.goals, goals) /\ None \notin DOMAIN goals
        /\ \A r \in DOMAIN D.goals : SameGoal(ids, goals[ids.goals[r]], D.goals[r])
    BY <1>11, <1>13 DEF SameRow, TableNames
  <2>2. \A r \in DOMAIN D.goals : ids.categories[D.goals[r].category] \in DOMAIN categories
    BY <1>7, <1>14, <1>15, <1>17 DEF Filed, OneForOne
  <2>3. \A g \in DOMAIN goals : goals[g].category \in DOMAIN categories
    <3>1. ASSUME NEW g \in DOMAIN goals PROVE goals[g].category \in DOMAIN categories
      <4>1. PICK r \in DOMAIN D.goals : g = ids.goals[r]
        BY <2>1 DEF OneForOne
      <4>. QED BY <2>1, <2>2, <4>1 DEF SameGoal
    <3>. QED BY <3>1
  <2>4. PICK kept : kept = Kept(goals, categories)
    OBVIOUS
  <2>5. DOMAIN kept = DOMAIN goals /\ \A g \in DOMAIN goals : kept[g] = goals[g]
    BY <2>3, <2>4 DEF Kept
  <2>6. \A r \in DOMAIN D.goals : ids.goals[r] \in DOMAIN goals
    BY <2>1 DEF OneForOne
  <2>7. OneForOne(ids.goals, D.goals, kept)
    BY <2>1, <2>5 DEF OneForOne
  <2>. QED BY <1>14, <1>15, <2>1, <2>4, <2>5, <2>6, <2>7
<1>23. Mirrors(ids, D, after)
  BY <1>7, <1>16, <1>17, <1>18, <1>19, <1>20, <1>21, <1>22 DEF Mirrors, TableNames
<1>24. Recalled(backup, after)
  BY <1>23 DEF Recalled, D
<1>. QED BY <1>2, <1>15, <1>24 DEF new

-----------------------------------------------------------------------------
(* Requests that record an operation, or make a plan.                      *)

\* The changes touch these tables only.
Touches(changes, touched) == \A t \in TableNames \ touched : DOMAIN changes[t] = {}

\* One row is added to a table.
AddsOne(changes, t, i) == DOMAIN changes[t] = {i} /\ changes[t][i].do = "insert"

\* What a request does, of those that record an operation or make a plan.
Deed(handler, changes) ==
  /\ handler = "create_transaction" =>
       /\ Touches(changes, {"operations", "payees"})
       /\ \E o : /\ AddsOne(changes, "operations", o)
                 /\ LET row == changes.operations[o].columns
                    IN row.kind = "expense" => row.amount <= 0
  /\ handler = "create_budget" =>
       /\ Touches(changes, {"plans"})
       /\ \E b : AddsOne(changes, "plans", b)

\* Tables that are not touched stay, but for references that are let go of.
LEMMA Untouched ==
  ASSUME NEW tables, Typed(tables, Ids), NEW changes, NEW touched, Touches(changes, touched),
         NEW t \in TableNames \ touched
  PROVE  Flushed(tables[t], changes[t]) = tables[t]
<1>1. tables[t] = [i \in DOMAIN tables[t] |-> tables[t][i]]
  BY DEF Typed, IsTable, TableNames
<1>. QED BY <1>1, FlushedNone DEF Touches

\* A table with a row that it may have had before.
Extended(table, i, row, new) ==
  /\ DOMAIN new = DOMAIN table \cup {i}
  /\ new[i] = row
  /\ \A j \in DOMAIN table \ {i} : new[j] = table[j]

\* A row that is added.
LEMMA FlushedOne ==
  ASSUME NEW table, NEW changes, NEW i, DOMAIN changes = {i}, changes[i].do = "insert"
  PROVE  Extended(table, i, changes[i].columns, Flushed(table, changes))
  BY DEF Flushed, Extended

\* Operations let go of nothing but payees.
LEMMA LetGoPayee ==
  ASSUME NEW operations, NEW payees, NEW kept, kept = LetGo(operations, "payee", payees),
         \A o \in DOMAIN kept : kept[o] \in Operation(Ids)
  PROVE  /\ DOMAIN kept = DOMAIN operations
         /\ \A o \in DOMAIN operations :
              /\ kept[o].account = operations[o].account
              /\ kept[o].kind = operations[o].kind
              /\ kept[o].amount = operations[o].amount
              /\ kept[o].category = operations[o].category
              /\ kept[o].month = operations[o].month
<1>1. DOMAIN kept = DOMAIN operations
  BY DEF LetGo
<1>2. ASSUME NEW o \in DOMAIN operations
      PROVE  /\ kept[o].account = operations[o].account
             /\ kept[o].kind = operations[o].kind
             /\ kept[o].amount = operations[o].amount
             /\ kept[o].category = operations[o].category
             /\ kept[o].month = operations[o].month
  <2>1. PICK row, new : row = operations[o] /\ new = kept[o]
    OBVIOUS
  <2>2. new = row \/ new = [row EXCEPT !["payee"] = None]
    BY <2>1 DEF LetGo
  <2>3. {"account", "kind", "amount", "category", "month"} \subseteq DOMAIN new
    BY <1>1, <2>1 DEF Operation
  <2>4. \A c \in {"account", "kind", "amount", "category", "month"} : new[c] = row[c]
    BY <2>2, <2>3
  <2>. QED BY <2>1, <2>4
<1>. QED BY <1>1, <1>2

\* An operation that is recorded is one more, and money is moved by nothing else.
LEMMA RecordedOne ==
  ASSUME NEW old, Typed(old, Ids), NEW changes, Deed("create_transaction", changes),
         NEW new, new = Result(old, changes), Typed(new, Ids),
         NEW o \in DOMAIN new.operations \ DOMAIN old.operations
  PROVE  /\ OneMore(old.operations, new.operations, o, new.operations[o].amount)
         /\ new.operations[o].kind = "expense" => new.operations[o].amount <= 0
         /\ new.accounts = old.accounts /\ new.categories = old.categories
         /\ new.items = old.items /\ new.plans = old.plans
<1>1. PICK p : /\ AddsOne(changes, "operations", p)
               /\ LET row == changes.operations[p].columns
                  IN row.kind = "expense" => row.amount <= 0
  BY DEF Deed
<1>2. PICK flushed, payees :
        /\ flushed = Flushed(old.operations, changes.operations)
        /\ payees = Flushed(old.payees, changes.payees)
  OBVIOUS
<1>3. new.operations = LetGo(flushed, "payee", payees)
  BY <1>2, ResultTables
<1>4. DOMAIN new.operations = DOMAIN flushed
  BY <1>3 DEF LetGo
<1>5. /\ DOMAIN flushed = DOMAIN old.operations \cup {p}
      /\ flushed[p] = changes.operations[p].columns
      /\ \A q \in DOMAIN old.operations \ {p} : flushed[q] = old.operations[q]
  <2>1. PICK table, rows : table = old.operations /\ rows = changes.operations
    OBVIOUS
  <2>2. DOMAIN rows = {p} /\ rows[p].do = "insert"
    BY <1>1, <2>1 DEF AddsOne
  <2>3. flushed = Flushed(table, rows)
    BY <1>2, <2>1
  <2>4. Extended(table, p, rows[p].columns, flushed)
    BY <2>2, <2>3, FlushedOne
  <2>. QED BY <2>1, <2>4 DEF Extended
<1>6. o = p /\ p \notin DOMAIN old.operations
  BY <1>4, <1>5
<1>7. PICK kept : kept = new.operations
  OBVIOUS
<1>8. \A q \in DOMAIN kept : kept[q] \in Operation(Ids)
  BY <1>7 DEF Typed, IsTable
<1>9. /\ DOMAIN kept = DOMAIN flushed
      /\ \A q \in DOMAIN flushed :
           /\ kept[q].account = flushed[q].account
           /\ kept[q].kind = flushed[q].kind
           /\ kept[q].amount = flushed[q].amount
           /\ kept[q].category = flushed[q].category
           /\ kept[q].month = flushed[q].month
  <2>1. kept = LetGo(flushed, "payee", payees)
    BY <1>3, <1>7
  <2>. QED BY <1>8, <2>1, LetGoPayee
<1>10. kept[o].amount \in Int
  BY <1>7, <1>8 DEF Operation
<1>11. OneMore(old.operations, kept, o, kept[o].amount)
  BY <1>5, <1>6, <1>9, <1>10 DEF OneMore
<1>12. kept[o].kind = "expense" => kept[o].amount <= 0
  BY <1>1, <1>5, <1>6, <1>9
<1>13. /\ new.accounts = old.accounts /\ new.categories = old.categories
       /\ new.items = old.items /\ new.plans = old.plans
  <2>1. Touches(changes, {"operations", "payees"})
    BY DEF Deed
  <2>2. /\ Flushed(old.accounts, changes.accounts) = old.accounts
        /\ Flushed(old.categories, changes.categories) = old.categories
        /\ Flushed(old.items, changes.items) = old.items
        /\ Flushed(old.plans, changes.plans) = old.plans
    BY <2>1, Untouched DEF TableNames
  <2>. QED BY <2>2, ResultTables
<1>. QED BY <1>7, <1>11, <1>12, <1>13

\* An expense on a live account that pays for the one recurring expense of its category, at most
\* what is left of it.
SetAside(tables, paid) ==
  /\ paid.kind = "expense" /\ paid.month \in Months /\ paid.account \in Active(tables.accounts)
  /\ Cardinality({i \in Active(tables.items) : tables.items[i].category = paid.category}) = 1
  /\ -paid.amount <= Committed(tables, paid.month, {paid.category})

\* When it is recorded, what is safe to spend stays.
LEMMA RecordedPays ==
  ASSUME RegistersAssumption, NEW old, Typed(old, Ids),
         NEW changes, Deed("create_transaction", changes),
         NEW new, new = Result(old, changes), Typed(new, Ids),
         NEW o \in DOMAIN new.operations \ DOMAIN old.operations,
         SetAside(old, new.operations[o])
  PROVE  SafeToSpend(new, new.operations[o].month) = SafeToSpend(old, new.operations[o].month)
<1>1. PICK paid : paid = new.operations[o]
  OBVIOUS
<1>2. /\ paid.kind = "expense" /\ paid.account \in Active(old.accounts)
      /\ Cardinality({i \in Active(old.items) : old.items[i].category = paid.category}) = 1
      /\ -paid.amount <= Committed(old, paid.month, {paid.category})
  BY <1>1 DEF SetAside
<1> DEFINE for == {i \in Active(old.items) : old.items[i].category = paid.category}
           v == paid.amount
<1>3. /\ OneMore(old.operations, new.operations, o, v)
      /\ v <= 0
      /\ new.accounts = old.accounts /\ new.categories = old.categories
      /\ new.items = old.items /\ new.plans = old.plans
  BY <1>1, <1>2, RecordedOne
<1>4. IsFiniteSet(for)
  <2>1. IsFiniteSet(Active(old.items))
    BY LeftsType
  <2>. QED BY <2>1, FS_Subset
<1>5. PICK i : for = {i}
  <2>. HIDE DEF for
  <2>1. Cardinality(for) = 1
    BY <1>2 DEF for
  <2>. QED BY <1>4, <2>1, FS_Singleton
<1>6. Committed(old, paid.month, {paid.category}) = ItemLeft(old, paid.month, i)
  <2>1. {j \in Active(old.items) : old.items[j].category \in {paid.category}} = {i}
    BY <1>5
  <2> DEFINE f == [j \in {i} |-> ItemLeft(old, paid.month, j)]
  <2>2. Committed(old, paid.month, {paid.category}) = SumOf(f)
    BY <2>1 DEF Committed
  <2>3. i \in Active(old.items)
    BY <1>5
  <2>4. f \in [{i} -> Int] /\ f[i] = ItemLeft(old, paid.month, i)
    <3>1. Lefts(old, paid.month) \in [Active(old.items) -> Nat]
      BY LeftsType
    <3>2. ItemLeft(old, paid.month, i) \in Nat
      BY <2>3, <3>1 DEF Lefts
    <3>. QED BY <3>2
  <2>. HIDE DEF f
  <2>. QED BY <2>2, <2>4, SumOfOne
<1>7. v \in Int
  BY <1>3 DEF OneMore
<1>8. Pays(old, new, o, v, i, paid.month)
  BY <1>1, <1>3, <1>5, <1>6, <1>7, <1>2 DEF Pays, ExpenseMore
<1>. QED BY <1>1, <1>8, <1>2, AllowanceStays

\* References that lead somewhere are kept.
LEMMA LetGoNothing ==
  ASSUME NEW table, table = [r \in DOMAIN table |-> table[r]], NEW column, NEW targets,
         \A r \in DOMAIN table : /\ table[r] = [c \in DOMAIN table[r] |-> table[r][c]]
                                /\ table[r][column] \in DOMAIN targets \cup {None}
  PROVE  LetGo(table, column, targets) = table
<1>1. ASSUME NEW r \in DOMAIN table, table[r][column] \notin DOMAIN targets
      PROVE  [table[r] EXCEPT ![column] = None] = table[r]
  <2>1. PICK row : row = table[r]
    OBVIOUS
  <2>2. row = [c \in DOMAIN row |-> row[c]] /\ row[column] = None
    BY <1>1, <2>1
  <2>. QED BY <2>1, <2>2
<1>. QED BY <1>1 DEF LetGo

\* A plan that is made is one more, and nothing else changes.
LEMMA PlannedOne ==
  ASSUME RegistersAssumption, NEW old, Typed(old, Ids), Whole(old), Agree(old),
         NEW changes, Deed("create_budget", changes),
         NEW new, new = Result(old, changes),
         NEW b \in DOMAIN new.plans \ DOMAIN old.plans
  PROVE  /\ DOMAIN new.plans = DOMAIN old.plans \cup {b}
         /\ \A d \in DOMAIN old.plans : new.plans[d] = old.plans[d]
         /\ new.categories = old.categories
         /\ new.operations = old.operations
         /\ new.goals = old.goals
<1>1. PICK p : AddsOne(changes, "plans", p)
  BY DEF Deed
<1>2. Touches(changes, {"plans"})
  BY DEF Deed
<1>3. /\ Flushed(old.categories, changes.categories) = old.categories
      /\ Flushed(old.operations, changes.operations) = old.operations
      /\ Flushed(old.payees, changes.payees) = old.payees
      /\ Flushed(old.goals, changes.goals) = old.goals
  BY <1>2, Untouched DEF TableNames
<1>4. new.plans = Flushed(old.plans, changes.plans)
  BY ResultTables
<1>5. /\ new.categories = old.categories
      /\ new.operations = LetGo(old.operations, "payee", old.payees)
      /\ new.goals = Kept(old.goals, old.categories)
  BY <1>3, ResultTables
<1>6. LetGo(old.operations, "payee", old.payees) = old.operations
  <2>1. PICK table, targets : table = old.operations /\ targets = old.payees
    OBVIOUS
  <2>2. /\ table = [r \in DOMAIN table |-> table[r]]
        /\ \A r \in DOMAIN table : table[r] = [c \in DOMAIN table[r] |-> table[r][c]]
    <3>1. /\ table = [r \in DOMAIN table |-> table[r]]
          /\ \A r \in DOMAIN table : table[r] \in Operation(Ids)
      BY <2>1 DEF Typed, IsTable
    <3>2. \A row \in Operation(Ids) : row = [c \in DOMAIN row |-> row[c]]
      BY DEF Operation
    <3>. QED BY <3>1, <3>2
  <2>3. \A r \in DOMAIN table : table[r]["payee"] \in DOMAIN targets \cup {None}
    BY <2>1 DEF Agree, OperationsHavePayees
  <2>4. LetGo(table, "payee", targets) = table
    BY <2>2, <2>3, LetGoNothing
  <2>. QED BY <2>1, <2>4
<1>7. Kept(old.goals, old.categories) = old.goals
  <2>1. \A g \in DOMAIN old.goals : old.goals[g].category \in DOMAIN old.categories
    <3>1. \A g \in DOMAIN old.goals :
            old.goals[g]["category"] \in DOMAIN old.categories \cup {None}
      <4>1. [of |-> "goals", column |-> "category", to |-> "categories"] \in References
        BY DEF References
      <4>. QED BY <4>1 DEF Whole
    <3>2. \A g \in DOMAIN old.goals : old.goals[g].category \in Ids.categories
      BY DEF Typed, IsTable, Goal
    <3>3. None \notin Ids.categories
      BY DEF RegistersAssumption, TableNames
    <3>. QED BY <3>1, <3>2, <3>3
  <2>2. old.goals = [g \in DOMAIN old.goals |-> old.goals[g]]
    BY DEF Typed, IsTable
  <2>. QED BY <2>1, <2>2 DEF Kept
<1>8. /\ DOMAIN new.plans = DOMAIN old.plans \cup {p}
      /\ \A d \in DOMAIN old.plans \ {p} : new.plans[d] = old.plans[d]
  <2>1. PICK table, rows : table = old.plans /\ rows = changes.plans
    OBVIOUS
  <2>2. DOMAIN rows = {p} /\ rows[p].do = "insert"
    BY <1>1, <2>1 DEF AddsOne
  <2>3. PICK plans : plans = Flushed(table, rows)
    OBVIOUS
  <2>4. Extended(table, p, rows[p].columns, plans)
    BY <2>2, <2>3, FlushedOne
  <2>. QED BY <1>4, <2>1, <2>3, <2>4 DEF Extended
<1>9. b = p
  BY <1>8
<1>. QED BY <1>5, <1>6, <1>7, <1>8, <1>9

\* What was spent is an integer.
LEMMA SpentType ==
  ASSUME RegistersAssumption, NEW tables, Typed(tables, Ids), NEW scope, NEW when
  PROVE  Spent(tables.operations, scope, when) \in Int
<1>1. SpentOn(tables.operations, scope, when) \in SUBSET DOMAIN tables.operations
  BY DEF SpentOn
<1>2. /\ IsFiniteSet(DOMAIN tables.operations)
      /\ AmountsOf(tables.operations) \in [DOMAIN tables.operations -> Int]
  BY FiguresType
<1>3. SumOf(Restrict(AmountsOf(tables.operations), SpentOn(tables.operations, scope, when))) \in Int
  <2> DEFINE f == AmountsOf(tables.operations)
             S == SpentOn(tables.operations, scope, when)
  <2>. HIDE DEF f, S
  <2>1. SumOf(Restrict(f, S)) \in Int
    BY <1>1, <1>2, SumPart DEF f, S
  <2>. QED BY <2>1 DEF f, S
<1>. QED BY <1>3, SpentTotal DEF Total

\* What had been saved for a goal stays when its month gets a plan that carries over, and the plan
\* is taken off what is still to be added.
LEMMA PlannedNearer ==
  ASSUME RegistersAssumption, NEW old, Typed(old, Ids), Whole(old), Agree(old),
         NEW changes, Deed("create_budget", changes),
         NEW new, new = Result(old, changes), Typed(new, Ids), Agree(new), PlanKeys(new),
         NEW b \in DOMAIN new.plans \ DOMAIN old.plans, NEW g \in DOMAIN old.goals,
         NEW month, month \in Months, new.plans[b].month = month, new.plans[b].rollover,
         new.plans[b].category = old.goals[g].category
  PROVE  LET before == StillToAdd(old, g, month)
             planned == new.plans[b].planned
         IN StillToAdd(new, g, month) = IF before > planned THEN before - planned ELSE 0
<1>1. /\ DOMAIN new.plans = DOMAIN old.plans \cup {b}
      /\ \A d \in DOMAIN old.plans : new.plans[d] = old.plans[d]
      /\ new.categories = old.categories
      /\ new.operations = old.operations
      /\ new.goals = old.goals
  BY PlannedOne
<1> DEFINE goal == old.goals[g]
           c == goal.category
           planned == new.plans[b].planned
           ofMonth(tables) == {d \in DOMAIN tables.plans :
                                 tables.plans[d].category = c /\ tables.plans[d].month = month}
           saved(tables) == Saved(tables, c, month)
           need == Need(goal, month, saved(old))
<1>2. planned \in Int /\ planned >= 0
  BY DEF Typed, IsTable, Plan, Agree, PlansHold
<1>3. ofMonth(new) = {b} /\ ofMonth(old) = {}
  <2>1. \A d \in DOMAIN new.plans :
          new.plans[d].category = c /\ new.plans[d].month = month => d = b
    BY OnePlan
  <2>. QED BY <1>1, <2>1
<1>4. PlannedBefore(new.plans, c, month) = PlannedBefore(old.plans, c, month)
  <2> DEFINE earlier(plans) ==
               {d \in DOMAIN plans : plans[d].category = c /\ plans[d].month < month}
  <2>1. month \in Nat
    BY DEF RegistersAssumption
  <2>2. earlier(new.plans) = earlier(old.plans)
    BY <1>1, <2>1
  <2>3. [d \in earlier(old.plans) |-> new.plans[d].planned]
          = [d \in earlier(old.plans) |-> old.plans[d].planned]
    BY <1>1
  <2>. QED BY <2>2, <2>3 DEF PlannedBefore
<1>5. PlannedBefore(old.plans, c, month) \in Int
  <2> DEFINE earlier == {d \in DOMAIN old.plans :
                           old.plans[d].category = c /\ old.plans[d].month < month}
             f == [d \in earlier |-> old.plans[d].planned]
  <2>1. f \in [earlier -> Int]
    BY DEF Typed, IsTable, Plan
  <2>2. IsFiniteSet(earlier)
    <3>1. /\ IsFiniteSet(Ids.plans) /\ DOMAIN old.plans \subseteq Ids.plans
          /\ earlier \subseteq DOMAIN old.plans
      BY DEF RegistersAssumption, TableNames, Typed, IsTable
    <3>. QED BY <3>1, FS_Subset
  <2>3. PlannedBefore(old.plans, c, month) = SumOf(f)
    BY DEF PlannedBefore
  <2>. HIDE DEF f, earlier
  <2>. QED BY <2>1, <2>2, <2>3, SumType
<1>6. saved(new) = saved(old) /\ saved(old) \in Int
  <2> DEFINE scope == Scope(old.categories, c)
             earlier == Spent(old.operations, scope, Before(month))
             now == Spent(old.operations, scope, {month})
             kept == PlannedBefore(old.plans, c, month)
  <2>1. earlier \in Int /\ now \in Int
    <3>. HIDE DEF scope
    <3>. QED BY SpentType
  <2>2. saved(old) = kept + earlier + now
    BY <1>3 DEF Saved, EnvelopeWithoutPlan
  <2> DEFINE view == Envelope(new.categories, new.operations, new.plans, b)
  <2>3. view.rollover = kept + earlier /\ view.spent = -now
    BY <1>1, <1>4 DEF Envelope
  <2>4. saved(new) = view.rollover - view.spent
    BY <1>3 DEF Saved
  <2>. HIDE DEF earlier, now, kept, view, saved
  <2>. QED BY <1>5, <2>1, <2>2, <2>3, <2>4 DEF kept
<1>7. need \in Int
  <2>1. PICK left, monthsLeft :
          /\ left = goal.amount - saved(old)
          /\ monthsLeft = MonthsBetween(month, IF goal.due = None THEN month ELSE goal.due)
    OBVIOUS
  <2>2. goal.amount \in Nat /\ goal.due \in Months \cup {None} /\ month \in Nat /\ Months \subseteq Nat
    BY DEF Typed, IsTable, Goal, RegistersAssumption
  <2>3. left \in Int /\ monthsLeft \in Int /\ monthsLeft >= 1
    <3>1. \A end \in Nat : MonthsBetween(month, end) \in Int /\ MonthsBetween(month, end) >= 1
      BY <2>2 DEF MonthsBetween
    <3>2. (IF goal.due = None THEN month ELSE goal.due) \in Nat
      BY <2>2
    <3>3. left \in Int
      <4>. HIDE DEF saved
      <4>. QED BY <1>6, <2>1, <2>2
    <3>. QED BY <2>1, <3>1, <3>2, <3>3
  <2>4. (left + monthsLeft - 1) \div monthsLeft \in Int
    BY <2>3
  <2>. HIDE DEF saved
  <2>. QED BY <2>1, <2>2, <2>4 DEF Need
<1>8. StillToAdd(old, g, month) = IF need > 0 THEN need ELSE 0
  <2>1. SumOf([d \in {} |-> old.plans[d].planned]) = 0
    BY SumOfNone
  <2>2. PICK f : f = [d \in ofMonth(old) |-> old.plans[d].planned]
    OBVIOUS
  <2>3. SumOf(f) = 0
    BY <1>3, <2>2, SumOfNone
  <2>4. StillToAdd(old, g, month) = IF need - SumOf(f) > 0 THEN need - SumOf(f) ELSE 0
    BY <2>2 DEF StillToAdd
  <2>. HIDE DEF need
  <2>. QED BY <1>7, <2>3, <2>4
<1>9. StillToAdd(new, g, month) = IF need - planned > 0 THEN need - planned ELSE 0
  <2>1. PICK f : f = [d \in ofMonth(new) |-> new.plans[d].planned]
    OBVIOUS
  <2>2. f \in [{b} -> Int] /\ f[b] = planned
    BY <1>2, <1>3, <2>1
  <2>3. SumOf(f) = planned
    BY <2>2, SumOfOne
  <2>4. Need(goal, month, saved(new)) = need
    BY <1>6
  <2>5. StillToAdd(new, g, month)
          = IF Need(goal, month, saved(new)) - SumOf(f) > 0
              THEN Need(goal, month, saved(new)) - SumOf(f) ELSE 0
    BY <1>1, <2>1 DEF StillToAdd
  <2>. HIDE DEF need, saved
  <2>. QED BY <2>3, <2>4, <2>5
<1>. HIDE DEF need, planned
<1>. QED BY <1>2, <1>7, <1>8, <1>9 DEF planned

-----------------------------------------------------------------------------
(* What a request has checked.                                             *)

\* GenerationFits and InitialBalanceKept, of tables before and after.
Separate(old, new) ==
  \A i \in DOMAIN new.items \ DOMAIN old.items, j \in Active(new.items) :
    LET c == new.items[i].category
        d == new.items[j].category
    IN i # j /\ ~old.categories[d].archived =>
         c # d /\ old.categories[c].parent # d /\ old.categories[d].parent # c

BalancesKept(old, new) ==
  \A a \in DOMAIN old.accounts :
    new.accounts[a].initial # old.accounts[a].initial =>
      {o \in DOMAIN old.operations : old.operations[o].account = a} = {}

Checked(handler, old, new) ==
  /\ handler = "move_planned" => TotalPlanned(new.plans) = TotalPlanned(old.plans)
  /\ handler = "generate_from_categories" => Separate(old, new)
  /\ handler = "update_account" => BalancesKept(old, new)

\* What a session that was not overtaken commits leaves its checks true.
ChecksInv ==
  \A s \in Sessions : Busy(s) =>
    /\ Deed(work[s].handler, work[s].changes)
    /\ s \notin stale => Checked(work[s].handler, db, Result(db, work[s].changes))

\* update_account: the initial balance has been found to be that of an account without operations.
LEMMA UpdateAccountChecked ==
  ASSUME RowsInv, NEW s \in Sessions, UpdateAccount(s)
  PROVE  \E changes : /\ Look(s, "update_account", changes)
                      /\ BalancesKept(db, Result(db, changes))
<1>1. PICK a \in DOMAIN db.accounts,
           new \in [name : Names] \cup [initial : Balances] \cup [name : Names, initial : Balances] :
        /\ "initial" \in DOMAIN new /\ new.initial # db.accounts[a].initial => OperationsOn(a) = {}
        /\ Look(s, "update_account", To("accounts", a, Update(db.accounts[a], new)))
  BY DEF UpdateAccount
<1>2. PICK changes : changes = To("accounts", a, Update(db.accounts[a], new))
  OBVIOUS
<1>3. changes.accounts = [r \in {a} |-> Update(db.accounts[a], new)]
  BY <1>2 DEF To, Nowhere, TableNames
<1>4. PICK accounts : accounts = Flushed(db.accounts, changes.accounts)
  OBVIOUS
<1>5. /\ accounts[a] = Overwritten(db.accounts[a], Update(db.accounts[a], new).columns)
      /\ \A b \in DOMAIN db.accounts \ {a} : accounts[b] = db.accounts[b]
  <2>1. DOMAIN changes.accounts = {a} /\ changes.accounts[a] = Update(db.accounts[a], new)
    BY <1>3
  <2>2. PICK table, rows : table = db.accounts /\ rows = changes.accounts
    OBVIOUS
  <2>3. DOMAIN rows = {a} /\ rows[a] = Update(table[a], new) /\ rows[a].do = "update"
    BY <2>1, <2>2, UpdateOf
  <2>4. accounts = Flushed(table, rows) /\ a \in DOMAIN table
    BY <1>4, <2>2
  <2>5. DOMAIN accounts = DOMAIN table
    BY <2>3, <2>4 DEF Flushed
  <2>6. accounts[a] = Overwritten(table[a], rows[a].columns)
    BY <2>3, <2>4 DEF Flushed, Overwritten
  <2>7. \A b \in DOMAIN table \ {a} : accounts[b] = table[b]
    BY <2>3, <2>4 DEF Flushed
  <2>. QED BY <2>2, <2>3, <2>6, <2>7
<1>6. db.accounts[a] \in Account
  BY DEF RowsInv, TypeOK, Typed, IsTable
<1>7. DOMAIN db.accounts[a] = {"name", "initial", "archived"} /\ DOMAIN new \subseteq {"name", "initial"}
  BY <1>6 DEF Account
<1>8. accounts[a].initial = IF "initial" \in DOMAIN new THEN new["initial"]
                            ELSE db.accounts[a].initial
  <2>1. Overwritten(db.accounts[a], Update(db.accounts[a], new).columns)
          = [c \in DOMAIN db.accounts[a] |->
               IF c \in DOMAIN new THEN new[c] ELSE db.accounts[a][c]]
    BY <1>7, OverwrittenUpdate, SMTT(30)
  <2>. QED BY <1>5, <1>7, <2>1
<1>9. Result(db, changes).accounts = accounts
  BY <1>4, ResultTables
<1>10. BalancesKept(db, Result(db, changes))
  BY <1>1, <1>5, <1>8, <1>9 DEF BalancesKept, OperationsOn
<1>. QED BY <1>1, <1>2, <1>10

\* move_planned takes from one plan what it gives to the other, or to a new one.
LEMMA MoveChecked ==
  ASSUME RowsInv, NEW s \in Sessions, MovePlanned(s)
  PROVE  \E changes : /\ Look(s, "move_planned", changes)
                      /\ TotalPlanned(Result(db, changes).plans) = TotalPlanned(db.plans)
<1>1. PICK month \in Months, from \in CategoryIds, to \in CategoryIds, amount \in Amounts \ {0} :
        /\ from # to
        /\ ForExpenses(from) /\ ForExpenses(to)
        /\ \E source \in PlanOf(month, from),
              target \in IF PlanOf(month, to) = {} THEN FreePlans ELSE PlanOf(month, to) :
             LET left == db.plans[source].planned - amount IN
             /\ left >= 0
             /\ Look(s, "move_planned",
                 [Nowhere EXCEPT !.plans =
                    [r \in {source, target} |->
                       IF r = source THEN Update(db.plans[r], [planned |-> left])
                       ELSE IF PlanOf(month, to) = {} THEN NewPlan(month, to, amount, FALSE)
                       ELSE Raised(r, amount)]])
  BY DEF MovePlanned
<1>2. PICK source \in PlanOf(month, from),
           target \in IF PlanOf(month, to) = {} THEN FreePlans ELSE PlanOf(month, to) :
        /\ db.plans[source].planned - amount >= 0
        /\ Look(s, "move_planned",
             [Nowhere EXCEPT !.plans =
                [r \in {source, target} |->
                   IF r = source
                     THEN Update(db.plans[r], [planned |-> db.plans[source].planned - amount])
                   ELSE IF PlanOf(month, to) = {} THEN NewPlan(month, to, amount, FALSE)
                   ELSE Raised(r, amount)]])
  BY <1>1
<1> DEFINE left == db.plans[source].planned - amount
           rows == [r \in {source, target} |->
                      IF r = source THEN Update(db.plans[r], [planned |-> left])
                      ELSE IF PlanOf(month, to) = {} THEN NewPlan(month, to, amount, FALSE)
                      ELSE Raised(r, amount)]
           old == [b \in DOMAIN db.plans |-> db.plans[b].planned]
<1>3. amount \in Nat
  BY InputsAssumption DEF InputsAssumption
<1>4. source \in DOMAIN db.plans /\ left \in Int /\ old \in [DOMAIN db.plans -> Int]
  BY <1>2, <1>3, PlansKnown DEF PlanOf
<1>5. IsFiniteSet(DOMAIN db.plans)
  BY PlansKnown, IdsOf, FS_Subset
<1>6. PICK changes : changes = [Nowhere EXCEPT !.plans = rows]
  OBVIOUS
<1>7. changes.plans = rows /\ Look(s, "move_planned", changes)
  BY <1>2, <1>6 DEF Nowhere, TableNames
<1>8. PICK plans : plans = Flushed(db.plans, rows)
  OBVIOUS
<1>9. Result(db, changes).plans = plans
  BY <1>7, <1>8, ResultTables
<1>10. ASSUME NEW b \in DOMAIN db.plans, NEW v
       PROVE  Overwritten(db.plans[b], Update(db.plans[b], [planned |-> v]).columns).planned = v
  <2>1. PICK columns : columns = [planned |-> v]
    OBVIOUS
  <2>2. DOMAIN columns = {"planned"} /\ columns["planned"] = v
    BY <2>1
  <2>3. "planned" \in DOMAIN db.plans[b]
    BY PlansKnown, PlanRow
  <2>4. Overwritten(db.plans[b], Update(db.plans[b], columns).columns)
          = [c \in DOMAIN db.plans[b] |->
               IF c \in DOMAIN columns THEN columns[c] ELSE db.plans[b][c]]
    BY <2>2, <2>3, OverwrittenUpdate
  <2>. QED BY <2>1, <2>2, <2>3, <2>4
<1>11. source # target
  BY <1>1, <1>4 DEF PlanOf, FreePlans, Held
<1>12. rows[source].do = "update" /\ rows[source] = Update(db.plans[source], [planned |-> left])
  BY UpdateOf
<1>. HIDE DEF left
<1>13. CASE PlanOf(month, to) = {}
  <2>1. target \notin DOMAIN db.plans
    BY <1>2, <1>13 DEF FreePlans, Held
  <2>2. rows[target] = NewPlan(month, to, amount, FALSE)
    BY <1>11, <1>13
  <2>3. rows[target].do = "insert" /\ rows[target].columns.planned = amount
    BY <2>2 DEF NewPlan, Insert
  <2>. HIDE DEF rows
  <2>4. /\ DOMAIN plans = DOMAIN db.plans \cup {target}
        /\ plans[target].planned = amount
        /\ plans[source] = Overwritten(db.plans[source], rows[source].columns)
        /\ \A b \in DOMAIN db.plans \ {source} : plans[b] = db.plans[b]
    <3>1. DOMAIN rows = {source, target}
      BY DEF rows
    <3>. QED BY <1>4, <1>8, <1>11, <1>12, <2>1, <2>3, <3>1 DEF Flushed, Overwritten
  <2>5. plans[source].planned = left
    BY <1>4, <1>10, <1>12, <2>4
  <2> DEFINE less == [old EXCEPT ![source] = left]
             new == [b \in DOMAIN plans |-> plans[b].planned]
  <2>6. less \in [DOMAIN db.plans -> Int] /\ SumOf(less) = SumOf(old) - old[source] + left
    BY <1>4, <1>5, SumUpdate
  <2>7. new = [b \in DOMAIN db.plans \cup {target} |-> IF b = target THEN amount ELSE less[b]]
    BY <1>4, <2>1, <2>4, <2>5
  <2>. HIDE DEF less, new
  <2>8. SumOf(new) = SumOf(less) + amount
    BY <1>3, <1>5, <2>1, <2>6, <2>7, SumInsert
  <2>9. old[source] = left + amount /\ SumOf(old) \in Int
    BY <1>3, <1>4, <1>5, PlansKnown, SumType DEF left
  <2>. HIDE DEF old
  <2>10. SumOf(new) = SumOf(old)
    BY <1>3, <1>4, <2>6, <2>8, <2>9
  <2>. QED BY <1>7, <1>9, <2>10 DEF TotalPlanned, new, old
<1>14. CASE PlanOf(month, to) # {}
  <2>1. target \in DOMAIN db.plans
    BY <1>2, <1>14 DEF PlanOf
  <2> DEFINE more == db.plans[target].planned + amount
  <2>2. rows[target] = Update(db.plans[target], [planned |-> more])
    BY <1>11, <1>14 DEF Raised
  <2>. HIDE DEF more
  <2>. HIDE DEF rows
  <2>3. rows[target].do = "update"
    BY <2>2, UpdateOf
  <2>4. /\ DOMAIN plans = DOMAIN db.plans
        /\ plans[target] = Overwritten(db.plans[target], rows[target].columns)
        /\ plans[source] = Overwritten(db.plans[source], rows[source].columns)
        /\ \A b \in DOMAIN db.plans \ {source, target} : plans[b] = db.plans[b]
    <3>1. DOMAIN rows = {source, target}
      BY DEF rows
    <3>. QED BY <1>4, <1>8, <1>11, <1>12, <2>1, <2>3, <3>1 DEF Flushed, Overwritten
  <2>5. plans[source].planned = left /\ plans[target].planned = more
    BY <1>4, <1>10, <1>12, <2>1, <2>2, <2>4
  <2> DEFINE less == [old EXCEPT ![source] = left]
             both == [less EXCEPT ![target] = more]
             new == [b \in DOMAIN plans |-> plans[b].planned]
  <2>6. more \in Int /\ more = old[target] + amount
    BY <1>3, <2>1, PlansKnown DEF more
  <2>7. less \in [DOMAIN db.plans -> Int] /\ SumOf(less) = SumOf(old) - old[source] + left
    BY <1>4, <1>5, SumUpdate
  <2>8. less[target] = old[target]
    BY <1>4, <1>11, <2>1
  <2>9. new = both
    BY <1>4, <1>11, <2>1, <2>4, <2>5
  <2>. HIDE DEF less, more
  <2>10. SumOf(both) = SumOf(less) - less[target] + more
    <3>1. PICK f \in [DOMAIN db.plans -> Int] : f = less
      BY <2>7
    <3>2. PICK v \in Int : v = more
      BY <2>6
    <3>3. SumOf([f EXCEPT ![target] = v]) = SumOf(f) - f[target] + v
      BY <1>5, <2>1, SumUpdate
    <3>. QED BY <3>1, <3>2, <3>3
  <2>11. old[source] = left + amount /\ SumOf(old) \in Int /\ old[target] \in Int
    BY <1>3, <1>4, <1>5, <2>1, PlansKnown, SumType DEF left
  <2>. HIDE DEF old, both, new
  <2>12. SumOf(new) = SumOf(old)
    BY <1>3, <1>4, <2>6, <2>7, <2>8, <2>9, <2>10, <2>11
  <2>. QED BY <1>7, <1>9, <2>12 DEF TotalPlanned, new, old
<1>. QED BY <1>13, <1>14

\* The sum for a proposal is of one category at least.
LEMMA ProposalsScope ==
  ASSUME NEW c \in DOMAIN Proposals(db.categories, db.operations, db.items, Months)
  PROVE  c \in Live(db.categories) /\ ProposedFor(db.categories, db.items, c) # {}
<1> DEFINE scope(d) == ProposedFor(db.categories, db.items, d)
           total(d) == SumOf([e \in scope(d) |-> RequiredSpend(db.operations, Months, e)])
<1>1. c \in Live(db.categories) /\ Monthly(total(c)) > 0
  BY DEF Proposals
<1>2. ASSUME scope(c) = {} PROVE FALSE
  <2>1. PICK f : f = [e \in scope(c) |-> RequiredSpend(db.operations, Months, e)]
    OBVIOUS
  <2>2. DOMAIN f = {}
    BY <1>2, <2>1
  <2>3. SumOf(f) = 0
    BY <2>2, SumOfNone
  <2>4. total(c) = 0
    BY <2>1, <2>3
  <2>. HIDE DEF total
  <2>5. Monthly(0) = 0
    BY DEF Monthly, Magnitude, MonthsWindow
  <2>. QED BY <1>1, <2>4, <2>5
<1>. QED BY <1>1, <1>2

\* A category that is proposed is not planned, and neither a child nor the parent of
\* one that is; of a branch either the root is proposed or some of the children.
LEMMA ProposalsFit ==
  ASSUME RowsInv, NEW c \in DOMAIN Proposals(db.categories, db.operations, db.items, Months),
         NEW categories, categories = db.categories
  PROVE  /\ c \in Live(categories) /\ c \notin Planned(db.items)
         /\ categories[c].parent = None => ~Detailed(categories, db.items, c)
         /\ categories[c].parent \in Live(categories) =>
              /\ categories[c].parent \notin Planned(db.items)
              /\ Detailed(categories, db.items, categories[c].parent)
<1>1. c \in Live(categories) /\ ProposedFor(categories, db.items, c) # {}
  BY ProposalsScope
<1>2. None \notin Live(categories)
  BY IdsOf DEF RowsInv, TypeOK, Typed, IsTable, Live
<1>. QED BY <1>1, <1>2 DEF ProposedFor

\* generate_from_categories: nothing that is proposed overlaps with another or with what is
\* planned.
LEMMA GenerateChecked ==
  ASSUME RowsInv, NEW s \in Sessions, GenerateRecurring(s)
  PROVE  \E changes : /\ Look(s, "generate_from_categories", changes)
                      /\ Separate(db, Result(db, changes))
<1> DEFINE proposed == Proposals(db.categories, db.operations, db.items, Months)
<1>1. PICK chosen \in (SUBSET DOMAIN proposed) \ {{}}, ids \in SUBSET (ItemIds \ Held("items")) :
        /\ Cardinality(ids) = Cardinality(chosen)
        /\ \E of \in [ids -> chosen] :
             /\ {of[i] : i \in ids} = chosen
             /\ Look(s, "generate_from_categories",
                    [Nowhere EXCEPT !.items =
                       [i \in ids |->
                          Insert([category |-> of[i], monthly |-> proposed[of[i]],
                                  archived |-> FALSE])]])
  BY DEF GenerateRecurring
<1>2. PICK of \in [ids -> chosen] :
        /\ {of[i] : i \in ids} = chosen
        /\ Look(s, "generate_from_categories",
                    [Nowhere EXCEPT !.items =
                       [i \in ids |->
                          Insert([category |-> of[i], monthly |-> proposed[of[i]],
                                  archived |-> FALSE])]])
  BY <1>1
<1>3. PICK categories : categories = db.categories
  OBVIOUS
<1>4. PICK items : items = db.items
  OBVIOUS
<1>5. \A c \in chosen :
        /\ c \in Live(categories) /\ c \notin Planned(items)
        /\ categories[c].parent = None => ~Detailed(categories, items, c)
        /\ categories[c].parent \in Live(categories) =>
              /\ categories[c].parent \notin Planned(items)
              /\ Detailed(categories, items, categories[c].parent)
  BY <1>3, <1>4, ProposalsFit
<1>. HIDE DEF proposed
<1> DEFINE rows == [i \in ids |-> Insert([category |-> of[i], monthly |-> proposed[of[i]],
                                          archived |-> FALSE])]
<1>6. PICK changes : changes = [Nowhere EXCEPT !.items = rows]
  OBVIOUS
<1>7. changes.items = rows /\ Look(s, "generate_from_categories", changes)
  BY <1>2, <1>6 DEF Nowhere, TableNames
<1>8. PICK new : new = Flushed(items, rows)
  OBVIOUS
<1>9. Result(db, changes).items = new
  BY <1>4, <1>7, <1>8, ResultTables
<1>10. /\ DOMAIN rows = ids
       /\ \A i \in ids : rows[i].do = "insert" /\ rows[i].columns.category = of[i]
  BY DEF Insert
<1>11. ids \cap DOMAIN items = {}
  BY <1>1, <1>4 DEF Held
<1>. HIDE DEF rows
<1>12. /\ DOMAIN new = DOMAIN items \cup ids
       /\ \A i \in ids : new[i].category = of[i]
       /\ \A i \in DOMAIN items : new[i] = items[i]
  BY <1>8, <1>10, <1>11 DEF Flushed
<1>13. \A i, j \in ids : of[i] = of[j] => i = j
  <2>1. IsFiniteSet(ids)
    BY IdsOf, FS_Subset
  <2>2. of \in Surjection(ids, chosen)
    BY <1>2 DEF Surjection
  <2>3. of \in Injection(ids, chosen)
    BY <1>1, <2>1, <2>2, FS_SurjSameCardinalityImpliesInj
  <2>. QED BY <2>3 DEF Injection, IsInjective
<1>14. /\ TwoLevels(categories)
       /\ \A i \in DOMAIN items : /\ items[i].category \in DOMAIN categories
                                  /\ categories[items[i].category].kind = "expense"
  BY <1>3, <1>4 DEF RowsInv, Agree, PlansHold, OfExpenses
<1>15. None \notin DOMAIN categories
  BY <1>3, IdsOf DEF RowsInv, TypeOK, Typed, IsTable
<1>16. ASSUME NEW i \in ids, NEW j \in Active(new), i # j,
              NEW c, c = new[i].category, NEW d, d = new[j].category,
              ~categories[d].archived
       PROVE  c # d /\ categories[c].parent # d /\ categories[d].parent # c
  <2>1. c = of[i] /\ c \in chosen
    BY <1>12, <1>16
  <2>2. c \in DOMAIN categories
    BY <1>5, <2>1 DEF Live
  <2>3. CASE j \in DOMAIN items
    <3>1. d \in Planned(items)
      BY <1>12, <1>16, <2>3 DEF Active, Planned
    <3>2. d \in Live(categories)
      BY <1>12, <1>14, <1>16, <2>3 DEF Live
    <3>3. categories[d].parent = c => categories[c].parent = None /\ d \in Children(categories, c)
      BY <1>14, <1>15, <2>2, <3>2 DEF TwoLevels, Children, Live
    <3>. QED BY <1>5, <2>1, <3>1, <3>2, <3>3 DEF Detailed
  <2>4. CASE j \in ids
    <3>1. d = of[j] /\ d \in chosen
      BY <1>12, <1>16, <2>4
    <3>2. c # d
      BY <1>13, <1>16, <2>1, <2>4, <3>1
    <3>3. \A x, y \in chosen : categories[x].parent # y
      <4>1. ASSUME NEW x \in chosen, NEW y \in chosen, categories[x].parent = y
            PROVE  FALSE
        <5>1. x \in Live(categories) /\ y \in Live(categories)
          BY <1>5
        <5>2. categories[y].parent = None
          BY <1>14, <1>15, <4>1, <5>1 DEF TwoLevels, Live
        <5>. QED BY <1>5, <4>1, <5>1, <5>2
      <4>. QED BY <4>1
    <3>. QED BY <2>1, <3>1, <3>2, <3>3
  <2>. QED BY <1>12, <1>16, <2>3, <2>4 DEF Active
<1>17. Separate(db, Result(db, changes))
  BY <1>3, <1>4, <1>9, <1>12, <1>16 DEF Separate
<1>. QED BY <1>7, <1>17

CheckingHandlers ==
  {"move_planned", "generate_from_categories", "update_account", "create_transaction",
   "create_budget"}

\* A request looks, and what it has checked will hold.
LooksChecked(s) ==
  \E handler, changes :
    /\ Look(s, handler, changes)
    /\ Deed(handler, changes)
    /\ Checked(handler, db, Result(db, changes))

\* The other handlers check nothing of this kind.
LEMMA LookUnchecked ==
  ASSUME NEW s, NEW handler, NEW changes, Look(s, handler, changes),
         handler \notin CheckingHandlers
  PROVE  LooksChecked(s)
  BY DEF LooksChecked, Deed, Checked, CheckingHandlers

\* create_transaction adds one operation, and what is spent is signed.
LEMMA RecordDoes ==
  ASSUME NEW s \in Sessions, RecordOperation(s)
  PROVE  LooksChecked(s)
<1>1. PICK o \in OperationIds \ Held("operations"), q \in Records, p \in PayeeIds \cup {None} :
        Look(s, "create_transaction",
            [To("operations", o, Insert([q EXCEPT !.amount = Signed(@, q.kind), !.payee = p]))
               EXCEPT !.payees =
                 [r \in {p} \ {None} |-> EnsuredRow(r, q.payee, q.category)]])
  BY DEF RecordOperation
<1> DEFINE row == [q EXCEPT !.amount = Signed(q.amount, q.kind), !.payee = p]
           rows == [r \in {p} \ {None} |-> EnsuredRow(r, q.payee, q.category)]
<1>2. PICK changes : changes = [To("operations", o, Insert(row)) EXCEPT !.payees = rows]
  OBVIOUS
<1>3. Look(s, "create_transaction", changes)
  BY <1>1, <1>2
<1>4. row.kind = "expense" => row.amount <= 0
  <2>1. /\ DOMAIN q = {"account", "kind", "amount", "category", "payee", "required", "month"}
        /\ q.amount \in Int /\ (q.kind # "adjustment" => q.amount > 0)
    BY InputsAssumption DEF InputsAssumption
  <2>2. row.kind = q.kind /\ row.amount = Signed(q.amount, q.kind)
    BY <2>1
  <2>. QED BY <2>1, <2>2 DEF Signed
<1>. HIDE DEF row, rows
<1>5. /\ changes.operations = [r \in {o} |-> Insert(row)]
      /\ \A t \in TableNames \ {"operations", "payees"} : changes[t] = <<>>
  BY <1>2 DEF To, Nowhere, TableNames
<1>6. AddsOne(changes, "operations", o) /\ changes.operations[o].columns = row
  BY <1>5 DEF AddsOne, Insert
<1>7. Touches(changes, {"operations", "payees"})
  BY <1>5 DEF Touches
<1>8. Deed("create_transaction", changes)
  BY <1>4, <1>6, <1>7 DEF Deed
<1>. QED BY <1>3, <1>8 DEF LooksChecked, Checked

\* create_budget adds one plan.
LEMMA BudgetDoes ==
  ASSUME NEW s \in Sessions, CreateBudget(s)
  PROVE  LooksChecked(s)
<1>1. PICK b \in FreePlans, month \in Months, c \in CategoryIds, planned \in Amounts,
           rollover \in BOOLEAN :
        Look(s, "create_budget", To("plans", b, NewPlan(month, c, planned, rollover)))
  BY DEF CreateBudget
<1>2. PICK changes : changes = To("plans", b, NewPlan(month, c, planned, rollover))
  OBVIOUS
<1>3. /\ changes.plans = [r \in {b} |-> NewPlan(month, c, planned, rollover)]
      /\ \A t \in TableNames \ {"plans"} : changes[t] = <<>>
  BY <1>2 DEF To, Nowhere, TableNames
<1>4. AddsOne(changes, "plans", b)
  BY <1>3 DEF AddsOne, NewPlan, Insert
<1>5. Touches(changes, {"plans"})
  BY <1>3 DEF Touches
<1>6. Deed("create_budget", changes)
  BY <1>4, <1>5 DEF Deed
<1>. QED BY <1>1, <1>2, <1>6 DEF LooksChecked, Checked

\* Every request that looks has checked what it must.
LEMMA AskChecked ==
  ASSUME RowsInv, NEW s \in Sessions, Ask(s)
  PROVE  LooksChecked(s)
<1>1. CASE UpdateAccount(s)
  <2>1. PICK changes : /\ Look(s, "update_account", changes)
                       /\ BalancesKept(db, Result(db, changes))
    BY <1>1, UpdateAccountChecked
  <2>. QED BY <2>1 DEF LooksChecked, Deed, Checked
<1>2. CASE MovePlanned(s)
  <2>1. PICK changes : /\ Look(s, "move_planned", changes)
                       /\ TotalPlanned(Result(db, changes).plans) = TotalPlanned(db.plans)
    BY <1>2, MoveChecked
  <2>. QED BY <2>1 DEF LooksChecked, Deed, Checked
<1>3. CASE GenerateRecurring(s)
  <2>1. PICK changes : /\ Look(s, "generate_from_categories", changes)
                       /\ Separate(db, Result(db, changes))
    BY <1>3, GenerateChecked
  <2>. QED BY <2>1 DEF LooksChecked, Deed, Checked
<1>4. CASE CreateAccount(s) \/ ArchiveAccount(s) \/ RestoreAccount(s)
  <2>1. CASE CreateAccount(s)
    BY <2>1, LookUnchecked DEF CreateAccount, CheckingHandlers
  <2>2. CASE ArchiveAccount(s)
    BY <2>2, LookUnchecked DEF ArchiveAccount, CheckingHandlers
  <2>3. CASE RestoreAccount(s)
    BY <2>3, LookUnchecked DEF RestoreAccount, CheckingHandlers
  <2>. QED BY <1>4, <2>1, <2>2, <2>3
<1>5. CASE AskCategories(s)
  <2>1. CASE CreateCategory(s)
    BY <2>1, LookUnchecked DEF CreateCategory, CheckingHandlers
  <2>2. CASE UpdateCategory(s)
    BY <2>2, LookUnchecked DEF UpdateCategory, CheckingHandlers
  <2>3. CASE ArchiveCategory(s)
    BY <2>3, LookUnchecked DEF ArchiveCategory, CheckingHandlers
  <2>. QED BY <1>5, <2>1, <2>2, <2>3 DEF AskCategories
<1>6. CASE AskPayees(s)
  <2>1. CASE CreatePayee(s)
    <3>1. PICK changes : Look(s, "create_payee", changes)
      BY <2>1 DEF CreatePayee
    <3>. QED BY <3>1, LookUnchecked DEF CheckingHandlers
  <2>2. CASE UpdatePayee(s)
    BY <2>2, LookUnchecked DEF UpdatePayee, CheckingHandlers
  <2>3. CASE MergePayees(s)
    BY <2>3, LookUnchecked DEF MergePayees, CheckingHandlers
  <2>4. CASE DeletePayee(s)
    BY <2>4, LookUnchecked DEF DeletePayee, CheckingHandlers
  <2>5. CASE RecordOperation(s)
    BY <2>5, RecordDoes
  <2>6. CASE LabelOperation(s)
    BY <2>6, LookUnchecked DEF LabelOperation, CheckingHandlers
  <2>. QED BY <1>6, <2>1, <2>2, <2>3, <2>4, <2>5, <2>6 DEF AskPayees
<1>7. CASE CreateRecurring(s) \/ UpdateRecurring(s) \/ ArchiveRecurring(s)
  <2>1. CASE CreateRecurring(s)
    BY <2>1, LookUnchecked DEF CreateRecurring, CheckingHandlers
  <2>2. CASE UpdateRecurring(s)
    BY <2>2, LookUnchecked DEF UpdateRecurring, CheckingHandlers
  <2>3. CASE ArchiveRecurring(s)
    BY <2>3, LookUnchecked DEF ArchiveRecurring, CheckingHandlers
  <2>. QED BY <1>7, <2>1, <2>2, <2>3
<1>8. CASE /\ AskBudgets(s)
           /\ ~MovePlanned(s)
  <2>1. CASE CreateBudget(s)
    BY <2>1, BudgetDoes
  <2>2. CASE UpdateBudget(s)
    BY <2>2, LookUnchecked DEF UpdateBudget, CheckingHandlers
  <2>3. CASE DeleteBudget(s)
    BY <2>3, LookUnchecked DEF DeleteBudget, CheckingHandlers
  <2>4. CASE ImportBudgets(s)
    BY <2>4, LookUnchecked DEF ImportBudgets, CheckingHandlers
  <2>5. CASE UpsertGoal(s)
    BY <2>5, LookUnchecked DEF UpsertGoal, CheckingHandlers
  <2>6. CASE DeleteGoal(s)
    BY <2>6, LookUnchecked DEF DeleteGoal, CheckingHandlers
  <2>. QED BY <1>8, <2>1, <2>2, <2>3, <2>4, <2>5, <2>6 DEF AskBudgets
<1>9. CASE AskBackup(s)
  <2>1. PICK backup \in Backups : RestoreFrom(s, backup)
    BY <1>9 DEF AskBackup
  <2>2. PICK changes : Look(s, "restore_all", changes)
    BY <2>1, RestoreMirrors
  <2>. QED BY <2>2, LookUnchecked DEF CheckingHandlers
<1>. QED BY <1>1, <1>2, <1>3, <1>4, <1>5, <1>6, <1>7, <1>8, <1>9
         DEF Ask, AskAccounts, AskRecurring

\* What a session has checked stays so until another commits a change.
LEMMA NextChecks ==
  ASSUME RowsInv, ChecksInv, [Next]_vars
  PROVE  ChecksInv'
<1>1. work = [t \in Sessions |-> work[t]]
  BY DEF RowsInv
<1>2. CASE UNCHANGED vars
  BY <1>2 DEF vars, ChecksInv, Busy
<1>3. ASSUME NEW s \in Sessions, Ask(s) PROVE ChecksInv'
  <2>1. PICK handler, changes :
          /\ Look(s, handler, changes)
          /\ Deed(handler, changes)
          /\ Checked(handler, db, Result(db, changes))
    BY <1>3, AskChecked DEF LooksChecked
  <2>2. /\ work' = [work EXCEPT ![s] = [handler |-> handler, changes |-> changes]]
        /\ db' = db /\ stale' = stale
    BY <2>1 DEF Look
  <2>3. /\ work'[s].handler = handler /\ work'[s].changes = changes
        /\ \A t \in Sessions \ {s} : work'[t] = work[t]
    BY <1>1, <2>2
  <2>. QED BY <2>1, <2>2, <2>3 DEF ChecksInv, Busy
<1>4. ASSUME NEW s \in Sessions, Commit(s) PROVE ChecksInv'
  <2>1. /\ work' = [work EXCEPT ![s] = None]
        /\ stale' = IF db' = db THEN stale \ {s} ELSE {t \in Sessions \ {s} : work[t] # None}
    BY <1>4 DEF Commit
  <2>2. work'[s] = None /\ \A t \in Sessions \ {s} : work'[t] = work[t]
    BY <1>1, <2>1
  <2>3. ASSUME NEW t \in Sessions \ stale', work'[t] # None
        PROVE  db' = db /\ t \notin stale /\ t # s
    BY <2>1, <2>2, <2>3
  <2>. QED BY <2>2, <2>3 DEF ChecksInv, Busy
<1>5. ASSUME NEW s \in Sessions, RollBack(s) PROVE ChecksInv'
  <2>1. work' = [work EXCEPT ![s] = None] /\ stale' = stale \ {s} /\ db' = db
    BY <1>5 DEF RollBack
  <2>2. work'[s] = None /\ \A t \in Sessions \ {s} : work'[t] = work[t]
    BY <1>1, <2>1
  <2>. QED BY <2>1, <2>2 DEF ChecksInv, Busy
<1>. QED BY <1>2, <1>3, <1>4, <1>5 DEF Next

\* So it is true of the step in which the session commits.
LEMMA StepsChecked ==
  ASSUME RowsInv, ChecksInv, Next, NEW s \in Sessions, NEW handler, Commits(s, handler)
  PROVE  /\ s \notin stale => Checked(handler, db, db')
         /\ \E changes : Deed(handler, changes) /\ db' = Result(db, changes)
         /\ UniqueKeys(db')
<1>1. PICK t \in Sessions : Ask(t) \/ Commit(t) \/ RollBack(t)
  BY DEF Next
<1>2. work = [u \in Sessions |-> work[u]]
  BY DEF RowsInv
<1>3. ~Ask(t)
  <2>1. ASSUME Ask(t) PROVE db' = db
    BY <2>1, AskChecked DEF LooksChecked, Look
  <2>. QED BY <2>1 DEF Commits
<1>4. Commit(t)
  BY <1>1, <1>3 DEF RollBack, Commits
<1>5. t = s
  BY <1>2, <1>4 DEF Commit, Commits
<1>6. PICK changes : changes = work[s].changes
  OBVIOUS
<1>7. db' = Result(db, changes)
  BY <1>4, <1>5, <1>6 DEF Commit, After, Result
<1>8. Deed(handler, changes) /\ (s \notin stale => Checked(handler, db, Result(db, changes)))
  BY <1>6 DEF Commits, ChecksInv, Busy
<1>9. PICK after : after = After(s)
  OBVIOUS
<1>10. UniqueKeys(after) /\ db' = after
  BY <1>4, <1>5, <1>9 DEF Commit, Accepts
<1>11. UniqueKeys(db')
  BY <1>10
<1>. QED BY <1>7, <1>8, <1>11

\* What a handler has read is still so when it commits, unless another has committed in between:
\* moves make no money, generated items do not overlap, and the initial balance of an account
\* changes only while it has no operations.
THEOREM ChecksKept == Spec => ChecksStillHold
<1>1. Init => ChecksInv
  BY DEF Init, ChecksInv, Busy
<1>2. RowsInv /\ ChecksInv /\ [Next]_vars => ChecksInv'
  BY NextChecks
<1>3. ASSUME RowsInv, ChecksInv, Next
      PROVE  \A s \in Sessions \ stale :
               /\ Commits(s, "move_planned") => TotalPlanned(db'.plans) = TotalPlanned(db.plans)
               /\ Commits(s, "generate_from_categories") => GenerationFits(s)
               /\ Commits(s, "update_account") => InitialBalanceKept
  <2>1. ASSUME NEW s \in Sessions \ stale
        PROVE  /\ Commits(s, "move_planned") => TotalPlanned(db'.plans) = TotalPlanned(db.plans)
               /\ Commits(s, "generate_from_categories") => GenerationFits(s)
               /\ Commits(s, "update_account") => InitialBalanceKept
    <3>1. ASSUME NEW handler, Commits(s, handler) PROVE Checked(handler, db, db')
      BY <1>3, <3>1, StepsChecked
    <3>2. Commits(s, "move_planned") => TotalPlanned(db'.plans) = TotalPlanned(db.plans)
      BY <3>1 DEF Checked
    <3>3. Commits(s, "generate_from_categories") => GenerationFits(s)
      BY <3>1 DEF Checked, Separate, GenerationFits
    <3>4. Commits(s, "update_account") => InitialBalanceKept
      BY <3>1 DEF Checked, BalancesKept, InitialBalanceKept, OperationsOn
    <3>. QED BY <3>2, <3>3, <3>4
  <2>. QED BY <2>1
<1>. QED BY <1>1, <1>2, <1>3, Correct, PTL DEF Spec, ChecksStillHold

\* An expense that pays for a recurring one leaves what is safe to spend.
LEMMA PaymentsFollow ==
  ASSUME RowsInv, RowsInv', NEW changes, Deed("create_transaction", changes),
         db' = Result(db, changes)
  PROVE  PaymentsAreSetAside
<1>1. PICK old, new : old = db /\ new = db'
  OBVIOUS
<1>2. /\ RegistersAssumption /\ Typed(old, Ids) /\ new = Result(old, changes) /\ Typed(new, Ids)
  BY <1>1, RegistersAssumption DEF RowsInv, TypeOK
<1>3. Now \in Months
  BY RegistersAssumption DEF RegistersAssumption
<1>4. ASSUME NEW o \in DOMAIN new.operations \ DOMAIN old.operations,
             NEW paid, paid = new.operations[o],
             paid.kind = "expense", paid.month = Now, paid.account \in Active(old.accounts),
             OneItemFor(paid.category), -paid.amount <= Committed(old, Now, {paid.category})
      PROVE  SafeToSpend(new, Now) = SafeToSpend(old, Now)
  <2>1. Cardinality({i \in Active(old.items) : old.items[i].category = paid.category}) = 1
    BY <1>1, <1>4 DEF OneItemFor
  <2>2. SetAside(old, new.operations[o])
    BY <1>3, <1>4, <2>1 DEF SetAside
  <2>3. SafeToSpend(new, new.operations[o].month) = SafeToSpend(old, new.operations[o].month)
    BY <1>2, <2>2, RecordedPays
  <2>. QED BY <1>4, <2>3
<1>. QED BY <1>1, <1>4 DEF PaymentsAreSetAside

\* A plan that carries over brings the goal of its category nearer.
LEMMA PlansFollow ==
  ASSUME RowsInv, RowsInv', NEW changes, Deed("create_budget", changes),
         db' = Result(db, changes), UniqueKeys(db')
  PROVE  PlansBringGoalsNearer
<1>1. PICK old, new : old = db /\ new = db'
  OBVIOUS
<1>2. /\ RegistersAssumption /\ Typed(old, Ids) /\ Whole(old) /\ Agree(old)
      /\ new = Result(old, changes) /\ Typed(new, Ids) /\ Agree(new) /\ PlanKeys(new)
  BY <1>1, RegistersAssumption DEF RowsInv, TypeOK, UniqueKeys
<1>3. Now \in Months
  BY RegistersAssumption DEF RegistersAssumption
<1>4. ASSUME NEW b \in DOMAIN new.plans \ DOMAIN old.plans, NEW g \in DOMAIN old.goals,
             new.plans[b].month = Now, new.plans[b].rollover,
             new.plans[b].category = old.goals[g].category
      PROVE  StillToAdd(new, g, Now)
               = IF StillToAdd(old, g, Now) > new.plans[b].planned
                   THEN StillToAdd(old, g, Now) - new.plans[b].planned ELSE 0
  BY <1>2, <1>3, <1>4, PlannedNearer
<1>. QED BY <1>1, <1>4 DEF PlansBringGoalsNearer

\* A backup without archived recurring expenses brings back its figures.
LEMMA RestorationFollows ==
  ASSUME RowsInv, NEW s \in Sessions, NEW backup \in Backups, RestoreFrom(s, backup),
         AllItemsLive(backup.tables)
  PROVE  WillRestore(s, backup)
<1>1. PICK changes : Look(s, "restore_all", changes) /\ Recalled(backup, Result(db, changes))
  BY RestoreMirrors
<1>2. db' = db /\ work'[s].changes = changes
  <2>1. work = [t \in Sessions |-> work[t]]
    BY DEF RowsInv
  <2>. QED BY <1>1, <2>1 DEF Look
<1>3. PICK new : new = After(s)'
  OBVIOUS
<1>4. new = Result(db, changes)
  BY <1>2, <1>3 DEF After, Result
<1>5. ASSUME Accepts(s)' PROVE Figures(new) = Figures(backup.tables)
  <2>1. PlanKeys(new)
    <3>1. UniqueKeys(new)
      BY <1>3, <1>5 DEF Accepts
    <3>. QED BY <3>1 DEF UniqueKeys
  <2>2. PICK ids : Mirrors(ids, backup.tables, new)
    BY <1>1, <1>4 DEF Recalled
  <2>. QED BY <2>1, <2>2, FiguresRenamed
<1>. QED BY <1>3, <1>5 DEF WillRestore

\* The figures follow what the owner does: an expense that had been set aside does not change
\* what is safe to spend, a plan that carries over is taken off what is still to be added for a
\* goal, and a restoration brings back the figures of its backup, when no recurring expense in it
\* is archived.
THEOREM FiguresAlwaysFollow == Spec => FiguresFollow
<1>1. Init => ChecksInv
  BY DEF Init, ChecksInv, Busy
<1>2. RowsInv /\ ChecksInv /\ [Next]_vars => ChecksInv'
  BY NextChecks
<1>3. ASSUME RowsInv, RowsInv', ChecksInv, Next
      PROVE  \A s \in Sessions :
               /\ Commits(s, "create_transaction") => PaymentsAreSetAside
               /\ Commits(s, "create_budget") => PlansBringGoalsNearer
               /\ \A backup \in Backups :
                    RestoreFrom(s, backup) /\ AllItemsLive(backup.tables)
                      => WillRestore(s, backup)
  <2>1. ASSUME NEW s \in Sessions, Commits(s, "create_transaction") PROVE PaymentsAreSetAside
    <3>1. PICK changes : Deed("create_transaction", changes) /\ db' = Result(db, changes)
      BY <1>3, <2>1, StepsChecked
    <3>. QED BY <1>3, <3>1, PaymentsFollow
  <2>2. ASSUME NEW s \in Sessions, Commits(s, "create_budget") PROVE PlansBringGoalsNearer
    <3>1. PICK changes : Deed("create_budget", changes) /\ db' = Result(db, changes)
      BY <1>3, <2>2, StepsChecked
    <3>2. UniqueKeys(db')
      BY <1>3, <2>2, StepsChecked
    <3>. QED BY <1>3, <3>1, <3>2, PlansFollow
  <2>3. ASSUME NEW s \in Sessions, NEW backup \in Backups, RestoreFrom(s, backup),
               AllItemsLive(backup.tables)
        PROVE  WillRestore(s, backup)
    BY <1>3, <2>3, RestorationFollows
  <2>. QED BY <2>1, <2>2, <2>3
<1>. QED BY <1>1, <1>2, <1>3, Correct, PTL DEF Spec, FiguresFollow
=============================================================================
