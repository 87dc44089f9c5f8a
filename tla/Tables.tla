------------------------------- MODULE Tables -------------------------------
(***************************************************************************)
(* The tables behind the registers of the backend (accounts, categories,   *)
(* payees, the operations that refer to them, recurring expenses, budgets, *)
(* goals) and the unit of work of a request's database session.            *)
(*                                                                         *)
(* A handler reads and checks first and writes last: its session gathers   *)
(* what it adds, changes and deletes, and the route commits it (autoflush  *)
(* is off).  Here a request is two steps: it looks, in one step that reads *)
(* what is committed and runs the checks, and it commits what it has       *)
(* gathered.  Another session may commit in between, and no row is locked. *)
(* A changed column is written as the value the handler has computed, and  *)
(* a column that keeps its value is not written at all.                    *)
(*                                                                         *)
(* All rows belong to one owner: every statement of these handlers is      *)
(* restricted to user_id.                                                  *)
(***************************************************************************)
EXTENDS Sums, Functions

CONSTANTS
  Sessions,       \* database sessions; each serves one request at a time
  AccountIds, CategoryIds, PayeeIds, OperationIds, ItemIds, PlanIds, GoalIds,
  Names,          \* names of accounts and of categories
  Keys,           \* names of payees, folded
  Months,         \* calendar months of the owner, as numbers
  MaxRequests,    \* bound: requests that are received
  None            \* NULL, and a session without a request

VARIABLES
  db,        \* committed rows: for each table a function on the ids that exist
  work,      \* what the request of each session is about to commit, or None
  stale,     \* history: sessions that looked before another's commit
  raced,     \* history: a stale session has committed
  received   \* history: requests that have looked so far

vars == <<db, work, stale, raced, received>>

-----------------------------------------------------------------------------
\* The ids that rows of each table may have.
Ids ==
  [accounts |-> AccountIds, categories |-> CategoryIds, payees |-> PayeeIds,
   operations |-> OperationIds, items |-> ItemIds, plans |-> PlanIds,
   goals |-> GoalIds]

\* The columns of each table; a reference is to one of these ids.
Account == [name : Names, initial : Int, archived : BOOLEAN]

CategoryKinds == {"expense", "income"}

Category(ids) ==
  [name : Names, kind : CategoryKinds, parent : ids.categories \cup {None},
   archived : BOOLEAN]

Payee(ids) == [key : Keys, last : ids.categories \cup {None}, varied : BOOLEAN]

OperationKinds ==
  {"expense", "income", "transfer", "credit_payment", "loan", "refund", "adjustment"}

Operation(ids) ==
  [account : ids.accounts, kind : OperationKinds, amount : Int,
   category : ids.categories \cup {None}, payee : ids.payees \cup {None},
   required : BOOLEAN, month : Months]

Item(ids) == [category : ids.categories, monthly : Nat, archived : BOOLEAN]

Plan(ids) ==
  [month : Months, category : ids.categories, planned : Int, rollover : BOOLEAN]

GoalKinds == {"monthly", "by_date"}

Goal(ids) ==
  [category : ids.categories, kind : GoalKinds, amount : Nat, due : Months \cup {None}]

TableNames ==
  {"accounts", "categories", "payees", "operations", "items", "plans", "goals"}

\* The columns that refer to rows of other tables.
References ==
  {[of |-> "categories", column |-> "parent", to |-> "categories"],
   [of |-> "payees", column |-> "last", to |-> "categories"],
   [of |-> "operations", column |-> "account", to |-> "accounts"],
   [of |-> "operations", column |-> "category", to |-> "categories"],
   [of |-> "operations", column |-> "payee", to |-> "payees"],
   [of |-> "items", column |-> "category", to |-> "categories"],
   [of |-> "plans", column |-> "category", to |-> "categories"],
   [of |-> "goals", column |-> "category", to |-> "categories"]}

\* A change of a row gives a column its value.
Writes(change, column) == change.do # "delete" /\ column \in DOMAIN change.columns

\* uuid4 never repeats; an id that no table and no session holds, in a row's
\* place or in a reference, is as good as a new one.
Held(table) ==
  LET busy == {s \in Sessions : work[s] # None}
      into == {ref \in References : ref.to = table}
      led(changes) ==
        UNION {{changes[ref.of][r].columns[ref.column] :
                  r \in {i \in DOMAIN changes[ref.of] : Writes(changes[ref.of][i], ref.column)}} :
                 ref \in into}
  IN DOMAIN db[table]
       \cup UNION {DOMAIN work[s].changes[table] \cup led(work[s].changes) : s \in busy}

-----------------------------------------------------------------------------
\* What a session may do to a row.
Insert(row) == [do |-> "insert", columns |-> row]

\* An UPDATE names the columns whose value is not the one that was loaded.
Update(row, new) ==
  [do |-> "update",
   columns |-> [c \in {d \in DOMAIN new : new[d] # row[d]} |-> new[c]]]

Delete == [do |-> "delete"]

Nowhere == [t \in TableNames |-> <<>>]

To(table, i, change) == [Nowhere EXCEPT ![table] = [r \in {i} |-> change]]

\* A session that may take a request.
Idle(s) == work[s] = None /\ received < MaxRequests

\* The request looks: it passes its checks, which are the guards of the action
\* that calls this, and holds the changes it has made of its rows.
Look(s, handler, changes) ==
  /\ work' = [work EXCEPT ![s] = [handler |-> handler, changes |-> changes]]
  /\ received' = received + 1
  /\ UNCHANGED <<db, stale, raced>>

-----------------------------------------------------------------------------
\* The table once the changes are flushed.
Flushed(table, changes) ==
  LET doing(what) == {i \in DOMAIN changes : changes[i].do = what}
  IN [i \in (DOMAIN table \cup doing("insert")) \ doing("delete") |->
        IF i \in doing("insert") THEN changes[i].columns
        ELSE IF i \in doing("update") THEN
          [c \in DOMAIN table[i] |->
             IF c \in DOMAIN changes[i].columns THEN changes[i].columns[c]
             ELSE table[i][c]]
        ELSE table[i]]

\* The row an UPDATE is for is still there; SQLAlchemy refuses one that meets no
\* row, and lets a DELETE pass.
RowsRemain(table, changes) ==
  \A i \in DOMAIN changes :
    (changes[i].do = "update" /\ changes[i].columns # <<>>) => i \in DOMAIN table

\* No reference leads nowhere.
Whole(tables) ==
  \A ref \in References : \A r \in DOMAIN tables[ref.of] :
    tables[ref.of][r][ref.column] \in DOMAIN tables[ref.to] \cup {None}

\* ON DELETE SET NULL: operations let go of a payee that is deleted, and payees
\* of a category.
LetGo(table, column, targets) ==
  [r \in DOMAIN table |->
     IF table[r][column] \in DOMAIN targets THEN table[r]
     ELSE [table[r] EXCEPT ![column] = None]]

\* ON DELETE CASCADE: goals go with their category.
Kept(goals, categories) ==
  [g \in {h \in DOMAIN goals : goals[h].category \in DOMAIN categories} |-> goals[g]]

\* The foreign keys of what is written.
WrittenExist(changes, tables) ==
  \A ref \in References : \A r \in DOMAIN changes[ref.of] :
    Writes(changes[ref.of][r], ref.column) =>
      changes[ref.of][r].columns[ref.column] \in DOMAIN tables[ref.to] \cup {None}

Active(table) == {i \in DOMAIN table : ~table[i].archived}

\* The unique indexes.
AccountKeys(tables) ==
  IsInjective([a \in Active(tables.accounts) |-> tables.accounts[a].name])

\* PostgreSQL takes no NULL for equal to another: this one says nothing of two
\* roots.
CategoryKeys(tables) ==
  LET children == {c \in Active(tables.categories) : tables.categories[c].parent # None}
  IN IsInjective([c \in children |-> <<tables.categories[c].parent, tables.categories[c].name>>])

PayeeKeys(tables) == IsInjective([p \in DOMAIN tables.payees |-> tables.payees[p].key])

PlanKeys(tables) ==
  IsInjective([b \in DOMAIN tables.plans |-> <<tables.plans[b].month, tables.plans[b].category>>])

GoalKeys(tables) == IsInjective([g \in DOMAIN tables.goals |-> tables.goals[g].category])

UniqueKeys(tables) ==
  /\ AccountKeys(tables)
  /\ CategoryKeys(tables)
  /\ PayeeKeys(tables)
  /\ PlanKeys(tables)
  /\ GoalKeys(tables)

\* What the tables would be after the session's commit.
After(s) ==
  LET flushed == [t \in TableNames |-> Flushed(db[t], work[s].changes[t])]
  IN [flushed EXCEPT !.operations = LetGo(@, "payee", flushed.payees),
                     !.payees = LetGo(@, "last", flushed.categories),
                     !.goals = Kept(@, flushed.categories)]

Accepts(s) ==
  LET tables == After(s)
  IN /\ \A t \in TableNames : RowsRemain(db[t], work[s].changes[t])
     /\ WrittenExist(work[s].changes, tables)
     /\ Whole(tables)
     /\ UniqueKeys(tables)

\* db.commit() of the route.  The others that have looked go by what was.
Commit(s) ==
  /\ work[s] # None
  /\ Accepts(s)
  /\ db' = After(s)
  /\ raced' = (raced \/ s \in stale)
  /\ stale' = IF db' = db THEN stale \ {s}
              ELSE {t \in Sessions \ {s} : work[t] # None}
  /\ work' = [work EXCEPT ![s] = None]
  /\ UNCHANGED received

\* The database refuses, or the request is cut off: nothing of it is kept.
RollBack(s) ==
  /\ work[s] # None
  /\ work' = [work EXCEPT ![s] = None]
  /\ stale' = stale \ {s}
  /\ UNCHANGED <<db, raced, received>>
=============================================================================
