----------------------------- MODULE Registers ------------------------------
(***************************************************************************)
(* The registers of the backend together: requests of any of them look and *)
(* commit in any order, on tables they share.                              *)
(***************************************************************************)
EXTENDS Payees, Backup

CONSTANTS
  Starts,       \* rows an owner may have beside the default categories
  Now           \* the month of the owner that the figures are for

ASSUME RegistersAssumption ==
  /\ Months \subseteq Nat
  /\ Now \in Months
  /\ MaxRequests \in Nat
  /\ Debt \in Nat
  /\ \A t \in TableNames : IsFiniteSet(Ids[t]) /\ None \notin Ids[t]

-----------------------------------------------------------------------------
(* What tables may hold.                                                   *)

IsTable(table, ids, rows) == DOMAIN table \subseteq ids /\ table \in [DOMAIN table -> rows]

\* Every row has the type of its table.
Typed(tables, ids) ==
  /\ IsTable(tables.accounts, ids.accounts, Account)
  /\ IsTable(tables.categories, ids.categories, Category(ids))
  /\ IsTable(tables.payees, ids.payees, Payee(ids))
  /\ IsTable(tables.operations, ids.operations, Operation(ids))
  /\ IsTable(tables.items, ids.items, Item(ids))
  /\ IsTable(tables.plans, ids.plans, Plan(ids))
  /\ IsTable(tables.goals, ids.goals, Goal(ids))

\* A category is a root, or the child of a root that has its kind.
TwoLevels(categories) ==
  \A c \in DOMAIN categories :
    LET parent == categories[c].parent IN
    parent # None =>
      /\ parent \in DOMAIN categories
      /\ categories[parent].parent = None
      /\ categories[parent].kind = categories[c].kind

OfExpenses(table, categories) ==
  \A r \in DOMAIN table :
    /\ table[r].category \in DOMAIN categories
    /\ categories[table[r].category].kind = "expense"

PlansHold(tables) ==
  /\ \A b \in DOMAIN tables.plans : tables.plans[b].planned >= 0
  /\ OfExpenses(tables.plans, tables.categories)
  /\ OfExpenses(tables.items, tables.categories)

OperationsHavePayees(tables) ==
  \A o \in DOMAIN tables.operations :
    tables.operations[o].payee \in DOMAIN tables.payees \cup {None}

Agree(tables) ==
  TwoLevels(tables.categories) /\ PlansHold(tables) /\ OperationsHavePayees(tables)

RootNamesDistinct(categories) ==
  LET roots == {c \in Active(categories) : categories[c].parent = None}
  IN IsInjective([c \in roots |-> categories[c].name])

ParentsLive(categories) ==
  \A c \in Active(categories) :
    categories[c].parent # None => ~categories[categories[c].parent].archived

VariedForget(payees) == \A p \in DOMAIN payees : payees[p].varied => payees[p].last = None

InOrder(tables) ==
  /\ RootNamesDistinct(tables.categories)
  /\ ParentsLive(tables.categories)
  /\ VariedForget(tables.payees)

-----------------------------------------------------------------------------
\* What clients send has the types of the schemas.
ASSUME InputsAssumption ==
  /\ Balances \subseteq Int
  /\ Amounts \subseteq Nat
  /\ PayeeKey \in [Spellings -> Keys]
  /\ None \notin Spellings
  /\ Records \subseteq [account : AccountIds, kind : OrdinaryKinds, amount : Int,
                        category : CategoryIds \cup {None}, payee : Spellings \cup {None},
                        required : BOOLEAN, month : Months]
  /\ \A q \in Records : q.kind # "adjustment" => q.amount > 0
  /\ GoalRequests \subseteq [kind : GoalKinds, amount : Nat, due : Months \cup {None}]

Started(rows) == [rows EXCEPT !.categories = DefaultCategories]

\* An owner begins with rows that agree, and so do the accounts that backups were
\* made of.  What is damaged in a file is a reference that leads nowhere.
ASSUME StartsAssumption ==
  \A rows \in Starts :
    LET tables == Started(rows)
    IN Typed(tables, Ids) /\ Whole(tables) /\ Agree(tables) /\ InOrder(tables)

ASSUME BackupsAssumption ==
  \A backup \in Backups :
    LET tables == backup.tables
    IN Whole(tables) =>
         /\ \A t \in TableNames : IsFiniteSet(DOMAIN tables[t]) /\ None \notin DOMAIN tables[t]
         /\ Typed(tables, [t \in TableNames |-> DOMAIN tables[t]])
         /\ Agree(tables)
         /\ InOrder(tables)

-----------------------------------------------------------------------------
Init ==
  /\ \E rows \in Starts : db = Started(rows)
  /\ work = [s \in Sessions |-> None]
  /\ stale = {}
  /\ raced = FALSE
  /\ received = 0

Ask(s) ==
  /\ Idle(s)
  /\ \/ AskAccounts(s) \/ AskCategories(s) \/ AskPayees(s)
     \/ AskRecurring(s) \/ AskBudgets(s) \/ AskBackup(s)

Next == \E s \in Sessions : Ask(s) \/ Commit(s) \/ RollBack(s)

Spec == Init /\ [][Next]_vars

-----------------------------------------------------------------------------
\* Every row has the type of its table, and a request that was overtaken is under way.
TypeOK ==
  /\ Typed(db, Ids)
  /\ stale \subseteq {s \in Sessions : work[s] # None}
  /\ raced \in BOOLEAN
  /\ received \in 0 .. MaxRequests

\* What holds however requests interleave: the tree of categories has two
\* levels of one kind, since a request that makes a child relies on columns of
\* the parent that none changes; no plan is negative, although moves that race
\* lose or make up money, since each leaves in the source what it has checked;
\* plans and recurring expenses are of expense categories; and no operation
\* names a payee that a merge or a deletion has taken away.
RowsAgree == Agree(db)

\* What the services promise and only their checks keep, with no index behind
\* them: names of roots are distinct, the parent of a live category is live, and
\* a payee of varied categories remembers none.  It holds as long as every
\* request commits before another has changed what it looked at.
KeptOneByOne == ~raced => InOrder(db)

-----------------------------------------------------------------------------
\* Every plan of the month is counted alike by its envelope and by the daily
\* allowance, which look for the children of its category each in its own way
\* (_scope_of: as the budgets do it).  They differ over a branch with an archived
\* child: the envelope leaves out what was spent on it.
EnvelopesAgree ==
  \A b \in DOMAIN db.plans :
    LET plan == db.plans[b]
        branch == ScopeOf(db.categories, plan.category)
    IN branch \subseteq Active(db.categories) =>
         Envelope(db.categories, db.operations, db.plans, b).spent
           = SpentThisMonth(db, plan.month, branch)

\* The capital on the dashboard is what the daily allowance starts from, less the
\* debt, and the dashboard shows of each account what the account shows.
CapitalAgrees ==
  /\ Capital(db) = Liquid(db) - Debt
  /\ \A a \in Active(db.accounts) : ShownBalances(db)[a] = CurrentBalance(a)

\* What came in and what went out of the month is the sum of its categories.
MonthsAgree ==
  \A m \in Months :
    /\ SumOf(ByCategory(db.operations, {"expense", "refund"}, m)) = -Expense(db.operations, {m})
    /\ SumOf(ByCategory(db.operations, {"income"}, m)) = Income(db.operations, {m})

\* Figures that different queries count agree, whatever has become of accounts,
\* categories and operations.
FiguresAgree == EnvelopesAgree /\ CapitalAgrees /\ MonthsAgree

-----------------------------------------------------------------------------
Commits(s, handler) ==
  work[s] # None /\ work[s].handler = handler /\ work'[s] = None /\ db' # db

TotalPlanned(plans) == SumOf([b \in DOMAIN plans |-> plans[b].planned])

\* The items of a generation fit the plan: no other live item is for the same
\* category, for its parent or for a child of it that is in use.
GenerationFits(s) ==
  \A i \in DOMAIN db'.items \ DOMAIN db.items, j \in Active(db'.items) :
    LET c == db'.items[i].category
        d == db'.items[j].category
    IN i # j /\ ~db.categories[d].archived =>
         c # d /\ db.categories[c].parent # d /\ db.categories[d].parent # c

InitialBalanceKept ==
  \A a \in DOMAIN db.accounts :
    db'.accounts[a].initial # db.accounts[a].initial => OperationsOn(a) = {}

\* What a handler has read is still so when it commits, unless another has
\* committed in between: a move takes from one plan what it gives to the other
\* (move_planned: money is not made, it changes its purpose), generated items do
\* not overlap with one another or with what was planned, and the initial
\* balance of an account changes only while it has no operations.
ChecksStillHold ==
  [][\A s \in Sessions \ stale :
       /\ Commits(s, "move_planned") => TotalPlanned(db'.plans) = TotalPlanned(db.plans)
       /\ Commits(s, "generate_from_categories") => GenerationFits(s)
       /\ Commits(s, "update_account") => InitialBalanceKept]_vars

OneItemFor(c) ==
  Cardinality({i \in Active(db.items) : db.items[i].category = c}) = 1

\* An expense of this month that pays for a recurring expense, or a part of it,
\* costs what had been set aside for it: the sum that is safe to spend stays.
PaymentsAreSetAside ==
  \A o \in DOMAIN db'.operations \ DOMAIN db.operations :
    LET paid == db'.operations[o] IN
    /\ paid.kind = "expense"
    /\ paid.month = Now
    /\ paid.account \in Active(db.accounts)
    /\ OneItemFor(paid.category)
    /\ -paid.amount <= Committed(db, Now, {paid.category})
    => SafeToSpend(db', Now) = SafeToSpend(db, Now)

\* A plan of this month that carries over takes off what is still to be added
\* for the goal of its category, and nothing else: what was saved before stays.
PlansBringGoalsNearer ==
  \A b \in DOMAIN db'.plans \ DOMAIN db.plans, g \in DOMAIN db.goals :
    LET plan == db'.plans[b]
        before == StillToAdd(db, g, Now)
    IN /\ plan.month = Now
       /\ plan.rollover
       /\ plan.category = db.goals[g].category
       => StillToAdd(db', g, Now) = IF before > plan.planned THEN before - plan.planned ELSE 0

\* The figures of the owner, whatever the ids of the rows.
Figures(tables) ==
  [safe |-> [m \in Months |-> SafeToSpend(tables, m)],
   envelopes |->
     {<<tables.plans[b].month,
        Envelope(tables.categories, tables.operations, tables.plans, b)>> :
        b \in DOMAIN tables.plans},
   goals |-> {StillToAdd(tables, g, Now) : g \in DOMAIN tables.goals},
   proposals |->
     LET proposed == Proposals(tables.categories, tables.operations, tables.items, Months)
     IN {<<tables.categories[c].name, proposed[c]>> : c \in DOMAIN proposed}]

\* The account that a backup is restored into shows the figures of the account
\* it was made of.
FiguresRestored(backups) == \E b \in backups : Figures(db') = Figures(b.tables)

\* What a restoration has laid out shows, once it is committed, the figures of
\* the backup that it restores.
WillRestore(s, backup) == Accepts(s)' => Figures(After(s)') = Figures(backup.tables)

AllItemsLive(tables) == \A i \in DOMAIN tables.items : ~tables.items[i].archived

\* The figures shown to the owner follow what the owner does; a restoration
\* brings back those of its backup, when no recurring expense in it is archived.
FiguresFollow ==
  [][\A s \in Sessions :
       /\ Commits(s, "create_transaction") => PaymentsAreSetAside
       /\ Commits(s, "create_budget") => PlansBringGoalsNearer
       /\ \A backup \in Backups :
            RestoreFrom(s, backup) /\ AllItemsLive(backup.tables) => WillRestore(s, backup)]_vars

\* Nothing is lost (tests/test_backup_roundtrip.py:1) from any backup.  An
\* archived recurring expense comes back as a live one, and money is set aside
\* for it again.
RestoreLosesNothing ==
  [][\A s \in Sessions :
       Commits(s, "restore_all") /\ s \notin stale => FiguresRestored(Backups)]_vars
=============================================================================
