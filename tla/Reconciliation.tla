--------------------------- MODULE Reconciliation ---------------------------
(***************************************************************************)
(* Reconciling an account with the bank while other requests write to the  *)
(* same ledger (backend/app/domains/reconciliation, and the writers of     *)
(* backend/app/domains/transactions).                                      *)
(*                                                                         *)
(* Every request runs in a database session of its own at READ COMMITTED.  *)
(* A step of a session is one statement, or several that no other session  *)
(* can tell apart; the route's commit is the last step.  What one session  *)
(* holds against the others is what PostgreSQL holds:                      *)
(*   - lock_account's SELECT ... FOR UPDATE, until commit or rollback;     *)
(*   - the KEY SHARE lock that the foreign key transactions.account_id     *)
(*     takes on the account when a row is inserted into it or moved to it, *)
(*     which waits for FOR UPDATE and which FOR UPDATE waits for.          *)
(* Changing the amount or date of a row, and deleting it, touch no account *)
(* row, so the lock does not hold them back.                               *)
(***************************************************************************)
EXTENDS Sums, Sequences, Functions

CONSTANTS
  Accounts,      \* account ids
  Rows,          \* transaction ids
  Sessions,      \* database sessions; each serves one request at a time
  Moments,       \* dates of operations and of statements
  Amounts,       \* signed amounts a request may write
  Statements,    \* balances the bank may show
  Opening,       \* Account.initial_balance of each account
  MaxReconciliations,  \* bound on the committed reconciliations of a run
  Nobody,        \* no session
  NoRequest      \* no reconcile request

ASSUME ReconciliationAssumption ==
  /\ IsFiniteSet(Rows)
  /\ Moments \subseteq Int
  /\ Amounts \subseteq Int \ {0}
  /\ Statements \subseteq Int
  /\ Opening \in [Accounts -> Int]
  /\ MaxReconciliations \in Nat
  /\ Nobody \notin Sessions

VARIABLES
  tx,       \* committed rows of `transactions`: a function on the ids that exist
  recons,   \* committed rows of `reconciliations`, oldest first
  lock,     \* who holds the account row FOR UPDATE
  pc,       \* how far the session's request has got
  req,      \* the reconcile request the session serves
  seen,     \* rows the session has read and still goes by
  own,      \* rows the session has flushed and not committed
  marks,    \* rows mark_reconciled has selected
  touched   \* history: rows that an edit has changed in what balance_at counted, after it did

vars == <<tx, recons, lock, pc, req, seen, own, marks, touched>>

-----------------------------------------------------------------------------
(* Data.                                                                   *)

\* reconciled is "reconciled_at is set".  vouched is a history field: the
\* <<account, amount, date>> that the reconciliation which set the stamp had
\* counted in its balance; {} if it had not counted the row at all.  raced is
\* another: the stamp was set, or kept, by a request that an edit or a
\* reconciliation of the row had overtaken.
Row == [account : Accounts, amount : Int, date : Moments, reconciled : BOOLEAN,
        vouched : SUBSET (Accounts \X Int \X Moments), raced : BOOLEAN]

Request == [account : Accounts, date : Moments,
            statement : Statements, adjust : BOOLEAN]

\* adjustment is the set of the one row that closed the difference, if any.
Record == [account : Accounts, date : Moments, statement : Int,
           computed : Int, adjustment : SUBSET Rows]

IsTable(table) == DOMAIN table \subseteq Rows /\ table \in [DOMAIN table -> Row]

\* What balance_at has added up: the marks of some rows.
IsCount(counted) ==
  /\ DOMAIN counted \subseteq Rows
  /\ counted \in [DOMAIN counted -> Accounts \X Int \X Moments]

NoRows == [r \in {} |-> {}]

\* What the balance of an account on a date depends on.
BalanceMark(row) == <<row.account, row.amount, row.date>>

NewRow(account, amount, date) ==
  [account |-> account, amount |-> amount, date |-> date,
   reconciled |-> FALSE, vouched |-> {}, raced |-> FALSE]

\* The rows of the request's account up to its date.
Window(table, q) ==
  {r \in DOMAIN table : table[r].account = q.account /\ table[r].date <= q.date}

\* What balance_at adds up.
Counted(table, q) == [r \in Window(table, q) |-> BalanceMark(table[r])]

\* Two counts have a row alike, or both do without it.
SameAt(r, f, g) ==
  /\ r \in DOMAIN f <=> r \in DOMAIN g
  /\ r \in DOMAIN f => f[r] = g[r]

Total(counted) == SumOf([r \in DOMAIN counted |-> counted[r][2]])

Computed(q, counted) == Opening[q.account] + Total(counted)

\* Rows of f, and rows of g that f does not have.
Merged(f, g) ==
  [r \in DOMAIN f \cup DOMAIN g |-> IF r \in DOMAIN f THEN f[r] ELSE g[r]]

\* What the session's own statements see: the committed rows and its own.
Visible(s) == Merged(own[s], tx)

\* Ids for new rows.  uuid4 never repeats; an id that no table and no session
\* holds any more is as good as a new one.
FreeRows ==
  Rows \ (DOMAIN tx \cup
          UNION {DOMAIN own[s] \cup DOMAIN seen[s] \cup marks[s] : s \in Sessions})

-----------------------------------------------------------------------------
(* Sessions and locks.                                                     *)

\* A reconciliation between balance_at and its commit.
Counting(s) == pc[s] \in {"computed", "adjusted", "selected"}

Reconciling(s) == pc[s] = "locked" \/ Counting(s)

\* Sessions with an uncommitted row in the account: the foreign key makes
\* them hold KEY SHARE on it.
KeyShare(account) ==
  {s \in Sessions : \E r \in DOMAIN own[s] : own[s][r].account = account}

\* KEY SHARE on the account is to be had.
MayReference(s, account) == lock[account] \in {s, Nobody}

\* The session publishes its rows.
Publish(s, table) ==
  /\ tx' = table
  /\ touched' = [touched EXCEPT ![s] = {}]

\* The session publishes an edit: note the row against every session that has
\* counted the account and would count another row now.
PublishEdit(s, table) ==
  /\ tx' = table
  /\ touched' = [t \in Sessions |->
       touched[t] \cup
         {r \in Rows : Counting(t) /\ ~SameAt(r, Counted(table, req[t]), Counted(tx, req[t]))}]

\* A fault for the runs: the session forgets its request and goes on.
CloseInPlace(s) ==
  /\ lock' = [a \in Accounts |-> IF lock[a] = s THEN Nobody ELSE lock[a]]
  /\ seen' = [seen EXCEPT ![s] = NoRows]
  /\ own' = [own EXCEPT ![s] = NoRows]
  /\ marks' = [marks EXCEPT ![s] = {}]
  /\ req' = [req EXCEPT ![s] = NoRequest]
  /\ UNCHANGED pc

\* The session closes: locks and uncommitted rows go.
Close(s) ==
  /\ pc' = [pc EXCEPT ![s] = "idle"]
  /\ lock' = [a \in Accounts |-> IF lock[a] = s THEN Nobody ELSE lock[a]]
  /\ seen' = [seen EXCEPT ![s] = NoRows]
  /\ own' = [own EXCEPT ![s] = NoRows]
  /\ marks' = [marks EXCEPT ![s] = {}]
  /\ req' = [req EXCEPT ![s] = NoRequest]

\* Any request may fail or be dropped before its commit: get_db closes the
\* session and PostgreSQL rolls back.
Rollback(s) ==
  /\ pc[s] # "idle"
  /\ Close(s)
  /\ touched' = [touched EXCEPT ![s] = {}]
  /\ UNCHANGED <<tx, recons>>

-----------------------------------------------------------------------------
(* Requests that write operations.                                         *)

\* create_transaction flushes one row; create_transfer two or three, of two
\* accounts, in one session.
Insert(s, account, amount, date) ==
  /\ pc[s] \in {"idle", "insert"}
  /\ MayReference(s, account)
  /\ \E r \in FreeRows :
       own' = [own EXCEPT ![s] =
                 Merged([x \in {r} |-> NewRow(account, amount, date)], @)]
  /\ pc' = [pc EXCEPT ![s] = "insert"]
  /\ UNCHANGED <<tx, recons, lock, req, seen, marks, touched>>

CommitInsert(s) ==
  /\ pc[s] = "insert"
  /\ Publish(s, Visible(s))
  /\ Close(s)
  /\ UNCHANGED recons

\* update_transaction and delete_transaction load the row without a lock.
Load(s) ==
  /\ pc[s] = "idle"
  /\ \E r \in DOMAIN tx : seen' = [seen EXCEPT ![s] = [x \in {r} |-> tx[r]]]
  /\ pc' = [pc EXCEPT ![s] = "edit"]
  /\ UNCHANGED <<tx, recons, lock, req, own, marks, touched>>

\* The UPDATE that the commit flushes names only the columns whose value
\* differs from the one loaded; the others keep what the row holds by now.
\* reconciled_at := None (_unreconcile_if_moved) is such a difference only
\* when the row was loaded with a stamp.
Updated(row, old, account, amount, date) ==
  LET moved == BalanceMark(old) # <<account, amount, date>>
      unmark == moved /\ old.reconciled
  IN  [account    |-> IF account = old.account THEN row.account ELSE account,
       amount     |-> IF amount = old.amount THEN row.amount ELSE amount,
       date       |-> IF date = old.date THEN row.date ELSE date,
       reconciled |-> row.reconciled /\ ~unmark,
       vouched    |-> IF unmark THEN {} ELSE row.vouched,
       raced      |-> ~unmark /\ (row.raced \/ (moved /\ row.reconciled))]

CommitUpdate(s, account, amount, date) ==
  /\ pc[s] = "edit"
  /\ \E r \in DOMAIN seen[s] \cap DOMAIN tx :
       LET old == seen[s][r]
       IN  /\ (amount > 0) = (old.amount > 0)
           /\ account # old.account => MayReference(s, account)
           /\ PublishEdit(s, [tx EXCEPT ![r] = Updated(@, old, account, amount, date)])
  /\ Close(s)
  /\ UNCHANGED recons

\* The foreign key of reconciliations.adjustment_transaction_id is SET NULL.
CommitDelete(s) ==
  /\ pc[s] = "edit"
  /\ \E r \in DOMAIN seen[s] \cap DOMAIN tx :
       /\ PublishEdit(s, Restrict(tx, DOMAIN tx \ {r}))
       /\ recons' = [i \in DOMAIN recons |->
                       [recons[i] EXCEPT !.adjustment = @ \ {r}]]
  /\ Close(s)

-----------------------------------------------------------------------------
(* A reconcile request.                                                    *)

\* A fault for the runs: a plain SELECT in lock_account.
ReadAccount(s, q) ==
  /\ pc[s] = "idle"
  /\ Len(recons) < MaxReconciliations
  /\ req' = [req EXCEPT ![s] = q]
  /\ pc' = [pc EXCEPT ![s] = "locked"]
  /\ UNCHANGED <<tx, recons, lock, seen, own, marks, touched>>

LockAccount(s, q) ==
  /\ pc[s] = "idle"
  /\ Len(recons) < MaxReconciliations
  /\ lock[q.account] = Nobody
  /\ KeyShare(q.account) = {}
  /\ lock' = [lock EXCEPT ![q.account] = s]
  /\ req' = [req EXCEPT ![s] = q]
  /\ pc' = [pc EXCEPT ![s] = "locked"]
  /\ UNCHANGED <<tx, recons, seen, own, marks, touched>>

BalanceAt(s) ==
  /\ pc[s] = "locked"
  /\ seen' = [seen EXCEPT ![s] = Counted(tx, req[s])]
  /\ pc' = [pc EXCEPT ![s] = "computed"]
  /\ UNCHANGED <<tx, recons, lock, req, own, marks, touched>>

\* A fault for the runs: the sign of the difference.
DifferenceReversed(s) == Computed(req[s], seen[s]) - req[s].statement

Difference(s) == req[s].statement - Computed(req[s], seen[s])

\* A fault for the runs: the next date is let through.
BackdatedByMore(q) ==
  \E i \in DOMAIN recons :
    recons[i].account = q.account /\ q.date + 1 < recons[i].date

\* _refuse_backdated: a reconciliation of the account of a later date exists.
Backdated(q) ==
  \E i \in DOMAIN recons :
    recons[i].account = q.account /\ q.date < recons[i].date

\* No difference: nothing to close.  A refused request (a difference without
\* adjust, a backdated one, or an expected_difference that is not the
\* difference found) raises, which is Rollback.
Agree(s) ==
  /\ pc[s] = "computed"
  /\ Difference(s) = 0
  /\ pc' = [pc EXCEPT ![s] = "adjusted"]
  /\ UNCHANGED <<tx, recons, lock, req, seen, own, marks, touched>>

Adjust(s) ==
  /\ pc[s] = "computed"
  /\ Difference(s) # 0
  /\ req[s].adjust
  /\ ~Backdated(req[s])
  /\ \E r \in FreeRows :
       own' = [own EXCEPT ![s] =
                 [x \in {r} |-> NewRow(req[s].account, Difference(s), req[s].date)]]
  /\ pc' = [pc EXCEPT ![s] = "adjusted"]
  /\ UNCHANGED <<tx, recons, lock, req, seen, marks, touched>>

\* A fault for the runs: mark_reconciled without the date of the statement.
SelectUnmarkedOfAnyDate(s) ==
  /\ pc[s] = "adjusted"
  /\ marks' = [marks EXCEPT ![s] =
                 {r \in DOMAIN Visible(s) : /\ Visible(s)[r].account = req[s].account
                                            /\ ~Visible(s)[r].reconciled}]
  /\ pc' = [pc EXCEPT ![s] = "selected"]
  /\ UNCHANGED <<tx, recons, lock, req, seen, own, touched>>

\* mark_reconciled selects the rows without a stamp in the window ...
SelectUnmarked(s) ==
  /\ pc[s] = "adjusted"
  /\ marks' = [marks EXCEPT ![s] =
                 {r \in Window(Visible(s), req[s]) : ~Visible(s)[r].reconciled}]
  /\ pc' = [pc EXCEPT ![s] = "selected"]
  /\ UNCHANGED <<tx, recons, lock, req, seen, own, touched>>

\* ... and stamps each by id, whatever the row holds when the UPDATE runs.
Stamped(s, r) ==
  [Visible(s)[r] EXCEPT
     !.reconciled = TRUE,
     !.vouched = IF r \in DOMAIN seen[s] THEN {seen[s][r]}
                 ELSE IF r \in DOMAIN own[s] THEN {BalanceMark(own[s][r])}
                 ELSE {},
     !.raced = r \in touched[s]]

\* The UPDATEs, the reconciliations row and the commit.  A row deleted since
\* it was selected fails the flush (StaleDataError, which is Rollback) when it
\* is the only one; of several, sent in one batch, the driver reports no
\* count, and the UPDATE of the missing row does nothing.
CommitReconciliation(s) ==
  /\ pc[s] = "selected"
  /\ Len(recons) < MaxReconciliations
  /\ marks[s] \subseteq DOMAIN Visible(s) \/ Cardinality(marks[s]) > 1
  /\ Publish(s, [r \in DOMAIN Visible(s) |->
                   IF r \in marks[s] THEN Stamped(s, r) ELSE Visible(s)[r]])
  /\ recons' = Append(recons,
       [account |-> req[s].account, date |-> req[s].date,
        statement |-> req[s].statement,
        computed |-> Computed(req[s], seen[s]),
        adjustment |-> DOMAIN own[s]])
  /\ Close(s)

-----------------------------------------------------------------------------
Init ==
  /\ tx = NoRows
  /\ recons = <<>>
  /\ lock = [a \in Accounts |-> Nobody]
  /\ pc = [s \in Sessions |-> "idle"]
  /\ req = [s \in Sessions |-> NoRequest]
  /\ seen = [s \in Sessions |-> NoRows]
  /\ own = [s \in Sessions |-> NoRows]
  /\ marks = [s \in Sessions |-> {}]
  /\ touched = [s \in Sessions |-> {}]

Write(s) ==
  \/ CommitInsert(s)
  \/ Load(s)
  \/ CommitDelete(s)
  \/ \E account \in Accounts, amount \in Amounts, date \in Moments :
       \/ Insert(s, account, amount, date)
       \/ CommitUpdate(s, account, amount, date)

Reconcile(s) ==
  \/ \E q \in Request : LockAccount(s, q)
  \/ BalanceAt(s)
  \/ Agree(s)
  \/ Adjust(s)
  \/ SelectUnmarked(s)
  \/ CommitReconciliation(s)

Next == \E s \in Sessions : Write(s) \/ Reconcile(s) \/ Rollback(s)

Spec == Init /\ [][Next]_vars

-----------------------------------------------------------------------------
(* Properties.                                                             *)

TypeOK ==
  /\ IsTable(tx)
  /\ recons \in Seq(Record)
  /\ lock \in [Accounts -> Sessions \cup {Nobody}]
  /\ pc \in [Sessions -> {"idle", "insert", "edit", "locked",
                          "computed", "adjusted", "selected"}]
  /\ req \in [Sessions -> Request \cup {NoRequest}]
  /\ own = [s \in Sessions |-> own[s]]
  /\ seen = [s \in Sessions |-> seen[s]]
  /\ \A s \in Sessions :
       /\ Reconciling(s) => req[s] \in Request
       /\ IsTable(own[s])
       /\ pc[s] = "edit" => IsTable(seen[s])
       /\ Counting(s) => IsCount(seen[s])
  /\ marks \in [Sessions -> SUBSET Rows]
  /\ touched \in [Sessions -> SUBSET Rows]

\* From balance_at to its commit, a reconciliation's count of the account
\* stays true, but for the operations that somebody edits or deletes: neither
\* another reconciliation nor a new operation nor an adjustment gets in between
\* (lock_account and the foreign key).
CountStillHolds ==
  \A s \in Sessions :
    Counting(s) =>
      \A r \in Rows \ touched[s] : SameAt(r, Counted(tx, req[s]), seen[s])

\* The step in which the session's reconciliation commits.
Reconciles(s) ==
  /\ Counting(s)
  /\ pc'[s] = "idle"
  /\ Len(recons') = Len(recons) + 1

\* A committed reconciliation leaves the account at the bank's figure: two
\* reconciliations of one account at once never close one difference twice.
ClosesTheDifference ==
  [][\A s \in Sessions :
       Reconciles(s) /\ touched[s] = {} =>
         Computed(req[s], Counted(tx', req[s])) = req[s].statement]_vars

\* For as long as an operation has its stamp, the reconciliation that stamped
\* it had counted it with the account, amount and date it has now.  Left out
\* are the operations that were edited while a reconciliation of them was
\* under way, and no others: mark_reconciled reads the window a second time, so
\* it may stamp what was edited into it, and an edit that was loaded before
\* the stamp does not take it away.
StampsHold ==
  \A r \in DOMAIN tx :
    tx[r].reconciled /\ ~tx[r].raced => tx[r].vouched = {BalanceMark(tx[r])}

\* An adjustment never lands before a reconciliation of the account that is
\* committed by then, even one that committed while this one was running:
\* "the account that once agreed would silently stop agreeing".
AdjustmentsNotBackdated ==
  [][\A s \in Sessions : Reconciles(s) /\ recons'[Len(recons')].adjustment # {} =>
       \A i \in DOMAIN recons :
         recons[i].account = req[s].account => recons[i].date <= req[s].date]_vars
=============================================================================
