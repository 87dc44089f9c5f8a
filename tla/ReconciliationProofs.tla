------------------------ MODULE ReconciliationProofs ------------------------
(***************************************************************************)
(* Proofs about Reconciliation, for any sets of accounts, rows, sessions,  *)
(* dates and amounts.                                                      *)
(***************************************************************************)
EXTENDS Reconciliation, SumsProofs, SequenceTheorems

(* Facts about tables.                                                     *)

\* Merging two tables gives a table with the rows of both.
LEMMA MergedTable ==
  ASSUME NEW f, NEW g, IsTable(f), IsTable(g)
  PROVE  IsTable(Merged(f, g))
  BY DEF IsTable, Merged

\* A new operation is a row.
LEMMA NewRowType ==
  ASSUME NEW account \in Accounts, NEW amount \in Int, NEW date \in Moments
  PROVE  NewRow(account, amount, date) \in Row
  BY DEF NewRow, Row

\* The empty table is one.
LEMMA NoRowsTable == IsTable(NoRows)
  BY DEF NoRows, IsTable

\* What a session sees is a table.
LEMMA VisibleTable ==
  ASSUME TypeOK, NEW s \in Sessions
  PROVE  IsTable(Visible(s))
  BY MergedTable DEF TypeOK, Visible

\* An UPDATE leaves a row.
LEMMA UpdatedRow ==
  ASSUME NEW row \in Row, NEW old \in Row, NEW account \in Accounts,
         NEW amount \in Int, NEW date \in Moments
  PROVE  Updated(row, old, account, amount, date) \in Row
  BY DEF Updated, Row

\* What balance_at counts is a count, and adds up to an integer.
LEMMA CountType ==
  ASSUME NEW table, IsTable(table), NEW q
  PROVE  IsCount(Counted(table, q))
<1>1. \A r \in DOMAIN table : BalanceMark(table[r]) \in Accounts \X Int \X Moments
  BY DEF IsTable, BalanceMark, Row
<1>. QED BY <1>1 DEF IsTable, IsCount, Counted, Window

\* Two counts that have every row alike are one.
LEMMA SameCounts ==
  ASSUME NEW f, NEW g, IsCount(f), IsCount(g), \A r \in Rows : SameAt(r, f, g)
  PROVE  f = g
<1>1. DOMAIN f = DOMAIN g
  BY DEF IsCount, SameAt
<1>2. \A r \in DOMAIN f : f[r] = g[r]
  BY DEF IsCount, SameAt
<1>. QED BY <1>1, <1>2 DEF IsCount

LEMMA TotalType ==
  ASSUME NEW counted, IsCount(counted)
  PROVE  Total(counted) \in Int
<1>1. IsFiniteSet(DOMAIN counted)
  BY ReconciliationAssumption, FS_Subset DEF ReconciliationAssumption, IsCount
<1>2. [r \in DOMAIN counted |-> counted[r][2]] \in [DOMAIN counted -> Int]
  BY DEF IsCount
<1>. QED BY <1>1, <1>2, SumType DEF Total

LEMMA DifferenceType ==
  ASSUME TypeOK, NEW s \in Sessions, Counting(s)
  PROVE  /\ Computed(req[s], seen[s]) \in Int
         /\ Difference(s) \in Int
<1>1. Total(seen[s]) \in Int
  BY TotalType DEF TypeOK
<1>2. req[s] \in Request
  BY DEF TypeOK, Reconciling
<1>3. Opening[req[s].account] \in Int /\ req[s].statement \in Int
  BY <1>2, ReconciliationAssumption DEF Request, ReconciliationAssumption
<1>. QED BY <1>1, <1>3 DEF Computed, Difference

-----------------------------------------------------------------------------
\* A function on 1 .. n is a sequence.
LEMMA FunctionIsSeq ==
  ASSUME NEW S, NEW n \in Nat, NEW f \in [1 .. n -> S]
  PROVE  f \in Seq(S)
  OBVIOUS

-----------------------------------------------------------------------------
(* Type correctness.                                                       *)

\* Closing a session keeps the types of what it resets.
LEMMA CloseType ==
  ASSUME TypeOK, NEW s \in Sessions, Close(s), ReconciliationAssumption
  PROVE  /\ lock' \in [Accounts -> Sessions \cup {Nobody}]
         /\ pc' \in [Sessions -> {"idle", "insert", "edit", "locked",
                                  "computed", "adjusted", "selected"}]
         /\ req' \in [Sessions -> Request \cup {NoRequest}]
         /\ own' = [t \in Sessions |-> own'[t]]
         /\ seen' = [t \in Sessions |-> seen'[t]]
         /\ \A t \in Sessions :
              /\ Reconciling(t)' => req'[t] \in Request
              /\ IsTable(own'[t])
              /\ pc'[t] = "edit" => IsTable(seen'[t])
              /\ Counting(t)' => IsCount(seen'[t])
         /\ marks' \in [Sessions -> SUBSET Rows]
  BY NoRowsTable DEF TypeOK, Close, Reconciling, Counting

\* Every step preserves TypeOK.
LEMMA TypeStep == TypeOK /\ [Next]_vars => TypeOK'
<1> SUFFICES ASSUME TypeOK, [Next]_vars PROVE TypeOK'
  OBVIOUS
<1> USE ReconciliationAssumption DEF ReconciliationAssumption
<1>1. ASSUME NEW s \in Sessions, NEW account \in Accounts,
             NEW amount \in Amounts, NEW date \in Moments,
             Insert(s, account, amount, date)
      PROVE  TypeOK'
  <2>1. PICK r \in FreeRows :
          own' = [own EXCEPT ![s] =
                    Merged([x \in {r} |-> NewRow(account, amount, date)], @)]
    BY <1>1 DEF Insert
  <2>2. IsTable([x \in {r} |-> NewRow(account, amount, date)])
    BY NewRowType DEF IsTable, FreeRows
  <2>3. IsTable(own'[s])
    BY <2>1, <2>2, MergedTable DEF TypeOK
  <2>4. \A t \in Sessions : IsTable(own'[t])
    BY <2>1, <2>3 DEF TypeOK
  <2>. QED BY <1>1, <2>4 DEF Insert, TypeOK, Reconciling, Counting
<1>2. ASSUME NEW s \in Sessions, CommitInsert(s)
      PROVE  TypeOK'
  BY <1>2, CloseType, VisibleTable DEF CommitInsert, Publish, TypeOK
<1>3. ASSUME NEW s \in Sessions, Load(s)
      PROVE  TypeOK'
  <2>1. PICK r \in DOMAIN tx : seen' = [seen EXCEPT ![s] = [x \in {r} |-> tx[r]]]
    BY <1>3 DEF Load
  <2>2. IsTable([x \in {r} |-> tx[r]])
    BY DEF TypeOK, IsTable
  <2>3. \A t \in Sessions : pc'[t] = "edit" => IsTable(seen'[t])
    BY <1>3, <2>1, <2>2 DEF Load, TypeOK
  <2>. QED BY <1>3, <2>3 DEF Load, TypeOK, Reconciling, Counting
<1>4. ASSUME NEW s \in Sessions, NEW account \in Accounts,
             NEW amount \in Amounts, NEW date \in Moments,
             CommitUpdate(s, account, amount, date)
      PROVE  TypeOK'
  <2>1. PICK r \in DOMAIN seen[s] \cap DOMAIN tx :
          PublishEdit(s, [tx EXCEPT ![r] = Updated(@, seen[s][r], account, amount, date)])
    BY <1>4 DEF CommitUpdate
  <2>2. Updated(tx[r], seen[s][r], account, amount, date) \in Row
    BY <1>4, UpdatedRow DEF CommitUpdate, TypeOK, IsTable
  <2>3. IsTable(tx')
    BY <2>1, <2>2 DEF PublishEdit, TypeOK, IsTable
  <2>4. touched' \in [Sessions -> SUBSET Rows]
    BY <2>1 DEF PublishEdit, TypeOK
  <2>. QED BY <1>4, <2>3, <2>4, CloseType DEF CommitUpdate, TypeOK
<1>5. ASSUME NEW s \in Sessions, CommitDelete(s)
      PROVE  TypeOK'
  <2>1. PICK r \in DOMAIN seen[s] \cap DOMAIN tx :
          /\ PublishEdit(s, Restrict(tx, DOMAIN tx \ {r}))
          /\ recons' = [i \in DOMAIN recons |->
                          [recons[i] EXCEPT !.adjustment = @ \ {r}]]
    BY <1>5 DEF CommitDelete
  <2>2. IsTable(tx')
    BY <2>1 DEF PublishEdit, Restrict, TypeOK, IsTable
  <2>3. touched' \in [Sessions -> SUBSET Rows]
    BY <2>1 DEF PublishEdit, TypeOK
  <2>4. recons' \in Seq(Record)
    <3>1. recons \in [1 .. Len(recons) -> Record] /\ Len(recons) \in Nat
      BY LenProperties DEF TypeOK
    <3>2. \A rec \in Record : [rec EXCEPT !.adjustment = @ \ {r}] \in Record
      BY DEF Record
    <3>3. recons' \in [1 .. Len(recons) -> Record]
      BY <2>1, <3>1, <3>2
    <3>. QED BY <3>1, <3>3, FunctionIsSeq
  <2>. QED BY <1>5, <2>2, <2>3, <2>4, CloseType DEF CommitDelete, TypeOK
<1>6. ASSUME NEW s \in Sessions, NEW q \in Request, LockAccount(s, q)
      PROVE  TypeOK'
  BY <1>6 DEF LockAccount, TypeOK, Request, Reconciling, Counting
<1>7. ASSUME NEW s \in Sessions, BalanceAt(s)
      PROVE  TypeOK'
  <2>1. IsCount(Counted(tx, req[s]))
    BY CountType DEF TypeOK
  <2>2. \A t \in Sessions : Counting(t)' => IsCount(seen'[t])
    BY <1>7, <2>1 DEF BalanceAt, TypeOK, Counting
  <2>. QED BY <1>7, <2>2 DEF BalanceAt, TypeOK, Reconciling, Counting
<1>8. ASSUME NEW s \in Sessions, Agree(s)
      PROVE  TypeOK'
  BY <1>8 DEF Agree, TypeOK, Reconciling, Counting
<1>9. ASSUME NEW s \in Sessions, Adjust(s)
      PROVE  TypeOK'
  <2>1. PICK r \in FreeRows :
          own' = [own EXCEPT ![s] =
                    [x \in {r} |-> NewRow(req[s].account, Difference(s), req[s].date)]]
    BY <1>9 DEF Adjust
  <2>2. Difference(s) \in Int
    BY <1>9, DifferenceType DEF Adjust, Counting
  <2>3. IsTable(own'[s])
    BY <1>9, <2>1, <2>2, NewRowType
    DEF TypeOK, IsTable, FreeRows, Adjust, Reconciling, Counting, Request
  <2>. QED BY <1>9, <2>1, <2>3 DEF Adjust, TypeOK, Reconciling, Counting
<1>10. ASSUME NEW s \in Sessions, SelectUnmarked(s)
      PROVE  TypeOK'
  BY <1>10, VisibleTable
  DEF SelectUnmarked, TypeOK, Reconciling, Counting, Window, IsTable
<1>11. ASSUME NEW s \in Sessions, CommitReconciliation(s)
      PROVE  TypeOK'
  <2>1. IsTable(tx')
    <3>1. IsTable(Visible(s))
      BY VisibleTable
    <3>2. \A r \in DOMAIN Visible(s) : Stamped(s, r) \in Row
      <4> TAKE r \in DOMAIN Visible(s)
      <4>1. Visible(s)[r] \in Row
        BY <3>1 DEF IsTable
      <4>2. r \in DOMAIN seen[s] => seen[s][r] \in Accounts \X Int \X Moments
        BY <1>11 DEF TypeOK, CommitReconciliation, Counting, IsCount
      <4>3. r \in DOMAIN own[s] => BalanceMark(own[s][r]) \in Accounts \X Int \X Moments
        BY DEF TypeOK, IsTable, BalanceMark, Row
      <4>4. (r \in touched[s]) \in BOOLEAN
        OBVIOUS
      <4> DEFINE v == IF r \in DOMAIN seen[s] THEN {seen[s][r]}
                      ELSE IF r \in DOMAIN own[s] THEN {BalanceMark(own[s][r])} ELSE {}
                 b == r \in touched[s]
      <4>5. v \in SUBSET (Accounts \X Int \X Moments)
        BY <4>2, <4>3
      <4>6. Stamped(s, r) =
              [Visible(s)[r] EXCEPT !.reconciled = TRUE, !.vouched = v, !.raced = b]
        BY DEF Stamped
      <4> HIDE DEF v, b
      <4>7. b \in BOOLEAN
        BY <4>4 DEF b
      <4>. QED BY <4>1, <4>5, <4>6, <4>7 DEF Row
    <3>3. tx' = [r \in DOMAIN Visible(s) |->
                   IF r \in marks[s] THEN Stamped(s, r) ELSE Visible(s)[r]]
      BY <1>11 DEF CommitReconciliation, Publish
    <3>. QED BY <3>1, <3>2, <3>3 DEF IsTable
  <2>2. recons' \in Seq(Record)
    <3>1. req[s] \in Request
      BY <1>11 DEF TypeOK, CommitReconciliation, Reconciling, Counting
    <3>2. Computed(req[s], seen[s]) \in Int
      BY <1>11, DifferenceType DEF CommitReconciliation, Counting
    <3>3. DOMAIN own[s] \in SUBSET Rows
      BY DEF TypeOK, IsTable
    <3>4. [account |-> req[s].account, date |-> req[s].date,
           statement |-> req[s].statement,
           computed |-> Computed(req[s], seen[s]),
           adjustment |-> DOMAIN own[s]] \in Record
      BY <3>1, <3>2, <3>3 DEF Request, Record
    <3>. QED BY <1>11, <3>4 DEF CommitReconciliation, TypeOK
  <2>3. touched' \in [Sessions -> SUBSET Rows]
    BY <1>11 DEF CommitReconciliation, Publish, TypeOK
  <2>. QED BY <1>11, <2>1, <2>2, <2>3, CloseType DEF CommitReconciliation, TypeOK
<1>12. ASSUME NEW s \in Sessions, Rollback(s)
      PROVE  TypeOK'
  BY <1>12, CloseType DEF Rollback, TypeOK
<1>13. CASE UNCHANGED vars
  BY <1>13 DEF vars, TypeOK, Reconciling, Counting
<1>. QED
  BY <1>1, <1>2, <1>3, <1>4, <1>5, <1>6, <1>7, <1>8, <1>9, <1>10, <1>11,
     <1>12, <1>13 DEF Next, Write, Reconcile

\* The initial state is well typed.
LEMMA TypeInit == Init => TypeOK
  BY NoRowsTable, ReconciliationAssumption
  DEF Init, TypeOK, Reconciling, Counting, NoRows, ReconciliationAssumption

\* Every reachable state of Spec is well typed.
THEOREM TypeCorrect == Spec => []TypeOK
  BY TypeInit, TypeStep, PTL DEF Spec

-----------------------------------------------------------------------------
(* The inductive invariant.                                                *)

\* A session at work on a reconciliation holds its account's row, and nobody
\* else has an uncommitted operation there.
AccountHeld(s) ==
  /\ lock[req[s].account] = s
  /\ KeyShare(req[s].account) \subseteq {s}

\* What a session has flushed is new and its own; in a reconciliation it is
\* the adjustment, of the request's account and date.
OwnRow(s, r) ==
  /\ r \notin DOMAIN tx
  /\ \A t \in Sessions \ {s} : r \notin DOMAIN own[t]
  /\ pc[s] = "insert" \/ Counting(s)
  /\ Counting(s) => /\ own[s][r].account = req[s].account
                    /\ own[s][r].date = req[s].date
  /\ ~own[s][r].reconciled

LocksHeld ==
  \A s \in Sessions :
    /\ Reconciling(s) => AccountHeld(s)
    /\ \A r \in DOMAIN own[s] : OwnRow(s, r)

\* After adjust the flushed row is the difference; there is none without one.
Settled(s) ==
  /\ pc[s] = "computed" => DOMAIN own[s] = {}
  /\ pc[s] \in {"adjusted", "selected"} =>
       \/ DOMAIN own[s] = {} /\ Difference(s) = 0
       \/ \E r \in Rows : DOMAIN own[s] = {r} /\ own[s][r].amount = Difference(s)

AdjustmentIsDifference == \A s \in Sessions : Settled(s)

\* The rows to stamp are the ones counted, the adjustment and what was edited
\* in between.
MarksAreCounted ==
  \A s \in Sessions :
    pc[s] = "selected" =>
      marks[s] \subseteq DOMAIN own[s] \cup DOMAIN seen[s] \cup touched[s]

\* No reconciliation of the account of a later date has appeared since
\* _refuse_backdated looked.
StillNotBackdated ==
  \A s \in Sessions :
    Counting(s) /\ DOMAIN own[s] # {} => ~Backdated(req[s])

Inv ==
  /\ TypeOK
  /\ LocksHeld
  /\ CountStillHolds
  /\ AdjustmentIsDifference
  /\ MarksAreCounted
  /\ StillNotBackdated
  /\ StampsHold

\* What Close does to its session, to the others and to the locks.
LEMMA CloseEffect ==
  ASSUME TypeOK, NEW s \in Sessions, Close(s)
  PROVE  /\ pc'[s] = "idle"
         /\ DOMAIN own'[s] = {}
         /\ \A t \in Sessions \ {s} :
              /\ pc'[t] = pc[t] /\ req'[t] = req[t] /\ seen'[t] = seen[t]
              /\ own'[t] = own[t] /\ marks'[t] = marks[t]
         /\ \A a \in Accounts : lock'[a] = IF lock[a] = s THEN Nobody ELSE lock[a]
         /\ \A a \in Accounts : KeyShare(a)' = KeyShare(a) \ {s}
<1>1. /\ pc'[s] = "idle"
      /\ DOMAIN own'[s] = {}
      /\ \A t \in Sessions \ {s} :
           /\ pc'[t] = pc[t] /\ req'[t] = req[t] /\ seen'[t] = seen[t]
           /\ own'[t] = own[t] /\ marks'[t] = marks[t]
  BY DEF Close, TypeOK, NoRows
<1>2. \A a \in Accounts : KeyShare(a)' = KeyShare(a) \ {s}
  BY <1>1 DEF KeyShare
<1>. QED BY <1>1, <1>2 DEF Close

\* No two sessions reconcile one account at once.
LEMMA OneReconciliation ==
  ASSUME TypeOK, LocksHeld, NEW s \in Sessions, NEW t \in Sessions,
         Reconciling(s), Reconciling(t), req[s].account = req[t].account
  PROVE  s = t
  BY DEF LocksHeld, AccountHeld

\* Closing a session keeps LocksHeld, provided that the rows it publishes are
\* its own.
LEMMA LocksClose ==
  ASSUME TypeOK, LocksHeld, NEW s \in Sessions, Close(s),
         DOMAIN tx' \subseteq DOMAIN tx \cup DOMAIN own[s]
  PROVE  LocksHeld'
<1> SUFFICES ASSUME NEW t \in Sessions
             PROVE  /\ Reconciling(t)' => AccountHeld(t)'
                    /\ \A r \in DOMAIN own'[t] : OwnRow(t, r)'
  BY DEF LocksHeld
<1>1. CASE t = s
  BY <1>1, CloseEffect DEF Reconciling, Counting
<1>2. CASE t # s
  <2>1. Reconciling(t)' => AccountHeld(t)'
    <3> SUFFICES ASSUME Reconciling(t)' PROVE AccountHeld(t)'
      OBVIOUS
    <3>1. Reconciling(t) /\ req'[t] = req[t]
      BY <1>2, CloseEffect DEF Reconciling, Counting
    <3>2. req[t].account \in Accounts /\ AccountHeld(t)
      BY <3>1 DEF TypeOK, Request, LocksHeld
    <3>. QED BY <1>2, <3>1, <3>2, CloseEffect DEF AccountHeld
  <2>2. ASSUME NEW r \in DOMAIN own'[t] PROVE OwnRow(t, r)'
    <3>1. r \in DOMAIN own[t] /\ own'[t] = own[t] /\ pc'[t] = pc[t] /\ req'[t] = req[t]
      BY <1>2, CloseEffect
    <3>2. OwnRow(t, r)
      BY <3>1 DEF LocksHeld
    <3>3. r \notin DOMAIN tx'
      BY <1>2, <3>2 DEF OwnRow
    <3>4. \A u \in Sessions \ {t} : r \notin DOMAIN own'[u]
      BY <3>2, CloseEffect DEF OwnRow
    <3>. QED BY <3>1, <3>2, <3>3, <3>4 DEF OwnRow, Counting
  <2>. QED BY <2>1, <2>2
<1>. QED BY <1>1, <1>2

\* Every step preserves LocksHeld.
LEMMA LocksStep == TypeOK /\ LocksHeld /\ [Next]_vars => LocksHeld'
<1> SUFFICES ASSUME TypeOK, LocksHeld, [Next]_vars PROVE LocksHeld'
  OBVIOUS
<1> USE ReconciliationAssumption DEF ReconciliationAssumption
<1>1. ASSUME NEW s \in Sessions, NEW account \in Accounts,
             NEW amount \in Amounts, NEW date \in Moments,
             Insert(s, account, amount, date)
      PROVE  LocksHeld'
  <2>1. PICK r \in FreeRows :
          own' = [own EXCEPT ![s] =
                    Merged([x \in {r} |-> NewRow(account, amount, date)], @)]
    BY <1>1 DEF Insert
  <2>2. /\ DOMAIN own'[s] = {r} \cup DOMAIN own[s]
        /\ own'[s][r].account = account
        /\ ~own'[s][r].reconciled
        /\ \A x \in DOMAIN own[s] \ {r} : own'[s][x] = own[s][x]
        /\ \A t \in Sessions \ {s} : own'[t] = own[t]
    BY <2>1 DEF TypeOK, Merged, NewRow
  <2>3. r \notin DOMAIN tx /\ \A t \in Sessions : r \notin DOMAIN own[t]
    BY DEF FreeRows
  <2>4. \A t \in Sessions :
          /\ Reconciling(t)' <=> Reconciling(t)
          /\ Reconciling(t) => t # s
    BY <1>1 DEF Insert, TypeOK, Reconciling, Counting
  <2>5. ASSUME NEW t \in Sessions, Reconciling(t) PROVE AccountHeld(t)'
    <3>1. lock[req[t].account] = t /\ KeyShare(req[t].account) \subseteq {t}
      BY <2>5 DEF LocksHeld, AccountHeld
    <3>2. account # req[t].account
      BY <1>1, <2>4, <2>5, <3>1 DEF Insert, MayReference
    <3>3. s \notin KeyShare(req[t].account)
      BY <2>4, <2>5, <3>1
    <3>4. \A x \in DOMAIN own'[s] : own'[s][x].account # req[t].account
      BY <2>2, <3>2, <3>3 DEF KeyShare
    <3>5. KeyShare(req[t].account)' \subseteq {t}
      BY <1>1, <2>2, <3>1, <3>4 DEF KeyShare, Insert
    <3>. QED BY <1>1, <3>1, <3>5 DEF Insert, AccountHeld
  <2>6. ASSUME NEW t \in Sessions, NEW x \in DOMAIN own'[t] PROVE OwnRow(t, x)'
    <3>1. /\ tx' = tx /\ req' = req /\ pc' = [pc EXCEPT ![s] = "insert"]
          /\ pc'[s] = "insert"
      BY <1>1 DEF Insert, TypeOK
    <3>2. CASE t = s /\ x = r
      BY <2>2, <2>3, <3>1, <3>2 DEF OwnRow, Counting
    <3>3. CASE t = s /\ x # r
      <4>1. OwnRow(s, x) /\ own'[s][x] = own[s][x]
        BY <2>2, <3>3 DEF LocksHeld
      <4>. QED BY <2>2, <3>1, <3>3, <4>1 DEF OwnRow, Counting
    <3>4. CASE t # s
      <4>1. OwnRow(t, x) /\ own'[t] = own[t] /\ x # r
        BY <2>2, <2>3, <3>4 DEF LocksHeld
      <4>. QED BY <2>2, <3>1, <3>4, <4>1 DEF OwnRow, Counting, TypeOK
    <3>. QED BY <3>2, <3>3, <3>4
  <2>. QED BY <2>4, <2>5, <2>6 DEF LocksHeld
<1>2. ASSUME NEW s \in Sessions, CommitInsert(s)
      PROVE  LocksHeld'
  BY <1>2, LocksClose DEF CommitInsert, Publish, Visible, Merged
<1>3. ASSUME NEW s \in Sessions, Load(s)
      PROVE  LocksHeld'
  <2>1. \A t \in Sessions :
          /\ Reconciling(t)' <=> Reconciling(t)
          /\ Counting(t)' <=> Counting(t)
          /\ pc[t] = "insert" => pc'[t] = "insert"
    BY <1>3 DEF Load, TypeOK, Reconciling, Counting
  <2>. QED BY <1>3, <2>1 DEF Load, LocksHeld, AccountHeld, KeyShare, OwnRow
<1>4. ASSUME NEW s \in Sessions, NEW account \in Accounts,
             NEW amount \in Amounts, NEW date \in Moments,
             CommitUpdate(s, account, amount, date)
      PROVE  LocksHeld'
  <2>1. DOMAIN tx' = DOMAIN tx
    BY <1>4 DEF CommitUpdate, PublishEdit, TypeOK, IsTable
  <2>. QED BY <1>4, <2>1, LocksClose DEF CommitUpdate
<1>5. ASSUME NEW s \in Sessions, CommitDelete(s)
      PROVE  LocksHeld'
  <2>1. DOMAIN tx' \subseteq DOMAIN tx
    BY <1>5 DEF CommitDelete, PublishEdit, Restrict
  <2>. QED BY <1>5, <2>1, LocksClose DEF CommitDelete
<1>6. ASSUME NEW s \in Sessions, NEW q \in Request, LockAccount(s, q)
      PROVE  LocksHeld'
  <2>1. q.account \in Accounts
    BY DEF Request
  <2>2. DOMAIN own[s] = {}
    BY <1>6 DEF LockAccount, LocksHeld, OwnRow, Counting
  <2>3. ASSUME NEW t \in Sessions, Reconciling(t)' PROVE AccountHeld(t)'
    <3>1. CASE t = s
      BY <1>6, <2>1, <3>1 DEF LockAccount, TypeOK, AccountHeld, KeyShare
    <3>2. CASE t # s
      <4>1. Reconciling(t) /\ req'[t] = req[t]
        BY <1>6, <2>3, <3>2 DEF LockAccount, TypeOK, Reconciling, Counting
      <4>2. AccountHeld(t)
        BY <4>1 DEF LocksHeld
      <4>3. q.account # req[t].account
        BY <1>6, <4>2 DEF LockAccount, AccountHeld
      <4>. QED BY <1>6, <4>1, <4>2, <4>3 DEF LockAccount, TypeOK, AccountHeld, KeyShare
    <3>. QED BY <3>1, <3>2
  <2>4. ASSUME NEW t \in Sessions, NEW x \in DOMAIN own'[t] PROVE OwnRow(t, x)'
    BY <1>6, <2>2 DEF LockAccount, TypeOK, LocksHeld, OwnRow, Counting
  <2>. QED BY <2>3, <2>4 DEF LocksHeld
<1>7. ASSUME NEW s \in Sessions, BalanceAt(s)
      PROVE  LocksHeld'
  <2>1. DOMAIN own[s] = {}
    BY <1>7 DEF BalanceAt, LocksHeld, OwnRow, Counting
  <2>2. \A t \in Sessions : Reconciling(t)' <=> Reconciling(t)
    BY <1>7 DEF BalanceAt, TypeOK, Reconciling, Counting
  <2>. QED BY <1>7, <2>1, <2>2
    DEF BalanceAt, TypeOK, LocksHeld, AccountHeld, KeyShare, OwnRow, Counting
<1>8. ASSUME NEW s \in Sessions, Agree(s)
      PROVE  LocksHeld'
  <2>1. \A t \in Sessions :
          /\ Reconciling(t)' <=> Reconciling(t)
          /\ Counting(t)' <=> Counting(t)
          /\ pc[t] = "insert" => pc'[t] = "insert"
    BY <1>8 DEF Agree, TypeOK, Reconciling, Counting
  <2>. QED BY <1>8, <2>1 DEF Agree, LocksHeld, AccountHeld, KeyShare, OwnRow
<1>9. ASSUME NEW s \in Sessions, Adjust(s)
      PROVE  LocksHeld'
  <2>1. PICK r \in FreeRows :
          own' = [own EXCEPT ![s] =
                    [x \in {r} |-> NewRow(req[s].account, Difference(s), req[s].date)]]
    BY <1>9 DEF Adjust
  <2>2. /\ DOMAIN own'[s] = {r}
        /\ own'[s][r].account = req[s].account
        /\ own'[s][r].date = req[s].date
        /\ ~own'[s][r].reconciled
        /\ \A t \in Sessions \ {s} : own'[t] = own[t]
    BY <2>1 DEF TypeOK, NewRow
  <2>3. r \notin DOMAIN tx /\ \A t \in Sessions : r \notin DOMAIN own[t]
    BY DEF FreeRows
  <2>4. \A t \in Sessions :
          /\ Reconciling(t)' <=> Reconciling(t)
          /\ Counting(t)' <=> Counting(t)
          /\ pc[t] = "insert" => pc'[t] = "insert"
    BY <1>9 DEF Adjust, TypeOK, Reconciling, Counting
  <2>5. ASSUME NEW t \in Sessions, Reconciling(t) PROVE AccountHeld(t)'
    <3>1. AccountHeld(t)
      BY <2>5 DEF LocksHeld
    <3>2. t # s => req[t].account # req[s].account
      BY <1>9, <2>5, OneReconciliation DEF Adjust, Reconciling, Counting
    <3>3. KeyShare(req[t].account)' \subseteq {t}
      BY <1>9, <2>2, <3>1, <3>2 DEF KeyShare, AccountHeld, Adjust
    <3>. QED BY <1>9, <3>1, <3>3 DEF Adjust, AccountHeld
  <2>6. ASSUME NEW t \in Sessions, NEW x \in DOMAIN own'[t] PROVE OwnRow(t, x)'
    <3>1. CASE t = s
      BY <1>9, <2>2, <2>3, <2>4, <3>1 DEF OwnRow, Adjust, Counting
    <3>2. CASE t # s
      <4>1. OwnRow(t, x) /\ x # r /\ own'[t] = own[t]
        BY <2>2, <2>3, <3>2 DEF LocksHeld
      <4>. QED BY <1>9, <2>2, <2>4, <4>1 DEF OwnRow, Adjust
    <3>. QED BY <3>1, <3>2
  <2>. QED BY <2>4, <2>5, <2>6 DEF LocksHeld
<1>10. ASSUME NEW s \in Sessions, SelectUnmarked(s)
      PROVE  LocksHeld'
  <2>1. \A t \in Sessions :
          /\ Reconciling(t)' <=> Reconciling(t)
          /\ Counting(t)' <=> Counting(t)
          /\ pc[t] = "insert" => pc'[t] = "insert"
    BY <1>10 DEF SelectUnmarked, TypeOK, Reconciling, Counting
  <2>. QED BY <1>10, <2>1 DEF SelectUnmarked, LocksHeld, AccountHeld, KeyShare, OwnRow
<1>11. ASSUME NEW s \in Sessions, CommitReconciliation(s)
      PROVE  LocksHeld'
  BY <1>11, LocksClose DEF CommitReconciliation, Publish, Visible, Merged
<1>12. ASSUME NEW s \in Sessions, Rollback(s)
      PROVE  LocksHeld'
  BY <1>12, LocksClose DEF Rollback
<1>13. CASE UNCHANGED vars
  BY <1>13 DEF vars, LocksHeld, AccountHeld, KeyShare, OwnRow, Reconciling, Counting
<1>. QED
  BY <1>1, <1>2, <1>3, <1>4, <1>5, <1>6, <1>7, <1>8, <1>9, <1>10, <1>11,
     <1>12, <1>13 DEF Next, Write, Reconcile

\* A table that differs from another only in rows of other accounts, and in
\* what does not bear on balances, counts the same.
LEMMA SameCount ==
  ASSUME NEW f, NEW g, NEW q, DOMAIN f \subseteq DOMAIN g,
         \A r \in DOMAIN f : BalanceMark(g[r]) = BalanceMark(f[r]),
         \A r \in DOMAIN g \ DOMAIN f : g[r].account # q.account
  PROVE  Counted(g, q) = Counted(f, q)
<1>1. \A r \in DOMAIN f : g[r].account = f[r].account /\ g[r].date = f[r].date
  BY DEF BalanceMark
<1>2. Window(g, q) = Window(f, q)
  BY <1>1 DEF Window
<1>. QED BY <1>2 DEF Counted, Window

\* What CommitReconciliation publishes: the committed rows, with or without a
\* stamp, and the adjustment.
LEMMA ReconciledTable ==
  ASSUME TypeOK, LocksHeld, NEW s \in Sessions, CommitReconciliation(s)
  PROVE  /\ DOMAIN tx' = DOMAIN tx \cup DOMAIN own[s]
         /\ DOMAIN tx \cap DOMAIN own[s] = {}
         /\ \A r \in DOMAIN tx : BalanceMark(tx'[r]) = BalanceMark(tx[r])
         /\ \A r \in DOMAIN own[s] :
              /\ BalanceMark(tx'[r]) = BalanceMark(own[s][r])
              /\ tx'[r].account = req[s].account
              /\ tx'[r].date = req[s].date
              /\ tx'[r].amount = own[s][r].amount
<1>1. DOMAIN tx \cap DOMAIN own[s] = {}
  BY DEF LocksHeld, OwnRow
<1>2. /\ DOMAIN Visible(s) = DOMAIN tx \cup DOMAIN own[s]
      /\ \A r \in DOMAIN tx : Visible(s)[r] = tx[r]
      /\ \A r \in DOMAIN own[s] : Visible(s)[r] = own[s][r]
  BY <1>1 DEF Visible, Merged
<1>3. \A r \in DOMAIN Visible(s) : Visible(s)[r] \in Row
  BY VisibleTable DEF IsTable
<1>4. tx' = [r \in DOMAIN Visible(s) |->
               IF r \in marks[s] THEN Stamped(s, r) ELSE Visible(s)[r]]
  BY DEF CommitReconciliation, Publish
<1>5. \A r \in DOMAIN Visible(s) : BalanceMark(tx'[r]) = BalanceMark(Visible(s)[r])
  BY <1>3, <1>4 DEF Stamped, BalanceMark, Row
<1>6. \A r \in DOMAIN own[s] :
        own[s][r].account = req[s].account /\ own[s][r].date = req[s].date
  BY DEF LocksHeld, OwnRow, CommitReconciliation, Counting
<1>7. \A r \in DOMAIN own[s] :
        /\ tx'[r].account = own[s][r].account
        /\ tx'[r].date = own[s][r].date
        /\ tx'[r].amount = own[s][r].amount
  BY <1>2, <1>3, <1>4 DEF Stamped, Row
<1>8. DOMAIN tx' = DOMAIN tx \cup DOMAIN own[s]
  BY <1>2, <1>4
<1>9. \A r \in DOMAIN tx : BalanceMark(tx'[r]) = BalanceMark(tx[r])
  BY <1>2, <1>5
<1>10. \A r \in DOMAIN own[s] : BalanceMark(tx'[r]) = BalanceMark(own[s][r])
  BY <1>2, <1>5
<1>. QED BY <1>1, <1>6, <1>7, <1>8, <1>9, <1>10

\* Every step preserves CountStillHolds.
LEMMA CountStep ==
  TypeOK /\ LocksHeld /\ CountStillHolds /\ [Next]_vars => CountStillHolds'
<1> SUFFICES ASSUME TypeOK, LocksHeld, CountStillHolds, [Next]_vars,
                    NEW t \in Sessions, Counting(t)', NEW r \in Rows \ touched'[t]
             PROVE  SameAt(r, Counted(tx', req'[t]), seen'[t])
  BY DEF CountStillHolds
<1> DEFINE Kept == /\ Counting(t) /\ r \notin touched[t]
                   /\ req'[t] = req[t] /\ seen'[t] = seen[t]
           Goal == SameAt(r, Counted(tx', req'[t]), seen'[t])
<1>0. ASSUME Kept, SameAt(r, Counted(tx', req[t]), Counted(tx, req[t])) PROVE Goal
  BY <1>0 DEF CountStillHolds, SameAt
<1>00. ASSUME Kept, Counted(tx', req[t]) = Counted(tx, req[t]) PROVE Goal
  BY <1>0, <1>00 DEF SameAt
<1> HIDE DEF Kept, Goal
<1>1. ASSUME NEW s \in Sessions, NEW account \in Accounts,
             NEW amount \in Amounts, NEW date \in Moments,
             Insert(s, account, amount, date)
      PROVE  Goal
  BY <1>00, <1>1 DEF Insert, TypeOK, Counting, Kept
<1>2. ASSUME NEW s \in Sessions, CommitInsert(s)
      PROVE  Goal
  <2>1. t # s /\ Kept
    BY <1>2, CloseEffect DEF CommitInsert, Publish, TypeOK, Counting, Kept
  <2>2. s \notin KeyShare(req[t].account)
    BY <2>1 DEF LocksHeld, AccountHeld, Reconciling, Kept
  <2>3. \A x \in DOMAIN own[s] : x \notin DOMAIN tx /\ own[s][x].account # req[t].account
    BY <2>2 DEF LocksHeld, OwnRow, KeyShare
  <2>4. tx' = Merged(own[s], tx)
    BY <1>2 DEF CommitInsert, Publish, Visible
  <2>5. /\ DOMAIN tx \subseteq DOMAIN tx'
        /\ \A x \in DOMAIN tx : BalanceMark(tx'[x]) = BalanceMark(tx[x])
        /\ \A x \in DOMAIN tx' \ DOMAIN tx : tx'[x].account # req[t].account
    BY <2>3, <2>4 DEF Merged
  <2>. QED BY <1>00, <2>1, <2>5, SameCount
<1>3. ASSUME NEW s \in Sessions, Load(s)
      PROVE  Goal
  BY <1>00, <1>3 DEF Load, TypeOK, Counting, Kept
<1>4. ASSUME NEW s \in Sessions, NEW table, Close(s), PublishEdit(s, table)
      PROVE  Goal
  <2>1. t # s /\ Kept
    BY <1>4, CloseEffect DEF PublishEdit, TypeOK, Counting, Kept
  <2>2. SameAt(r, Counted(tx', req[t]), Counted(tx, req[t]))
    BY <1>4, <2>1 DEF PublishEdit, Kept, TypeOK
  <2>. QED BY <1>0, <2>1, <2>2
<1>5. ASSUME NEW s \in Sessions, NEW account \in Accounts,
             NEW amount \in Amounts, NEW date \in Moments,
             CommitUpdate(s, account, amount, date)
      PROVE  Goal
  BY <1>4, <1>5 DEF CommitUpdate
<1>6. ASSUME NEW s \in Sessions, CommitDelete(s)
      PROVE  Goal
  BY <1>4, <1>6 DEF CommitDelete
<1>7. ASSUME NEW s \in Sessions, NEW q \in Request, LockAccount(s, q)
      PROVE  Goal
  BY <1>00, <1>7 DEF LockAccount, TypeOK, Counting, Kept
<1>8. ASSUME NEW s \in Sessions, BalanceAt(s)
      PROVE  Goal
  <2>1. CASE t = s
    BY <1>8, <2>1 DEF BalanceAt, TypeOK, SameAt, Goal
  <2>2. CASE t # s
    BY <1>00, <1>8, <2>2 DEF BalanceAt, TypeOK, Counting, Kept
  <2>. QED BY <2>1, <2>2
<1>9. ASSUME NEW s \in Sessions, Agree(s)
      PROVE  Goal
  BY <1>00, <1>9 DEF Agree, TypeOK, Counting, Kept
<1>10. ASSUME NEW s \in Sessions, Adjust(s)
      PROVE  Goal
  BY <1>00, <1>10 DEF Adjust, TypeOK, Counting, Kept
<1>11. ASSUME NEW s \in Sessions, SelectUnmarked(s)
      PROVE  Goal
  BY <1>00, <1>11 DEF SelectUnmarked, TypeOK, Counting, Kept
<1>12. ASSUME NEW s \in Sessions, CommitReconciliation(s)
      PROVE  Goal
  <2>1. t # s /\ Kept
    BY <1>12, CloseEffect DEF CommitReconciliation, Publish, TypeOK, Counting, Kept
  <2>2. req[s].account # req[t].account
    BY <1>12, <2>1, OneReconciliation DEF CommitReconciliation, Reconciling, Counting, Kept
  <2>3. /\ DOMAIN tx' = DOMAIN tx \cup DOMAIN own[s]
        /\ \A x \in DOMAIN tx : BalanceMark(tx'[x]) = BalanceMark(tx[x])
        /\ \A x \in DOMAIN own[s] : tx'[x].account = req[s].account
    BY <1>12, ReconciledTable
  <2>4. /\ DOMAIN tx \subseteq DOMAIN tx'
        /\ \A x \in DOMAIN tx' \ DOMAIN tx : tx'[x].account # req[t].account
    BY <2>2, <2>3
  <2>5. Counted(tx', req[t]) = Counted(tx, req[t])
    BY <2>3, <2>4, SameCount
  <2>. QED BY <1>00, <2>1, <2>5
<1>13. ASSUME NEW s \in Sessions, Rollback(s)
      PROVE  Goal
  <2>1. t # s /\ Kept
    BY <1>13, CloseEffect DEF Rollback, TypeOK, Counting, Kept
  <2>. QED BY <1>00, <1>13, <2>1 DEF Rollback
<1>14. ASSUME UNCHANGED vars PROVE Goal
  <2>1. Kept /\ tx' = tx
    BY <1>14 DEF vars, Counting, Kept
  <2>. QED BY <1>00, <2>1
<1>. QED
  BY <1>1, <1>2, <1>3, <1>5, <1>6, <1>7, <1>8, <1>9, <1>10, <1>11,
     <1>12, <1>13, <1>14 DEF Goal, Next, Write, Reconcile

\* Every step preserves AdjustmentIsDifference.
LEMMA AdjustmentStep ==
  TypeOK /\ LocksHeld /\ AdjustmentIsDifference /\ [Next]_vars
    => AdjustmentIsDifference'
<1> SUFFICES ASSUME TypeOK, LocksHeld, AdjustmentIsDifference, [Next]_vars,
                    NEW t \in Sessions
             PROVE  Settled(t)'
  BY DEF AdjustmentIsDifference
<1>0. ASSUME pc'[t] = pc[t] \/ (pc[t] = "adjusted" /\ pc'[t] = "selected"),
             req'[t] = req[t], seen'[t] = seen[t], own'[t] = own[t]
      PROVE  Settled(t)'
  <2>1. Difference(t)' = Difference(t)
    BY <1>0 DEF Difference, Computed
  <2>. QED BY <1>0, <2>1 DEF AdjustmentIsDifference, Settled
<1>1. ASSUME pc'[t] \in {"idle", "insert", "edit", "locked"} PROVE Settled(t)'
  BY <1>1 DEF Settled
<1>2. ASSUME NEW s \in Sessions, Close(s) PROVE Settled(t)'
  BY <1>0, <1>1, <1>2, CloseEffect
<1>3. ASSUME NEW s \in Sessions, Write(s) PROVE Settled(t)'
  <2>1. ASSUME NEW account, NEW amount, NEW date, Insert(s, account, amount, date)
        PROVE  Settled(t)'
    BY <1>0, <1>1, <2>1 DEF Insert, TypeOK
  <2>2. ASSUME Load(s) PROVE Settled(t)'
    BY <1>0, <1>1, <2>2 DEF Load, TypeOK
  <2>. QED BY <1>2, <1>3, <2>1, <2>2 DEF Write, CommitInsert, CommitUpdate, CommitDelete
<1>4. ASSUME NEW s \in Sessions, NEW q \in Request, LockAccount(s, q) PROVE Settled(t)'
  BY <1>0, <1>1, <1>4 DEF LockAccount, TypeOK
<1>5. ASSUME NEW s \in Sessions, BalanceAt(s) PROVE Settled(t)'
  <2>1. CASE t = s
    <3>1. DOMAIN own[s] = {}
      BY <1>5 DEF BalanceAt, LocksHeld, OwnRow, Counting
    <3>. QED BY <1>5, <2>1, <3>1 DEF BalanceAt, TypeOK, Settled
  <2>2. CASE t # s
    BY <1>0, <1>5, <2>2 DEF BalanceAt, TypeOK
  <2>. QED BY <2>1, <2>2
<1>6. ASSUME NEW s \in Sessions, Agree(s) PROVE Settled(t)'
  <2>1. CASE t = s
    <3>1. Difference(s)' = 0
      BY <1>6 DEF Agree, Difference, Computed
    <3>2. DOMAIN own'[s] = {}
      BY <1>6 DEF Agree, AdjustmentIsDifference, Settled
    <3>. QED BY <1>6, <2>1, <3>1, <3>2 DEF Agree, TypeOK, Settled
  <2>2. CASE t # s
    BY <1>0, <1>6, <2>2 DEF Agree, TypeOK
  <2>. QED BY <2>1, <2>2
<1>7. ASSUME NEW s \in Sessions, Adjust(s) PROVE Settled(t)'
  <2>1. CASE t = s
    <3>1. PICK r \in FreeRows :
            own' = [own EXCEPT ![s] =
                      [x \in {r} |-> NewRow(req[s].account, Difference(s), req[s].date)]]
      BY <1>7 DEF Adjust
    <3>2. Difference(s)' = Difference(s)
      BY <1>7 DEF Adjust, Difference, Computed
    <3>3. r \in Rows /\ DOMAIN own'[s] = {r} /\ own'[s][r].amount = Difference(s)
      BY <3>1 DEF TypeOK, NewRow, FreeRows
    <3>. QED BY <1>7, <2>1, <3>2, <3>3 DEF Adjust, TypeOK, Settled
  <2>2. CASE t # s
    BY <1>0, <1>7, <2>2 DEF Adjust, TypeOK
  <2>. QED BY <2>1, <2>2
<1>8. ASSUME NEW s \in Sessions, SelectUnmarked(s) PROVE Settled(t)'
  BY <1>0, <1>8 DEF SelectUnmarked, TypeOK
<1>9. CASE UNCHANGED vars
  BY <1>0, <1>9 DEF vars
<1>. QED
  BY <1>2, <1>3, <1>4, <1>5, <1>6, <1>7, <1>8, <1>9
  DEF Next, Reconcile, CommitReconciliation, Rollback

\* Every step preserves StillNotBackdated.
LEMMA BackdatedStep ==
  TypeOK /\ LocksHeld /\ AdjustmentIsDifference /\ StillNotBackdated /\ [Next]_vars
    => StillNotBackdated'
<1> SUFFICES ASSUME TypeOK, LocksHeld, AdjustmentIsDifference, StillNotBackdated,
                    [Next]_vars,
                    NEW t \in Sessions, Counting(t)', DOMAIN own'[t] # {}
             PROVE  ~Backdated(req[t])'
  BY DEF StillNotBackdated
<1>0. ASSUME Counting(t), req'[t] = req[t], own'[t] = own[t],
             \A i \in DOMAIN recons' :
               \/ recons'[i].account # req[t].account
               \/ /\ i \in DOMAIN recons
                  /\ recons'[i].account = recons[i].account
                  /\ recons'[i].date = recons[i].date
      PROVE  ~Backdated(req[t])'
  BY <1>0 DEF StillNotBackdated, Backdated
<1>1. ASSUME NEW s \in Sessions, Close(s)
      PROVE  /\ t # s /\ Counting(t) /\ req'[t] = req[t] /\ own'[t] = own[t]
  BY <1>1, CloseEffect DEF Counting
<1>2. ASSUME NEW s \in Sessions, Close(s), recons' = recons
      PROVE  ~Backdated(req[t])'
  BY <1>0, <1>1, <1>2
<1>3. ASSUME NEW s \in Sessions, Write(s) PROVE ~Backdated(req[t])'
  <2>1. ASSUME NEW account, NEW amount, NEW date, Insert(s, account, amount, date)
        PROVE  ~Backdated(req[t])'
    BY <1>0, <2>1 DEF Insert, TypeOK, Counting
  <2>2. ASSUME Load(s) PROVE ~Backdated(req[t])'
    BY <1>0, <2>2 DEF Load, TypeOK, Counting
  <2>3. ASSUME CommitDelete(s) PROVE ~Backdated(req[t])'
    <3>1. \A i \in DOMAIN recons : recons[i] \in Record
      BY LenProperties DEF TypeOK
    <3>2. PICK r : recons' = [i \in DOMAIN recons |-> [recons[i] EXCEPT !.adjustment = @ \ {r}]]
      BY <2>3 DEF CommitDelete
    <3>3. \A i \in DOMAIN recons' :
            /\ i \in DOMAIN recons
            /\ recons'[i].account = recons[i].account
            /\ recons'[i].date = recons[i].date
      BY <3>1, <3>2 DEF Record
    <3>. QED BY <1>0, <1>1, <2>3, <3>3 DEF CommitDelete
  <2>. QED BY <1>2, <1>3, <2>1, <2>2, <2>3 DEF Write, CommitInsert, CommitUpdate
<1>4. ASSUME NEW s \in Sessions, NEW q \in Request, LockAccount(s, q)
      PROVE  ~Backdated(req[t])'
  BY <1>0, <1>4 DEF LockAccount, TypeOK, Counting
<1>5. ASSUME NEW s \in Sessions, BalanceAt(s) PROVE ~Backdated(req[t])'
  <2>1. DOMAIN own[s] = {}
    BY <1>5 DEF BalanceAt, LocksHeld, OwnRow, Counting
  <2>. QED BY <1>0, <1>5, <2>1 DEF BalanceAt, TypeOK, Counting
<1>6. ASSUME NEW s \in Sessions, Agree(s) PROVE ~Backdated(req[t])'
  BY <1>0, <1>6 DEF Agree, TypeOK, Counting
<1>7. ASSUME NEW s \in Sessions, Adjust(s) PROVE ~Backdated(req[t])'
  <2>1. CASE t = s
    BY <1>7, <2>1 DEF Adjust, Backdated
  <2>2. CASE t # s
    BY <1>0, <1>7, <2>2 DEF Adjust, TypeOK, Counting
  <2>. QED BY <2>1, <2>2
<1>8. ASSUME NEW s \in Sessions, SelectUnmarked(s) PROVE ~Backdated(req[t])'
  BY <1>0, <1>8 DEF SelectUnmarked, TypeOK, Counting
<1>9. ASSUME NEW s \in Sessions, CommitReconciliation(s) PROVE ~Backdated(req[t])'
  <2>1. t # s /\ Counting(t) /\ req'[t] = req[t] /\ own'[t] = own[t]
    BY <1>1, <1>9 DEF CommitReconciliation
  <2>2. req[s].account # req[t].account
    BY <1>9, <2>1, OneReconciliation DEF CommitReconciliation, Reconciling, Counting
  <2>3. \A i \in DOMAIN recons' :
          \/ recons'[i].account = req[s].account
          \/ i \in DOMAIN recons /\ recons'[i] = recons[i]
    BY <1>9 DEF CommitReconciliation, TypeOK
  <2>. QED BY <1>0, <2>1, <2>2, <2>3
<1>10. CASE UNCHANGED vars
  BY <1>0, <1>10 DEF vars, Counting
<1>. QED
  BY <1>2, <1>3, <1>4, <1>5, <1>6, <1>7, <1>8, <1>9, <1>10
  DEF Next, Reconcile, Rollback

\* Every step preserves MarksAreCounted.
LEMMA MarksStep ==
  TypeOK /\ LocksHeld /\ CountStillHolds /\ MarksAreCounted /\ [Next]_vars
    => MarksAreCounted'
<1> SUFFICES ASSUME TypeOK, LocksHeld, CountStillHolds, MarksAreCounted, [Next]_vars,
                    NEW t \in Sessions, pc'[t] = "selected"
             PROVE  marks'[t] \subseteq DOMAIN own'[t] \cup DOMAIN seen'[t] \cup touched'[t]
  BY DEF MarksAreCounted
<1> DEFINE Same == /\ pc[t] = "selected" /\ touched[t] \subseteq touched'[t]
                   /\ own'[t] = own[t] /\ seen'[t] = seen[t] /\ marks'[t] = marks[t]
           Goal == marks'[t] \subseteq DOMAIN own'[t] \cup DOMAIN seen'[t] \cup touched'[t]
<1>0. ASSUME Same PROVE Goal
  BY <1>0 DEF MarksAreCounted
<1>1. ASSUME NEW s \in Sessions, Close(s),
             touched' = [touched EXCEPT ![s] = {}]
                \/ \E table : PublishEdit(s, table)
      PROVE  Same
  <2>1. t # s
    BY <1>1, CloseEffect
  <2>2. touched[t] \subseteq touched'[t]
    BY <1>1, <2>1 DEF PublishEdit, TypeOK
  <2>. QED BY <1>1, <2>1, <2>2, CloseEffect
<1>2. ASSUME NEW s \in Sessions, Write(s) PROVE Same
  <2>1. ASSUME NEW account, NEW amount, NEW date, Insert(s, account, amount, date)
        PROVE  Same
    BY <2>1 DEF Insert, TypeOK
  <2>2. ASSUME Load(s) PROVE Same
    BY <2>2 DEF Load, TypeOK
  <2>3. ASSUME CommitInsert(s) PROVE Same
    BY <1>1, <2>3 DEF CommitInsert, Publish
  <2>4. ASSUME NEW account, NEW amount, NEW date, CommitUpdate(s, account, amount, date)
        PROVE  Same
    BY <1>1, <2>4 DEF CommitUpdate
  <2>5. ASSUME CommitDelete(s) PROVE Same
    BY <1>1, <2>5 DEF CommitDelete
  <2>. QED BY <1>2, <2>1, <2>2, <2>3, <2>4, <2>5 DEF Write
<1>3. ASSUME NEW s \in Sessions, NEW q \in Request, LockAccount(s, q) PROVE Same
  BY <1>3 DEF LockAccount, TypeOK
<1>4. ASSUME NEW s \in Sessions, BalanceAt(s) PROVE Same
  BY <1>4 DEF BalanceAt, TypeOK
<1>5. ASSUME NEW s \in Sessions, Agree(s) PROVE Same
  BY <1>5 DEF Agree, TypeOK
<1>6. ASSUME NEW s \in Sessions, Adjust(s) PROVE Same
  BY <1>6 DEF Adjust, TypeOK
<1>7. ASSUME NEW s \in Sessions, SelectUnmarked(s) PROVE Goal
  <2>1. CASE t = s
    <3>1. /\ own' = own /\ seen' = seen /\ touched' = touched
          /\ marks'[s] = {r \in Window(Visible(s), req[s]) : ~Visible(s)[r].reconciled}
      BY <1>7 DEF SelectUnmarked, TypeOK
    <3>2. /\ DOMAIN Visible(s) = DOMAIN tx \cup DOMAIN own[s]
          /\ \A r \in DOMAIN tx \ DOMAIN own[s] : Visible(s)[r] = tx[r]
      BY DEF Visible, Merged
    <3>3. \A r \in Rows \ touched[s] : r \in DOMAIN Counted(tx, req[s]) => r \in DOMAIN seen[s]
      BY <1>7, <2>1 DEF CountStillHolds, SelectUnmarked, Counting, SameAt
    <3>4. DOMAIN Counted(tx, req[s]) = Window(tx, req[s]) /\ DOMAIN tx \subseteq Rows
      BY DEF Counted, TypeOK, IsTable
    <3>5. marks'[s] \subseteq DOMAIN own[s] \cup Window(tx, req[s])
      BY <3>1, <3>2 DEF Window
    <3>6. Window(tx, req[s]) \subseteq DOMAIN seen[s] \cup touched[s]
      BY <3>3, <3>4 DEF Window
    <3>. QED BY <2>1, <3>1, <3>5, <3>6
  <2>2. CASE t # s
    <3>1. Same
      BY <1>7, <2>2 DEF SelectUnmarked, TypeOK
    <3>. QED BY <1>0, <3>1
  <2>. QED BY <2>1, <2>2
<1>8. ASSUME NEW s \in Sessions, CommitReconciliation(s) PROVE Same
  BY <1>1, <1>8 DEF CommitReconciliation, Publish
<1>9. ASSUME NEW s \in Sessions, Rollback(s) PROVE Same
  BY <1>1, <1>9 DEF Rollback
<1>10. ASSUME UNCHANGED vars PROVE Same
  BY <1>10 DEF vars
<1> HIDE DEF Same
<1>. QED
  BY <1>0, <1>2, <1>3, <1>4, <1>5, <1>6, <1>7, <1>8, <1>9, <1>10 DEF Next, Reconcile

\* What StampsHold says of one row.
StampOf(row) == row.reconciled /\ ~row.raced => row.vouched = {BalanceMark(row)}

\* An update takes the stamp away, or the row is raced, or it was not moved.
LEMMA StampUpdated ==
  ASSUME NEW row \in Row, NEW old \in Row, NEW account \in Accounts,
         NEW amount \in Int, NEW date \in Moments, StampOf(row)
  PROVE  StampOf(Updated(row, old, account, amount, date))
<1> DEFINE new == Updated(row, old, account, amount, date)
<1>1. CASE BalanceMark(old) = <<account, amount, date>>
  <2>1. account = old.account /\ amount = old.amount /\ date = old.date
    BY <1>1 DEF BalanceMark
  <2>2. /\ new.account = row.account /\ new.amount = row.amount /\ new.date = row.date
        /\ new.reconciled = row.reconciled
        /\ new.vouched = row.vouched /\ new.raced = row.raced
    BY <1>1, <2>1 DEF Updated, Row
  <2>3. BalanceMark(new) = BalanceMark(row)
    BY <2>2 DEF BalanceMark
  <2>. QED BY <2>2, <2>3 DEF StampOf
<1>2. CASE BalanceMark(old) # <<account, amount, date>>
  <2>1. new.reconciled => new.raced
    BY <1>2 DEF Updated, Row
  <2>. QED BY <2>1 DEF StampOf
<1>. QED BY <1>1, <1>2

\* A reconciliation stamps what it has counted, and what has raced it.
LEMMA StampedRow ==
  ASSUME TypeOK, LocksHeld, CountStillHolds, MarksAreCounted,
         NEW s \in Sessions, CommitReconciliation(s),
         NEW r \in DOMAIN Visible(s), r \in marks[s]
  PROVE  StampOf(Stamped(s, r))
<1>1. Visible(s)[r] \in Row /\ r \in Rows
  BY VisibleTable DEF IsTable
<1>2. /\ BalanceMark(Stamped(s, r)) = BalanceMark(Visible(s)[r])
      /\ Stamped(s, r).raced = (r \in touched[s])
  BY <1>1 DEF Stamped, BalanceMark, Row
<1> SUFFICES ASSUME r \notin touched[s]
             PROVE  Stamped(s, r).vouched = {BalanceMark(Visible(s)[r])}
  BY <1>2 DEF StampOf
<1>3. CASE r \in DOMAIN seen[s]
  <2>1. SameAt(r, Counted(tx, req[s]), seen[s])
    BY <1>1 DEF CountStillHolds, CommitReconciliation, Counting
  <2>2. r \in Window(tx, req[s]) /\ seen[s][r] = BalanceMark(tx[r])
    BY <1>3, <2>1 DEF SameAt, Counted
  <2>3. r \in DOMAIN tx /\ r \notin DOMAIN own[s]
    BY <2>2 DEF Window, LocksHeld, OwnRow
  <2>4. Visible(s)[r] = tx[r]
    BY <2>3 DEF Visible, Merged
  <2>. QED BY <1>1, <1>3, <2>2, <2>4 DEF Stamped, Row
<1>4. CASE r \notin DOMAIN seen[s]
  <2>1. r \in DOMAIN own[s]
    BY <1>4 DEF MarksAreCounted, CommitReconciliation
  <2>2. Visible(s)[r] = own[s][r]
    BY <2>1 DEF Visible, Merged
  <2>. QED BY <1>1, <1>4, <2>1, <2>2 DEF Stamped, Row
<1>. QED BY <1>3, <1>4

\* Every step preserves StampsHold.
LEMMA StampsStep ==
  TypeOK /\ LocksHeld /\ CountStillHolds /\ MarksAreCounted /\ StampsHold /\ [Next]_vars
    => StampsHold'
<1> SUFFICES ASSUME TypeOK, LocksHeld, CountStillHolds, MarksAreCounted, StampsHold,
                    [Next]_vars, NEW r \in DOMAIN tx'
             PROVE  StampOf(tx'[r])
  BY DEF StampsHold, StampOf
<1>0. \A x \in DOMAIN tx : StampOf(tx[x])
  BY DEF StampsHold, StampOf
<1>1. ASSUME tx' = tx PROVE StampOf(tx'[r])
  BY <1>0, <1>1
<1>2. ASSUME NEW s \in Sessions, Write(s) PROVE StampOf(tx'[r])
  <2>1. ASSUME CommitInsert(s) PROVE StampOf(tx'[r])
    <3>1. tx' = Merged(own[s], tx)
      BY <2>1 DEF CommitInsert, Publish, Visible
    <3>2. CASE r \in DOMAIN own[s]
      <4>1. tx'[r] = own[s][r] /\ ~own[s][r].reconciled
        BY <3>1, <3>2 DEF Merged, LocksHeld, OwnRow
      <4>. QED BY <4>1 DEF StampOf
    <3>3. CASE r \notin DOMAIN own[s]
      <4>1. r \in DOMAIN tx /\ tx'[r] = tx[r]
        BY <3>1, <3>3 DEF Merged
      <4>. QED BY <1>0, <4>1
    <3>. QED BY <3>2, <3>3
  <2>2. ASSUME NEW account \in Accounts, NEW amount \in Amounts, NEW date \in Moments,
               CommitUpdate(s, account, amount, date)
        PROVE  StampOf(tx'[r])
    <3>1. PICK x \in DOMAIN seen[s] \cap DOMAIN tx :
            PublishEdit(s, [tx EXCEPT ![x] = Updated(@, seen[s][x], account, amount, date)])
      BY <2>2 DEF CommitUpdate
    <3>2. tx[x] \in Row /\ seen[s][x] \in Row /\ amount \in Int
      BY <2>2, ReconciliationAssumption
      DEF CommitUpdate, TypeOK, IsTable, ReconciliationAssumption
    <3>3. StampOf(Updated(tx[x], seen[s][x], account, amount, date))
      BY <1>0, <3>2, StampUpdated
    <3>4. r \in DOMAIN tx
          /\ tx'[r] = IF r = x THEN Updated(tx[x], seen[s][x], account, amount, date)
                      ELSE tx[r]
      BY <3>1 DEF PublishEdit, TypeOK, IsTable
    <3>. QED BY <1>0, <3>3, <3>4
  <2>3. ASSUME CommitDelete(s) PROVE StampOf(tx'[r])
    <3>1. r \in DOMAIN tx /\ tx'[r] = tx[r]
      BY <2>3 DEF CommitDelete, PublishEdit, Restrict
    <3>. QED BY <1>0, <3>1
  <2>. QED BY <1>1, <1>2, <2>1, <2>2, <2>3 DEF Write, Load, Insert
<1>3. ASSUME NEW s \in Sessions, CommitReconciliation(s) PROVE StampOf(tx'[r])
  <2>1. tx' = [x \in DOMAIN Visible(s) |->
                 IF x \in marks[s] THEN Stamped(s, x) ELSE Visible(s)[x]]
    BY <1>3 DEF CommitReconciliation, Publish
  <2>2. r \in DOMAIN Visible(s)
    BY <2>1
  <2>3. CASE r \in marks[s]
    BY <1>3, <2>1, <2>2, <2>3, StampedRow
  <2>4. CASE r \notin marks[s] /\ r \in DOMAIN own[s]
    <3>1. tx'[r] = own[s][r] /\ ~own[s][r].reconciled
      BY <2>1, <2>4 DEF Visible, Merged, LocksHeld, OwnRow
    <3>. QED BY <3>1 DEF StampOf
  <2>5. CASE r \notin marks[s] /\ r \notin DOMAIN own[s]
    <3>1. r \in DOMAIN tx /\ tx'[r] = tx[r]
      BY <2>1, <2>5 DEF Visible, Merged
    <3>. QED BY <1>0, <3>1
  <2>. QED BY <2>3, <2>4, <2>5
<1>. QED
  BY <1>1, <1>2, <1>3
  DEF Next, Reconcile, LockAccount, BalanceAt, Agree, Adjust, SelectUnmarked, Rollback, vars

LEMMA InvInit == Init => Inv
  BY TypeInit, ReconciliationAssumption
  DEF Init, Inv, LocksHeld, CountStillHolds, AdjustmentIsDifference, Settled,
      MarksAreCounted, StillNotBackdated, StampsHold, Reconciling, Counting, NoRows

LEMMA InvStep == Inv /\ [Next]_vars => Inv'
  BY TypeStep, LocksStep, CountStep, AdjustmentStep, MarksStep, BackdatedStep,
     StampsStep DEF Inv

\* The inductive invariant holds in every reachable state.
THEOREM Invariant == Spec => []Inv
  BY InvInit, InvStep, PTL DEF Spec

\* While a reconciliation runs, what it has counted stays true unless an
\* operation is edited or deleted.
THEOREM CountHolds == Spec => []CountStillHolds
<1>1. Inv => CountStillHolds
  BY DEF Inv
<1>. QED BY <1>1, Invariant, PTL

-----------------------------------------------------------------------------
(* The step in which a reconciliation commits.                             *)

\* Only CommitReconciliation of the session itself is such a step.
LEMMA WhoReconciles ==
  ASSUME TypeOK, [Next]_vars, NEW s \in Sessions, Reconciles(s)
  PROVE  CommitReconciliation(s)
<1>1. recons' # recons /\ Len(recons) \in Nat /\ Len(recons') # Len(recons)
  BY LenProperties DEF Reconciles, TypeOK
<1>2. PICK t \in Sessions : CommitDelete(t) \/ CommitReconciliation(t)
  BY <1>1 DEF Next, vars, Write, Reconcile, CommitInsert, Load, Insert, CommitUpdate,
     LockAccount, BalanceAt, Agree, Adjust, SelectUnmarked, Rollback
<1>3. ~CommitDelete(t)
  <2> SUFFICES ASSUME CommitDelete(t) PROVE FALSE
    OBVIOUS
  <2>1. recons \in [1 .. Len(recons) -> Record]
    BY LenProperties DEF TypeOK
  <2>2. PICK r : recons' = [i \in DOMAIN recons |-> [recons[i] EXCEPT !.adjustment = @ \ {r}]]
    BY DEF CommitDelete
  <2>3. Len(recons') = Len(recons)
    BY <1>1, <2>1, <2>2
  <2>. QED BY <1>1, <2>3
<1>4. t = s
  BY <1>2, <1>3, CloseEffect DEF CommitReconciliation, Reconciles, Counting
<1>. QED BY <1>2, <1>3, <1>4

\* The balance of the account on the request's date after the commit: what
\* was counted, and the adjustment.
LEMMA BalanceAfter ==
  ASSUME Inv, NEW s \in Sessions, CommitReconciliation(s), touched[s] = {}
  PROVE  Computed(req[s], Counted(tx', req[s])) = req[s].statement
<1> DEFINE before == [r \in DOMAIN seen[s] |-> seen[s][r][2]]
           after == [r \in DOMAIN Counted(tx', req[s]) |-> Counted(tx', req[s])[r][2]]
<1>1. Counting(s) /\ seen[s] = Counted(tx, req[s])
  <2>1. Counting(s)
    BY DEF CommitReconciliation, Counting
  <2>2. IsCount(seen[s]) /\ IsCount(Counted(tx, req[s]))
    BY <2>1, CountType DEF Inv, TypeOK
  <2>3. \A r \in Rows : SameAt(r, Counted(tx, req[s]), seen[s])
    BY <2>1 DEF Inv, CountStillHolds
  <2>. QED BY <2>1, <2>2, <2>3, SameCounts
<1>2. /\ DOMAIN tx' = DOMAIN tx \cup DOMAIN own[s]
      /\ DOMAIN tx \cap DOMAIN own[s] = {}
      /\ \A r \in DOMAIN tx : BalanceMark(tx'[r]) = BalanceMark(tx[r])
      /\ \A r \in DOMAIN own[s] :
           /\ tx'[r].account = req[s].account
           /\ tx'[r].date = req[s].date
           /\ tx'[r].amount = own[s][r].amount
  BY ReconciledTable DEF Inv
<1>3. /\ Difference(s) \in Int /\ Computed(req[s], seen[s]) \in Int
      /\ req[s].statement \in Int /\ req[s].date \in Int
      /\ Opening[req[s].account] \in Int /\ Total(seen[s]) \in Int
  BY <1>1, DifferenceType, TotalType, ReconciliationAssumption
  DEF Inv, TypeOK, Reconciling, Request, ReconciliationAssumption
<1>4. CASE DOMAIN own[s] = {} /\ Difference(s) = 0
  <2>1. Counted(tx', req[s]) = Counted(tx, req[s])
    BY <1>2, <1>4, SameCount
  <2>. QED BY <1>1, <1>3, <1>4, <2>1 DEF Difference
<1>5. ASSUME NEW r \in Rows, DOMAIN own[s] = {r}, own[s][r].amount = Difference(s)
      PROVE  Computed(req[s], Counted(tx', req[s])) = req[s].statement
  <2>1. \A x \in DOMAIN tx : tx'[x].account = tx[x].account /\ tx'[x].date = tx[x].date
    BY <1>2 DEF BalanceMark
  <2>2. /\ Window(tx', req[s]) = Window(tx, req[s]) \cup {r}
        /\ r \notin Window(tx, req[s])
    BY <1>2, <1>3, <1>5, <2>1 DEF Window
  <2>3. DOMAIN seen[s] = Window(tx, req[s]) /\ r \notin DOMAIN seen[s]
    BY <1>1, <2>2 DEF Counted
  <2>4. \A x \in DOMAIN seen[s] : BalanceMark(tx'[x])[2] = seen[s][x][2]
    BY <1>1, <1>2, <2>3 DEF Counted, Window
  <2>5. BalanceMark(tx'[r])[2] = Difference(s)
    BY <1>2, <1>5 DEF BalanceMark
  <2>6. after = [x \in DOMAIN seen[s] \cup {r} |->
                   IF x = r THEN Difference(s) ELSE before[x]]
    BY <2>2, <2>3, <2>4, <2>5 DEF Counted
  <2>7. IsFiniteSet(DOMAIN seen[s]) /\ before \in [DOMAIN seen[s] -> Int]
    BY <1>1, ReconciliationAssumption, FS_Subset
    DEF Inv, TypeOK, IsCount, ReconciliationAssumption
  <2>8. SumOf(after) = SumOf(before) + Difference(s)
    <3> DEFINE D == DOMAIN seen[s]
               d == Difference(s)
    <3>1. IsFiniteSet(D) /\ before \in [D -> Int] /\ r \notin D /\ d \in Int
      BY <1>3, <2>3, <2>7
    <3>2. after = [x \in D \cup {r} |-> IF x = r THEN d ELSE before[x]]
      BY <2>6
    <3>3. SumOf(after) = SumOf(before) + d
      <4> HIDE DEF before, after, D, d
      <4>. QED BY <3>1, <3>2, SumInsert
    <3>. QED BY <3>3
  <2>9. Total(Counted(tx', req[s])) = Total(seen[s]) + Difference(s)
    BY <2>8 DEF Total
  <2>10. Opening[req[s].account] + (Total(seen[s]) + Difference(s)) = req[s].statement
    BY <1>3 DEF Difference, Computed
  <2>. QED BY <2>9, <2>10 DEF Computed
<1>. QED BY <1>4, <1>5 DEF Inv, AdjustmentIsDifference, Settled, CommitReconciliation

\* A committed reconciliation leaves the account at the bank's figure.
THEOREM DifferenceClosed == Spec => ClosesTheDifference
<1>1. Inv /\ [Next]_vars =>
        \A s \in Sessions : Reconciles(s) /\ touched[s] = {} =>
          Computed(req[s], Counted(tx', req[s])) = req[s].statement
  BY WhoReconciles, BalanceAfter DEF Inv
<1>. QED BY <1>1, Invariant, PTL DEF Spec, ClosesTheDifference

\* A stamp that no edit has raced is that of a reconciliation which counted
\* the operation as it is now, for as long as it is there.
THEOREM StampsAlwaysHold == Spec => []StampsHold
<1>1. Inv => StampsHold
  BY DEF Inv
<1>. QED BY <1>1, Invariant, PTL

\* An adjustment never lands before a committed reconciliation of its account.
THEOREM NotBackdated == Spec => AdjustmentsNotBackdated
<1>1. Inv /\ [Next]_vars =>
        \A s \in Sessions : Reconciles(s) /\ recons'[Len(recons')].adjustment # {} =>
          \A i \in DOMAIN recons :
            recons[i].account = req[s].account => recons[i].date <= req[s].date
  <2> SUFFICES ASSUME Inv, [Next]_vars, NEW s \in Sessions, Reconciles(s),
                      recons'[Len(recons')].adjustment # {},
                      NEW i \in DOMAIN recons, recons[i].account = req[s].account
               PROVE  recons[i].date <= req[s].date
    OBVIOUS
  <2>1. CommitReconciliation(s)
    BY WhoReconciles DEF Inv
  <2>2. recons'[Len(recons')].adjustment = DOMAIN own[s]
    BY <2>1 DEF CommitReconciliation, Inv, TypeOK
  <2>3. ~Backdated(req[s])
    BY <2>2 DEF Inv, StillNotBackdated, Reconciles
  <2>4. recons[i].date \in Int /\ req[s].date \in Int
    <3>1. recons[i] \in Record
      BY LenProperties DEF Inv, TypeOK
    <3>2. req[s] \in Request
      BY <2>1 DEF Inv, TypeOK, CommitReconciliation, Reconciling, Counting
    <3>. QED BY <3>1, <3>2, ReconciliationAssumption
         DEF Request, Record, ReconciliationAssumption
  <2>. QED BY <2>3, <2>4 DEF Backdated
<1>. QED BY <1>1, Invariant, PTL DEF Spec, AdjustmentsNotBackdated

=============================================================================
