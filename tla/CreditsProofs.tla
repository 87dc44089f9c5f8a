---------------------------- MODULE CreditsProofs ----------------------------
(***************************************************************************)
(* Proofs about Credits, for any number of credits, payments and sessions, *)
(* and about Payoff, for any credits and terms.  The two share no variable.*)
(***************************************************************************)
EXTENDS Credits, Payoff, SumsProofs

(* The inductive invariant.                                                *)

\* What a session holds, stale or not: a debt that was not overpaid, a payment
\* that is as it was found, or is gone together with its operation.
Sane(s) ==
  /\ Holding(s) => read[s].balance >= 0
  /\ Deleting(s) =>
       /\ about[s] = found[s].row.credit
       /\ found[s].id \in DOMAIN payment => payment[found[s].id] = found[s].row
       /\ found[s].id \notin DOMAIN payment => found[s].row.operation \notin DOMAIN operation

\* What a session that is not stale holds is what the tables hold.
Current(s) ==
  /\ Holding(s) => /\ read[s].balance = credit[about[s]].balance
                   /\ read[s].initial = credit[about[s]].initial
  /\ Deleting(s) => found[s].id \in DOMAIN payment
  /\ pc[s] = "cleared" => PaymentsOf(about[s]) = {}

PaymentsHaveCredits == \A p \in DOMAIN payment : payment[p].credit \in DOMAIN credit

Inv ==
  /\ TypeOK
  /\ \A s \in Sessions : Sane(s)
  /\ \A s \in Sessions \ stale : Current(s)
  /\ PaymentsHaveCredits
  /\ DebtMatchesUnlessRaced
  /\ DebtNeverNegative
  /\ PaymentsMatchOperations

-----------------------------------------------------------------------------
(* Tables.                                                                 *)

\* Setting a column of one credit.
LEMMA CreditType ==
  ASSUME IsRows(credit, CreditIds, Credit), NEW c \in DOMAIN credit,
         NEW row \in Credit, credit' = [credit EXCEPT ![c] = row]
  PROVE  /\ IsRows(credit', CreditIds, Credit)
         /\ DOMAIN credit' = DOMAIN credit
         /\ credit'[c] = row
         /\ \A d \in DOMAIN credit \ {c} : credit'[d] = credit[d]
  BY DEF IsRows

-----------------------------------------------------------------------------
(* What the payments of a credit add up to.                                *)

\* The payments of a credit have a sum.
LEMMA PaymentsAddUp ==
  ASSUME IsRows(payment, Payments, Payment), NEW c
  PROVE  /\ IsFiniteSet(PaymentsOf(c))
         /\ [p \in PaymentsOf(c) |-> payment[p].principal] \in [PaymentsOf(c) -> Int]
         /\ Repaid(c) \in Int
<1>1. PaymentsOf(c) \subseteq Payments /\ IsFiniteSet(Payments)
  BY CreditsAssumption DEF PaymentsOf, IsRows, CreditsAssumption
<1>2. IsFiniteSet(PaymentsOf(c))
  BY <1>1, FS_Subset
<1>3. [p \in PaymentsOf(c) |-> payment[p].principal] \in [PaymentsOf(c) -> Int]
  BY DEF PaymentsOf, IsRows, Payment
<1>4. Repaid(c) \in Int
  BY <1>2, <1>3, SumType DEF Repaid
<1>. QED BY <1>2, <1>3, <1>4

\* No payments have repaid nothing.
LEMMA NothingRepaid ==
  ASSUME NEW c, PaymentsOf(c) = {}
  PROVE  Repaid(c) = 0
  BY SumOfNone DEF Repaid

\* A new payment adds its principal to its credit and to no other.
LEMMA RepaidByNew ==
  ASSUME IsRows(payment, Payments, Payment), NEW p \in Payments \ DOMAIN payment,
         NEW row \in Payment, payment' = With(payment, p, row), NEW c
  PROVE  Repaid(c)' = Repaid(c) + IF row.credit = c THEN row.principal ELSE 0
<1> DEFINE S == PaymentsOf(c)
           f == [x \in PaymentsOf(c) |-> payment[x].principal]
           g == [x \in PaymentsOf(c) |-> payment[x].principal]'
<1>0. /\ IsFiniteSet(S)
      /\ f \in [S -> Int]
      /\ Repaid(c) = SumOf(f)
      /\ Repaid(c)' = SumOf(g)
      /\ Repaid(c) \in Int
  BY PaymentsAddUp DEF Repaid
<1>1. /\ DOMAIN payment' = DOMAIN payment \cup {p}
      /\ payment'[p] = row
      /\ \A x \in DOMAIN payment \ {p} : payment'[x] = payment[x]
  BY DEF With
<1>2. CASE row.credit = c
  <2>1. PaymentsOf(c)' = S \cup {p} /\ p \notin S
    BY <1>1, <1>2 DEF PaymentsOf
  <2>2. g = [x \in S \cup {p} |-> IF x = p THEN row.principal ELSE f[x]]
    BY <2>1, <1>1 DEF PaymentsOf
  <2>3. p \notin S /\ row.principal \in Int
    BY <2>1 DEF Payment
  <2>4. SumOf(g) = SumOf(f) + row.principal
    <3> DEFINE v == row.principal
    <3>1. IsFiniteSet(S) /\ f \in [S -> Int] /\ p \notin S /\ v \in Int
      BY <1>0, <2>3
    <3>2. g = [x \in S \cup {p} |-> IF x = p THEN v ELSE f[x]]
      BY <2>2
    <3>3. SumOf(g) = SumOf(f) + v
      <4> HIDE DEF S, f, g, v
      <4>. QED BY SMTT(60), <3>1, <3>2, SumInsert
    <3>. QED BY <3>3
  <2> HIDE DEF S, f, g
  <2>. QED BY <1>0, <1>2, <2>3, <2>4
<1>3. CASE row.credit # c
  <2>1. PaymentsOf(c)' = S
    BY <1>1, <1>3 DEF PaymentsOf
  <2>2. g = f
    BY <2>1, <1>1 DEF PaymentsOf
  <2> HIDE DEF f, g
  <2>. QED BY <1>0, <1>3, <2>2
<1>. QED BY <1>2, <1>3

\* A payment that goes takes its principal from its credit and from no other;
\* deleting one that is gone changes nothing.
LEMMA RepaidByLess ==
  ASSUME IsRows(payment, Payments, Payment), NEW p,
         payment' = Without(payment, p), NEW c
  PROVE  Repaid(c)' = Repaid(c) -
           IF p \in DOMAIN payment /\ payment[p].credit = c
           THEN payment[p].principal ELSE 0
<1> DEFINE S == PaymentsOf(c)
           f == [x \in PaymentsOf(c) |-> payment[x].principal]
           g == [x \in PaymentsOf(c) |-> payment[x].principal]'
<1>0. /\ IsFiniteSet(S)
      /\ f \in [S -> Int]
      /\ Repaid(c) = SumOf(f)
      /\ Repaid(c)' = SumOf(g)
      /\ Repaid(c) \in Int
  BY PaymentsAddUp DEF Repaid
<1>1. /\ DOMAIN payment' = DOMAIN payment \ {p}
      /\ \A x \in DOMAIN payment \ {p} : payment'[x] = payment[x]
  BY DEF Without
<1>2. CASE p \in S
  <2>1. PaymentsOf(c)' = S \ {p}
    BY <1>1 DEF PaymentsOf
  <2>2. g = [x \in S \ {p} |-> f[x]]
    BY <2>1, <1>1 DEF PaymentsOf
  <2>3. f[p] = payment[p].principal /\ p \in DOMAIN payment /\ payment[p].credit = c
    BY <1>2 DEF PaymentsOf
  <2> HIDE DEF S, f, g
  <2>4. SumOf(g) = SumOf(f) - f[p]
    BY <1>0, <1>2, <2>2, SumDelete
  <2>. QED BY <1>0, <2>3, <2>4
<1>3. CASE p \notin S
  <2>1. PaymentsOf(c)' = S
    BY <1>1, <1>3 DEF PaymentsOf
  <2>2. g = f
    BY <2>1, <1>1, <1>3 DEF PaymentsOf
  <2>3. ~(p \in DOMAIN payment /\ payment[p].credit = c)
    BY <1>3 DEF PaymentsOf
  <2> HIDE DEF f, g
  <2>. QED BY <1>0, <2>2, <2>3
<1>. QED BY <1>2, <1>3

\* The sum depends on the payments alone.
LEMMA RepaidSame ==
  ASSUME payment' = payment, NEW c
  PROVE  PaymentsOf(c)' = PaymentsOf(c) /\ Repaid(c)' = Repaid(c)
  BY DEF PaymentsOf, Repaid

-----------------------------------------------------------------------------
(* Steps that write no row.                                                *)

\* A session that closes holds nothing, and the others what they held.
LEMMA CloseEffect ==
  ASSUME TypeOK, NEW s \in Sessions, Close(s)
  PROVE  /\ pc'[s] = "idle"
         /\ \A t \in Sessions \ {s} : /\ pc'[t] = pc[t]
                                      /\ about'[t] = about[t]
                                      /\ read'[t] = read[t]
                                      /\ found'[t] = found[t]
  BY DEF TypeOK, Close

\* Closing keeps the types of what it resets.
LEMMA CloseType ==
  ASSUME TypeOK, NEW s \in Sessions, Close(s),
         IsRows(credit', CreditIds, Credit), IsRows(payment', Payments, Payment),
         IsRows(operation', Operations, Int), DOMAIN credit \subseteq DOMAIN credit',
         stale' \subseteq Sessions, raced' \subseteq CreditIds
  PROVE  TypeOK'
<1>1. /\ pc' \in [Sessions -> {"idle", "paying", "updating", "cleared",
                               "archiving", "found", "returning"}]
      /\ about' \in [Sessions -> CreditIds \cup {Nothing}]
  BY DEF TypeOK, Close
<1>2. /\ read' = [t \in Sessions |-> read'[t]]
      /\ found' = [t \in Sessions |-> found'[t]]
  BY DEF TypeOK, Close
<1>3. ASSUME NEW t \in Sessions
      PROVE  /\ pc'[t] # "idle" => about'[t] \in DOMAIN credit'
             /\ Holding(t)' => read'[t] \in Credit
             /\ Deleting(t)' => found'[t] \in [id : Payments, row : Payment]
  BY CloseEffect DEF TypeOK, Holding, Deleting
<1>. QED BY <1>1, <1>2, <1>3 DEF TypeOK

\* A request that is rolled back leaves the tables as they were.
LEMMA RollbackInv ==
  ASSUME Inv, NEW s \in Sessions, Rollback(s)
  PROVE  Inv'
<1>1. TypeOK'
  BY CloseType DEF Inv, TypeOK, Rollback
<1>2. /\ pc'[s] = "idle"
      /\ \A t \in Sessions \ {s} : /\ pc'[t] = pc[t]
                                   /\ about'[t] = about[t]
                                   /\ read'[t] = read[t]
                                   /\ found'[t] = found[t]
  BY CloseEffect DEF Inv, Rollback
<1>3. ASSUME NEW t \in Sessions
      PROVE  Sane(t)' /\ (t \notin stale' => Current(t)')
  BY <1>2 DEF Inv, Rollback, Sane, Current, Holding, Deleting, PaymentsOf
<1>4. \A c \in DOMAIN credit : Repaid(c)' = Repaid(c)
  BY RepaidSame DEF Rollback
<1>. QED
  BY <1>1, <1>3, <1>4
  DEF Inv, Rollback, PaymentsHaveCredits, DebtMatchesUnlessRaced, DebtNeverNegative,
      PaymentsMatchOperations

\* Reading the credit takes its row as it is.
LEMMA LoadCreditInv ==
  ASSUME Inv, NEW s \in Sessions, NEW c \in CreditIds,
         NEW purpose \in {"paying", "updating", "archiving"}, LoadCredit(s, c, purpose)
  PROVE  Inv'
<1>1. TypeOK'
  BY DEF Inv, TypeOK, LoadCredit, Holding, Deleting, IsRows
<1>2. /\ c \in DOMAIN credit
      /\ pc'[s] = purpose /\ about'[s] = c /\ read'[s] = credit[c]
      /\ \A t \in Sessions \ {s} : /\ pc'[t] = pc[t]
                                   /\ about'[t] = about[t]
                                   /\ read'[t] = read[t]
      /\ found' = found
  BY DEF Inv, TypeOK, LoadCredit
<1>3. ASSUME NEW t \in Sessions
      PROVE  Sane(t)' /\ (t \notin stale' => Current(t)')
  BY <1>2 DEF Inv, LoadCredit, Sane, Current, Holding, Deleting, PaymentsOf, DebtNeverNegative
<1>4. \A d \in DOMAIN credit : Repaid(d)' = Repaid(d)
  BY RepaidSame DEF LoadCredit
<1>. QED
  BY <1>1, <1>3, <1>4
  DEF Inv, LoadCredit, PaymentsHaveCredits, DebtMatchesUnlessRaced, DebtNeverNegative,
      PaymentsMatchOperations

\* has_payments reads what there is.
LEMMA SeeNoPaymentsInv ==
  ASSUME Inv, NEW s \in Sessions, SeeNoPayments(s)
  PROVE  Inv'
<1>1. TypeOK'
  BY DEF Inv, TypeOK, SeeNoPayments, Holding, Deleting, IsRows
<1>2. /\ pc[s] = "updating" /\ pc'[s] = "cleared"
      /\ \A t \in Sessions \ {s} : pc'[t] = pc[t]
  BY DEF Inv, TypeOK, SeeNoPayments
<1>3. ASSUME NEW t \in Sessions
      PROVE  Sane(t)' /\ (t \notin stale' => Current(t)')
  BY <1>2 DEF Inv, SeeNoPayments, Sane, Current, Holding, Deleting, PaymentsOf
<1>4. \A d \in DOMAIN credit : Repaid(d)' = Repaid(d)
  BY RepaidSame DEF SeeNoPayments
<1>. QED
  BY <1>1, <1>3, <1>4
  DEF Inv, SeeNoPayments, PaymentsHaveCredits, DebtMatchesUnlessRaced, DebtNeverNegative,
      PaymentsMatchOperations

\* Finding a payment to delete reads its row.
LEMMA FindPaymentInv ==
  ASSUME Inv, NEW s \in Sessions, NEW p \in Payments, FindPayment(s, p)
  PROVE  Inv'
<1>1. TypeOK'
  BY DEF Inv, TypeOK, FindPayment, Holding, Deleting, IsRows, PaymentsHaveCredits, Payment
<1>2. /\ p \in DOMAIN payment
      /\ pc'[s] = "found" /\ about'[s] = payment[p].credit
      /\ found'[s] = [id |-> p, row |-> payment[p]]
      /\ \A t \in Sessions \ {s} : /\ pc'[t] = pc[t]
                                   /\ about'[t] = about[t]
                                   /\ found'[t] = found[t]
      /\ read' = read
  BY DEF Inv, TypeOK, FindPayment
<1>3. ASSUME NEW t \in Sessions
      PROVE  Sane(t)' /\ (t \notin stale' => Current(t)')
  BY <1>2 DEF Inv, FindPayment, Sane, Current, Holding, Deleting, PaymentsOf
<1>4. \A d \in DOMAIN credit : Repaid(d)' = Repaid(d)
  BY RepaidSame DEF FindPayment
<1>. QED
  BY <1>1, <1>3, <1>4
  DEF Inv, FindPayment, PaymentsHaveCredits, DebtMatchesUnlessRaced, DebtNeverNegative,
      PaymentsMatchOperations

\* So does reading its credit.
LEMMA FindItsCreditInv ==
  ASSUME Inv, NEW s \in Sessions, FindItsCredit(s)
  PROVE  Inv'
<1>1. TypeOK'
  BY DEF Inv, TypeOK, FindItsCredit, Holding, Deleting, IsRows
<1>2. /\ pc[s] = "found" /\ pc'[s] = "returning"
      /\ about[s] \in DOMAIN credit /\ read'[s] = credit[about[s]]
      /\ \A t \in Sessions \ {s} : pc'[t] = pc[t] /\ read'[t] = read[t]
      /\ about' = about /\ found' = found
  BY DEF Inv, TypeOK, FindItsCredit
<1>3. ASSUME NEW t \in Sessions
      PROVE  Sane(t)' /\ (t \notin stale' => Current(t)')
  BY <1>2 DEF Inv, FindItsCredit, Sane, Current, Holding, Deleting, PaymentsOf, DebtNeverNegative
<1>4. \A d \in DOMAIN credit : Repaid(d)' = Repaid(d)
  BY RepaidSame DEF FindItsCredit
<1>. QED
  BY <1>1, <1>3, <1>4
  DEF Inv, FindItsCredit, PaymentsHaveCredits, DebtMatchesUnlessRaced, DebtNeverNegative,
      PaymentsMatchOperations

-----------------------------------------------------------------------------
(* Steps that write.                                                       *)

\* A new credit owes what it was taken for, and no payment is its own.
LEMMA CreateCreditInv ==
  ASSUME Inv, NEW c \in CreditIds, NEW initial \in Initials, CreateCredit(c, initial)
  PROVE  Inv'
<1> DEFINE row == [initial |-> initial, balance |-> initial, archived |-> FALSE]
<1>0. initial \in Int /\ initial >= 0 /\ row \in Credit
  BY CreditsAssumption DEF CreditsAssumption, Credit
<1>1. /\ DOMAIN credit' = DOMAIN credit \cup {c}
      /\ credit'[c] = row
      /\ \A d \in DOMAIN credit : credit'[d] = credit[d] /\ d # c
  BY DEF CreateCredit, With
<1>2. IsRows(credit', CreditIds, Credit)
  BY <1>0 DEF Inv, TypeOK, CreateCredit, With, IsRows
<1>3. TypeOK'
  BY <1>1, <1>2 DEF Inv, TypeOK, CreateCredit, Holding, Deleting
<1>4. ASSUME NEW t \in Sessions
      PROVE  Sane(t)' /\ (t \notin stale' => Current(t)')
  <2>1. pc[t] # "idle" => credit'[about[t]] = credit[about[t]]
    BY <1>1 DEF Inv, TypeOK
  <2>2. Sane(t)' = Sane(t)
    BY DEF CreateCredit, Sane, Holding, Deleting
  <2>3. Current(t) => Current(t)'
    BY <2>1 DEF CreateCredit, Current, Holding, Deleting, PaymentsOf
  <2>. QED BY <2>2, <2>3 DEF Inv, CreateCredit
<1>5. \A d : Repaid(d)' = Repaid(d)
  BY RepaidSame DEF CreateCredit
<1>6. Repaid(c) = 0
  BY <1>1, NothingRepaid DEF Inv, PaymentsHaveCredits, PaymentsOf, CreateCredit
<1>7. DebtMatchesUnlessRaced'
  <2>. SUFFICES ASSUME NEW d \in DOMAIN credit' \ raced'
                PROVE  credit'[d].balance = credit'[d].initial - Repaid(d)'
    BY DEF DebtMatchesUnlessRaced
  <2>1. CASE d = c
    BY <1>0, <1>1, <1>5, <1>6, <2>1
  <2>2. CASE d # c
    BY <1>1, <1>5, <2>2 DEF Inv, DebtMatchesUnlessRaced, CreateCredit
  <2>. QED BY <2>1, <2>2
<1>8. PaymentsHaveCredits' /\ PaymentsMatchOperations'
  BY <1>1 DEF Inv, CreateCredit, PaymentsHaveCredits, PaymentsMatchOperations
<1>9. DebtNeverNegative'
  <2>1. credit'[c].balance >= 0
    BY <1>0, <1>1
  <2>. QED BY <1>1, <2>1 DEF Inv, DebtNeverNegative
<1>. QED BY <1>3, <1>4, <1>7, <1>8, <1>9 DEF Inv

\* What a commit that changes a credit or its payments leaves alone: the
\* sessions that are about other credits and are not stale.
LEMMA PublishEffect ==
  ASSUME TypeOK, NEW s \in Sessions, pc[s] # "idle", Publish(s)
  PROVE  /\ stale' \subseteq Sessions
         /\ raced' \subseteq CreditIds
         /\ raced \subseteq raced'
         /\ s \in stale => about[s] \in raced'
         /\ pc'[s] = "idle"
         /\ \A t \in Sessions \ {s} : /\ pc'[t] = pc[t]
                                      /\ about'[t] = about[t]
                                      /\ read'[t] = read[t]
                                      /\ found'[t] = found[t]
                                      /\ t \notin stale' => t \notin stale /\ about[t] # about[s]
<1>1. about[s] \in CreditIds
  BY DEF TypeOK, IsRows
<1>2. Close(s)
  BY DEF Publish
<1>3. /\ pc'[s] = "idle"
      /\ \A t \in Sessions \ {s} : /\ pc'[t] = pc[t]
                                   /\ about'[t] = about[t]
                                   /\ read'[t] = read[t]
                                   /\ found'[t] = found[t]
  BY <1>2, CloseEffect
<1>. QED BY <1>1, <1>3 DEF TypeOK, Publish

\* Sessions that are not stale after a commit still hold what the tables hold.
LEMMA PublishKeepsCurrent ==
  ASSUME Inv, NEW s \in Sessions, pc[s] # "idle", Publish(s),
         \A d \in DOMAIN credit \ {about[s]} : credit'[d] = credit[d],
         \A d \in CreditIds \ {about[s]} : PaymentsOf(d)' = PaymentsOf(d),
         \A p \in DOMAIN payment : payment[p].credit # about[s] => p \in DOMAIN payment',
         NEW t \in Sessions \ stale'
  PROVE  Current(t)'
<1>1. /\ pc'[s] = "idle"
      /\ t # s => /\ pc'[t] = pc[t]
                  /\ about'[t] = about[t]
                  /\ read'[t] = read[t]
                  /\ found'[t] = found[t]
                  /\ t \notin stale
                  /\ about[t] # about[s]
  BY PublishEffect DEF Inv
<1>2. CASE t = s
  BY <1>1, <1>2 DEF Current, Holding, Deleting
<1>3. CASE t # s /\ pc[t] = "idle"
  BY <1>1, <1>3 DEF Current, Holding, Deleting
<1>4. CASE t # s /\ pc[t] # "idle"
  <2>1. about[t] \in DOMAIN credit /\ about[t] \in CreditIds \ {about[s]}
    BY <1>1, <1>4 DEF Inv, TypeOK, IsRows
  <2>2. Current(t) /\ Sane(t)
    BY <1>1, <1>4 DEF Inv
  <2>3. Holding(t)' => /\ read'[t].balance = credit'[about'[t]].balance
                       /\ read'[t].initial = credit'[about'[t]].initial
    BY <1>1, <1>4, <2>1, <2>2 DEF Current, Holding
  <2>4. Deleting(t)' => found'[t].id \in DOMAIN payment'
    BY <1>1, <1>4, <2>1, <2>2 DEF Current, Sane, Deleting
  <2>5. pc'[t] = "cleared" => PaymentsOf(about[t])' = {}
    BY <1>1, <1>4, <2>1, <2>2 DEF Current
  <2>. QED BY <1>1, <1>4, <2>3, <2>4, <2>5 DEF Current, PaymentsOf
<1>. QED BY <1>2, <1>3, <1>4

\* Archiving touches no debt.
LEMMA CommitArchiveInv ==
  ASSUME Inv, NEW s \in Sessions, CommitArchive(s)
  PROVE  Inv'
<1>1. /\ pc'[s] = "idle"
      /\ \A t \in Sessions \ {s} : /\ pc'[t] = pc[t]
                                   /\ about'[t] = about[t]
                                   /\ read'[t] = read[t]
                                   /\ found'[t] = found[t]
  BY CloseEffect DEF Inv, CommitArchive
<1>2. /\ DOMAIN credit' = DOMAIN credit
      /\ IsRows(credit', CreditIds, Credit)
      /\ \A d \in DOMAIN credit : /\ credit'[d].balance = credit[d].balance
                                  /\ credit'[d].initial = credit[d].initial
  <2>1. about[s] \in DOMAIN credit /\ IsRows(credit, CreditIds, Credit)
    BY DEF Inv, TypeOK, CommitArchive
  <2>2. credit[about[s]] \in Credit
    BY <2>1 DEF IsRows
  <2>. QED BY <2>1, <2>2 DEF CommitArchive, IsRows, Credit
<1>3. TypeOK'
  BY <1>2, CloseType DEF Inv, TypeOK, CommitArchive
<1>4. ASSUME NEW t \in Sessions
      PROVE  Sane(t)' /\ (t \notin stale' => Current(t)')
  BY <1>1, <1>2 DEF Inv, TypeOK, CommitArchive, Sane, Current, Holding, Deleting, PaymentsOf
<1>5. \A d : Repaid(d)' = Repaid(d)
  BY RepaidSame DEF CommitArchive
<1>6. DebtMatchesUnlessRaced'
  BY <1>2, <1>5 DEF Inv, CommitArchive, DebtMatchesUnlessRaced
<1>. QED
  BY <1>2, <1>3, <1>4, <1>6
  DEF Inv, CommitArchive, PaymentsHaveCredits, DebtNeverNegative, PaymentsMatchOperations

\* A credit without payments may be taken for another sum.
LEMMA CommitInitialInv ==
  ASSUME Inv, NEW s \in Sessions, NEW initial \in Initials, CommitInitial(s, initial)
  PROVE  Inv'
<1> DEFINE c == about[s]
<1>0. /\ initial \in Int /\ initial >= 0
      /\ c \in DOMAIN credit /\ c \in CreditIds
      /\ credit[c] \in Credit
      /\ read[s] \in Credit
      /\ Holding(s) /\ pc[s] # "idle"
  BY CreditsAssumption
  DEF CreditsAssumption, Inv, TypeOK, CommitInitial, Holding, IsRows
<1>1. /\ DOMAIN credit' = DOMAIN credit
      /\ credit'[c].initial = initial
      /\ credit'[c].balance = Column(credit[c].balance, read[s].balance, initial)
      /\ \A d \in DOMAIN credit \ {c} : credit'[d] = credit[d]
      /\ IsRows(credit', CreditIds, Credit)
  BY <1>0 DEF Inv, TypeOK, CommitInitial, IsRows, Credit, Column
<1>2. /\ stale' \subseteq Sessions
      /\ raced' \subseteq CreditIds
      /\ raced \subseteq raced'
      /\ s \in stale => c \in raced'
      /\ pc'[s] = "idle"
      /\ \A t \in Sessions \ {s} : /\ pc'[t] = pc[t]
                                   /\ about'[t] = about[t]
                                   /\ read'[t] = read[t]
                                   /\ found'[t] = found[t]
  BY <1>0, PublishEffect DEF Inv, CommitInitial
<1>3. TypeOK'
  BY <1>1, <1>2, CloseType DEF Inv, TypeOK, CommitInitial, Publish
<1>4. \A d : Repaid(d)' = Repaid(d) /\ PaymentsOf(d)' = PaymentsOf(d)
  BY RepaidSame DEF CommitInitial
<1>5. \A t \in Sessions : Sane(t)'
  BY <1>2 DEF Inv, CommitInitial, Sane, Holding, Deleting
<1>6. \A t \in Sessions \ stale' : Current(t)'
  BY <1>0, <1>1, <1>4, PublishKeepsCurrent DEF CommitInitial
<1>7. DebtMatchesUnlessRaced'
  <2>. SUFFICES ASSUME NEW d \in DOMAIN credit' \ raced'
                PROVE  credit'[d].balance = credit'[d].initial - Repaid(d)'
    BY DEF DebtMatchesUnlessRaced
  <2>1. CASE d = c
    <3>1. s \notin stale /\ Current(s)
      BY <1>2, <2>1 DEF Inv
    <3>2. Repaid(c) = 0 /\ read[s].balance = credit[c].balance
      BY <1>0, <3>1, NothingRepaid DEF Current, CommitInitial
    <3>3. credit'[c].balance = initial
      BY <1>1, <3>2 DEF Column
    <3>. QED BY <1>0, <1>1, <1>4, <2>1, <3>2, <3>3
  <2>2. CASE d # c
    BY <1>1, <1>2, <1>4, <2>2 DEF Inv, DebtMatchesUnlessRaced
  <2>. QED BY <2>1, <2>2
<1>8. DebtNeverNegative'
  BY <1>0, <1>1 DEF Inv, DebtNeverNegative, Column
<1>. QED
  BY <1>1, <1>3, <1>5, <1>6, <1>7, <1>8
  DEF Inv, CommitInitial, PaymentsHaveCredits, PaymentsMatchOperations

\* A payment reduces the debt of its credit by its principal.
LEMMA CommitPaymentInv ==
  ASSUME Inv, NEW s \in Sessions, NEW principal \in Principals, NEW charge \in Charges,
         CommitPayment(s, principal, charge)
  PROVE  Inv'
<1> DEFINE c == about[s]
<1>0. /\ principal \in Int /\ principal >= 0 /\ charge \in Int
      /\ c \in DOMAIN credit /\ c \in CreditIds
      /\ credit[c] \in Credit
      /\ read[s] \in Credit
      /\ Holding(s) /\ pc[s] # "idle"
  BY CreditsAssumption
  DEF CreditsAssumption, Inv, TypeOK, CommitPayment, Holding, IsRows
<1>1. PICK p \in FreePayments, o \in FreeOperations :
        /\ operation' = With(operation, o, -(principal + charge))
        /\ payment' = With(payment, p,
             [credit |-> c, principal |-> principal,
              total |-> principal + charge, operation |-> o])
  BY DEF CommitPayment
<1> DEFINE row == [credit |-> c, principal |-> principal,
                   total |-> principal + charge, operation |-> o]
<1>2. /\ p \in Payments \ DOMAIN payment
      /\ o \in Operations \ DOMAIN operation
      /\ \A t \in Sessions : Deleting(t) => found[t].id # p /\ found[t].row.operation # o
  BY DEF FreePayments, FreeOperations
<1>3. row \in Payment /\ -(principal + charge) \in Int
  BY <1>0, <1>2, CreditsAssumption DEF Payment, CreditsAssumption
<1>4. /\ DOMAIN payment' = DOMAIN payment \cup {p}
      /\ payment'[p] = row
      /\ \A x \in DOMAIN payment : payment'[x] = payment[x]
      /\ DOMAIN operation' = DOMAIN operation \cup {o}
      /\ operation'[o] = -(principal + charge)
      /\ \A x \in DOMAIN operation : operation'[x] = operation[x]
  BY <1>1, <1>2 DEF With
<1>5. IsRows(payment', Payments, Payment) /\ IsRows(operation', Operations, Int)
  BY <1>1, <1>2, <1>3 DEF Inv, TypeOK, With, IsRows
<1>6. /\ DOMAIN credit' = DOMAIN credit
      /\ credit'[c].initial = credit[c].initial
      /\ credit'[c].balance =
           Column(credit[c].balance, read[s].balance, read[s].balance - principal)
      /\ \A d \in DOMAIN credit \ {c} : credit'[d] = credit[d]
      /\ IsRows(credit', CreditIds, Credit)
  BY <1>0 DEF Inv, TypeOK, CommitPayment, IsRows, Credit, Column
<1>7. /\ stale' \subseteq Sessions
      /\ raced' \subseteq CreditIds
      /\ raced \subseteq raced'
      /\ s \in stale => c \in raced'
      /\ pc'[s] = "idle"
      /\ \A t \in Sessions \ {s} : /\ pc'[t] = pc[t]
                                   /\ about'[t] = about[t]
                                   /\ read'[t] = read[t]
                                   /\ found'[t] = found[t]
  BY <1>0, PublishEffect DEF Inv, CommitPayment
<1>8. TypeOK'
  BY <1>5, <1>6, <1>7, CloseType DEF Inv, TypeOK, CommitPayment, Publish
<1>9. \A d : Repaid(d)' = Repaid(d) + IF d = c THEN principal ELSE 0
  <2>. TAKE d
  <2>1. Repaid(d)' = Repaid(d) + IF row.credit = d THEN row.principal ELSE 0
    BY <1>1, <1>2, <1>3, RepaidByNew DEF Inv, TypeOK
  <2>. QED BY <2>1
<1>10. ASSUME NEW t \in Sessions
       PROVE  Sane(t)'
  <2>1. CASE t = s
    BY <1>7, <2>1 DEF Sane, Holding, Deleting
  <2>2. CASE t # s
    BY <1>2, <1>4, <1>7, <2>2 DEF Inv, Sane, Holding, Deleting
  <2>. QED BY <2>1, <2>2
<1>11. \A d \in CreditIds \ {c} : PaymentsOf(d)' = PaymentsOf(d)
  BY <1>2, <1>4 DEF PaymentsOf
<1>12. \A t \in Sessions \ stale' : Current(t)'
  BY <1>0, <1>4, <1>6, <1>11, PublishKeepsCurrent DEF CommitPayment
<1>13. DebtMatchesUnlessRaced'
  <2>. SUFFICES ASSUME NEW d \in DOMAIN credit' \ raced'
                PROVE  credit'[d].balance = credit'[d].initial - Repaid(d)'
    BY DEF DebtMatchesUnlessRaced
  <2>0. Repaid(d) \in Int /\ credit[d].balance = credit[d].initial - Repaid(d)
    BY <1>6, <1>7, PaymentsAddUp DEF Inv, TypeOK, DebtMatchesUnlessRaced
  <2>1. CASE d = c
    <3>1. s \notin stale /\ Current(s)
      BY <1>7, <2>1 DEF Inv
    <3>2. read[s].balance = credit[c].balance
      BY <1>0, <3>1 DEF Current
    <3>3. credit'[c].balance = credit[c].balance - principal
      BY <1>0, <1>6, <3>2 DEF Column, Credit
    <3>. QED BY <1>0, <1>6, <1>9, <2>0, <2>1, <3>3 DEF Credit
  <2>2. CASE d # c
    BY <1>6, <1>9, <2>0, <2>2
  <2>. QED BY <2>1, <2>2
<1>14. DebtNeverNegative'
  <2>1. read[s].balance >= principal /\ credit[c].balance >= 0
    BY <1>0 DEF Inv, DebtNeverNegative, CommitPayment
  <2>2. credit'[c].balance >= 0
    BY <1>0, <1>6, <2>1 DEF Column, Credit
  <2>. QED BY <1>6, <2>2 DEF Inv, DebtNeverNegative
<1>15. PaymentsHaveCredits'
  BY <1>0, <1>4, <1>6 DEF Inv, PaymentsHaveCredits
<1>16. PaymentsMatchOperations'
  <2>1. \A x \in DOMAIN payment : payment[x].operation \in DOMAIN operation
    BY DEF Inv, PaymentsMatchOperations
  <2>2. ASSUME NEW x \in DOMAIN payment'
        PROVE  /\ payment'[x].operation \in DOMAIN operation'
               /\ operation'[payment'[x].operation] = -payment'[x].total
    BY <1>2, <1>4, <2>1 DEF Inv, PaymentsMatchOperations
  <2>3. ASSUME NEW x \in DOMAIN payment', NEW y \in DOMAIN payment',
               payment'[x].operation = payment'[y].operation
        PROVE  x = y
    BY <1>2, <1>4, <2>1, <2>3 DEF Inv, PaymentsMatchOperations
  <2>4. ASSUME NEW x \in DOMAIN operation'
        PROVE  \E y \in DOMAIN payment' : payment'[y].operation = x
    BY <1>4 DEF Inv, PaymentsMatchOperations
  <2>. QED BY <2>2, <2>3, <2>4 DEF PaymentsMatchOperations
<1>. QED BY <1>8, <1>10, <1>12, <1>13, <1>14, <1>15, <1>16 DEF Inv

\* A deleted payment goes with its operation and gives its principal back.
LEMMA CommitDeletionInv ==
  ASSUME Inv, NEW s \in Sessions, CommitDeletion(s)
  PROVE  Inv'
<1> DEFINE c == about[s]
           p == found[s].id
           o == found[s].row.operation
           back == found[s].row.principal
<1>0. /\ c \in DOMAIN credit /\ c \in CreditIds
      /\ credit[c] \in Credit
      /\ read[s] \in Credit
      /\ found[s] \in [id : Payments, row : Payment]
      /\ back \in Int /\ back >= 0
      /\ Holding(s) /\ Deleting(s) /\ pc[s] # "idle"
  BY DEF Inv, TypeOK, CommitDeletion, Holding, Deleting, IsRows, Payment
<1>1. /\ found[s].row.credit = c
      /\ p \in DOMAIN payment => payment[p] = found[s].row
      /\ p \notin DOMAIN payment => o \notin DOMAIN operation
      /\ read[s].balance >= 0
  BY <1>0 DEF Inv, Sane
<1>2. payment' = Without(payment, p) /\ operation' = Without(operation, o)
  BY DEF CommitDeletion
<1>3. /\ DOMAIN payment' = DOMAIN payment \ {p}
      /\ \A x \in DOMAIN payment \ {p} : payment'[x] = payment[x]
      /\ DOMAIN operation' = DOMAIN operation \ {o}
      /\ \A x \in DOMAIN operation \ {o} : operation'[x] = operation[x]
  BY <1>2 DEF Without
<1>4. IsRows(payment', Payments, Payment) /\ IsRows(operation', Operations, Int)
  BY <1>2 DEF Inv, TypeOK, Without, IsRows
<1>5. /\ DOMAIN credit' = DOMAIN credit
      /\ credit'[c].initial = credit[c].initial
      /\ credit'[c].balance =
           Column(credit[c].balance, read[s].balance, read[s].balance + back)
      /\ \A d \in DOMAIN credit \ {c} : credit'[d] = credit[d]
      /\ IsRows(credit', CreditIds, Credit)
  BY <1>0 DEF Inv, TypeOK, CommitDeletion, IsRows, Credit, Column
<1>6. /\ stale' \subseteq Sessions
      /\ raced' \subseteq CreditIds
      /\ raced \subseteq raced'
      /\ s \in stale => c \in raced'
      /\ pc'[s] = "idle"
      /\ \A t \in Sessions \ {s} : /\ pc'[t] = pc[t]
                                   /\ about'[t] = about[t]
                                   /\ read'[t] = read[t]
                                   /\ found'[t] = found[t]
  BY <1>0, PublishEffect DEF Inv, CommitDeletion
<1>7. TypeOK'
  BY <1>4, <1>5, <1>6, CloseType DEF Inv, TypeOK, CommitDeletion, Publish
<1>8. \A d : Repaid(d)' = Repaid(d) - IF p \in DOMAIN payment /\ d = c THEN back ELSE 0
  <2>. TAKE d
  <2>1. Repaid(d)' = Repaid(d) - IF p \in DOMAIN payment /\ payment[p].credit = d
                                 THEN payment[p].principal ELSE 0
    BY <1>2, RepaidByLess DEF Inv, TypeOK
  <2>. QED BY <1>1, <2>1
<1>9. PaymentsMatchOperations
  BY DEF Inv
<1>10. ASSUME NEW t \in Sessions
       PROVE  Sane(t)'
  <2>1. CASE t = s
    BY <1>6, <2>1 DEF Sane, Holding, Deleting
  <2>2. CASE t # s /\ ~Deleting(t)
    BY <1>6, <2>2 DEF Inv, Sane, Holding, Deleting
  <2>3. CASE t # s /\ Deleting(t)
    <3>1. Sane(t)
      BY DEF Inv
    <3>2. found[t].id = p => found[t].row.operation \notin DOMAIN operation'
      BY <1>1, <1>3, <2>3, <3>1 DEF Sane
    <3>3. /\ about[t] = found[t].row.credit
          /\ found[t].id \in DOMAIN payment' => payment'[found[t].id] = found[t].row
          /\ found[t].id \notin DOMAIN payment' =>
               found[t].row.operation \notin DOMAIN operation'
      BY <1>3, <2>3, <3>1, <3>2 DEF Sane
    <3>. QED BY <1>6, <2>3, <3>1, <3>3 DEF Sane, Holding, Deleting
  <2>. QED BY <2>1, <2>2, <2>3
<1>11. /\ \A d \in CreditIds \ {c} : PaymentsOf(d)' = PaymentsOf(d)
       /\ \A x \in DOMAIN payment : payment[x].credit # c => x \in DOMAIN payment'
  BY <1>1, <1>3 DEF PaymentsOf
<1>12. \A t \in Sessions \ stale' : Current(t)'
  BY <1>0, <1>5, <1>11, PublishKeepsCurrent DEF CommitDeletion
<1>13. DebtMatchesUnlessRaced'
  <2>. SUFFICES ASSUME NEW d \in DOMAIN credit' \ raced'
                PROVE  credit'[d].balance = credit'[d].initial - Repaid(d)'
    BY DEF DebtMatchesUnlessRaced
  <2>0. Repaid(d) \in Int /\ credit[d].balance = credit[d].initial - Repaid(d)
    BY <1>5, <1>6, PaymentsAddUp DEF Inv, TypeOK, DebtMatchesUnlessRaced
  <2>1. CASE d = c
    <3>1. s \notin stale /\ Current(s)
      BY <1>6, <2>1 DEF Inv
    <3>2. read[s].balance = credit[c].balance /\ p \in DOMAIN payment
      BY <1>0, <3>1 DEF Current
    <3>3. credit'[c].balance = credit[c].balance + back
      BY <1>0, <1>5, <3>2 DEF Column, Credit
    <3>4. Repaid(d)' = Repaid(d) - back
      BY <1>8, <2>1, <3>2
    <3>. QED BY <1>0, <1>5, <2>0, <2>1, <3>3, <3>4 DEF Credit
  <2>2. CASE d # c
    BY <1>5, <1>8, <2>0, <2>2
  <2>. QED BY <2>1, <2>2
<1>14. DebtNeverNegative'
  <2>1. credit[c].balance >= 0
    BY <1>0 DEF Inv, DebtNeverNegative
  <2>2. credit'[c].balance >= 0
    BY <1>0, <1>1, <1>5, <2>1 DEF Column, Credit
  <2>. QED BY <1>5, <2>2 DEF Inv, DebtNeverNegative
<1>15. PaymentsHaveCredits'
  BY <1>3, <1>5 DEF Inv, PaymentsHaveCredits
<1>16. PaymentsMatchOperations'
  <2>1. ASSUME NEW x \in DOMAIN payment'
        PROVE  /\ payment'[x].operation \in DOMAIN operation'
               /\ operation'[payment'[x].operation] = -payment'[x].total
    <3>1. /\ x \in DOMAIN payment \ {p} /\ payment'[x] = payment[x]
          /\ payment[x].operation \in DOMAIN operation
          /\ operation[payment[x].operation] = -payment[x].total
      BY <1>3, <1>9 DEF PaymentsMatchOperations
    <3>2. payment[x].operation # o
      BY <1>1, <1>9, <3>1 DEF PaymentsMatchOperations
    <3>. QED BY <1>3, <3>1, <3>2
  <2>2. ASSUME NEW x \in DOMAIN payment', NEW y \in DOMAIN payment',
               payment'[x].operation = payment'[y].operation
        PROVE  x = y
    BY <1>3, <1>9, <2>2 DEF PaymentsMatchOperations
  <2>3. ASSUME NEW x \in DOMAIN operation'
        PROVE  \E y \in DOMAIN payment' : payment'[y].operation = x
    BY <1>1, <1>3, <1>9 DEF PaymentsMatchOperations
  <2>. QED BY <2>1, <2>2, <2>3 DEF PaymentsMatchOperations
<1>. QED BY <1>7, <1>10, <1>12, <1>13, <1>14, <1>15, <1>16 DEF Inv

-----------------------------------------------------------------------------
(* The theorems.                                                           *)

\* No rows, no sums.
LEMMA InitInv == Init => Inv
<1>. SUFFICES ASSUME Init PROVE Inv
  OBVIOUS
<1>1. TypeOK
  BY DEF Init, TypeOK, NoRows, IsRows, Holding, Deleting
<1>2. \A s \in Sessions : Sane(s) /\ Current(s)
  BY DEF Init, Sane, Current, Holding, Deleting
<1>3. /\ PaymentsHaveCredits
      /\ DebtMatchesUnlessRaced
      /\ DebtNeverNegative
      /\ PaymentsMatchOperations
  BY DEF Init, NoRows, PaymentsHaveCredits, DebtMatchesUnlessRaced, DebtNeverNegative,
         PaymentsMatchOperations
<1>. QED BY <1>1, <1>2, <1>3 DEF Inv

\* Nothing changes in a step that changes no variable.
LEMMA StutterInv ==
  ASSUME Inv, UNCHANGED vars
  PROVE  Inv'
<1>1. TypeOK'
  BY DEF Inv, vars, TypeOK, Holding, Deleting
<1>2. ASSUME NEW s \in Sessions
      PROVE  Sane(s)' /\ (s \notin stale' => Current(s)')
  BY DEF Inv, vars, Sane, Current, Holding, Deleting, PaymentsOf
<1>3. \A c : Repaid(c)' = Repaid(c)
  BY RepaidSame DEF vars
<1>. QED
  BY <1>1, <1>2, <1>3
  DEF Inv, vars, PaymentsHaveCredits, DebtMatchesUnlessRaced, DebtNeverNegative,
      PaymentsMatchOperations

\* Every step keeps the invariant.
LEMMA NextInv ==
  ASSUME Inv, [Next]_vars
  PROVE  Inv'
<1>1. CASE \E c \in CreditIds, initial \in Initials : CreateCredit(c, initial)
  BY <1>1, CreateCreditInv
<1>2. ASSUME NEW s \in Sessions,
             \/ \E c \in CreditIds, purpose \in {"paying", "updating", "archiving"} :
                  LoadCredit(s, c, purpose)
             \/ Pay(s)
             \/ Change(s)
             \/ Delete(s)
             \/ Rollback(s)
      PROVE  Inv'
  <2>1. CASE \E c \in CreditIds, purpose \in {"paying", "updating", "archiving"} :
               LoadCredit(s, c, purpose)
    BY <2>1, LoadCreditInv
  <2>2. CASE Pay(s)
    BY <2>2, CommitPaymentInv DEF Pay
  <2>3. CASE Change(s)
    BY <2>3, SeeNoPaymentsInv, CommitInitialInv, CommitArchiveInv DEF Change
  <2>4. CASE Delete(s)
    BY <2>4, FindPaymentInv, FindItsCreditInv, CommitDeletionInv DEF Delete
  <2>5. CASE Rollback(s)
    BY <2>5, RollbackInv
  <2>. QED BY <1>2, <2>1, <2>2, <2>3, <2>4, <2>5
<1>3. CASE UNCHANGED vars
  BY <1>3, StutterInv
<1>. QED BY <1>1, <1>2, <1>3 DEF Next

\* The invariant holds in every reachable state.
THEOREM Invariant == Spec => []Inv
<1>1. Inv /\ [Next]_vars => Inv'
  BY NextInv
<1>. QED BY InitInv, <1>1, PTL DEF Spec

\* The tables and the sessions keep their types.
THEOREM TypeCorrect == Spec => []TypeOK
<1>1. Inv => TypeOK
  BY DEF Inv
<1>. QED BY Invariant, <1>1, PTL

\* A credit that no request has written by a stale reading owes exactly what
\* its payments have left (create_payment, delete_payment, update_credit).
THEOREM DebtMatches == Spec => []DebtMatchesUnlessRaced
<1>1. Inv => DebtMatchesUnlessRaced
  BY DEF Inv
<1>. QED BY Invariant, <1>1, PTL

\* No debt is ever negative, even after requests that race.
THEOREM NoNegativeDebt == Spec => []DebtNeverNegative
<1>1. Inv => DebtNeverNegative
  BY DEF Inv
<1>. QED BY Invariant, <1>1, PTL

\* A payment and its operation come and go together, even when deletions race.
THEOREM PaymentsMatch == Spec => []PaymentsMatchOperations
<1>1. Inv => PaymentsMatchOperations
  BY DEF Inv
<1>. QED BY Invariant, <1>1, PTL


-----------------------------------------------------------------------------
(* The payoff plan.                                                        *)
(*                                                                         *)
(* It is never behind the schedule of any credit, and it ends, but for the *)
(* last month that its loop looks at.  The invariant says of each schedule *)
(* that it is made by the rounds of project_credit, a payment a month, and *)
(* of each debt in the plan that its dates are those of its schedule.      *)

\* Dates: the walk over the days of payment goes forward, by one month at a
\* time once it is on a day of payment.
LEMMA MonthLengthType ==
  ASSUME NEW m \in Nat
  PROVE  MonthLength(m) \in 28 .. 31
BY DEF MonthLength

\* A date is made of numbers.
LEMMA DateParts ==
  ASSUME NEW d \in Date
  PROVE  d.month \in Nat /\ d.day \in Nat
BY DEF Date

\* A day of payment is a date of its month.
LEMMA DueInType ==
  ASSUME NEW m \in Nat, NEW d \in PaymentDays
  PROVE  DueIn(m, d) \in Date /\ DueIn(m, d).month = m
BY MonthLengthType DEF DueIn, Date, PaymentDays

\* The next day of payment is a day of payment after the date, in its month or
\* in the month that follows.
LEMMA NextDueType ==
  ASSUME NEW after \in Date, NEW d \in PaymentDays
  PROVE  LET due == NextDue(after, d)
         IN /\ due \in Date
            /\ IsBefore(after, due)
            /\ due.month \in {after.month, after.month + 1}
            /\ due = DueIn(due.month, d)
            /\ DaysBetween(after, due) \in Nat
<1>1. after.month \in Nat /\ after.day \in 1 .. 31 /\ after.day <= MonthLength(after.month)
  BY DEF Date
<1>2. CASE IsBefore(after, DueIn(after.month, d))
  BY <1>1, <1>2, DueInType, MonthLengthType DEF NextDue, IsBefore, DaysBetween, Date
<1>3. CASE ~IsBefore(after, DueIn(after.month, d))
  <2>1. NextDue(after, d) = DueIn(after.month + 1, d)
    BY <1>3 DEF NextDue
  <2>2. DueIn(after.month + 1, d) \in Date /\ DueIn(after.month + 1, d).month = after.month + 1
    BY <1>1, DueInType
  <2>. QED BY <1>1, <2>1, <2>2, MonthLengthType DEF IsBefore, DaysBetween, Date
<1>. QED BY <1>2, <1>3

\* From a day of payment the walk comes to that of the month that follows.
LEMMA NextDueOfDue ==
  ASSUME NEW m \in Nat, NEW d \in PaymentDays
  PROVE  NextDue(DueIn(m, d), d) = DueIn(m + 1, d)
<1>1. ~IsBefore(DueIn(m, d), DueIn(m, d)) /\ DueIn(m, d).month = m
  BY DueInType DEF IsBefore, Date
<1>. QED BY <1>1 DEF NextDue

\* The date that interest counts from is a date.
LEMMA EffectiveSinceType ==
  ASSUME NEW since \in Date, NEW d \in PaymentDays, NEW today \in Date
  PROVE  EffectiveSince(since, d, today) \in Date
<1> DEFINE due == NextDue(since, d)
<1>1. due \in Date /\ due = DueIn(due.month, d)
  BY NextDueType
<1>2. CASE ~IsBefore(due, today) \/ IsBefore(DueIn(today.month, d), today)
  BY <1>2, DueInType DEF EffectiveSince, Date
<1>3. CASE IsBefore(due, today) /\ ~IsBefore(DueIn(today.month, d), today)
  <2>1. due.month <= today.month /\ due.month # today.month
    BY <1>1, <1>3 DEF IsBefore, Date
  <2>2. today.month - 1 \in Nat
    BY <1>1, <2>1 DEF Date
  <2>. QED BY <1>3, <2>2, DueInType DEF EffectiveSince
<1>. QED BY <1>2, <1>3

-----------------------------------------------------------------------------
\* Interest grows with the debt.
LEMMA ProductMonotone ==
  ASSUME NEW a \in Nat, NEW b \in Nat, NEW c \in Nat, a <= b
  PROVE  a * c \in Nat /\ a * c <= b * c
OBVIOUS

LEMMA InterestMonotone ==
  ASSUME NEW low \in Nat, NEW high \in Nat, low <= high,
         NEW rate \in Nat, NEW start, NEW end, DaysBetween(start, end) \in Nat
  PROVE  /\ Interest(low, rate, start, end) \in Nat
         /\ Interest(high, rate, start, end) \in Nat
         /\ Interest(low, rate, start, end) <= Interest(high, rate, start, end)
<1> DEFINE days == DaysBetween(start, end)
<1>1. 2 * low \in Nat /\ 2 * high \in Nat /\ 2 * low <= 2 * high
  OBVIOUS
<1>2. /\ 2 * low * rate \in Nat /\ 2 * high * rate \in Nat
      /\ 2 * low * rate <= 2 * high * rate
  BY <1>1, ProductMonotone
<1>3. /\ 2 * low * rate * days \in Nat /\ 2 * high * rate * days \in Nat
      /\ 2 * low * rate * days <= 2 * high * rate * days
  <2> DEFINE l == 2 * low * rate
             h == 2 * high * rate
  <2>1. l \in Nat /\ h \in Nat /\ l <= h /\ days \in Nat
    BY <1>2
  <2> HIDE DEF l, h, days
  <2>2. l * days \in Nat /\ h * days \in Nat /\ l * days <= h * days
    BY <2>1, ProductMonotone
  <2>. QED BY <2>2 DEF l, h, days
<1>4. \A x, y \in Nat :
        x <= y => /\ (x + YearOfRate) \div (2 * YearOfRate) \in Nat
                  /\ (y + YearOfRate) \div (2 * YearOfRate) \in Nat
                  /\ (x + YearOfRate) \div (2 * YearOfRate) <= (y + YearOfRate) \div (2 * YearOfRate)
  BY DEF YearOfRate
<1>. QED BY <1>3, <1>4 DEF Interest

LEMMA InterestType ==
  ASSUME NEW balance \in Nat, NEW rate \in Nat, NEW start, NEW end,
         DaysBetween(start, end) \in Nat
  PROVE  Interest(balance, rate, start, end) \in Nat
<1>1. balance <= balance
  OBVIOUS
<1>. QED BY <1>1, InterestMonotone

-----------------------------------------------------------------------------
TermsOK == terms \in [Credits -> Offers]

\* A credit that can be counted has all that dates and interest take.
LEMMA CountedTerms ==
  ASSUME TermsOK, NEW c \in Credits, CannotCount(terms[c]) = "none"
  PROVE  /\ terms[c].rate \in Nat
         /\ terms[c].payment \in Nat \ {0}
         /\ terms[c].day \in PaymentDays
         /\ terms[c].balance \in Nat
         /\ Since(c) \in Date
         /\ FirstDue(c) \in Date
         /\ FirstMonth(c) \in Nat
         /\ FirstDue(c) = DueIn(FirstMonth(c), terms[c].day)
<1>1. terms[c] \in Terms
  BY PayoffAssumption DEF TermsOK
<1>2. None \notin {terms[c].rate, terms[c].payment, terms[c].day, terms[c].since}
  BY DEF CannotCount
<1>3. /\ terms[c].rate \in Nat
      /\ terms[c].payment \in Nat \ {0}
      /\ terms[c].day \in PaymentDays
      /\ terms[c].balance \in Nat
      /\ terms[c].since \in Date
  BY <1>1, <1>2 DEF Terms
<1>4. Since(c) \in Date
  BY <1>3, EffectiveSinceType, PayoffAssumption DEF Since
<1>5. /\ FirstDue(c) \in Date
      /\ FirstDue(c) = DueIn(FirstDue(c).month, terms[c].day)
  BY <1>3, <1>4, NextDueType DEF FirstDue
<1>6. FirstDue(c).month \in Nat
  BY <1>5 DEF Date
<1>. QED BY <1>3, <1>4, <1>5, <1>6 DEF FirstMonth

\* A round of project_credit makes a payment from a payment.
LEMMA NextScheduledType ==
  ASSUME TermsOK, NEW c \in Credits, CannotCount(terms[c]) = "none",
         NEW entry \in Entry
  PROVE  /\ NextScheduled(c, entry) \in Entry
         /\ NextScheduled(c, entry).interest >= entry.interest
<1>1. entry.on \in Date /\ entry.remaining \in Nat /\ entry.interest \in Nat
  BY DEF Entry
<1>2. terms[c].rate \in Nat /\ terms[c].payment \in Nat /\ terms[c].day \in PaymentDays
  BY CountedTerms
<1>3. DueAfter(c, entry) \in Date /\ DaysBetween(entry.on, DueAfter(c, entry)) \in Nat
  BY <1>1, <1>2, NextDueType DEF DueAfter
<1>4. Interest(entry.remaining, terms[c].rate, entry.on, DueAfter(c, entry)) \in Nat
  BY <1>1, <1>2, <1>3, InterestType
<1>5. OwedAfter(c, entry) \in Nat /\ OwedAfter(c, entry) >= entry.remaining
  BY <1>1, <1>4 DEF OwedAfter
<1>6. OwedAfter(c, entry) - Least(OwedAfter(c, entry), terms[c].payment) \in Nat
  BY <1>2, <1>5 DEF Least
<1>7. /\ entry.interest + OwedAfter(c, entry) - entry.remaining \in Nat
      /\ entry.interest + OwedAfter(c, entry) - entry.remaining >= entry.interest
  BY <1>1, <1>5
<1>. QED BY <1>3, <1>6, <1>7 DEF NextScheduled, Entry

-----------------------------------------------------------------------------
\* The schedule of a credit: made by the rounds of project_credit, on the days
\* of payment of one month after the other.
ScheduleMade(c) ==
  LET s == schedule[c] IN
  s # <<>> =>
    /\ terms[c].balance > 0
    /\ s[1] = Start(c)
    /\ \A i \in 1 .. Len(s) - 1 : s[i].remaining > 0 /\ s[i + 1] = NextScheduled(c, s[i])
    /\ \A i \in 1 .. Len(s) : s[i].interest <= Last(s).interest
    /\ \A i \in 2 .. Len(s) : s[i].on = DueIn(FirstMonth(c) + (i - 2), terms[c].day)

\* The only debt, to which nothing is added.
Alone(c) == DOMAIN plan = {c} /\ extra = 0

\* A debt in the plan: where it stands in its schedule.
Kept(c) ==
  LET s == schedule[c]
      k == Made(c)
  IN /\ s # <<>>
     /\ Last(s).remaining = 0
     /\ k \in Nat
     /\ k + 1 <= Len(s)
     /\ plan[c].remaining <= s[k + 1].remaining
     /\ plan[c].interest <= s[k + 1].interest
     /\ Open(c) =>
          /\ plan[c].remaining > 0
          /\ plan[c].previous = s[k + 1].on
          /\ plan[c].due = DueIn(plan[c].due.month, terms[c].day)
          /\ plan[c].due.month >= month
          /\ plan[c].due.month > month => plan[c].due.month = FirstMonth(c)
     /\ ~Open(c) => plan[c].remaining = 0 /\ plan[c].payoff = s[k + 1].on
     /\ Alone(c) =>
          /\ plan[c].remaining = s[k + 1].remaining
          /\ plan[c].interest = s[k + 1].interest

\* The loop has not gone past the last month of every schedule.
InTime ==
  DOMAIN plan # {} =>
    /\ \E c \in DOMAIN plan : FirstMonth(c) + Len(schedule[c]) - 1 >= month
    /\ \E d \in DOMAIN plan : \A c \in DOMAIN plan : FirstMonth(d) <= FirstMonth(c)

PlanInv ==
  /\ PayoffTypeOK
  /\ \A c \in Credits : ScheduleMade(c)
  /\ \A c \in DOMAIN plan : Kept(c)
  /\ InTime
  /\ FailsOnlyAtTheLimit
  /\ phase = "planned" => \A c \in DOMAIN plan : ~Open(c)
  /\ phase = "checking" => DOMAIN plan = {}
  /\ phase \in {"planning", "failed"} => DOMAIN plan # {}

-----------------------------------------------------------------------------
\* What the dates of a credit depend on: its row alone.
LEMMA SameDates ==
  ASSUME terms' = terms, NEW c
  PROVE  /\ Since(c)' = Since(c)
         /\ Start(c)' = Start(c)
         /\ FirstDue(c)' = FirstDue(c)
         /\ FirstMonth(c)' = FirstMonth(c)
         /\ \A e : NextScheduled(c, e)' = NextScheduled(c, e)
BY DEF Since, Start, FirstDue, FirstMonth, NextScheduled, DueAfter, OwedAfter

LEMMA InitPlanInv == PayoffInit => PlanInv
<1> SUFFICES ASSUME PayoffInit PROVE PlanInv
  OBVIOUS
<1>1. DOMAIN plan = {} /\ plan = <<>>
  BY DEF PayoffInit
<1>2. month \in Nat
  BY PayoffAssumption DEF PayoffInit, Date
<1>3. \A c \in Credits : schedule[c] = <<>>
  BY DEF PayoffInit
<1>4. PayoffTypeOK
  BY <1>1, <1>2, <1>3 DEF PayoffInit, PayoffTypeOK
<1>5. \A c \in Credits : ScheduleMade(c)
  BY <1>3 DEF ScheduleMade
<1>. QED BY <1>1, <1>4, <1>5 DEF PayoffInit, PlanInv, InTime, FailsOnlyAtTheLimit

\* A credit that is skipped changes nothing that the invariant is about.
LEMMA SkipsPlanInv ==
  ASSUME PlanInv, NEW c \in Credits, CheckSkips(c) \/ CheckFails(c)
  PROVE  PlanInv'
<1>1. /\ UNCHANGED <<terms, strategy, extra, schedule, phase, month, plan>>
      /\ phase = "checking"
      /\ DOMAIN plan = {}
  BY DEF PlanInv, CheckSkips, CheckFails, Checking
<1>2. skipped' \in [Credits -> {"none", "missing_terms", "missing_rate", "never_amortizes"}]
  BY DEF CheckSkips, CheckFails, CannotCount, PlanInv, PayoffTypeOK
<1>3. PayoffTypeOK'
  BY <1>1, <1>2 DEF PlanInv, PayoffTypeOK, CannotCount
<1>4. \A d \in Credits : ScheduleMade(d)'
  BY ZenonT(60), <1>1, SameDates DEF PlanInv, ScheduleMade
<1>. QED BY <1>1, <1>3, <1>4 DEF PlanInv, InTime, FailsOnlyAtTheLimit

\* A credit's schedule begins, or has one payment more.
LEMMA SchedulePlanInv ==
  ASSUME PlanInv, NEW c \in Credits, CheckStarts(c) \/ CheckPayment(c)
  PROVE  PlanInv'
<1>1. /\ UNCHANGED <<terms, strategy, extra, skipped, phase, month, plan>>
      /\ phase = "checking"
      /\ DOMAIN plan = {}
      /\ terms[c].balance # 0
      /\ ~Scheduled(c)
  BY DEF PlanInv, CheckStarts, CheckPayment, Checking, Checked
<1>2. TermsOK /\ terms[c].balance > 0 /\ CannotCount(terms[c]) = "none"
  <2>1. TermsOK
    BY DEF PlanInv, PayoffTypeOK, TermsOK
  <2>2. terms[c].balance \in Nat
    BY <2>1, PayoffAssumption DEF TermsOK, Terms
  <2>. QED BY <1>1, <2>1, <2>2 DEF PlanInv, PayoffTypeOK, CheckStarts, CheckPayment
<1>3. PICK s : s = schedule[c]
  OBVIOUS
<1>4. s \in Seq(Entry) /\ ScheduleMade(c)
  BY <1>3 DEF PlanInv, PayoffTypeOK
<1>5. /\ terms[c].day \in PaymentDays
      /\ FirstMonth(c) \in Nat
      /\ FirstDue(c) = DueIn(FirstMonth(c), terms[c].day)
      /\ Start(c) \in Entry
  BY <1>2, CountedTerms DEF Start, Entry
<1>6. PICK t : /\ schedule' = [schedule EXCEPT ![c] = t]
               /\ \/ s = <<>> /\ t = <<Start(c)>>
                  \/ s # <<>> /\ t = Append(s, NextScheduled(c, Last(s)))
  BY <1>3 DEF CheckStarts, CheckPayment
<1>7. s # <<>> => /\ Len(s) \in Nat \ {0}
                  /\ Last(s) = s[Len(s)]
                  /\ Last(s) \in Entry
                  /\ Last(s).remaining > 0
  <2>1. SUFFICES ASSUME s # <<>> PROVE /\ Len(s) \in Nat \ {0}
                                      /\ Last(s) = s[Len(s)]
                                      /\ Last(s) \in Entry
                                      /\ Last(s).remaining > 0
    OBVIOUS
  <2>2. Len(s) \in Nat \ {0} /\ Last(s) = s[Len(s)] /\ Last(s) \in Entry
    BY <1>4, <2>1 DEF Last
  <2>3. Last(s).remaining # 0
    BY <1>1, <1>3, <2>1 DEF Scheduled
  <2>. QED BY <2>2, <2>3 DEF Entry
<1>8. t \in Seq(Entry) /\ t # <<>>
  <2>1. s # <<>> => NextScheduled(c, Last(s)) \in Entry
    BY <1>2, <1>7, NextScheduledType
  <2>2. CASE s = <<>>
    <3>1. t = <<Start(c)>>
      BY <1>6, <2>2
    <3>2. <<Start(c)>> \in Seq(Entry) /\ <<Start(c)>> # <<>>
      BY <1>5
    <3>. QED BY <3>1, <3>2
  <2>3. CASE s # <<>>
    BY <1>4, <1>6, <2>1, <2>3
  <2>. QED BY <2>2, <2>3
<1>9. schedule'[c] = t /\ \A d \in Credits \ {c} : schedule'[d] = schedule[d]
  BY <1>6 DEF PlanInv, PayoffTypeOK
<1>10. PayoffTypeOK'
  BY <1>1, <1>2, <1>6, <1>8, <1>9 DEF PlanInv, PayoffTypeOK
<1>11. /\ t[1] = Start(c)
       /\ \A i \in 1 .. Len(t) - 1 : t[i].remaining > 0 /\ t[i + 1] = NextScheduled(c, t[i])
       /\ \A i \in 1 .. Len(t) : t[i].interest <= Last(t).interest
       /\ \A i \in 2 .. Len(t) : t[i].on = DueIn(FirstMonth(c) + (i - 2), terms[c].day)
  <2>1. CASE s = <<>>
    <3>1. t = <<Start(c)>> /\ Len(t) = 1 /\ t[1] = Start(c)
      BY <1>6, <2>1
    <3>2. Last(t).interest = 0 /\ t[1].interest = 0
      BY <3>1 DEF Last, Start
    <3>. QED BY <3>1, <3>2
  <2>2. CASE s # <<>>
    <3> PICK n : n = Len(s)
      OBVIOUS
    <3>1. n \in Nat \ {0} /\ s[n] \in Entry /\ s[n].remaining > 0 /\ Last(s) = s[n]
      BY <1>7, <2>2
    <3>2. Len(t) = n + 1 /\ t[n + 1] = NextScheduled(c, s[n]) /\ \A i \in 1 .. n : t[i] = s[i]
      BY <1>4, <1>6, <2>2, <3>1
    <3>3. /\ s[1] = Start(c)
          /\ \A i \in 1 .. n - 1 : s[i].remaining > 0 /\ s[i + 1] = NextScheduled(c, s[i])
          /\ \A i \in 1 .. n : s[i].interest <= s[n].interest
          /\ \A i \in 2 .. n : s[i].on = DueIn(FirstMonth(c) + (i - 2), terms[c].day)
      BY <1>3, <1>4, <2>2, <3>1 DEF ScheduleMade
    <3>4. t[n + 1].on = NextDue(s[n].on, terms[c].day)
      BY <3>2 DEF NextScheduled, DueAfter
    <3>5. t[n + 1].on = DueIn(FirstMonth(c) + (n - 1), terms[c].day)
      <4>1. CASE n = 1
        <5>1. s[n].on = Since(c)
          BY <3>3, <4>1 DEF Start
        <5>2. t[n + 1].on = FirstDue(c)
          BY <3>4, <5>1 DEF FirstDue
        <5>3. FirstMonth(c) + (n - 1) = FirstMonth(c)
          BY <1>5, <4>1
        <5>. QED BY <1>5, <5>2, <5>3
      <4>2. CASE n > 1
        <5>1. s[n].on = DueIn(FirstMonth(c) + (n - 2), terms[c].day)
          BY <3>1, <3>3, <4>2
        <5>2. FirstMonth(c) + (n - 2) \in Nat /\ FirstMonth(c) + (n - 2) + 1 = FirstMonth(c) + (n - 1)
          BY <1>5, <3>1, <4>2
        <5>3. NextDue(s[n].on, terms[c].day) = DueIn(FirstMonth(c) + (n - 2) + 1, terms[c].day)
          BY <1>5, <5>1, <5>2, NextDueOfDue
        <5>. QED BY <3>4, <5>2, <5>3
      <4>3. n = 1 \/ n > 1
        BY <3>1
      <4>. QED BY <4>1, <4>2, <4>3
    <3>6. \A i \in 1 .. Len(t) - 1 : t[i].remaining > 0 /\ t[i + 1] = NextScheduled(c, t[i])
      <4> SUFFICES ASSUME NEW i \in 1 .. n
                   PROVE  t[i].remaining > 0 /\ t[i + 1] = NextScheduled(c, t[i])
        BY <3>1, <3>2
      <4>1. CASE i = n
        BY <3>1, <3>2, <4>1
      <4>2. CASE i # n
        <5>1. i \in 1 .. n - 1 /\ i + 1 \in 1 .. n
          BY <3>1, <4>2
        <5>2. t[i] = s[i] /\ t[i + 1] = s[i + 1]
          BY <3>2, <5>1
        <5>. QED BY <3>3, <5>1, <5>2
      <4>. QED BY <4>1, <4>2
    <3>7. \A i \in 2 .. Len(t) : t[i].on = DueIn(FirstMonth(c) + (i - 2), terms[c].day)
      <4> SUFFICES ASSUME NEW i \in 2 .. n + 1
                   PROVE  t[i].on = DueIn(FirstMonth(c) + (i - 2), terms[c].day)
        BY <3>2
      <4>1. CASE i = n + 1
        <5>1. i - 2 = n - 1
          BY <3>1, <4>1
        <5>. QED BY <3>5, <4>1, <5>1
      <4>2. CASE i # n + 1
        <5>1. i \in 2 .. n /\ i \in 1 .. n
          BY <3>1, <4>2
        <5>. QED BY <3>2, <3>3, <5>1
      <4>. QED BY <4>1, <4>2
    <3>8. t[1] = Start(c)
      BY <3>1, <3>2, <3>3
    <3>9. \A i \in 1 .. Len(t) : t[i].interest <= Last(t).interest
      <4>1. /\ Last(t) = t[n + 1] /\ t[n + 1].interest \in Nat
            /\ s[n].interest \in Nat /\ s[n].interest <= t[n + 1].interest
        BY <1>2, <3>1, <3>2, NextScheduledType DEF Last, Entry
      <4>2. \A i \in 1 .. n : s[i].interest \in Nat
        <5>1. \A i \in 1 .. n : s[i] \in Entry
          BY <1>4, <3>1
        <5>. QED BY <5>1 DEF Entry
      <4> SUFFICES ASSUME NEW i \in 1 .. n + 1 PROVE t[i].interest <= t[n + 1].interest
        BY <3>2, <4>1
      <4>3. CASE i \in 1 .. n
        <5>1. t[i] = s[i] /\ s[i].interest \in Nat /\ s[i].interest <= s[n].interest
          BY <3>2, <3>3, <4>2, <4>3
        <5>. QED BY <4>1, <5>1
      <4>4. CASE i = n + 1
        BY <4>1, <4>4
      <4>. QED BY <3>1, <4>3, <4>4
    <3>. QED BY <3>6, <3>7, <3>8, <3>9
  <2>. QED BY <2>1, <2>2
<1>12. ASSUME NEW d \in Credits PROVE ScheduleMade(d)'
  <2>1. CASE d = c
    <3>1. schedule'[c] = t /\ terms'[c] = terms[c] /\ terms[c].balance > 0
      BY <1>1, <1>2, <1>9
    <3>. QED BY <1>1, <1>11, <2>1, <3>1, SameDates DEF ScheduleMade
  <2>2. CASE d # c
    <3>1. schedule'[d] = schedule[d] /\ ScheduleMade(d)
      BY <1>9, <2>2 DEF PlanInv
    <3>. QED BY <1>1, <3>1, SameDates DEF ScheduleMade
  <2>. QED BY <2>1, <2>2
<1>. QED BY <1>1, <1>10, <1>12 DEF PlanInv, InTime, FailsOnlyAtTheLimit

\* The plan begins with what the schedules begin with.
LEMMA BeginPlanInv ==
  ASSUME PlanInv, Begin
  PROVE  PlanInv'
<1>1. /\ UNCHANGED <<terms, strategy, extra, skipped, schedule>>
      /\ plan' = [c \in Debts |-> DebtAtStart(c)]
      /\ phase' \in {"planned", "planning"}
      /\ phase' = "planning" <=> Debts # {}
      /\ phase' = "planned" => UNCHANGED month
  BY DEF Begin
<1>2. Debts # {} => \E c \in Debts : /\ \A d \in Debts : FirstMonth(c) <= FirstMonth(d)
                                   /\ month' = FirstMonth(c)
  BY DEF Begin, FirstMonth
<1>3. Debts \subseteq Credits /\ DOMAIN plan' = Debts
  BY <1>1 DEF Debts
<1>4. TermsOK /\ TermsOK'
  BY <1>1 DEF PlanInv, PayoffTypeOK, TermsOK
<1>5. ASSUME NEW c \in Debts
      PROVE  /\ schedule[c] # <<>>
             /\ Last(schedule[c]).remaining = 0
             /\ CannotCount(terms[c]) = "none"
             /\ terms[c].balance \in Nat
             /\ terms[c].balance > 0
             /\ schedule[c] \in Seq(Entry)
             /\ Len(schedule[c]) \in Nat \ {0}
             /\ schedule[c][1] = Start(c)
             /\ FirstMonth(c) \in Nat
             /\ DebtAtStart(c) \in Debt
  <2>1. c \in Credits /\ terms[c].balance > 0 /\ skipped[c] = "none"
    BY DEF Debts
  <2>2. Scheduled(c)
    BY <2>1 DEF Begin, Checked
  <2>3. /\ schedule[c] # <<>>
        /\ Last(schedule[c]).remaining = 0
        /\ CannotCount(terms[c]) = "none"
        /\ schedule[c] \in Seq(Entry)
        /\ schedule[c][1] = Start(c)
    BY <2>1, <2>2 DEF Scheduled, PlanInv, PayoffTypeOK, ScheduleMade
  <2>4. /\ terms[c].balance \in Nat
        /\ Since(c) \in Date
        /\ FirstDue(c) \in Date
        /\ FirstMonth(c) \in Nat
    BY <1>4, <2>1, <2>3, CountedTerms
  <2>5. DebtAtStart(c) \in Debt
    BY <2>4 DEF DebtAtStart, Debt
  <2>6. Len(schedule[c]) \in Nat \ {0}
    BY <2>3
  <2>. QED BY <2>1, <2>3, <2>4, <2>5, <2>6
<1>6. plan' \in [Debts -> Debt]
  BY <1>1, <1>5
<1>7. month' \in Nat
  BY <1>1, <1>2, <1>5 DEF PlanInv, PayoffTypeOK
<1>8. PayoffTypeOK'
  <2>1. \A c \in Credits : schedule'[c] # <<>> => CannotCount(terms'[c]) = "none"
    BY <1>1 DEF PlanInv, PayoffTypeOK
  <2>. QED BY <1>1, <1>3, <1>6, <1>7, <2>1 DEF PlanInv, PayoffTypeOK
<1>9. ASSUME NEW c \in Credits PROVE ScheduleMade(c)'
  <2>1. ScheduleMade(c)
    BY DEF PlanInv
  <2>. QED BY <1>1, <2>1, SameDates DEF ScheduleMade
<1>10. ASSUME NEW c \in Debts PROVE Kept(c)'
  <2>1. /\ plan'[c].remaining = terms[c].balance
        /\ plan'[c].interest = 0
        /\ plan'[c].previous = Since(c)
        /\ plan'[c].due = FirstDue(c)
        /\ plan'[c].payoff = None
    BY <1>1 DEF DebtAtStart
  <2>2. Open(c)' /\ Made(c)' = 0
    <3>1. Open(c)'
      BY <2>1 DEF Open
    <3>2. Made(c)' = plan'[c].due.month - FirstMonth(c)
      BY <1>1, <3>1, SameDates DEF Made
    <3>3. plan'[c].due.month = FirstMonth(c)
      BY <2>1 DEF FirstMonth
    <3>. QED BY <1>5, <3>1, <3>2, <3>3
  <2>3. /\ schedule'[c] = schedule[c]
        /\ schedule[c][1] = [on |-> Since(c), remaining |-> terms[c].balance, interest |-> 0]
    BY <1>1, <1>5 DEF Start
  <2>4. /\ FirstDue(c) = DueIn(FirstMonth(c), terms[c].day)
        /\ FirstDue(c).month = FirstMonth(c)
    BY <1>3, <1>4, <1>5, CountedTerms DEF FirstMonth
  <2>5. month' <= FirstMonth(c)
    BY <1>2
  <2>. QED BY <1>1, <1>5, <2>1, <2>2, <2>3, <2>4, <2>5, SameDates DEF Kept
<1>11. InTime'
  <2> SUFFICES ASSUME Debts # {}
               PROVE  /\ \E c \in Debts : FirstMonth(c) + Len(schedule[c]) - 1 >= month'
                      /\ \E d \in Debts : \A c \in Debts : FirstMonth(d) <= FirstMonth(c)
    BY <1>1, <1>3, SameDates DEF InTime
  <2>1. PICK c \in Debts : /\ \A d \in Debts : FirstMonth(c) <= FirstMonth(d)
                           /\ month' = FirstMonth(c)
    BY <1>2
  <2>2. FirstMonth(c) + Len(schedule[c]) - 1 >= month'
    BY <1>5, <2>1
  <2>. QED BY <2>1, <2>2
<1>. QED BY <1>1, <1>3, <1>8, <1>9, <1>10, <1>11 DEF PlanInv, FailsOnlyAtTheLimit

-----------------------------------------------------------------------------
\* What an addition may take of a debt is at most the debt.
LEMMA EarlyType ==
  ASSUME PlanInv, NEW c \in Paying,
         \A d \in Paying : Obligatory(d) \in Int /\ AfterPayment(d) \in Nat
  PROVE  Early(c) \in 0 .. AfterPayment(c)
<1>1. IsFiniteSet(DOMAIN plan)
  BY PayoffAssumption, FS_Subset DEF PlanInv, PayoffTypeOK
<1>2. IsFiniteSet(Paying) /\ IsFiniteSet({e \in Paying : Ahead(e, c)})
  BY <1>1, FS_Subset DEF Paying
<1>3. SumOf([d \in Paying |-> Obligatory(d)]) \in Int
  <2>1. [d \in Paying |-> Obligatory(d)] \in [Paying -> Int]
    OBVIOUS
  <2>. QED BY <1>2, <2>1, SumType
<1>4. SumOf([d \in {e \in Paying : Ahead(e, c)} |-> AfterPayment(d)]) \in Int
  <2>1. [d \in {e \in Paying : Ahead(e, c)} |-> AfterPayment(d)]
          \in [{e \in Paying : Ahead(e, c)} -> Int]
    OBVIOUS
  <2>. QED BY <1>2, <2>1, SumType
<1>5. Budget \in Int
  <2> DEFINE begun == {d \in DOMAIN plan : FirstMonth(d) <= month}
  <2>1. IsFiniteSet(begun)
    BY <1>1, FS_Subset
  <2>2. [d \in begun |-> terms[d].payment] \in [begun -> Int]
    <3> SUFFICES ASSUME NEW d \in DOMAIN plan PROVE terms[d].payment \in Int
      OBVIOUS
    <3>1. d \in Credits /\ schedule[d] # <<>>
      BY DEF PlanInv, PayoffTypeOK, Kept
    <3>. QED BY <3>1, CountedTerms DEF PlanInv, PayoffTypeOK, TermsOK
  <2>3. SumOf([d \in begun |-> terms[d].payment]) \in Int
    BY <2>1, <2>2, SumType
  <2>4. extra \in Int
    BY PayoffAssumption DEF PlanInv, PayoffTypeOK
  <2>. QED BY <2>3, <2>4 DEF Budget
<1>6. LeftFor(c) \in Int
  BY <1>3, <1>4, <1>5 DEF LeftFor
<1>. QED BY <1>6 DEF Early, Least

\* Nothing is left over for a debt that is alone: its payment is all there is.
LEMMA EarlyAlone ==
  ASSUME NEW c \in Paying, Alone(c), month \in Nat, FirstMonth(c) \in Nat,
         FirstMonth(c) <= month, terms[c].payment \in Nat, terms[c].rate \in Nat,
         terms[c].balance \in Nat, c \in Nat, Owed(c) \in Nat
  PROVE  Early(c) = 0
<1>1. Paying = {c} /\ {d \in DOMAIN plan : FirstMonth(d) <= month} = {c}
  BY DEF Paying, Alone
<1>2. ~Ahead(c, c)
  BY DEF Ahead
<1>3. {e \in Paying : Ahead(e, c)} = {}
  BY <1>1, <1>2
<1>4. Obligatory(c) \in Nat /\ AfterPayment(c) \in Nat
  BY DEF Obligatory, AfterPayment, Least
<1>5. Budget = terms[c].payment
  <2>1. PICK f : f = [d \in {e \in DOMAIN plan : FirstMonth(e) <= month} |-> terms[d].payment]
    OBVIOUS
  <2>2. f \in [{c} -> Int] /\ f[c] = terms[c].payment
    BY <1>1, <2>1
  <2>3. SumOf(f) = terms[c].payment
    BY <2>2, SumOfOne
  <2>4. Budget = 0 + SumOf(f)
    BY <2>1 DEF Budget, Alone
  <2>. QED BY <2>3, <2>4
<1>6. SumOf([d \in Paying |-> Obligatory(d)]) = Obligatory(c)
  <2>1. PICK f : f = [d \in Paying |-> Obligatory(d)]
    OBVIOUS
  <2>2. f \in [{c} -> Int] /\ f[c] = Obligatory(c)
    BY <1>1, <1>4, <2>1
  <2>. QED BY <2>1, <2>2, SumOfOne
<1>7. SumOf([d \in {e \in Paying : Ahead(e, c)} |-> AfterPayment(d)]) = 0
  BY <1>3, SumOfNone
<1>8. LeftFor(c) = terms[c].payment - Obligatory(c)
  BY <1>4, <1>5, <1>6, <1>7 DEF LeftFor
<1>. QED BY <1>4, <1>8 DEF Early, Obligatory, AfterPayment, Least

\* A debt that is paid in this month stands at the date of the next payment of
\* its schedule, and owes and pays no more than the schedule does then.
LEMMA PayingDebt ==
  ASSUME PlanInv, NEW c \in Paying
  PROVE  LET k == Made(c)
             s == schedule[c]
         IN /\ k \in Nat
            /\ k = month - FirstMonth(c)
            /\ k + 2 <= Len(s)
            /\ s[k + 2] \in Entry
            /\ plan[c].due = s[k + 2].on
            /\ plan[c].due = DueIn(month, terms[c].day)
            /\ Accrued(c) \in Nat
            /\ plan[c].interest + Accrued(c) <= s[k + 2].interest
            /\ Obligatory(c) \in Nat
            /\ AfterPayment(c) \in Nat
            /\ AfterPayment(c) <= s[k + 2].remaining
            /\ Alone(c) =>
                 /\ Early(c) = 0
                 /\ AfterPayment(c) = s[k + 2].remaining
                 /\ plan[c].interest + Accrued(c) = s[k + 2].interest
<1>1. c \in Credits /\ c \in DOMAIN plan /\ Open(c) /\ plan[c].due.month = month
  BY DEF Paying, PlanInv, PayoffTypeOK
<1>2. Kept(c) /\ ScheduleMade(c) /\ plan[c] \in Debt /\ TermsOK /\ month \in Nat
  BY <1>1 DEF PlanInv, PayoffTypeOK, TermsOK
<1>3. PICK s : s = schedule[c]
  OBVIOUS
<1>4. PICK k : k = Made(c)
  OBVIOUS
<1>5. s # <<>> /\ s \in Seq(Entry) /\ CannotCount(terms[c]) = "none"
  BY <1>1, <1>2, <1>3 DEF Kept, PlanInv, PayoffTypeOK
<1>6. /\ terms[c].rate \in Nat
      /\ terms[c].payment \in Nat \ {0}
      /\ terms[c].day \in PaymentDays
      /\ FirstMonth(c) \in Nat
  BY <1>1, <1>2, <1>5, CountedTerms
<1>7. /\ k \in Nat
      /\ k + 1 <= Len(s)
      /\ plan[c].remaining <= s[k + 1].remaining
      /\ plan[c].interest <= s[k + 1].interest
      /\ plan[c].remaining > 0
      /\ plan[c].previous = s[k + 1].on
      /\ plan[c].due = DueIn(month, terms[c].day)
      /\ s[Len(s)].remaining = 0
  BY <1>1, <1>2, <1>3, <1>4 DEF Kept, Last
<1>8. k = month - FirstMonth(c)
  BY <1>1, <1>4 DEF Made
<1>9. Len(s) \in Nat /\ k + 1 \in 1 .. Len(s) /\ s[k + 1] \in Entry
  BY <1>5, <1>7
<1>10. plan[c].remaining \in Nat /\ plan[c].interest \in Nat
  BY <1>2 DEF Debt
<1>11. s[k + 1].remaining \in Nat /\ s[k + 1].interest \in Nat /\ s[k + 1].on \in Date
  BY <1>9 DEF Entry
<1>12. k + 1 # Len(s)
  BY <1>7, <1>10, <1>11
<1>13. k + 1 \in 1 .. Len(s) - 1 /\ k + 2 \in 2 .. Len(s)
  BY <1>7, <1>9, <1>12
<1>14. s[k + 2] = NextScheduled(c, s[k + 1])
  <2>1. \A i \in 1 .. Len(s) - 1 : s[i + 1] = NextScheduled(c, s[i])
    BY <1>2, <1>3, <1>5 DEF ScheduleMade
  <2>2. k + 2 = (k + 1) + 1
    BY <1>7
  <2>. QED BY <1>13, <2>1, <2>2
<1>15. plan[c].due = s[k + 2].on
  <2>1. \A i \in 2 .. Len(s) : s[i].on = DueIn(FirstMonth(c) + (i - 2), terms[c].day)
    BY <1>2, <1>3, <1>5 DEF ScheduleMade
  <2>2. FirstMonth(c) + ((k + 2) - 2) = month
    BY <1>2, <1>6, <1>7, <1>8
  <2>. QED BY <1>7, <1>13, <2>1, <2>2
<1>16. s[k + 2] \in Entry
  BY <1>5, <1>13
<1>17. DueAfter(c, s[k + 1]) = plan[c].due
  BY <1>14, <1>15 DEF NextScheduled
<1>18. DaysBetween(s[k + 1].on, plan[c].due) \in Nat
  BY <1>6, <1>11, <1>17, NextDueType DEF DueAfter
<1>19. /\ Accrued(c) \in Nat
       /\ OwedAfter(c, s[k + 1]) - s[k + 1].remaining \in Nat
       /\ Accrued(c) <= OwedAfter(c, s[k + 1]) - s[k + 1].remaining
       /\ OwedAfter(c, s[k + 1]) \in Nat
  <2>1. /\ Interest(plan[c].remaining, terms[c].rate, s[k + 1].on, plan[c].due) \in Nat
        /\ Interest(s[k + 1].remaining, terms[c].rate, s[k + 1].on, plan[c].due) \in Nat
        /\ Interest(plan[c].remaining, terms[c].rate, s[k + 1].on, plan[c].due)
             <= Interest(s[k + 1].remaining, terms[c].rate, s[k + 1].on, plan[c].due)
    BY <1>6, <1>7, <1>10, <1>11, <1>18, InterestMonotone
  <2>2. Accrued(c) = Interest(plan[c].remaining, terms[c].rate, s[k + 1].on, plan[c].due)
    BY <1>7 DEF Accrued
  <2>3. OwedAfter(c, s[k + 1])
          = s[k + 1].remaining
              + Interest(s[k + 1].remaining, terms[c].rate, s[k + 1].on, plan[c].due)
    BY <1>17 DEF OwedAfter
  <2>. QED BY <1>11, <2>1, <2>2, <2>3
<1>20. Owed(c) \in Nat /\ Owed(c) <= OwedAfter(c, s[k + 1])
  <2>1. PICK p, q, a, o : /\ p = plan[c].remaining /\ q = s[k + 1].remaining
                         /\ a = Accrued(c) /\ o = OwedAfter(c, s[k + 1])
    OBVIOUS
  <2>2. p \in Nat /\ q \in Nat /\ a \in Nat /\ o \in Nat /\ p <= q /\ a <= o - q
    BY <1>7, <1>10, <1>11, <1>19, <2>1
  <2>3. p + a \in Nat /\ p + a <= o
    BY <2>2
  <2>. QED BY <2>1, <2>3 DEF Owed
<1>21. /\ Obligatory(c) \in Nat
       /\ AfterPayment(c) \in Nat
       /\ AfterPayment(c) <= OwedAfter(c, s[k + 1]) - Least(OwedAfter(c, s[k + 1]), terms[c].payment)
  BY <1>6, <1>19, <1>20 DEF AfterPayment, Obligatory, Least
<1>22. /\ s[k + 2].remaining = OwedAfter(c, s[k + 1]) - Least(OwedAfter(c, s[k + 1]), terms[c].payment)
       /\ s[k + 2].interest = s[k + 1].interest + OwedAfter(c, s[k + 1]) - s[k + 1].remaining
  BY <1>14 DEF NextScheduled
<1>23. plan[c].interest + Accrued(c) <= s[k + 2].interest
  <2>1. PICK i, j, a, o, r :
          /\ i = plan[c].interest /\ j = s[k + 1].interest /\ a = Accrued(c)
          /\ o = OwedAfter(c, s[k + 1]) /\ r = s[k + 1].remaining
    OBVIOUS
  <2>2. i \in Nat /\ j \in Nat /\ a \in Nat /\ o \in Nat /\ r \in Nat
    BY <1>10, <1>11, <1>19, <2>1
  <2>3. i <= j /\ a <= o - r
    BY <1>7, <1>19, <2>1
  <2>4. i + a <= j + o - r
    BY <2>2, <2>3
  <2>. QED BY <1>22, <2>1, <2>4
<1>24. k + 2 <= Len(s)
  BY <1>13
<1>25. ASSUME Alone(c)
       PROVE  /\ Early(c) = 0
              /\ AfterPayment(c) = s[k + 2].remaining
              /\ plan[c].interest + Accrued(c) = s[k + 2].interest
  <2>1. plan[c].remaining = s[k + 1].remaining /\ plan[c].interest = s[k + 1].interest
    BY <1>2, <1>3, <1>4, <1>25 DEF Kept
  <2>2. Accrued(c) = OwedAfter(c, s[k + 1]) - s[k + 1].remaining
    <3>1. Accrued(c) = Interest(s[k + 1].remaining, terms[c].rate, s[k + 1].on, plan[c].due)
      BY <1>7, <2>1 DEF Accrued
    <3>. QED BY <1>11, <1>17, <1>19, <3>1 DEF OwedAfter
  <2>3. Owed(c) = OwedAfter(c, s[k + 1])
    BY <1>11, <1>19, <2>1, <2>2 DEF Owed
  <2>4. AfterPayment(c) = s[k + 2].remaining
    <3>1. Least(terms[c].payment, Owed(c)) = Least(OwedAfter(c, s[k + 1]), terms[c].payment)
      BY <1>6, <1>19, <2>3 DEF Least
    <3>. QED BY <1>22, <2>3, <3>1 DEF AfterPayment, Obligatory
  <2>5. plan[c].interest + Accrued(c) = s[k + 2].interest
    <3>1. \A j, o, r \in Nat : j + (o - r) = j + o - r
      OBVIOUS
    <3>. QED BY <1>11, <1>19, <1>22, <2>1, <2>2, <3>1
  <2>6. Early(c) = 0
    <3>1. terms[c].balance \in Nat /\ c \in Nat
      BY <1>1, <1>2, <1>5, CountedTerms, PayoffAssumption
    <3>2. FirstMonth(c) <= month
      BY <1>2, <1>6, <1>7, <1>8
    <3>. QED BY <1>2, <1>6, <1>20, <1>25, <3>1, <3>2, EarlyAlone
  <2>. QED BY <2>4, <2>5, <2>6
<1>. QED BY <1>3, <1>4, <1>7, <1>8, <1>15, <1>16, <1>19, <1>21, <1>22, <1>23, <1>24, <1>25

\* A month of payments: a debt that is paid in it moves on by one payment of its
\* schedule, and the others stay.
LEMMA PayMonthPlanInv ==
  ASSUME PlanInv, PayMonth
  PROVE  PlanInv'
<1>1. /\ UNCHANGED <<terms, strategy, extra, skipped, schedule, phase>>
      /\ phase = "planning"
      /\ month' = month + 1
      /\ plan' = [c \in DOMAIN plan |-> IF c \in Paying THEN AfterMonth(c) ELSE plan[c]]
      /\ month \in Nat
      /\ DOMAIN plan \subseteq Credits
      /\ DOMAIN plan' = DOMAIN plan
  BY DEF PayMonth, PlanInv, PayoffTypeOK
<1>2. \A c \in Paying : c \in DOMAIN plan
  BY DEF Paying
<1>3. \A c \in Paying : Obligatory(c) \in Int /\ AfterPayment(c) \in Nat
  BY PayingDebt
<1>4. ASSUME NEW c \in DOMAIN plan
      PROVE  plan'[c] \in Debt /\ Kept(c)'
  <2>1. c \in Credits /\ Kept(c) /\ plan[c] \in Debt /\ schedule' = schedule /\ terms' = terms
    BY <1>1 DEF PlanInv, PayoffTypeOK
  <2>2. CASE c \notin Paying
    <3>1. plan'[c] = plan[c]
      BY <1>1, <2>2
    <3>2. Open(c)' = Open(c)
      BY <3>1 DEF Open
    <3>3. Made(c)' = Made(c)
      BY <2>1, <3>1, <3>2, SameDates DEF Made
    <3>4. Open(c) => plan[c].due.month # month
      BY <2>2 DEF Paying
    <3>5. plan[c].due.month \in Nat
      BY <2>1 DEF Debt, Date
    <3>6. Alone(c)' = Alone(c)
      BY <1>1 DEF Alone
    <3>. QED BY <1>1, <2>1, <3>1, <3>2, <3>3, <3>4, <3>5, <3>6, SameDates DEF Kept
  <2>3. CASE c \in Paying
    <3>1. PICK k : k = Made(c)
      OBVIOUS
    <3>2. PICK s : s = schedule[c]
      OBVIOUS
    <3>3. /\ k \in Nat
          /\ k = month - FirstMonth(c)
          /\ k + 2 <= Len(s)
          /\ s[k + 2] \in Entry
          /\ plan[c].due = s[k + 2].on
          /\ plan[c].due = DueIn(month, terms[c].day)
          /\ Accrued(c) \in Nat
          /\ plan[c].interest + Accrued(c) <= s[k + 2].interest
          /\ AfterPayment(c) \in Nat
          /\ AfterPayment(c) <= s[k + 2].remaining
          /\ Alone(c) =>
               /\ Early(c) = 0
               /\ AfterPayment(c) = s[k + 2].remaining
               /\ plan[c].interest + Accrued(c) = s[k + 2].interest
      BY <2>3, <3>1, <3>2, PayingDebt
    <3>4. Early(c) \in 0 .. AfterPayment(c)
      BY <1>3, <2>3, EarlyType
    <3>5. PICK left : left = AfterPayment(c) - Early(c)
      OBVIOUS
    <3>6. left \in Nat /\ left <= s[k + 2].remaining
      BY <3>3, <3>4, <3>5 DEF Entry
    <3>7. /\ plan[c].remaining \in Nat /\ plan[c].previous \in Date /\ plan[c].due \in Date
          /\ plan[c].interest \in Nat /\ plan[c].due.month = month /\ plan[c].payoff = None
      BY <2>1, <2>3 DEF Debt, Paying, Open
    <3>8. CannotCount(terms[c]) = "none" /\ TermsOK
      BY <2>1 DEF Kept, PlanInv, PayoffTypeOK, TermsOK
    <3>9. terms[c].day \in PaymentDays /\ FirstMonth(c) \in Nat
      BY <2>1, <3>8, CountedTerms
    <3>10. plan[c] \in [remaining : Nat, previous : Date, due : Date, interest : Nat,
                         payoff : Date \cup {None}]
      BY <2>1 DEF Debt
    <3>11. plan'[c].remaining = left /\ plan'[c].interest = plan[c].interest + Accrued(c)
      BY <1>1, <2>3, <3>5, <3>10 DEF AfterMonth
    <3>12. s # <<>> /\ Last(s).remaining = 0 /\ schedule'[c] = s /\ terms'[c].day = terms[c].day
      BY <2>1, <3>2 DEF Kept
    <3>13. Alone(c)' => /\ plan'[c].remaining = s[k + 2].remaining
                        /\ plan'[c].interest = s[k + 2].interest
      <4>1. Alone(c)' => Alone(c)
        BY <1>1 DEF Alone
      <4>. QED BY <3>3, <3>5, <3>11, <4>1
    <3>14. CASE left = 0
      <4>1. /\ plan'[c].payoff = plan[c].due
            /\ plan'[c].previous = plan[c].previous
            /\ plan'[c].due = plan[c].due
            /\ plan'[c] \in Debt
        <5>1. plan'[c] = [remaining |-> left, previous |-> plan[c].previous, due |-> plan[c].due,
                          interest |-> plan[c].interest + Accrued(c), payoff |-> plan[c].due]
          BY <1>1, <2>3, <3>5, <3>10, <3>14 DEF AfterMonth
        <5>2. plan[c].interest + Accrued(c) \in Nat
          BY <3>3, <3>7
        <5>. QED BY <3>6, <3>7, <5>1, <5>2 DEF Debt
      <4>2. ~Open(c)'
        BY <3>7, <4>1, PayoffAssumption DEF Open
      <4>3. Made(c)' = k + 1
        BY <2>1, <3>3, <3>7, <4>1, <4>2, SameDates DEF Made
      <4>4. (k + 1) + 1 = k + 2
        BY <3>3
      <4>5. s[(k + 1) + 1] = s[k + 2] /\ k + 1 \in Nat /\ (k + 1) + 1 <= Len(s)
        BY <3>3, <4>4
      <4>6. plan'[c].interest <= s[k + 2].interest /\ plan'[c].remaining = 0
        BY <3>3, <3>11, <3>14
      <4>7. plan'[c].remaining <= s[k + 2].remaining /\ plan'[c].payoff = s[k + 2].on
        BY <3>3, <3>6, <3>11, <4>1
      <4>. QED BY <3>12, <3>13, <4>1, <4>2, <4>3, <4>5, <4>6, <4>7 DEF Kept
    <3>15. CASE left # 0
      <4>1. /\ plan'[c].payoff = None
            /\ plan'[c].previous = plan[c].due
            /\ plan'[c].due = NextDue(plan[c].due, terms[c].day)
        BY <1>1, <2>3, <3>5, <3>7, <3>10, <3>15 DEF AfterMonth
      <4>2. plan'[c].due = DueIn(month + 1, terms[c].day)
        BY <1>1, <3>3, <3>9, <4>1, NextDueOfDue
      <4>3. plan'[c].due \in Date /\ plan'[c].due.month = month + 1
        <5>1. month + 1 \in Nat
          BY <1>1
        <5>. QED BY <3>9, <4>2, <5>1, DueInType
      <4>4. plan'[c] \in Debt
        <5>1. plan'[c] = [remaining |-> left, previous |-> plan[c].due,
                          due |-> NextDue(plan[c].due, terms[c].day),
                          interest |-> plan[c].interest + Accrued(c), payoff |-> None]
          BY <1>1, <2>3, <3>5, <3>7, <3>10, <3>15 DEF AfterMonth
        <5>2. plan[c].interest + Accrued(c) \in Nat
          BY <3>3, <3>7
        <5>3. NextDue(plan[c].due, terms[c].day) \in Date
          BY <4>1, <4>3
        <5>. QED BY <3>6, <3>7, <5>1, <5>2, <5>3 DEF Debt
      <4>5. Open(c)'
        BY <4>1 DEF Open
      <4>6. Made(c)' = k + 1
        BY <1>1, <2>1, <3>3, <3>9, <4>3, <4>5, SameDates DEF Made
      <4>7. (k + 1) + 1 = k + 2
        BY <3>3
      <4>8. s[(k + 1) + 1] = s[k + 2] /\ k + 1 \in Nat /\ (k + 1) + 1 <= Len(s)
        BY <3>3, <4>7
      <4>9. /\ plan'[c].interest <= s[k + 2].interest
            /\ plan'[c].remaining <= s[k + 2].remaining
            /\ plan'[c].remaining > 0
            /\ plan'[c].previous = s[k + 2].on
        BY <3>3, <3>6, <3>11, <3>15, <4>1
      <4>10. /\ plan'[c].due = DueIn(plan'[c].due.month, terms'[c].day)
             /\ plan'[c].due.month >= month'
             /\ ~(plan'[c].due.month > month')
        BY <1>1, <3>12, <4>2, <4>3
      <4>. QED BY <3>12, <3>13, <4>4, <4>5, <4>6, <4>8, <4>9, <4>10 DEF Kept
    <3>. QED BY <3>14, <3>15
  <2>. QED BY <2>2, <2>3
<1>5. PayoffTypeOK'
  <2>1. plan' \in [DOMAIN plan -> Debt]
    BY <1>1, <1>4
  <2>2. \A c \in Credits : schedule'[c] # <<>> => CannotCount(terms'[c]) = "none"
    BY <1>1 DEF PlanInv, PayoffTypeOK
  <2>. QED BY <1>1, <2>1, <2>2 DEF PlanInv, PayoffTypeOK
<1>6. ASSUME NEW c \in Credits PROVE ScheduleMade(c)'
  BY <1>1, SameDates DEF ScheduleMade, PlanInv
<1>7. InTime'
  <2>1. PICK c \in DOMAIN plan : Open(c)
    BY DEF PayMonth
  <2>2. c \in Credits /\ Kept(c) /\ plan[c] \in Debt
    BY <1>1, <2>1 DEF PlanInv, PayoffTypeOK
  <2>3. /\ FirstMonth(c) \in Nat
        /\ schedule[c] \in Seq(Entry)
        /\ Len(schedule[c]) \in Nat
    BY <2>2, CountedTerms DEF Kept, PlanInv, PayoffTypeOK, TermsOK
  <2>4. /\ Last(schedule[c]).remaining = 0
        /\ plan[c].remaining > 0
        /\ plan[c].remaining <= schedule[c][Made(c) + 1].remaining
        /\ Made(c) \in Nat
        /\ Made(c) + 1 <= Len(schedule[c])
        /\ plan[c].due.month >= month
        /\ plan[c].due.month = FirstMonth(c) + Made(c)
        /\ plan[c].remaining \in Nat
    <3>1. plan[c].due.month \in Nat /\ plan[c].remaining \in Nat
      BY <2>2 DEF Debt, Date
    <3>. QED BY <2>1, <2>2, <2>3, <3>1 DEF Kept, Made
  <2>5. schedule[c][Made(c) + 1].remaining \in Nat
    <3>1. schedule[c][Made(c) + 1] \in Entry
      BY <2>3, <2>4
    <3>. QED BY <3>1 DEF Entry
  <2>6. Made(c) + 1 # Len(schedule[c])
    BY <2>4, <2>5 DEF Last
  <2>7. FirstMonth(c) + Len(schedule[c]) - 1 >= month + 1
    BY <1>1, <2>3, <2>4, <2>6
  <2>8. \E d \in DOMAIN plan : \A e \in DOMAIN plan : FirstMonth(d) <= FirstMonth(e)
    BY <2>1 DEF PlanInv, InTime
  <2>. QED BY <1>1, <2>7, <2>8, SameDates DEF InTime
<1>8. FailsOnlyAtTheLimit'
  BY <1>1 DEF FailsOnlyAtTheLimit
<1>. QED BY <1>1, <1>4, <1>5, <1>6, <1>7, <1>8 DEF PlanInv

-----------------------------------------------------------------------------
\* When only what payoff_plan is at changes, the plan is kept as it is.
LEMMA SamePlan ==
  ASSUME PlanInv, UNCHANGED <<terms, strategy, extra, skipped, schedule, month, plan>>,
         phase' \in {"checking", "planning", "planned", "failed"}
  PROVE  /\ PayoffTypeOK'
         /\ \A c \in Credits : ScheduleMade(c)'
         /\ \A c \in DOMAIN plan' : Kept(c)'
         /\ \A c : Open(c)' = Open(c)
         /\ InTime'
<1>1. \A c : Open(c)' = Open(c) /\ Made(c)' = Made(c) /\ Alone(c)' = Alone(c)
  BY SameDates DEF Open, Made, Alone
<1>2. PayoffTypeOK'
  BY DEF PlanInv, PayoffTypeOK
<1>3. \A c \in Credits : ScheduleMade(c)'
  BY ZenonT(60), SameDates DEF PlanInv, ScheduleMade
<1>4. \A c \in DOMAIN plan' : Kept(c)'
  BY <1>1, SameDates DEF PlanInv, Kept
<1>5. InTime'
  BY SameDates DEF PlanInv, InTime
<1>. QED BY <1>1, <1>2, <1>3, <1>4, <1>5

LEMMA NextPlanInv ==
  ASSUME PlanInv, [PayoffNext]_payoffVars
  PROVE  PlanInv'
<1>1. CASE \E c \in Credits : Check(c)
  BY <1>1, SkipsPlanInv, SchedulePlanInv DEF Check
<1>2. CASE Begin
  BY <1>2, BeginPlanInv
<1>3. CASE PayMonth
  BY <1>3, PayMonthPlanInv
<1>4. CASE Finish
  <2>1. /\ UNCHANGED <<terms, strategy, extra, skipped, schedule, month, plan>>
        /\ phase' = "planned"
        /\ \A c \in DOMAIN plan : ~Open(c)
    BY <1>4 DEF Finish
  <2>. QED BY <2>1, SamePlan DEF PlanInv, FailsOnlyAtTheLimit
<1>5. CASE GiveUp
  <2>1. /\ UNCHANGED <<terms, strategy, extra, skipped, schedule, month, plan>>
        /\ phase = "planning" /\ phase' = "failed" /\ MonthsGone >= MaxPayments
    BY <1>5 DEF GiveUp
  <2>2. DOMAIN plan # {} /\ month \in Nat
    BY <2>1 DEF PlanInv, PayoffTypeOK
  <2>3. FailsOnlyAtTheLimit'
    <3>1. PICK c \in DOMAIN plan : FirstMonth(c) + Len(schedule[c]) - 1 >= month
      BY <2>2 DEF PlanInv, InTime
    <3>2. PICK d \in DOMAIN plan : \A e \in DOMAIN plan : FirstMonth(d) <= FirstMonth(e)
      BY <2>2 DEF PlanInv, InTime
    <3>3. \A e \in DOMAIN plan : FirstMonth(e) \in Nat /\ schedule[e] \in Seq(Entry)
      BY CountedTerms DEF PlanInv, PayoffTypeOK, Kept, TermsOK
    <3>4. MonthsGone = month - FirstMonth(d)
      BY SMTT(60), <3>2, <3>3 DEF MonthsGone
    <3>5. Len(schedule[c]) \in Nat /\ MaxPayments \in Nat
      BY <3>3, PayoffAssumption
    <3>6. FirstMonth(c) + Len(schedule[c]) - 1 - FirstMonth(d) >= MaxPayments
      BY <2>1, <2>2, <3>1, <3>3, <3>4, <3>5
    <3>. QED BY <2>1, <3>6, SameDates DEF FailsOnlyAtTheLimit
  <2>. QED BY <2>1, <2>2, <2>3, SamePlan DEF PlanInv
<1>6. CASE UNCHANGED payoffVars
  <2>1. UNCHANGED <<terms, strategy, extra, skipped, schedule, phase, month, plan>>
    BY <1>6 DEF payoffVars
  <2>2. phase' \in {"checking", "planning", "planned", "failed"}
    BY <2>1 DEF PlanInv, PayoffTypeOK
  <2>3. FailsOnlyAtTheLimit'
    BY <2>1, SameDates DEF PlanInv, FailsOnlyAtTheLimit
  <2>. QED BY <2>1, <2>2, <2>3, SamePlan DEF PlanInv
<1>. QED BY <1>1, <1>2, <1>3, <1>4, <1>5, <1>6 DEF PayoffNext

\* The rows, the schedules and the plan are of their types in every state.
THEOREM PayoffTypeCorrect == PayoffSpec => []PayoffTypeOK
<1>1. PayoffInit => PlanInv
  BY InitPlanInv
<1>2. PlanInv /\ [PayoffNext]_payoffVars => PlanInv'
  BY NextPlanInv
<1>3. PlanInv => PayoffTypeOK
  BY DEF PlanInv
<1>. QED BY <1>1, <1>2, <1>3, PTL DEF PayoffSpec

\* simulate_payoff raises only for a plan whose schedules reach the last month
\* that its loop looks at, whatever the terms, the addition and the order.
THEOREM PayoffFailsOnlyAtTheLimit == PayoffSpec => []FailsOnlyAtTheLimit
<1>1. PayoffInit => PlanInv
  BY InitPlanInv
<1>2. PlanInv /\ [PayoffNext]_payoffVars => PlanInv'
  BY NextPlanInv
<1>3. PlanInv => FailsOnlyAtTheLimit
  BY DEF PlanInv
<1>. QED BY <1>1, <1>2, <1>3, PTL DEF PayoffSpec

-----------------------------------------------------------------------------
\* The rows that NeverBehind and its companions are about, of one debt.
LEMMA DebtFacts ==
  ASSUME PlanInv, NEW c \in DOMAIN plan
  PROVE  /\ schedule[c] \in Seq(Entry)
         /\ Len(schedule[c]) \in Nat \ {0}
         /\ Made(c) + 1 \in 1 .. Len(schedule[c])
         /\ schedule[c][Made(c) + 1] \in Entry
         /\ Last(schedule[c]) = schedule[c][Len(schedule[c])]
         /\ Last(schedule[c]) \in Entry
         /\ plan[c] \in Debt
         /\ c \in Credits
         /\ plan[c].interest <= Last(schedule[c]).interest
         /\ ~Open(c) => /\ plan[c].payoff = schedule[c][Made(c) + 1].on
                        /\ plan[c].payoff \in Date
<1>1. c \in Credits /\ plan[c] \in Debt /\ Kept(c) /\ ScheduleMade(c)
  BY DEF PlanInv, PayoffTypeOK
<1>2. schedule[c] # <<>> /\ schedule[c] \in Seq(Entry)
  BY <1>1 DEF Kept, PlanInv, PayoffTypeOK
<1>3. Len(schedule[c]) \in Nat \ {0}
  BY <1>2
<1>4. Made(c) + 1 \in 1 .. Len(schedule[c])
  BY <1>1, <1>3 DEF Kept
<1>5. schedule[c][Made(c) + 1] \in Entry /\ schedule[c][Len(schedule[c])] \in Entry
  BY <1>2, <1>3, <1>4
<1>6. schedule[c][Made(c) + 1].interest <= Last(schedule[c]).interest
  BY <1>1, <1>2, <1>4 DEF ScheduleMade
<1>7. plan[c].interest <= schedule[c][Made(c) + 1].interest
  BY <1>1 DEF Kept
<1>8. plan[c].interest <= Last(schedule[c]).interest
  BY <1>1, <1>5, <1>6, <1>7 DEF Debt, Entry, Last
<1>9. ~Open(c) => plan[c].payoff = schedule[c][Made(c) + 1].on /\ plan[c].payoff \in Date
  BY <1>1, <1>5 DEF Kept, Entry
<1>. QED BY <1>1, <1>2, <1>3, <1>4, <1>5, <1>8, <1>9 DEF Last

\* The dates of a schedule go forward.
LEMMA ScheduleDates ==
  ASSUME PlanInv, NEW c \in Credits, schedule[c] # <<>>
  PROVE  LET s == schedule[c]
             n == Len(s)
             first == FirstMonth(c)
             day == terms[c].day
         IN /\ s \in Seq(Entry) /\ n \in Nat \ {0}
            /\ first \in Nat /\ day \in PaymentDays
            /\ \A i \in 1 .. n : s[i].on \in Date
            /\ s[1].on = Since(c)
            /\ \A i \in 2 .. n : s[i].on = DueIn(first + (i - 2), day)
            /\ Since(c) \in Date
            /\ IsBefore(Since(c), DueIn(first, day))
            /\ first \in {Since(c).month, Since(c).month + 1}
            /\ \A i \in 1 .. n : ~IsBefore(Last(s).on, s[i].on)
<1>1. PICK s : s = schedule[c]
  OBVIOUS
<1>2. s \in Seq(Entry) /\ CannotCount(terms[c]) = "none" /\ TermsOK /\ ScheduleMade(c)
  BY <1>1 DEF PlanInv, PayoffTypeOK, TermsOK
<1>3. PICK n : n = Len(s)
  OBVIOUS
<1>4. n \in Nat \ {0}
  BY <1>1, <1>2, <1>3
<1>5. PICK first : first = FirstMonth(c)
  OBVIOUS
<1>6. PICK day : day = terms[c].day
  OBVIOUS
<1>7. /\ first \in Nat /\ day \in PaymentDays /\ Since(c) \in Date
      /\ FirstDue(c) = DueIn(first, day)
  BY <1>2, <1>5, <1>6, CountedTerms
<1>8. \A i \in 1 .. n : s[i] \in Entry
  BY <1>2, <1>3, <1>4
<1>9. \A i \in 1 .. n : s[i].on \in Date
  BY <1>8 DEF Entry
<1>10. /\ s[1].on = Since(c)
       /\ \A i \in 2 .. n : s[i].on = DueIn(first + (i - 2), day)
  BY <1>1, <1>2, <1>3, <1>5, <1>6 DEF ScheduleMade, Start
<1>11. FirstDue(c) = NextDue(Since(c), day)
  BY <1>6 DEF FirstDue
<1>12. IsBefore(Since(c), DueIn(first, day)) /\ first \in {Since(c).month, Since(c).month + 1}
  <2>1. IsBefore(Since(c), FirstDue(c)) /\ FirstDue(c).month \in {Since(c).month, Since(c).month + 1}
    BY <1>7, <1>11, NextDueType
  <2>. QED BY <1>5, <1>7, <2>1 DEF FirstMonth
<1>13. ASSUME NEW i \in 1 .. n PROVE ~IsBefore(s[n].on, s[i].on)
  <2>1. CASE i = n
    <3>1. s[n].on.month \in Nat /\ s[n].on.day \in Nat
      BY <1>4, <1>9, DateParts
    <3>. QED BY <2>1, <3>1 DEF IsBefore
  <2>2. CASE i # n /\ i # 1
    <3>1. first + (i - 2) \in Nat /\ first + (n - 2) \in Nat /\ first + (i - 2) < first + (n - 2)
      BY <1>4, <1>7, <2>2
    <3>2. DueIn(first + (i - 2), day).month = first + (i - 2) /\ DueIn(first + (n - 2), day).month = first + (n - 2)
      BY <1>7, <3>1, DueInType
    <3>3. s[i].on = DueIn(first + (i - 2), day) /\ s[n].on = DueIn(first + (n - 2), day)
      BY <1>4, <1>10, <2>2
    <3>. QED BY <3>1, <3>2, <3>3 DEF IsBefore
  <2>3. CASE i # n /\ i = 1
    <3>1. first + (n - 2) \in Nat /\ n \in 2 .. n
      BY <1>4, <1>7, <2>3
    <3>2. /\ s[n].on = DueIn(first + (n - 2), day)
          /\ DueIn(first + (n - 2), day).month = first + (n - 2)
          /\ s[1].on = Since(c)
      BY <1>7, <1>10, <3>1, DueInType
    <3>3. Since(c).month \in Nat /\ Since(c).day \in Nat
      BY <1>7, DateParts
    <3>4. CASE n = 2
      <4>1. s[n].on = DueIn(first, day)
        BY <1>7, <3>2, <3>4
      <4>2. DueIn(first, day).month \in Nat /\ DueIn(first, day).day \in Nat
        BY <1>7, DueInType, DateParts
      <4>3. ~IsBefore(DueIn(first, day), Since(c))
        BY <1>12, <3>3, <4>2 DEF IsBefore
      <4>. QED BY <2>3, <3>2, <4>1, <4>3
    <3>5. CASE n # 2
      <4>1. Since(c).month < first + (n - 2)
        BY <1>4, <1>7, <1>12, <2>3, <3>3, <3>5
      <4>. QED BY <2>3, <3>2, <3>3, <4>1, <1>4, <1>7 DEF IsBefore
    <3>. QED BY <3>4, <3>5
  <2>. QED BY <2>1, <2>2, <2>3
<1>14. Last(s) = s[n]
  BY <1>3 DEF Last
<1>. QED BY <1>1, <1>2, <1>3, <1>4, <1>5, <1>6, <1>7, <1>9, <1>10, <1>12, <1>13, <1>14

\* The days of payment between the start of a schedule and its last payment are its dates.
LEMMA WalkOfSchedule ==
  ASSUME PlanInv, NEW c \in Credits, schedule[c] # <<>>
  PROVE  {schedule[c][i].on : i \in 2 .. Len(schedule[c])}
           = DueDates(terms[c].day, schedule[c][1].on, Last(schedule[c]).on)
<1>1. PICK s : s = schedule[c]
  OBVIOUS
<1>2. PICK n : n = Len(s)
  OBVIOUS
<1>3. PICK first : first = FirstMonth(c)
  OBVIOUS
<1>4. PICK day : day = terms[c].day
  OBVIOUS
<1>5. PICK since : since = Since(c)
  OBVIOUS
<1>6. /\ n \in Nat \ {0}
      /\ first \in Nat /\ day \in PaymentDays
      /\ s[1].on = since
      /\ \A i \in 2 .. n : s[i].on = DueIn(first + (i - 2), day)
      /\ since \in Date
      /\ IsBefore(since, DueIn(first, day))
      /\ first \in {since.month, since.month + 1}
      /\ \A i \in 1 .. n : ~IsBefore(s[n].on, s[i].on)
      /\ Last(s) = s[n]
  BY <1>1, <1>2, <1>3, <1>4, <1>5, ScheduleDates DEF Last
<1>7. since.month \in Nat
  BY <1>6 DEF Date
<1>8. \A m \in Nat : DueIn(m, day).month = m
  BY <1>6, DueInType
<1>9. CASE n = 1
  <2>1. s[n].on = since /\ 2 .. n = {}
    BY <1>6, <1>9
  <2>2. DueDates(day, since, since) = {}
    BY DEF DueDates
  <2>. QED BY <1>1, <1>2, <1>4, <1>6, <2>1, <2>2
<1>10. CASE n # 1
  <2>1. PICK final : final = first + (n - 2)
    OBVIOUS
  <2>2. final \in Nat /\ final >= first /\ s[n].on = DueIn(final, day)
    BY <1>6, <1>10, <2>1
  <2>3. ASSUME NEW i \in 2 .. n PROVE s[i].on \in DueDates(day, since, s[n].on)
    <3>1. PICK m : m = first + (i - 2)
      OBVIOUS
    <3>2. /\ m \in Nat /\ m >= first /\ m <= final /\ m \in since.month .. final
          /\ s[i].on = DueIn(m, day)
      BY <1>6, <1>7, <2>1, <2>3, <3>1
    <3>3. IsBefore(since, DueIn(m, day))
      <4>1. CASE m = first
        BY <1>6, <4>1
      <4>2. CASE m # first
        <5>1. since.month < m /\ DueIn(m, day).month = m
          BY <1>6, <1>7, <1>8, <3>2, <4>2
        <5>. QED BY <5>1 DEF IsBefore
      <4>. QED BY <4>1, <4>2
    <3>4. ~IsBefore(s[n].on, s[i].on)
      BY <1>6, <2>3
    <3>5. s[n].on.month = final
      BY <1>8, <2>2
    <3>. QED BY <3>2, <3>3, <3>4, <3>5 DEF DueDates
  <2>4. ASSUME NEW due \in DueDates(day, since, s[n].on)
        PROVE  \E i \in 2 .. n : due = s[i].on
    <3>1. s[n].on.month = final
      BY <1>8, <2>2
    <3>2. PICK m \in since.month .. final : due = DueIn(m, day) /\ IsBefore(since, due)
      BY <2>4, <3>1 DEF DueDates
    <3>3. m \in Nat /\ DueIn(m, day).month = m
      BY <1>7, <1>8, <2>2, <3>2
    <3>4. m >= first
      <4>1. CASE first = since.month
        BY <3>2, <4>1, <1>7
      <4>2. CASE first = since.month + 1
        <5>1. NextDue(since, day) = DueIn(first, day)
          <6>1. CannotCount(terms[c]) = "none" /\ TermsOK
            BY DEF PlanInv, PayoffTypeOK, TermsOK
          <6>2. FirstDue(c) = DueIn(FirstMonth(c), terms[c].day)
            BY <6>1, CountedTerms
          <6>. QED BY <1>3, <1>4, <1>5, <6>2 DEF FirstDue
        <5>2. ~IsBefore(since, DueIn(since.month, day))
          <6> SUFFICES ASSUME IsBefore(since, DueIn(since.month, day)) PROVE FALSE
            OBVIOUS
          <6>1. NextDue(since, day) = DueIn(since.month, day)
            BY DEF NextDue
          <6>2. DueIn(since.month, day).month = since.month /\ DueIn(first, day).month = first
            BY <1>6, <1>7, <1>8
          <6>. QED BY <1>7, <4>2, <5>1, <6>1, <6>2
        <5>3. m # since.month
          BY <3>2, <5>2
        <5>. QED BY <1>7, <3>2, <3>3, <4>2, <5>3
      <4>. QED BY <1>6, <4>1, <4>2
    <3>5. m - first + 2 \in 2 .. n /\ first + ((m - first + 2) - 2) = m
      BY <1>6, <2>1, <2>2, <3>2, <3>3, <3>4
    <3>. QED BY <1>6, <3>2, <3>5
  <2>5. {s[i].on : i \in 2 .. n} = DueDates(day, since, s[n].on)
    BY <2>3, <2>4
  <2>. QED BY <1>1, <1>2, <1>4, <1>6, <2>5
<1>. QED BY <1>9, <1>10

\* Of the days of payment after one date, those that are after another.
LEMMA WalksWithin ==
  ASSUME NEW day \in PaymentDays, NEW a \in Date, NEW b \in Date, NEW h \in Date,
         NEW due \in DueDates(day, a, h), IsBefore(b, due)
  PROVE  due \in DueDates(day, b, h) /\ IsBefore(a, due)
<1>1. PICK m \in a.month .. h.month : due = DueIn(m, day)
  BY DEF DueDates
<1>2. IsBefore(a, due) /\ ~IsBefore(h, due)
  BY DEF DueDates
<1>3. a.month \in Nat /\ b.month \in Nat /\ h.month \in Nat
  BY DEF Date
<1>4. m \in Nat /\ due.month = m
  BY <1>1, <1>3, DueInType
<1>5. m \in b.month .. h.month
  BY <1>1, <1>3, <1>4 DEF IsBefore
<1>. QED BY <1>1, <1>2, <1>5 DEF DueDates

\* Both walks go over the same days of payment.
LEMMA WalksMeet ==
  ASSUME NEW day \in PaymentDays, NEW a \in Date, NEW b \in Date, NEW h \in Date
  PROVE  {due \in DueDates(day, a, h) : IsBefore(b, due)}
           = {due \in DueDates(day, b, h) : IsBefore(a, due)}
<1>1. \A due \in DueDates(day, a, h) :
        IsBefore(b, due) => due \in DueDates(day, b, h) /\ IsBefore(a, due)
  BY WalksWithin
<1>2. \A due \in DueDates(day, b, h) :
        IsBefore(a, due) => due \in DueDates(day, a, h) /\ IsBefore(b, due)
  BY WalksWithin
<1>. QED BY <1>1, <1>2

\* The walk of the daily allowance finds the dates of the schedule that are after today.
LEMMA PlanInvDuesAgree == PlanInv => DuesAgree
<1> SUFFICES ASSUME PlanInv, NEW c \in Credits, schedule[c] # <<>>
             PROVE  {due \in Reserved(c, Last(schedule[c]).on) : IsBefore(schedule[c][1].on, due)}
                      = {due \in {schedule[c][i].on : i \in 2 .. Len(schedule[c])} :
                           IsBefore(Today, due)}
  BY DEF DuesAgree
<1>1. PICK s : s = schedule[c]
  OBVIOUS
<1>2. PICK day : day = terms[c].day
  OBVIOUS
<1>3. day \in PaymentDays /\ s[1].on \in Date /\ Last(s).on \in Date
  BY <1>1, <1>2, ScheduleDates DEF Last
<1>4. Reserved(c, Last(s).on) = DueDates(day, Today, Last(s).on)
  <2>1. CannotCount(terms[c]) = "none"
    BY DEF PlanInv, PayoffTypeOK
  <2>. QED BY <1>2, <2>1 DEF Reserved, CannotCount
<1>5. {s[i].on : i \in 2 .. Len(s)} = DueDates(day, s[1].on, Last(s).on)
  BY <1>1, <1>2, WalkOfSchedule
<1>6. Today \in Date
  BY PayoffAssumption DEF PayoffAssumption
<1>. QED BY <1>1, <1>3, <1>4, <1>5, <1>6, WalksMeet

LEMMA PlanInvNeverBehind == PlanInv => NeverBehind
<1> SUFFICES ASSUME PlanInv, NEW c \in DOMAIN plan
             PROVE  /\ Made(c) + 1 \in DOMAIN schedule[c]
                    /\ plan[c].remaining <= schedule[c][Made(c) + 1].remaining
                    /\ plan[c].interest <= schedule[c][Made(c) + 1].interest
  BY DEF NeverBehind
<1>1. Made(c) + 1 \in DOMAIN schedule[c]
  BY DebtFacts
<1>. QED BY <1>1 DEF PlanInv, Kept

LEMMA PlanInvAloneAsScheduled == PlanInv => AloneAsScheduled
<1> SUFFICES ASSUME PlanInv, NEW c \in DOMAIN plan, DOMAIN plan = {c}, extra = 0
             PROVE  /\ plan[c].remaining = schedule[c][Made(c) + 1].remaining
                    /\ plan[c].interest = schedule[c][Made(c) + 1].interest
                    /\ ~Open(c) => plan[c].payoff = Last(schedule[c]).on
  BY DEF AloneAsScheduled
<1>1. /\ plan[c].remaining = schedule[c][Made(c) + 1].remaining
      /\ plan[c].interest = schedule[c][Made(c) + 1].interest
      /\ ~Open(c) => plan[c].remaining = 0 /\ plan[c].payoff = schedule[c][Made(c) + 1].on
      /\ c \in Credits /\ schedule[c] # <<>>
  BY DEF PlanInv, Kept, Alone, PayoffTypeOK
<1>2. ~Open(c) => Made(c) + 1 = Len(schedule[c])
  <2> SUFFICES ASSUME ~Open(c), Made(c) + 1 # Len(schedule[c]) PROVE FALSE
    OBVIOUS
  <2>1. Made(c) + 1 \in 1 .. Len(schedule[c]) - 1
    BY DebtFacts
  <2>2. schedule[c][Made(c) + 1].remaining > 0
    BY <1>1, <2>1 DEF PlanInv, ScheduleMade
  <2>. QED BY <1>1, <2>2
<1>. QED BY <1>1, <1>2 DEF Last

LEMMA PlanInvNothingLost == PlanInv => NothingLost
<1> SUFFICES ASSUME PlanInv, phase = "planned" PROVE NothingLost
  BY DEF NothingLost
<1>1. \A c \in DOMAIN plan : ~Open(c)
  BY DEF PlanInv
<1>2. IsFiniteSet(DOMAIN plan)
  BY PayoffAssumption, FS_Subset DEF PlanInv, PayoffTypeOK
<1>3. PICK f : f = [c \in DOMAIN plan |-> plan[c].interest]
  OBVIOUS
<1>4. PICK g : g = [c \in DOMAIN plan |-> Last(schedule[c]).interest]
  OBVIOUS
<1>5. \A c \in DOMAIN plan : f[c] \in Nat /\ g[c] \in Nat /\ f[c] <= g[c]
  BY <1>3, <1>4, DebtFacts DEF Debt, Entry
<1>6. f \in [DOMAIN plan -> Nat] /\ g \in [DOMAIN plan -> Nat]
  BY <1>3, <1>4, <1>5
<1>7. SumOf(f) \in Nat /\ SumOf(g) \in Nat /\ SumOf(f) <= SumOf(g)
  BY <1>2, <1>5, <1>6, SumMonotone
<1>8. InterestSaved = SumOf(g) - SumOf(f)
  BY <1>3, <1>4 DEF InterestSaved
<1>9. ASSUME NEW c \in DOMAIN plan
      PROVE  MonthsUntil(Today, plan[c].payoff) <= MonthsUntil(Today, Last(schedule[c]).on)
  <2>1. PICK a : a = plan[c].payoff
    OBVIOUS
  <2>2. PICK b : b = Last(schedule[c]).on
    OBVIOUS
  <2>3. /\ c \in Credits /\ schedule[c] # <<>>
        /\ Made(c) + 1 \in 1 .. Len(schedule[c])
        /\ a = schedule[c][Made(c) + 1].on /\ a \in Date
        /\ b \in Date
    BY <1>1, <2>1, <2>2, DebtFacts DEF Entry
  <2>4. ~IsBefore(b, a)
    BY <2>2, <2>3, ScheduleDates
  <2>5. /\ a.month \in Nat /\ a.day \in Nat /\ b.month \in Nat /\ b.day \in Nat
        /\ Today.month \in Nat /\ Today.day \in Nat
    BY <2>3, PayoffAssumption, DateParts
  <2>6. MonthsUntil(Today, a) <= MonthsUntil(Today, b)
    BY <2>4, <2>5 DEF IsBefore, MonthsUntil
  <2>. QED BY <2>1, <2>2, <2>6
<1>. QED BY <1>7, <1>8, <1>9 DEF NothingLost

\* Whatever the terms, the addition and the order: after as many payments the
\* plan owes no more on a credit than its own schedule, one credit without an
\* addition is paid as its schedule says, the plan never costs more or takes
\* longer, and the allowance reserves money for the dates of the schedule.
THEOREM PayoffKeepsToSchedules == PayoffSpec => []PlanKeepsToSchedules
<1>1. PayoffInit => PlanInv
  BY InitPlanInv
<1>2. PlanInv /\ [PayoffNext]_payoffVars => PlanInv'
  BY NextPlanInv
<1>3. PlanInv => PlanKeepsToSchedules
  BY PlanInvNeverBehind, PlanInvAloneAsScheduled, PlanInvNothingLost, PlanInvDuesAgree DEF PlanKeepsToSchedules
<1>. QED BY <1>1, <1>2, <1>3, PTL DEF PayoffSpec

-----------------------------------------------------------------------------
(* One sum a month.                                                         *)

\* A queue: for each member those before it, in one line.
Queue(S, before) ==
  /\ before \in [S -> SUBSET S]
  /\ \A c \in S : c \notin before[c]
  /\ \A c, d \in S : c = d \/ c \in before[d] \/ d \in before[c]
  /\ \A c, d, e \in S : c \in before[d] /\ d \in before[e] => c \in before[e]

\* Of some members of a queue one is the last.
LEMMA LastOfQueue ==
  ASSUME NEW S, IsFiniteSet(S), NEW before, Queue(S, before),
         NEW T \in SUBSET S, T # {}
  PROVE  \E c \in T : \A d \in T : d = c \/ d \in before[c]
<1> DEFINE Parts == {U \in SUBSET S : U = {} \/ \E c \in U : \A d \in U : d = c \/ d \in before[c]}
<1>1. IsFiniteSet(T)
  BY FS_Subset
<1>2. ASSUME NEW U \in SUBSET T, NEW x \in T, x \notin U, U \in Parts
      PROVE  U \cup {x} \in Parts
  <2>1. CASE U = {}
    BY <2>1
  <2>2. CASE U # {}
    <3>1. PICK c \in U : \A d \in U : d = c \/ d \in before[c]
      BY <1>2, <2>2
    <3>2. c \in S /\ x \in S /\ U \subseteq S
      OBVIOUS
    <3>3. CASE x \in before[c]
      BY <3>1, <3>2, <3>3
    <3>4. CASE c \in before[x]
      <4>1. \A d \in U : d \in before[x]
        BY <3>1, <3>2, <3>4 DEF Queue
      <4>. QED BY <3>2, <4>1
    <3>. QED BY <1>2, <3>2, <3>3, <3>4 DEF Queue
  <2>. QED BY <2>1, <2>2
<1>3. T \in Parts
  <2>1. {} \in Parts
    OBVIOUS
  <2>. HIDE DEF Parts
  <2>. QED BY <1>1, <1>2, <2>1, RowByRow
<1>. QED BY <1>3

\* And one is the first.
LEMMA FirstOfQueue ==
  ASSUME NEW S, IsFiniteSet(S), NEW before, Queue(S, before),
         NEW T \in SUBSET S, T # {}
  PROVE  \E c \in T : before[c] \cap T = {}
<1>1. PICK after : after = [c \in S |-> {d \in S : c \in before[d]}]
  OBVIOUS
<1>2. Queue(S, after)
  BY <1>1 DEF Queue
<1>3. PICK c \in T : \A d \in T : d = c \/ d \in after[c]
  BY <1>2, LastOfQueue
<1>4. \A d \in T : d \notin before[c]
  BY <1>1, <1>3 DEF Queue
<1>. QED BY <1>4

\* What each takes of a sum that is shared out along a queue: as much as is left for it, and
\* not more than it lacks.
Shared(S, before, sum, lacks, taken) ==
  /\ sum \in Nat
  /\ lacks \in [S -> Nat]
  /\ taken \in [S -> Int]
  /\ \A c \in S :
       LET left == sum - SumOf(Restrict(lacks, before[c]))
       IN taken[c] = IF left <= 0 THEN 0 ELSE Least(left, lacks[c])

\* All of the sum is taken, or all that they lack.
LEMMA AllIsTaken ==
  ASSUME NEW S, IsFiniteSet(S), NEW before, Queue(S, before),
         NEW sum, NEW lacks, NEW taken, Shared(S, before, sum, lacks, taken)
  PROVE  SumOf(taken) = Least(sum, SumOf(lacks))
<1> DEFINE Lack(T) == SumOf(Restrict(lacks, T))
           Take(T) == SumOf(Restrict(taken, T))
           Good == {c \in S : Take(before[c] \cup {c}) = Least(sum, Lack(before[c] \cup {c}))}
<1>1. /\ sum \in Nat
      /\ lacks \in [S -> Int]
      /\ taken \in [S -> Int]
      /\ \A c \in S : lacks[c] \in Nat
      /\ before \in [S -> SUBSET S]
  BY DEF Shared, Queue
<1>2. \A T \in SUBSET S : Lack(T) \in Int /\ Take(T) \in Int
  BY <1>1, SumPart
<1>3. Lack({}) = 0 /\ Take({}) = 0
  BY <1>1, SumEnds
<1>4. \A c \in S : /\ Lack(before[c] \cup {c}) = Lack(before[c]) + lacks[c]
                   /\ Take(before[c] \cup {c}) = Take(before[c]) + taken[c]
  <2>1. \A T \in SUBSET S : \A x \in S : x \notin T =>
          /\ Lack(T \cup {x}) = Lack(T) + lacks[x]
          /\ Take(T \cup {x}) = Take(T) + taken[x]
    BY <1>1, SumOneMore
  <2>. HIDE DEF Lack, Take
  <2>. QED BY <1>1, <2>1 DEF Queue
<1>5. \A c \in S : taken[c] = IF sum - Lack(before[c]) <= 0 THEN 0
                              ELSE Least(sum - Lack(before[c]), lacks[c])
  BY DEF Shared
<1>6. ASSUME NEW c \in S, before[c] \subseteq Good
      PROVE  c \in Good
  <2>1. Take(before[c]) = Least(sum, Lack(before[c]))
    <3>1. CASE before[c] = {}
      BY <1>1, <1>3, <3>1 DEF Least
    <3>2. CASE before[c] # {}
      <4>1. PICK p \in before[c] : \A d \in before[c] : d = p \/ d \in before[p]
        BY <1>1, <3>2, LastOfQueue
      <4>2. before[p] \cup {p} = before[c]
        BY <1>1, <4>1 DEF Queue
      <4>3. p \in Good
        BY <1>6, <4>1
      <4>. QED BY <4>2, <4>3
    <3>. QED BY <3>1, <3>2
  <2>. HIDE DEF Lack, Take
  <2>2. PICK l, t, x, y : l = Lack(before[c]) /\ t = Take(before[c]) /\ x = lacks[c] /\ y = taken[c]
    OBVIOUS
  <2>3. l \in Int /\ t \in Int /\ x \in Nat /\ y \in Int
    BY <1>1, <1>2, <2>2
  <2>4. t = Least(sum, l) /\ y = IF sum - l <= 0 THEN 0 ELSE Least(sum - l, x)
    BY <1>5, <2>1, <2>2
  <2>5. t + y = Least(sum, l + x)
    BY <1>1, <2>3, <2>4 DEF Least
  <2>. QED BY <1>4, <2>2, <2>5
<1>7. S = Good
  <2>. HIDE DEF Good
  <2>1. Good \subseteq S
    BY DEF Good
  <2>2. ASSUME S \ Good # {}
        PROVE  FALSE
    <3>1. PICK c \in S \ Good : before[c] \cap (S \ Good) = {}
      <4>1. PICK T : T = S \ Good
        OBVIOUS
      <4>2. T \in SUBSET S /\ T # {}
        BY <2>2, <4>1
      <4>3. \E c \in T : before[c] \cap T = {}
        BY <4>2, FirstOfQueue
      <4>. QED BY <4>1, <4>3
    <3>2. before[c] \subseteq Good
      BY <1>1, <3>1
    <3>. QED BY <1>6, <3>1, <3>2
  <2>. QED BY <2>1, <2>2
<1>8. Restrict(lacks, S) = lacks /\ Restrict(taken, S) = taken
  BY <1>1, SumEnds
<1>9. CASE S = {}
  <2>1. SumOf(lacks) = 0 /\ SumOf(taken) = 0
    <3>1. DOMAIN lacks = {} /\ DOMAIN taken = {}
      BY <1>1, <1>9
    <3>. QED BY <3>1, SumOfNone
  <2>. QED BY <1>1, <2>1 DEF Least
<1>10. CASE S # {}
  <2>1. PICK c \in S : \A d \in S : d = c \/ d \in before[c]
    BY <1>10, LastOfQueue
  <2>2. before[c] \cup {c} = S
    BY <1>1, <2>1
  <2>3. Take(before[c] \cup {c}) = Least(sum, Lack(before[c] \cup {c}))
    BY <1>7
  <2>. QED BY <1>8, <2>2, <2>3
<1>. QED BY <1>9, <1>10

\* What is more than all lack leaves none in want.
LEMMA NoneInWant ==
  ASSUME NEW S, IsFiniteSet(S), NEW before, Queue(S, before),
         NEW sum, NEW lacks, NEW taken, Shared(S, before, sum, lacks, taken),
         SumOf(lacks) <= sum, NEW c \in S
  PROVE  taken[c] = lacks[c]
<1> DEFINE Lack(T) == SumOf(Restrict(lacks, T))
           T == before[c] \cup {c}
<1>1. /\ sum \in Nat
      /\ lacks \in [S -> Int]
      /\ lacks \in [S -> Nat]
      /\ lacks[c] \in Nat
      /\ before[c] \in SUBSET S
      /\ c \notin before[c]
      /\ T \in SUBSET S
  BY DEF Shared, Queue
<1>2. Lack(T) = Lack(before[c]) + lacks[c]
  BY <1>1, SumOneMore
<1>3. SumOf(lacks) = Lack(T) + Lack(S \ T)
  <2>. HIDE DEF T
  <2>. QED BY <1>1, SumSplit
<1>4. Lack(before[c]) \in Int /\ Lack(T) \in Int
  BY <1>1, SumPart
<1>5. Lack(S \ T) \in Nat
  <2>1. IsFiniteSet(S \ T) /\ Restrict(lacks, S \ T) \in [S \ T -> Nat]
    BY <1>1, FS_Subset DEF Restrict
  <2>. HIDE DEF T
  <2>. QED BY <2>1, SumMonotone
<1>6. taken[c] = IF sum - Lack(before[c]) <= 0 THEN 0 ELSE Least(sum - Lack(before[c]), lacks[c])
  BY DEF Shared
<1>. HIDE DEF Lack, T
<1>. QED BY <1>1, <1>2, <1>3, <1>4, <1>5, <1>6 DEF Least

\* What the numbers of a debt are.
LEMMA DebtNumbers ==
  ASSUME PlanInv, NEW c \in DOMAIN plan
  PROVE  /\ c \in Nat
         /\ terms[c].rate \in Nat
         /\ terms[c].balance \in Nat
         /\ terms[c].payment \in Nat
         /\ FirstMonth(c) \in Nat
<1>1. c \in Credits
  BY DEF PlanInv, PayoffTypeOK
<1>2. TermsOK /\ CannotCount(terms[c]) = "none"
  BY <1>1 DEF PlanInv, PayoffTypeOK, TermsOK, Kept
<1>. QED BY <1>1, <1>2, CountedTerms, PayoffAssumption

\* A debt that is paid off has begun.
PaidOffBegun == \A c \in DOMAIN plan : ~Open(c) => FirstMonth(c) <= month

LEMMA NextPaidOffBegun ==
  ASSUME PlanInv, PaidOffBegun, [PayoffNext]_payoffVars
  PROVE  PaidOffBegun'
<1>1. CASE UNCHANGED <<terms, month, plan>>
  BY <1>1, SameDates DEF PaidOffBegun, Open
<1>2. CASE Begin
  <2>1. \A c \in DOMAIN plan' : Open(c)'
    BY <1>2 DEF Begin, DebtAtStart, Open
  <2>. QED BY <2>1 DEF PaidOffBegun
<1>3. CASE PayMonth
  <2>1. /\ UNCHANGED terms
        /\ month' = month + 1
        /\ plan' = [c \in DOMAIN plan |-> IF c \in Paying THEN AfterMonth(c) ELSE plan[c]]
        /\ month \in Nat
    BY <1>3 DEF PayMonth, PlanInv, PayoffTypeOK
  <2> SUFFICES ASSUME NEW c \in DOMAIN plan, ~Open(c)'
               PROVE  FirstMonth(c) <= month + 1
    BY <2>1, SameDates DEF PaidOffBegun
  <2>2. FirstMonth(c) \in Nat
    BY DebtNumbers
  <2>3. CASE c \in Paying
    <3>1. Made(c) \in Nat /\ Made(c) = month - FirstMonth(c)
      BY <2>3, PayingDebt
    <3>. QED BY <2>1, <2>2, <3>1
  <2>4. CASE c \notin Paying
    <3>1. ~Open(c)
      BY <2>1, <2>4 DEF Open
    <3>. QED BY <2>1, <2>2, <3>1 DEF PaidOffBegun
  <2>. QED BY <2>3, <2>4
<1>. QED BY <1>1, <1>2, <1>3
     DEF PayoffNext, Check, CheckSkips, CheckStarts, CheckPayment, CheckFails, Finish, GiveUp,
         payoffVars

\* prioritize puts the debts that are paid in a line.
LEMMA AheadIsQueue ==
  ASSUME PlanInv
  PROVE  Queue(Paying, [c \in Paying |-> {d \in Paying : Ahead(d, c)}])
<1> DEFINE before == [c \in Paying |-> {d \in Paying : Ahead(d, c)}]
<1>1. \A c \in Paying : c \in Nat /\ terms[c].rate \in Nat /\ terms[c].balance \in Nat
  BY DebtNumbers DEF Paying
<1>2. \A c \in Paying : ~Ahead(c, c)
  BY <1>1 DEF Ahead
<1>3. \A c, d \in Paying : c = d \/ Ahead(c, d) \/ Ahead(d, c)
  BY <1>1 DEF Ahead
<1>4. \A c, d, e \in Paying : Ahead(c, d) /\ Ahead(d, e) => Ahead(c, e)
  BY <1>1 DEF Ahead
<1>. QED BY <1>2, <1>3, <1>4 DEF Queue

\* The sum of the month is what the owner gives in it.
LEMMA BudgetIsMonthlySum ==
  ASSUME PlanInv, PaidOffBegun
  PROVE  Budget = MonthlySum
<1>1. ASSUME NEW c \in DOMAIN plan
      PROVE  FirstMonth(c) <= month <=> (Open(c) => plan[c].due.month <= month)
  <2>1. /\ FirstMonth(c) \in Nat
        /\ month \in Nat
    BY DebtNumbers DEF PlanInv, PayoffTypeOK
  <2>2. CASE ~Open(c)
    BY <2>2 DEF PaidOffBegun
  <2>3. CASE Open(c)
    <3>1. /\ plan[c].due.month >= month
          /\ plan[c].due.month > month => plan[c].due.month = FirstMonth(c)
          /\ Made(c) \in Nat
          /\ Made(c) = plan[c].due.month - FirstMonth(c)
      BY <2>3 DEF PlanInv, Kept, Made
    <3>2. plan[c].due.month \in Nat
      BY DEF PlanInv, PayoffTypeOK, Debt, Date
    <3>3. PICK due, first : due = plan[c].due.month /\ first = FirstMonth(c)
      OBVIOUS
    <3>4. due \in Nat /\ first \in Nat /\ due - first \in Nat /\ (due > month => due = first)
      BY <2>1, <3>1, <3>2, <3>3
    <3>5. first <= month <=> due <= month
      BY <2>1, <3>4
    <3>. QED BY <2>3, <3>3, <3>5
  <2>. QED BY <2>2, <2>3
<1>2. PICK S, T : /\ S = {c \in DOMAIN plan : FirstMonth(c) <= month}
                  /\ T = {c \in DOMAIN plan : Open(c) => plan[c].due.month <= month}
  OBVIOUS
<1>3. S = T
  BY <1>1, <1>2
<1>4. Budget = extra + SumOf([c \in S |-> terms[c].payment])
  BY <1>2 DEF Budget
<1>5. MonthlySum = extra + SumOf([c \in T |-> terms[c].payment])
  BY <1>2 DEF MonthlySum
<1>. QED BY <1>3, <1>4, <1>5

\* The payments of the debts that are due are within the sum of the month.
LEMMA BudgetCovers ==
  ASSUME PlanInv
  PROVE  /\ IsFiniteSet(Paying)
         /\ [c \in Paying |-> Obligatory(c)] \in [Paying -> Int]
         /\ SumOf([c \in Paying |-> Obligatory(c)]) \in Int
         /\ Budget \in Int
         /\ SumOf([c \in Paying |-> Obligatory(c)]) <= Budget
<1>1. PICK S, f, g, h : /\ S = {c \in DOMAIN plan : FirstMonth(c) <= month}
                        /\ f = [c \in S |-> terms[c].payment]
                        /\ g = [c \in Paying |-> Obligatory(c)]
                        /\ h = Restrict(f, Paying)
  OBVIOUS
<1>2. IsFiniteSet(DOMAIN plan)
  BY PayoffAssumption, FS_Subset DEF PlanInv, PayoffTypeOK
<1>3. IsFiniteSet(S) /\ IsFiniteSet(Paying)
  BY <1>1, <1>2, FS_Subset DEF Paying
<1>4. ASSUME NEW c \in Paying
      PROVE  c \in S /\ Obligatory(c) \in Nat /\ Obligatory(c) <= terms[c].payment
  <2>1. c \in DOMAIN plan
    BY DEF Paying
  <2>2. FirstMonth(c) \in Nat /\ terms[c].payment \in Nat /\ month \in Nat
    BY <2>1, DebtNumbers DEF PlanInv, PayoffTypeOK
  <2>3. Made(c) \in Nat /\ Made(c) = month - FirstMonth(c) /\ Obligatory(c) \in Nat
    BY PayingDebt
  <2>4. plan[c].remaining \in Nat /\ Accrued(c) \in Nat
    BY <2>1, PayingDebt, DebtFacts DEF Debt
  <2>. QED BY <1>1, <2>1, <2>2, <2>3, <2>4 DEF Obligatory, Least, Owed
<1>5. f \in [S -> Int] /\ \A c \in S : f[c] \in Nat
  BY <1>1, DebtNumbers
<1>6. Paying \in SUBSET S
  BY <1>4
<1>7. SumOf(f) = SumOf(h) + SumOf(Restrict(f, S \ Paying))
  BY <1>1, <1>3, <1>5, <1>6, SumSplit
<1>8. SumOf(Restrict(f, S \ Paying)) \in Nat
  <2>1. IsFiniteSet(S \ Paying) /\ Restrict(f, S \ Paying) \in [S \ Paying -> Nat]
    BY <1>3, <1>5, FS_Subset DEF Restrict
  <2>. QED BY <2>1, SumMonotone
<1>9. SumOf(g) \in Nat /\ SumOf(h) \in Nat /\ SumOf(g) <= SumOf(h)
  <2>1. g \in [Paying -> Nat] /\ h \in [Paying -> Nat]
    BY <1>1, <1>4, <1>5 DEF Restrict
  <2>2. \A c \in Paying : g[c] <= h[c]
    BY <1>1, <1>4 DEF Restrict
  <2>. QED BY <1>3, <2>1, <2>2, SumMonotone
<1>10. extra \in Nat
  BY PayoffAssumption DEF PlanInv, PayoffTypeOK
<1>11. Budget = extra + SumOf(f)
  BY <1>1 DEF Budget
<1>12. g \in [Paying -> Int]
  BY <1>1, <1>4
<1>. QED BY <1>1, <1>3, <1>7, <1>8, <1>9, <1>10, <1>11, <1>12

\* A month: what is paid is the sum of the month, or less and all of the debts.
LEMMA MonthIsShared ==
  ASSUME PlanInv, PaidOffBegun, PayMonth
  PROVE  LET paid == SumOf([c \in Paying |-> Owed(c) - plan'[c].remaining])
         IN \/ paid = MonthlySum
            \/ paid < MonthlySum /\ \A c \in Paying : plan'[c].payoff # None
<1>1. PICK S, before, must, lacks, taken, sum :
        /\ S = Paying
        /\ before = [c \in Paying |-> {d \in Paying : Ahead(d, c)}]
        /\ must = [c \in Paying |-> Obligatory(c)]
        /\ lacks = [c \in Paying |-> AfterPayment(c)]
        /\ taken = [c \in Paying |-> Early(c)]
        /\ sum = Budget - SumOf(must)
  OBVIOUS
<1>2. \A c \in S : AfterPayment(c) \in Nat /\ Obligatory(c) \in Int /\ Accrued(c) \in Nat
  BY <1>1, PayingDebt
<1>3. \A c \in S : Early(c) \in 0 .. AfterPayment(c)
  BY <1>1, <1>2, EarlyType
<1>4. /\ IsFiniteSet(S)
      /\ must \in [S -> Int]
      /\ SumOf(must) \in Int
      /\ Budget \in Int
      /\ sum \in Nat
  BY <1>1, BudgetCovers
<1>5. Queue(S, before)
  BY <1>1, AheadIsQueue
<1>6. lacks \in [S -> Nat] /\ taken \in [S -> Int]
  BY <1>1, <1>2, <1>3
<1>7. Shared(S, before, sum, lacks, taken)
  <2> SUFFICES ASSUME NEW c \in S
               PROVE  taken[c] = IF sum - SumOf(Restrict(lacks, before[c])) <= 0 THEN 0
                                 ELSE Least(sum - SumOf(Restrict(lacks, before[c])), lacks[c])
    BY <1>4, <1>6 DEF Shared
  <2>1. Restrict(lacks, before[c]) = [d \in {e \in Paying : Ahead(e, c)} |-> AfterPayment(d)]
    BY <1>1 DEF Restrict
  <2>2. LeftFor(c) = sum - SumOf(Restrict(lacks, before[c]))
    BY <1>1, <2>1 DEF LeftFor
  <2>3. taken[c] = Early(c) /\ lacks[c] = AfterPayment(c)
    BY <1>1
  <2>. QED BY <2>2, <2>3 DEF Early
<1>8. SumOf(taken) = Least(sum, SumOf(lacks))
  BY <1>4, <1>5, <1>7, AllIsTaken
<1>9. ASSUME NEW c \in S
      PROVE  /\ Owed(c) - plan'[c].remaining = must[c] + taken[c]
             /\ taken[c] = lacks[c] => plan'[c].payoff # None
  <2>1. c \in DOMAIN plan /\ plan[c] \in Debt
    BY <1>1, DebtFacts DEF Paying
  <2>2. plan'[c] = AfterMonth(c)
    BY <1>1, <2>1 DEF PayMonth
  <2>3. DOMAIN plan[c] = {"remaining", "previous", "due", "interest", "payoff"}
    BY <2>1 DEF Debt
  <2>4. /\ AfterMonth(c).remaining = AfterPayment(c) - Early(c)
        /\ AfterPayment(c) - Early(c) = 0 => AfterMonth(c).payoff = plan[c].due
    BY <2>3 DEF AfterMonth
  <2>5. must[c] = Obligatory(c) /\ taken[c] = Early(c) /\ lacks[c] = AfterPayment(c)
    BY <1>1
  <2>6. plan[c].due \in Date /\ plan[c].remaining \in Nat
    BY <2>1 DEF Debt
  <2>7. plan[c].due # None
    BY <2>6, PayoffAssumption
  <2>8. Owed(c) - (AfterPayment(c) - Early(c)) = Obligatory(c) + Early(c)
    <3>1. Owed(c) \in Int /\ Obligatory(c) \in Int /\ Early(c) \in Int
      BY <1>2, <1>3, <2>6 DEF Owed
    <3>. QED BY <3>1 DEF AfterPayment
  <2>9. AfterPayment(c) \in Nat /\ AfterPayment(c) - AfterPayment(c) = 0
    BY <1>2
  <2>. QED BY <2>2, <2>4, <2>5, <2>7, <2>8, <2>9
<1>10. SumOf([c \in S |-> Owed(c) - plan'[c].remaining]) = SumOf(must) + SumOf(taken)
  <2>1. [c \in S |-> Owed(c) - plan'[c].remaining] = [c \in S |-> must[c] + taken[c]]
    BY <1>9
  <2>. QED BY <1>4, <1>6, <2>1, SumAdd
<1>11. SumOf(lacks) \in Int
  BY <1>4, <1>6, SumMonotone
<1>12. Budget = MonthlySum
  BY BudgetIsMonthlySum
<1>13. CASE sum <= SumOf(lacks)
  <2>1. SumOf(taken) = sum
    BY <1>4, <1>8, <1>11, <1>13 DEF Least
  <2>. QED BY <1>1, <1>4, <1>10, <1>12, <2>1
<1>14. CASE SumOf(lacks) < sum
  <2>1. SumOf(taken) = SumOf(lacks)
    BY <1>4, <1>8, <1>11, <1>14 DEF Least
  <2>2. SumOf(must) + SumOf(taken) < MonthlySum
    BY <1>1, <1>4, <1>11, <1>12, <1>14, <2>1
  <2>3. \A c \in S : taken[c] = lacks[c]
    BY <1>4, <1>5, <1>7, <1>11, <1>14, NoneInWant
  <2>. QED BY <1>1, <1>9, <1>10, <2>2, <2>3
<1>. QED BY <1>4, <1>11, <1>13, <1>14

\* Each month the same sum goes to the debts, the payments of those that are paid off among
\* it, whatever the order; it is less only when it pays off all that are due.
THEOREM PayoffSameSumEveryMonth == PayoffSpec => SameSumEveryMonth
<1>1. PayoffInit => PlanInv /\ PaidOffBegun
  <2>1. PayoffInit => DOMAIN plan = {}
    BY DEF PayoffInit
  <2>. QED BY <2>1, InitPlanInv DEF PaidOffBegun
<1>2. PlanInv /\ PaidOffBegun /\ [PayoffNext]_payoffVars => (PlanInv /\ PaidOffBegun)'
  BY NextPlanInv, NextPaidOffBegun
<1> DEFINE Month == plan # <<>> /\ month' # month =>
             LET paid == SumOf([c \in Paying |-> Owed(c) - plan'[c].remaining])
             IN \/ paid = MonthlySum
                \/ paid < MonthlySum /\ \A c \in Paying : plan'[c].payoff # None
<1>3. ASSUME PlanInv, PaidOffBegun, [PayoffNext]_payoffVars
      PROVE  [Month]_payoffVars
  <2>1. CASE PayMonth
    <3>. HIDE DEF MonthlySum
    <3>. QED BY <1>3, <2>1, MonthIsShared
  <2>2. CASE Begin
    <3>1. DOMAIN plan = {} /\ plan \in [DOMAIN plan -> Debt]
      BY <1>3, <2>2 DEF Begin, PlanInv, PayoffTypeOK
    <3>2. plan = <<>>
      BY <3>1
    <3>. QED BY <3>2
  <2>3. CASE UNCHANGED month
    BY <2>3
  <2>4. UNCHANGED payoffVars => UNCHANGED month
    BY DEF payoffVars
  <2>. QED BY <1>3, <2>1, <2>2, <2>3, <2>4
       DEF PayoffNext, Check, CheckSkips, CheckStarts, CheckPayment, CheckFails, Finish, GiveUp
<1>. QED BY <1>1, <1>2, <1>3, PTL DEF PayoffSpec, SameSumEveryMonth

=============================================================================
