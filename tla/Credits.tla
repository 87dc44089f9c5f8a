------------------------------- MODULE Credits -------------------------------
(***************************************************************************)
(* Credits and their payments (backend/app/domains/credits).               *)
(*                                                                         *)
(* A payment lives in three places that one commit writes: its own row, a  *)
(* CREDIT_PAYMENT operation of the paying account, and the debt left on    *)
(* the credit.  The debt is read into the session, changed there and       *)
(* written back as a value; no request locks the credit, so a request may  *)
(* go by a reading that another commit has made stale.                     *)
(*                                                                         *)
(* What a session has flushed and not committed no other session sees, and *)
(* its UPDATE of the credit waits for no lock that it does not also        *)
(* release at the commit that follows at once; so the flushes of a request *)
(* and its commit are one step, taken from what the request has read.      *)
(***************************************************************************)
EXTENDS Sums

CONSTANTS
  CreditIds,    \* credit ids
  Payments,     \* ids of credit payments
  Operations,   \* ids of the operations that payments make
  Sessions,     \* database sessions; each serves one request at a time
  Principals,   \* principal parts a payment may have
  Charges,      \* interest and fee of a payment, together
  Initials,     \* sums a credit may be taken for
  MaxDebt,      \* bound on the debt that returned payments may add up to
  Nothing       \* nothing read

ASSUME CreditsAssumption ==
  /\ IsFiniteSet(Payments)
  /\ Principals \subseteq Nat
  /\ Charges \subseteq Nat
  /\ Initials \subseteq Nat \ {0}
  /\ MaxDebt \in Nat
  /\ Nothing \notin CreditIds

VARIABLES
  credit,      \* committed rows of `credits`: a function on the ids that exist
  payment,     \* committed rows of `credit_payments`
  operation,   \* committed CREDIT_PAYMENT rows of `transactions`: their amounts
  pc,          \* how far the session's request has got
  about,       \* the credit the session's request is about
  read,        \* the row of that credit as the session has read it
  found,       \* the payment the session is to delete: its id and row
  stale,       \* history: sessions that go by what another commit has changed
  raced        \* history: credits written by a session that was stale

vars == <<credit, payment, operation, pc, about, read, found, stale, raced>>

-----------------------------------------------------------------------------
Credit == [initial : Int, balance : Int, archived : BOOLEAN]

Payment == [credit : CreditIds, principal : Nat, total : Nat, operation : Operations]

IsRows(table, ids, rows) == DOMAIN table \subseteq ids /\ table \in [DOMAIN table -> rows]

NoRows == [i \in {} |-> {}]

With(table, id, row) ==
  [i \in DOMAIN table \cup {id} |-> IF i = id THEN row ELSE table[i]]

Without(table, id) == [i \in DOMAIN table \ {id} |-> table[i]]

PaymentsOf(c) == {p \in DOMAIN payment : payment[p].credit = c}

\* What the payments of the credit have paid off.
Repaid(c) == SumOf([p \in PaymentsOf(c) |-> payment[p].principal])

\* The session holds a payment it is to delete.
Deleting(s) == pc[s] \in {"found", "returning"}

\* The session goes by a row of `credits` that it has read.
Holding(s) == pc[s] \in {"paying", "updating", "cleared", "archiving", "returning"}

\* uuid4 never repeats; an id that no table and no session holds any more is
\* as good as a new one.
FreePayments ==
  Payments \ (DOMAIN payment \cup {found[s].id : s \in {t \in Sessions : Deleting(t)}})

FreeOperations ==
  Operations \ (DOMAIN operation \cup
                {found[s].row.operation : s \in {t \in Sessions : Deleting(t)}})

\* A column in the UPDATE that a flush emits: only one whose value differs
\* from the one loaded is written.
Column(now, loaded, value) == IF value = loaded THEN now ELSE value

-----------------------------------------------------------------------------
(* Sessions.                                                               *)

\* A fault for the runs: the session forgets its request and goes on.
CloseInPlace(s) ==
  /\ about' = [about EXCEPT ![s] = Nothing]
  /\ read' = [read EXCEPT ![s] = Nothing]
  /\ found' = [found EXCEPT ![s] = Nothing]
  /\ UNCHANGED pc

Close(s) ==
  /\ pc' = [pc EXCEPT ![s] = "idle"]
  /\ about' = [about EXCEPT ![s] = Nothing]
  /\ read' = [read EXCEPT ![s] = Nothing]
  /\ found' = [found EXCEPT ![s] = Nothing]

\* The session commits a change to the debt or the payments of its credit:
\* the readings of the others are stale, and if its own was, the credit is
\* raced.
Publish(s) ==
  /\ raced' = IF s \in stale THEN raced \cup {about[s]} ELSE raced
  /\ stale' = {t \in Sessions \ {s} : t \in stale \/ about[t] = about[s]}
  /\ Close(s)

\* A request may fail a validation, fail or be dropped before its commit:
\* get_db closes the session and PostgreSQL rolls back.
Rollback(s) ==
  /\ pc[s] # "idle"
  /\ stale' = stale \ {s}
  /\ Close(s)
  /\ UNCHANGED <<credit, payment, operation, raced>>

-----------------------------------------------------------------------------
(* Requests.                                                               *)

CreateCredit(c, initial) ==
  /\ c \notin DOMAIN credit
  /\ credit' = With(credit, c,
       [initial |-> initial, balance |-> initial, archived |-> FALSE])
  /\ UNCHANGED <<payment, operation, pc, about, read, found, stale, raced>>

\* get_credit, the first statement of create_payment, update_credit and
\* archive_credit.  An archived credit takes no payment.
LoadCredit(s, c, purpose) ==
  /\ pc[s] = "idle"
  /\ c \in DOMAIN credit
  /\ purpose = "paying" => ~credit[c].archived
  /\ pc' = [pc EXCEPT ![s] = purpose]
  /\ about' = [about EXCEPT ![s] = c]
  /\ read' = [read EXCEPT ![s] = credit[c]]
  /\ UNCHANGED <<credit, payment, operation, found, stale, raced>>

\* A fault for the runs: the principal is not held against the debt.
CommitPaymentUnchecked(s, principal, charge) ==
  /\ pc[s] = "paying"
  /\ principal + charge > 0
  /\ \E p \in FreePayments, o \in FreeOperations :
       /\ operation' = With(operation, o, -(principal + charge))
       /\ payment' = With(payment, p,
            [credit |-> about[s], principal |-> principal,
             total |-> principal + charge, operation |-> o])
  /\ credit' = [credit EXCEPT ![about[s]].balance =
                  Column(@, read[s].balance, read[s].balance - principal)]
  /\ Publish(s)

\* create_payment: the operation, the payment, the debt.
CommitPayment(s, principal, charge) ==
  /\ pc[s] = "paying"
  /\ principal + charge > 0
  /\ principal <= read[s].balance
  /\ \E p \in FreePayments, o \in FreeOperations :
       /\ operation' = With(operation, o, -(principal + charge))
       /\ payment' = With(payment, p,
            [credit |-> about[s], principal |-> principal,
             total |-> principal + charge, operation |-> o])
  /\ credit' = [credit EXCEPT ![about[s]].balance =
                  Column(@, read[s].balance, read[s].balance - principal)]
  /\ Publish(s)

\* _update_initial_principal: has_payments finds none ...
SeeNoPayments(s) ==
  /\ pc[s] = "updating"
  /\ PaymentsOf(about[s]) = {}
  /\ pc' = [pc EXCEPT ![s] = "cleared"]
  /\ UNCHANGED <<credit, payment, operation, about, read, found, stale, raced>>

\* ... and the debt starts anew.
CommitInitial(s, initial) ==
  /\ pc[s] = "cleared"
  /\ initial # read[s].initial
  /\ credit' = [credit EXCEPT
       ![about[s]].initial = initial,
       ![about[s]].balance = Column(@, read[s].balance, initial)]
  /\ UNCHANGED <<payment, operation>>
  /\ Publish(s)

CommitArchive(s) ==
  /\ pc[s] = "archiving"
  /\ credit' = [credit EXCEPT ![about[s]].archived = TRUE]
  /\ stale' = stale \ {s}
  /\ Close(s)
  /\ UNCHANGED <<payment, operation, raced>>

\* delete_payment reads the payment ...
FindPayment(s, p) ==
  /\ pc[s] = "idle"
  /\ p \in DOMAIN payment
  /\ pc' = [pc EXCEPT ![s] = "found"]
  /\ about' = [about EXCEPT ![s] = payment[p].credit]
  /\ found' = [found EXCEPT ![s] = [id |-> p, row |-> payment[p]]]
  /\ UNCHANGED <<credit, payment, operation, read, stale, raced>>

\* ... then its credit ...
FindItsCredit(s) ==
  /\ pc[s] = "found"
  /\ pc' = [pc EXCEPT ![s] = "returning"]
  /\ read' = [read EXCEPT ![s] = credit[about[s]]]
  /\ UNCHANGED <<credit, payment, operation, about, found, stale, raced>>

\* Two faults for the runs: the debt is not put back; the operation stays.
CommitDeletionKeepingDebt(s) ==
  /\ pc[s] = "returning"
  /\ payment' = Without(payment, found[s].id)
  /\ operation' = Without(operation, found[s].row.operation)
  /\ UNCHANGED credit
  /\ Publish(s)

CommitDeletionKeepingOperation(s) ==
  /\ pc[s] = "returning"
  /\ read[s].balance + found[s].row.principal <= MaxDebt
  /\ payment' = Without(payment, found[s].id)
  /\ credit' = [credit EXCEPT ![about[s]].balance =
       Column(@, read[s].balance, read[s].balance + found[s].row.principal)]
  /\ UNCHANGED operation
  /\ Publish(s)

\* ... and deletes the payment and its operation and puts the principal back.
\* A DELETE that finds its row gone is only warned about (the mapping has no
\* version column), so the request that comes second commits as well.
CommitDeletion(s) ==
  /\ pc[s] = "returning"
  /\ read[s].balance + found[s].row.principal <= MaxDebt
  /\ payment' = Without(payment, found[s].id)
  /\ operation' = Without(operation, found[s].row.operation)
  /\ credit' = [credit EXCEPT ![about[s]].balance =
       Column(@, read[s].balance, read[s].balance + found[s].row.principal)]
  /\ Publish(s)

-----------------------------------------------------------------------------
Init ==
  /\ credit = NoRows
  /\ payment = NoRows
  /\ operation = NoRows
  /\ pc = [s \in Sessions |-> "idle"]
  /\ about = [s \in Sessions |-> Nothing]
  /\ read = [s \in Sessions |-> Nothing]
  /\ found = [s \in Sessions |-> Nothing]
  /\ stale = {}
  /\ raced = {}

Pay(s) ==
  \E principal \in Principals, charge \in Charges : CommitPayment(s, principal, charge)

Change(s) ==
  \/ SeeNoPayments(s)
  \/ \E initial \in Initials : CommitInitial(s, initial)
  \/ CommitArchive(s)

Delete(s) ==
  \/ \E p \in Payments : FindPayment(s, p)
  \/ FindItsCredit(s)
  \/ CommitDeletion(s)

Next ==
  \/ \E c \in CreditIds, initial \in Initials : CreateCredit(c, initial)
  \/ \E s \in Sessions :
       \/ \E c \in CreditIds, purpose \in {"paying", "updating", "archiving"} :
            LoadCredit(s, c, purpose)
       \/ Pay(s)
       \/ Change(s)
       \/ Delete(s)
       \/ Rollback(s)

Spec == Init /\ [][Next]_vars

-----------------------------------------------------------------------------
(* Properties.                                                             *)

TypeOK ==
  /\ IsRows(credit, CreditIds, Credit)
  /\ IsRows(payment, Payments, Payment)
  /\ IsRows(operation, Operations, Int)
  /\ pc \in [Sessions -> {"idle", "paying", "updating", "cleared",
                          "archiving", "found", "returning"}]
  /\ about \in [Sessions -> CreditIds \cup {Nothing}]
  /\ read = [s \in Sessions |-> read[s]]
  /\ found = [s \in Sessions |-> found[s]]
  /\ \A s \in Sessions :
       /\ pc[s] # "idle" => about[s] \in DOMAIN credit
       /\ Holding(s) => read[s] \in Credit
       /\ Deleting(s) => found[s] \in [id : Payments, row : Payment]
  /\ stale \subseteq Sessions
  /\ raced \subseteq CreditIds

\* delete_payment must put the principal back, "or the debt parts from the
\* bank": a credit owes what it was taken for less what its payments repaid, if
\* no request has written it by a stale reading, however requests mixed
\* otherwise.
DebtMatchesUnlessRaced ==
  \A c \in DOMAIN credit \ raced : credit[c].balance = credit[c].initial - Repaid(c)

\* No mix of payments, deletions and changes of the initial sum makes a debt
\* negative, not even by stale readings: _validate_principal_amount holds the
\* principal against the reading that the debt is written back from.  It says
\* nothing of what was repaid: two payments of the whole debt at once are both
\* taken, and leave a debt of nothing.
DebtNeverNegative == \A c \in DOMAIN credit : credit[c].balance >= 0

\* A payment is never left without its operation nor an operation without its
\* payment, and no two payments share one, whatever deletions race.
PaymentsMatchOperations ==
  /\ \A p \in DOMAIN payment :
       /\ payment[p].operation \in DOMAIN operation
       /\ operation[payment[p].operation] = -payment[p].total
       /\ \A q \in DOMAIN payment : payment[q].operation = payment[p].operation => q = p
  /\ \A o \in DOMAIN operation : \E p \in DOMAIN payment : payment[p].operation = o
=============================================================================
