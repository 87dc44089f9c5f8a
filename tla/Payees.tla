------------------------------- MODULE Payees -------------------------------
(***************************************************************************)
(* Payees of the owner (PayeeService), and what recording an operation     *)
(* does to them (TransactionService): a name that is met for the first     *)
(* time becomes a payee, and the category of its last operation is         *)
(* remembered, except for payees of varied categories.                     *)
(*                                                                         *)
(* A payee is known by its folded name; two spellings with one fold are    *)
(* one payee (payee_key).                                                  *)
(***************************************************************************)
EXTENDS Tables

CONSTANTS
  Spellings,     \* how clients write the names of payees
  PayeeKey,      \* the fold of each spelling
  Marketplaces,  \* spellings that name a marketplace
  Records        \* operations that clients record, as they send them

ByKey(key) == {p \in DOMAIN db.payees : db.payees[p].key = key}

FreePayees == PayeeIds \ Held("payees")

NewPayee(key, varied) == Insert([key |-> key, last |-> None, varied |-> varied])

\* A fault for the runs: every payee remembers.
RememberedByAll(row, category) ==
  IF category = None THEN row ELSE [row EXCEPT !.last = category]

\* The changes that make a payee remember (or not) a category.
Remembered(row, category) ==
  IF category = None \/ row.varied THEN row ELSE [row EXCEPT !.last = category]

CreatePayee(s) ==
  \E p \in FreePayees, name \in Spellings :
    /\ ByKey(PayeeKey[name]) = {}
    /\ Look(s, "create_payee",
            To("payees", p, NewPayee(PayeeKey[name], FALSE)))

\* PayeeUpdate: a name, the mark of varied categories, or both.  Setting the
\* mark wipes what is remembered.
UpdatePayee(s) ==
  \E p \in DOMAIN db.payees, given \in SUBSET {"name", "varied"},
     name \in Spellings, varied \in BOOLEAN :
    LET row == db.payees[p]
        key == IF "name" \in given THEN PayeeKey[name] ELSE row.key
        mark == IF "varied" \in given THEN varied ELSE row.varied
        wiped == "varied" \in given /\ varied
    IN /\ "name" \in given => ByKey(key) \subseteq {p}
       /\ Look(s, "update_payee",
               To("payees", p,
                  Update(row, [key |-> key, varied |-> mark,
                               last |-> IF wiped THEN None ELSE row.last])))

\* The operations of the source move to the target.  The target forgets when
\* either is of varied categories, and learns from the source what it lacks.
MergePayees(s) ==
  \E source, target \in DOMAIN db.payees :
    LET from == db.payees[source]
        to == db.payees[target]
        varied == to.varied \/ from.varied
        moved == {o \in DOMAIN db.operations : db.operations[o].payee = source}
    IN /\ source # target
       /\ Look(s, "merge_payees",
               [Nowhere EXCEPT
                  !.operations =
                    [o \in moved |-> Update(db.operations[o], [payee |-> target])],
                  !.payees =
                    [p \in {source, target} |->
                       IF p = source THEN Delete
                       ELSE Update(to, [varied |-> varied,
                              last |-> IF varied THEN None
                                       ELSE IF to.last = None THEN from.last ELSE to.last])]])

DeletePayee(s) ==
  \E p \in DOMAIN db.payees :
    Look(s, "delete_payee", To("payees", p, Delete))

-----------------------------------------------------------------------------
\* Legs of transfers and payments of credits are made and changed elsewhere.
OrdinaryKinds == OperationKinds \ {"transfer", "credit_payment"}

\* _signed; an adjustment arrives with its sign.
Signed(amount, kind) == IF kind = "expense" THEN -amount ELSE amount

\* _category_snapshot: a live category of the owner, of this kind.
LiveOfKind(category, kind) ==
  /\ category \in DOMAIN db.categories
  /\ ~db.categories[category].archived
  /\ db.categories[category].kind = kind

\* _validate_category: a refund must name a category, a loan and an adjustment
\* must not, and a refund goes with expenses.
CategoryFits(category, kind) ==
  /\ kind \in {"loan", "adjustment"} => category = None
  /\ kind = "refund" => category # None
  /\ category # None =>
       LiveOfKind(category, IF kind = "income" THEN "income" ELSE "expense")

\* ensure: the payee of this name, or a new one, and what becomes of its row.
Ensured(p, name) ==
  LET found == ByKey(PayeeKey[name])
  IN p \in IF found = {} THEN FreePayees ELSE found

\* A fault for the runs: a new payee is known by its name as it is spelled.
EnsuredRowAsSpelled(p, name, category) ==
  LET fresh == [key |-> name, last |-> None, varied |-> name \in Marketplaces]
  IN IF p \in DOMAIN db.payees
       THEN Update(db.payees[p], Remembered(db.payees[p], category))
       ELSE Insert(Remembered(fresh, category))

EnsuredRow(p, name, category) ==
  LET fresh == [key |-> PayeeKey[name], last |-> None, varied |-> name \in Marketplaces]
  IN IF p \in DOMAIN db.payees
       THEN Update(db.payees[p], Remembered(db.payees[p], category))
       ELSE Insert(Remembered(fresh, category))

\* create_transaction.  The account may be an archived one.
RecordOperation(s) ==
  \E o \in OperationIds \ Held("operations"), q \in Records,
     p \in PayeeIds \cup {None} :
    /\ q.account \in DOMAIN db.accounts
    /\ CategoryFits(q.category, q.kind)
    /\ IF q.payee = None THEN p = None ELSE Ensured(p, q.payee)
    /\ Look(s, "create_transaction",
            [To("operations", o, Insert([q EXCEPT !.amount = Signed(@, q.kind), !.payee = p]))
               EXCEPT !.payees =
                 [r \in {p} \ {None} |-> EnsuredRow(r, q.payee, q.category)]])

\* update_transaction, of the payee and the category: an operation is given a
\* payee, and the payee remembers the category the operation has or is given.
LabelOperation(s) ==
  \E o \in DOMAIN db.operations, name \in Spellings, p \in PayeeIds,
     given \in BOOLEAN, category \in CategoryIds :
    LET row == db.operations[o]
        new == IF given THEN category ELSE row.category
    IN /\ row.kind \in OrdinaryKinds
       /\ given => CategoryFits(category, row.kind)
       /\ Ensured(p, name)
       /\ Look(s, "update_transaction",
               [To("operations", o, Update(row, [payee |-> p, category |-> new]))
                  EXCEPT !.payees = [r \in {p} |-> EnsuredRow(r, name, new)]])

AskPayees(s) ==
  \/ CreatePayee(s) \/ UpdatePayee(s) \/ MergePayees(s) \/ DeletePayee(s)
  \/ RecordOperation(s) \/ LabelOperation(s)
=============================================================================
