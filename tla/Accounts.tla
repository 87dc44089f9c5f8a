------------------------------ MODULE Accounts ------------------------------
(***************************************************************************)
(* Accounts of the owner (AccountService): made, changed, archived and     *)
(* taken back.  An account that has operations keeps its initial balance,  *)
(* and one with money on it is archived only when the owner insists.       *)
(***************************************************************************)
EXTENDS Tables

CONSTANTS
  Currencies,  \* codes in the table of currencies
  Codes,       \* codes a client may send
  Balances     \* initial balances a client may send

OperationsOn(a) == {o \in DOMAIN db.operations : db.operations[o].account = a}

TransactionTotal(a) == SumOf([o \in OperationsOn(a) |-> db.operations[o].amount])

CurrentBalance(a) == db.accounts[a].initial + TransactionTotal(a)

ActiveNamed(name) == {a \in Active(db.accounts) : db.accounts[a].name = name}

CreateAccount(s) ==
  \E a \in AccountIds \ Held("accounts"), name \in Names, code \in Codes,
     initial \in Balances :
    /\ code \in Currencies
    /\ ActiveNamed(name) = {}
    /\ Look(s, "create_account",
            To("accounts", a, Insert([name |-> name, initial |-> initial, archived |-> FALSE])))

\* A client sends the fields it wants changed.
UpdateAccount(s) ==
  \E a \in DOMAIN db.accounts :
    LET row == db.accounts[a] IN
    \E new \in [name : Names] \cup [initial : Balances] \cup [name : Names, initial : Balances] :
      /\ "initial" \in DOMAIN new /\ new.initial # row.initial => OperationsOn(a) = {}
      /\ "name" \in DOMAIN new /\ new.name # row.name => ActiveNamed(new.name) \subseteq {a}
      /\ Look(s, "update_account", To("accounts", a, Update(row, new)))

ArchiveAccount(s) ==
  \E a \in DOMAIN db.accounts, force \in BOOLEAN :
    /\ force \/ CurrentBalance(a) = 0
    /\ Look(s, "archive_account",
            To("accounts", a, Update(db.accounts[a], [archived |-> TRUE])))

RestoreAccount(s) ==
  \E a \in DOMAIN db.accounts :
    /\ db.accounts[a].archived => ActiveNamed(db.accounts[a].name) = {}
    /\ Look(s, "restore_account",
            To("accounts", a, Update(db.accounts[a], [archived |-> FALSE])))

AskAccounts(s) ==
  CreateAccount(s) \/ UpdateAccount(s) \/ ArchiveAccount(s) \/ RestoreAccount(s)
=============================================================================
