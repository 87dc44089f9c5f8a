------------------------------- MODULE Backup --------------------------------
(***************************************************************************)
(* The backup of all of an owner's data (ExportService.build_backup) and   *)
(* its restoration into an account that has none (ImportService.           *)
(* restore_all): the rows come back under new ids, with every reference    *)
(* led to the new id of its row.                                           *)
(*                                                                         *)
(* Of a backup the model keeps the tables of the registers; transfers,     *)
(* credits, reconciliations and the profile are restored in the same way.  *)
(***************************************************************************)
EXTENDS Summary

CONSTANTS
  Elsewhere,  \* tables of accounts that backups were made of
  Backups     \* files that are brought back

\* build_backup: the rows as they are, archived ones too, and the currencies
\* that they are in.
Exported(tables) == [tables |-> tables, codes |-> Currencies]

\* A backup of version 1 has no payees and no goals; operations name no payee.
VersionOne(backup) ==
  LET tables == backup.tables
  IN [backup EXCEPT
        !.tables = [tables EXCEPT
           !.payees = <<>>,
           !.goals = <<>>,
           !.operations = [o \in DOMAIN tables.operations |->
                             [tables.operations[o] EXCEPT !.payee = None]]]]

\* has_user_data: categories are there by default, and do not count.
HasUserData == \E t \in TableNames \ {"categories"} : db[t] # <<>>

\* uuid4 for each row; which of the free ids a row gets says nothing.
NewIds(table, rows) ==
  CHOOSE ids \in [DOMAIN rows -> Ids[table] \ Held(table)] :
    \A i, j \in DOMAIN rows : ids[i] = ids[j] => i = j

\* Bound of the instance: there are as many ids.
EnoughIds(tables) ==
  \A t \in TableNames :
    Cardinality(DOMAIN tables[t]) <= Cardinality(Ids[t] \ Held(t))

\* _remap: the references of a row under the new ids.
Remapped(table, row, ids) ==
  [c \in DOMAIN row |->
     LET led == {ref.to : ref \in {r \in References : r.of = table /\ r.column = c}}
     IN IF led = {} \/ row[c] = None THEN row[c]
        ELSE LET to == CHOOSE t \in led : TRUE IN ids[to][row[c]]]

\* The new row.  That a recurring expense was archived is not carried over.
RestoredRow(table, row, ids) ==
  LET new == Remapped(table, row, ids)
  IN Insert(IF table = "items" THEN [new EXCEPT !.archived = FALSE] ELSE new)

Restored(table, rows, ids) ==
  [i \in {ids[table][r] : r \in DOMAIN rows} |->
     LET r == CHOOSE q \in DOMAIN rows : ids[table][q] = i
     IN RestoredRow(table, rows[r], ids)]

\* clear_config: the default categories make room.
Cleared == [c \in DOMAIN db.categories |-> Delete]

Joined(f, g) == [i \in DOMAIN f \cup DOMAIN g |-> IF i \in DOMAIN f THEN f[i] ELSE g[i]]

\* restore_all, with its checks of the account, of the currencies and of the
\* references in the file.
RestoreFrom(s, backup) ==
  LET tables == backup.tables IN
  /\ ~HasUserData
  /\ backup.codes \subseteq Currencies
  /\ Whole(tables)
  /\ EnoughIds(tables)
  /\ LET ids == [t \in TableNames |-> NewIds(t, tables[t])]
         new == [t \in TableNames |-> Restored(t, tables[t], ids)]
     IN Look(s, "restore_all", [new EXCEPT !.categories = Joined(Cleared, @)])

AskBackup(s) == \E backup \in Backups : RestoreFrom(s, backup)
=============================================================================
