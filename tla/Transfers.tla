------------------------------ MODULE Transfers ------------------------------
(***************************************************************************)
(* Transfers between accounts (TransferService, backend/app/domains/       *)
(* transactions).  A transfer is a row of `transfers`, two legs and, when  *)
(* the bank charges for it, a fee; legs and fee are rows of `transactions` *)
(* that refer to it.                                                       *)
(*                                                                         *)
(* An update replaces all the parameters, but writes only the columns      *)
(* that differ from what its session has loaded, and nothing is locked     *)
(* between the loading and the commit.  Two updates may each win some of   *)
(* the columns.  The statements that a request sends at its end, and its   *)
(* commit, are one step: they read nothing, the rows they write stay       *)
(* locked until the commit, and PostgreSQL breaks a ring.                  *)
(*                                                                         *)
(* Kept of a leg are its account, the names of its account and of the one  *)
(* on the other side as they were (account_name_snapshot and               *)
(* to_account_name_snapshot: of the other account a leg has nothing else), *)
(* the signed amount, its worth in roubles and the date; the rate and the  *)
(* comment go with them.  What a request reads on its way is part of what  *)
(* it turns out to ask for: the rate of the day (`rub`), and the names,    *)
(* which are any two, since an account may be renamed at any moment.  The  *)
(* stamp of a row that moves is the subject of Reconciliation.             *)
(***************************************************************************)
EXTENDS Integers

CONSTANTS
  Accounts,
  Names,       \* names accounts may have
  Transfers,   \* ids of transfers
  Fees,        \* ids of fee rows
  Sessions,    \* database sessions; each serves one request at a time
  Requests,    \* what a transfer is asked to be
  Nothing      \* no transfer, no request, nothing read

\* TransferCreate: the accounts differ, the amounts are positive, and a fee of
\* zero is none.
Request ==
  [from : Accounts, fromName : Names, to : Accounts, toName : Names,
   sent : Nat \ {0}, received : Nat \ {0}, rub : Nat \ {0}, date : Nat, fee : Nat]

ASSUME RequestsAssumption ==
  /\ Requests \subseteq {q \in Request : q.from # q.to}
  /\ Nothing \notin Transfers
  /\ Nothing \notin Requests

VARIABLES
  transfer,    \* committed rows of `transfers`: the ids that exist
  leg,         \* committed legs: a function on the ids that exist
  fee,         \* committed fee rows: a function on the ids that exist
  pc,          \* how far the session's request has got
  about,       \* the transfer the session's request is about
  read,        \* the legs and fees of that transfer as the session has read them
  asked,       \* history: the request that was committed last for a transfer
  stale,       \* history: sessions that go by what another commit has changed
  mixed,       \* history: transfers whose last update was by a stale session
  doubled      \* history: transfers to which a stale session has added a fee

rows == <<transfer, leg, fee>>
history == <<asked, stale, mixed, doubled>>
vars == <<rows, pc, about, read, history>>

-----------------------------------------------------------------------------
Leg == [account : Accounts, name : Names, other : Names, amount : Int, rub : Int,
        date : Nat]

Fee == [transfer : Transfers, account : Accounts, amount : Int, date : Nat]

\* A leg keeps the id it was made with; which one it is says its sign.
Sides == {"source", "destination"}

LegIds == Transfers \X Sides

LegsOf(t) == {t} \X Sides

FeesOf(t) == {f \in DOMAIN fee : fee[f].transfer = t}

Part(table, ids) == [i \in DOMAIN table \cap ids |-> table[i]]

Without(table, ids) == [i \in DOMAIN table \ ids |-> table[i]]

With(table, new) ==
  [i \in DOMAIN table \cup DOMAIN new |->
     IF i \in DOMAIN new THEN new[i] ELSE table[i]]

Going(s) == pc[s] \in {"updating", "deleting"}

\* uuid4 never repeats; an id that no table and no session holds any more is as
\* good as a new one.
FreeFees ==
  Fees \ (DOMAIN fee \cup UNION {DOMAIN read[s].fees : s \in {t \in Sessions : Going(t)}})

FreeTransfers == Transfers \ (transfer \cup {about[s] : s \in Sessions})

\* The rows that a request asks for.  Both legs are worth the same in roubles.
SourceLeg(q) ==
  [account |-> q.from, name |-> q.fromName, other |-> q.toName,
   amount |-> -q.sent, rub |-> -q.rub, date |-> q.date]

\* A fault for the runs: the other leg is worth what it says.
DestinationLegAtItsWorth(q) ==
  [account |-> q.to, name |-> q.toName, other |-> q.fromName,
   amount |-> q.received, rub |-> q.received, date |-> q.date]

DestinationLeg(q) ==
  [account |-> q.to, name |-> q.toName, other |-> q.fromName,
   amount |-> q.received, rub |-> q.rub, date |-> q.date]

FeeRow(t, q) ==
  [transfer |-> t, account |-> q.from, amount |-> -q.fee, date |-> q.date]

\* _split_legs tells the source from the destination by the sign.
LegFor(loaded, q) == IF loaded.amount < 0 THEN SourceLeg(q) ELSE DestinationLeg(q)

\* The row after the UPDATE of a flush: a column whose value is the one that was
\* loaded is not written.
Flushed(now, loaded, value) ==
  [c \in DOMAIN now |-> IF value[c] = loaded[c] THEN now[c] ELSE value[c]]

-----------------------------------------------------------------------------
\* A fault for the runs: the session forgets its request and goes on.
CloseInPlace(s) ==
  /\ about' = [about EXCEPT ![s] = Nothing]
  /\ read' = [read EXCEPT ![s] = Nothing]
  /\ UNCHANGED pc

Close(s) ==
  /\ pc' = [pc EXCEPT ![s] = "idle"]
  /\ about' = [about EXCEPT ![s] = Nothing]
  /\ read' = [read EXCEPT ![s] = Nothing]

\* The others who have read the rows of this transfer go by what is no more.
Publish(s) ==
  /\ stale' = {t \in Sessions \ {s} : t \in stale \/ (Going(t) /\ about[t] = about[s])}
  /\ Close(s)

\* A request may fail a validation, meet the foreign key or a row that is gone,
\* fail otherwise or be dropped: PostgreSQL rolls back.
Rollback(s) ==
  /\ pc[s] # "idle"
  /\ stale' = stale \ {s}
  /\ Close(s)
  /\ UNCHANGED <<rows, asked, mixed, doubled>>

\* create_transfer: what it adds no other session can have read.
CreateTransfer(t, q) ==
  /\ t \in FreeTransfers
  /\ transfer' = transfer \cup {t}
  /\ leg' = With(leg, [i \in LegsOf(t) |->
                         IF i[2] = "source" THEN SourceLeg(q) ELSE DestinationLeg(q)])
  /\ IF q.fee = 0
     THEN UNCHANGED fee
     ELSE \E f \in FreeFees : fee' = With(fee, [i \in {f} |-> FeeRow(t, q)])
  /\ asked' = [asked EXCEPT ![t] = q]
  /\ UNCHANGED <<pc, about, read, stale, mixed, doubled>>

\* get_transfer, and the first statement of delete_transfer ...
LoadTransfer(s, t, purpose) ==
  /\ pc[s] = "idle"
  /\ t \in transfer
  /\ pc' = [pc EXCEPT ![s] = purpose]
  /\ about' = [about EXCEPT ![s] = t]
  /\ UNCHANGED <<rows, read, history>>

\* ... list_transfer_legs.  An update stops when it does not find both legs.
LoadLegs(s) ==
  /\ \/ /\ pc[s] = "update"
        /\ LegsOf(about[s]) \subseteq DOMAIN leg
        /\ pc' = [pc EXCEPT ![s] = "updating"]
     \/ /\ pc[s] = "delete"
        /\ pc' = [pc EXCEPT ![s] = "deleting"]
  /\ read' = [read EXCEPT ![s] = [legs |-> Part(leg, LegsOf(about[s])),
                                  fees |-> Part(fee, FeesOf(about[s]))]]
  /\ UNCHANGED <<rows, about, history>>

-----------------------------------------------------------------------------
(* update_transfer and its commit.  The UPDATE of a row that is gone finds  *)
(* none and raises (StaleDataError); its DELETE is only warned about.       *)

UpdateLegs(s, q) ==
  LET loaded == read[s].legs
  IN  /\ \A i \in DOMAIN loaded : i \in DOMAIN leg \/ LegFor(loaded[i], q) = loaded[i]
      /\ leg' = [i \in DOMAIN leg |->
                   IF i \in DOMAIN loaded
                   THEN Flushed(leg[i], loaded[i], LegFor(loaded[i], q))
                   ELSE leg[i]]

\* The foreign key lets a fee in only while its transfer exists.
AddFee(s, q) ==
  /\ DOMAIN read[s].fees = {}
  /\ q.fee > 0
  /\ about[s] \in transfer
  /\ \E f \in FreeFees : fee' = With(fee, [i \in {f} |-> FeeRow(about[s], q)])

ChangeFee(s, q) ==
  /\ q.fee > 0
  /\ \E f \in DOMAIN read[s].fees :
       LET loaded == read[s].fees[f]
           value == FeeRow(about[s], q)
       IN  /\ f \in DOMAIN fee \/ value = loaded
           /\ fee' = [i \in DOMAIN fee |->
                        IF i = f THEN Flushed(fee[i], loaded, value) ELSE fee[i]]

\* A fault for the runs: a fee that is no longer asked for stays.
KeepFee(s, q) ==
  /\ q.fee = 0
  /\ UNCHANGED fee

RemoveFee(s, q) ==
  /\ q.fee = 0
  /\ IF DOMAIN read[s].fees = {}
     THEN UNCHANGED fee
     ELSE \E f \in DOMAIN read[s].fees : fee' = Without(fee, {f})

CommitUpdate(s, q) ==
  /\ pc[s] = "updating"
  /\ UpdateLegs(s, q)
  /\ AddFee(s, q) \/ ChangeFee(s, q) \/ RemoveFee(s, q)
  /\ asked' = [asked EXCEPT ![about[s]] = IF about[s] \in transfer THEN q ELSE @]
  /\ mixed' = IF s \in stale THEN mixed \cup ({about[s]} \cap transfer)
              ELSE mixed \ {about[s]}
  /\ doubled' = IF s \in stale /\ AddFee(s, q) THEN doubled \cup {about[s]} ELSE doubled
  /\ Publish(s)
  /\ UNCHANGED transfer

\* A fault for the runs: nothing asks for rows that refer to the transfer.
ReferredNowhere(s) == TRUE

\* The foreign key keeps a transfer to which a row still refers.
Unreferred(s) ==
  /\ DOMAIN leg \cap LegsOf(about[s]) \subseteq DOMAIN read[s].legs
  /\ FeesOf(about[s]) \subseteq DOMAIN read[s].fees

\* delete_transfer and its commit.
CommitDelete(s) ==
  /\ pc[s] = "deleting"
  /\ Unreferred(s)
  /\ leg' = Without(leg, DOMAIN read[s].legs)
  /\ fee' = Without(fee, DOMAIN read[s].fees)
  /\ transfer' = transfer \ {about[s]}
  /\ asked' = [asked EXCEPT ![about[s]] = Nothing]
  /\ mixed' = mixed \ {about[s]}
  /\ doubled' = doubled \ {about[s]}
  /\ Publish(s)

-----------------------------------------------------------------------------
Init ==
  /\ transfer = {}
  /\ leg = [i \in {} |-> Nothing]
  /\ fee = [i \in {} |-> Nothing]
  /\ pc = [s \in Sessions |-> "idle"]
  /\ about = [s \in Sessions |-> Nothing]
  /\ read = [s \in Sessions |-> Nothing]
  /\ asked = [t \in Transfers |-> Nothing]
  /\ stale = {}
  /\ mixed = {}
  /\ doubled = {}

Next ==
  \/ \E t \in Transfers, q \in Requests : CreateTransfer(t, q)
  \/ \E s \in Sessions :
       \/ \E t \in Transfers, purpose \in {"update", "delete"} : LoadTransfer(s, t, purpose)
       \/ LoadLegs(s)
       \/ \E q \in Requests : CommitUpdate(s, q)
       \/ CommitDelete(s)
       \/ Rollback(s)

Spec == Init /\ [][Next]_vars

-----------------------------------------------------------------------------
IsRows(table, ids, set) == DOMAIN table \subseteq ids /\ table \in [DOMAIN table -> set]

IsReading(r) ==
  /\ r = [legs |-> r.legs, fees |-> r.fees]
  /\ IsRows(r.legs, LegIds, Leg)
  /\ IsRows(r.fees, Fees, Fee)

\* The types of the variables: a session holds rows from their loading to its end.
TypeOK ==
  /\ transfer \subseteq Transfers
  /\ IsRows(leg, LegIds, Leg)
  /\ IsRows(fee, Fees, Fee)
  /\ pc \in [Sessions -> {"idle", "update", "delete", "updating", "deleting"}]
  /\ about \in [Sessions -> Transfers \cup {Nothing}]
  /\ \A s \in Sessions : pc[s] = "idle" <=> about[s] = Nothing
  /\ DOMAIN read = Sessions
  /\ \A s \in Sessions : IF Going(s) THEN IsReading(read[s]) ELSE read[s] = Nothing
  /\ asked \in [Transfers -> Requests \cup {Nothing}]
  /\ stale \subseteq {s \in Sessions : Going(s)}
  /\ mixed \subseteq transfer
  /\ doubled \subseteq transfer

\* A transfer that exists has both its legs, and no leg and no fee is left of one
\* that was deleted, also when an update adds a fee while a deletion goes by the
\* rows it has read, or when the transfer goes while it is being updated.
NothingLeftBehind ==
  /\ DOMAIN leg = transfer \X Sides
  /\ \A f \in DOMAIN fee : fee[f].transfer \in transfer

Mirrored(source, destination) ==
  /\ source.name = destination.other
  /\ source.other = destination.name
  /\ source.rub = -destination.rub
  /\ source.date = destination.date
  /\ source.amount < 0
  /\ destination.amount > 0
  /\ destination.rub > 0

\* However updates race and accounts are renamed in between, the legs mirror each
\* other: each gives the name of the other, the date is one, and in roubles their
\* sum is zero (the balance does not drift, says create_transfer).  Of each pair of
\* such columns a session writes both or neither, having read them agree.  An
\* account has no column opposite, and is not of this: an update that has been
\* overtaken can leave it beside the name of another.
LegsMirror ==
  \A t \in transfer : Mirrored(leg[<<t, "source">>], leg[<<t, "destination">>])

\* The fees are the one asked for, or none.
FeeAsAsked(t) ==
  IF asked[t].fee = 0
  THEN FeesOf(t) = {}
  ELSE \E f \in DOMAIN fee : FeesOf(t) = {f} /\ fee[f] = FeeRow(t, asked[t])

\* A transfer is what was asked for last, every parameter of it (TransferUpdate:
\* a full replacement), unless the last update went by rows that another one had
\* changed in between: then it is a mixture of the two until it is updated once
\* more.  For the fee this does not hold any more once such an update has added one.
AsAsked ==
  \A t \in transfer \ mixed :
    /\ leg[<<t, "source">>] = SourceLeg(asked[t])
    /\ leg[<<t, "destination">>] = DestinationLeg(asked[t])
    /\ t \in doubled \/ FeeAsAsked(t)

=============================================================================
