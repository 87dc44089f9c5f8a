--------------------------- MODULE TransfersProofs ---------------------------
(***************************************************************************)
(* The proofs of Transfers, for any numbers of accounts, transfers, fees,  *)
(* sessions and requests.                                                  *)
(***************************************************************************)
EXTENDS Transfers, TLAPS

\* What a session that has not been overtaken has read is what there is.
Current(s) ==
  /\ pc[s] = "updating" => about[s] \in transfer
  /\ about[s] \in transfer =>
       /\ \A i \in LegsOf(about[s]) : read[s].legs[i] = leg[i]
       /\ DOMAIN read[s].fees = FeesOf(about[s])
       /\ \A f \in FeesOf(about[s]) : read[s].fees[f] = fee[f]

\* What a session has read are rows of its transfer, which mirrored each other
\* then and have not changed hands since.
LegsLoaded(s) ==
  /\ DOMAIN read[s].legs \subseteq LegsOf(about[s])
  /\ (about[s] \in transfer \/ pc[s] = "updating") =>
        DOMAIN read[s].legs = LegsOf(about[s])
  /\ pc[s] = "updating" =>
        Mirrored(read[s].legs[<<about[s], "source">>],
                 read[s].legs[<<about[s], "destination">>])

FeesLoaded(s) ==
  \A f \in DOMAIN read[s].fees :
    /\ read[s].fees[f].transfer = about[s]
    /\ f \in DOMAIN fee => fee[f].transfer = about[s]

OneFee == \A t \in transfer \ doubled : \A f, g \in FeesOf(t) : f = g

AllLoaded ==
  \A s \in Sessions : Going(s) =>
    /\ LegsLoaded(s)
    /\ FeesLoaded(s)
    /\ s \notin stale => Current(s)

AllAsked == \A t \in transfer : asked[t] \in Requests

IInv ==
  /\ TypeOK
  /\ NothingLeftBehind
  /\ LegsMirror
  /\ AsAsked
  /\ AllLoaded
  /\ OneFee
  /\ AllAsked

-----------------------------------------------------------------------------
(* Rows.                                                                   *)

\* What is asked for are rows, and they mirror each other.
LEMMA AskedRows ==
  ASSUME NEW q \in Requests
  PROVE  /\ SourceLeg(q) \in Leg
         /\ DestinationLeg(q) \in Leg
         /\ Mirrored(SourceLeg(q), DestinationLeg(q))
         /\ \A t \in Transfers : FeeRow(t, q) \in Fee
  BY RequestsAssumption
  DEF RequestsAssumption, Request, SourceLeg, DestinationLeg, FeeRow, Mirrored, Leg, Fee

\* A flush of a leg, column by column.
LEMMA FlushedLeg ==
  ASSUME NEW now \in Leg, NEW loaded \in Leg, NEW value \in Leg
  PROVE  LET row == Flushed(now, loaded, value)
         IN  /\ row \in Leg
             /\ row.account = IF value.account = loaded.account THEN now.account ELSE value.account
             /\ row.name = IF value.name = loaded.name THEN now.name ELSE value.name
             /\ row.other = IF value.other = loaded.other THEN now.other ELSE value.other
             /\ row.amount = IF value.amount = loaded.amount THEN now.amount ELSE value.amount
             /\ row.rub = IF value.rub = loaded.rub THEN now.rub ELSE value.rub
             /\ row.date = IF value.date = loaded.date THEN now.date ELSE value.date
             /\ now = loaded => row = value
  BY DEF Flushed, Leg

LEMMA FlushedFee ==
  ASSUME NEW now \in Fee, NEW loaded \in Fee, NEW value \in Fee
  PROVE  LET row == Flushed(now, loaded, value)
         IN  /\ row \in Fee
             /\ row.transfer = IF value.transfer = loaded.transfer THEN now.transfer
                               ELSE value.transfer
             /\ now = loaded => row = value
  BY DEF Flushed, Fee

\* Legs that mirror each other, flushed by a session that has read legs that did:
\* of each pair of columns both are written or neither.
LEMMA FlushedMirrored ==
  ASSUME NEW q \in Requests,
         NEW a \in Leg, NEW b \in Leg, Mirrored(a, b),
         NEW x \in Leg, NEW y \in Leg, Mirrored(x, y)
  PROVE  Mirrored(Flushed(a, x, LegFor(x, q)), Flushed(b, y, LegFor(y, q)))
<1>1. LegFor(x, q) = SourceLeg(q) /\ LegFor(y, q) = DestinationLeg(q)
  BY DEF LegFor, Mirrored, Leg
<1>2. SourceLeg(q) \in Leg /\ DestinationLeg(q) \in Leg /\ Mirrored(SourceLeg(q), DestinationLeg(q))
  BY AskedRows
<1>. DEFINE u == SourceLeg(q)
            v == DestinationLeg(q)
            c == Flushed(a, x, u)
            d == Flushed(b, y, v)
<1>3. /\ c \in Leg
      /\ c.account = IF u.account = x.account THEN a.account ELSE u.account
      /\ c.name = IF u.name = x.name THEN a.name ELSE u.name
      /\ c.other = IF u.other = x.other THEN a.other ELSE u.other
      /\ c.amount = IF u.amount = x.amount THEN a.amount ELSE u.amount
      /\ c.rub = IF u.rub = x.rub THEN a.rub ELSE u.rub
      /\ c.date = IF u.date = x.date THEN a.date ELSE u.date
  BY <1>2, FlushedLeg
<1>4. /\ d \in Leg
      /\ d.account = IF v.account = y.account THEN b.account ELSE v.account
      /\ d.name = IF v.name = y.name THEN b.name ELSE v.name
      /\ d.other = IF v.other = y.other THEN b.other ELSE v.other
      /\ d.amount = IF v.amount = y.amount THEN b.amount ELSE v.amount
      /\ d.rub = IF v.rub = y.rub THEN b.rub ELSE v.rub
      /\ d.date = IF v.date = y.date THEN b.date ELSE v.date
  BY <1>2, FlushedLeg
<1>5. u \in Leg /\ v \in Leg /\ Mirrored(u, v)
  BY <1>2
<1>. HIDE DEF u, v, c, d
<1>6. Mirrored(c, d)
  BY <1>3, <1>4, <1>5 DEF Mirrored, Leg
<1>. QED BY <1>1, <1>6 DEF u, v, c, d

-----------------------------------------------------------------------------
(* What the steps do to the rows.                                          *)

\* An update leaves the legs of other transfers alone; those of its own mirror
\* each other, and are the ones asked for if what it has read is what there is.
LEMMA UpdateLegsEffect ==
  ASSUME IInv, NEW s \in Sessions, NEW q \in Requests, pc[s] = "updating",
         UpdateLegs(s, q)
  PROVE  /\ IsRows(leg', LegIds, Leg)
         /\ DOMAIN leg' = DOMAIN leg
         /\ \A i \in DOMAIN leg \ LegsOf(about[s]) : leg'[i] = leg[i]
         /\ about[s] \in transfer =>
              Mirrored(leg'[<<about[s], "source">>], leg'[<<about[s], "destination">>])
         /\ s \notin stale =>
              /\ leg'[<<about[s], "source">>] = SourceLeg(q)
              /\ leg'[<<about[s], "destination">>] = DestinationLeg(q)
<1>. DEFINE t == about[s]
            a == <<t, "source">>
            b == <<t, "destination">>
            loaded == read[s].legs
<1>1. /\ t \in Transfers
      /\ IsRows(leg, LegIds, Leg)
      /\ IsRows(loaded, LegIds, Leg)
      /\ DOMAIN leg = transfer \X Sides
  BY DEF IInv, TypeOK, NothingLeftBehind, Going, IsReading
<1>2. DOMAIN loaded = {a, b} /\ Mirrored(loaded[a], loaded[b])
  BY DEF IInv, AllLoaded, LegsLoaded, Going, LegsOf, Sides
<1>3. /\ DOMAIN leg' = DOMAIN leg
      /\ \A i \in DOMAIN leg : leg'[i] = IF i \in {a, b}
                                       THEN Flushed(leg[i], loaded[i], LegFor(loaded[i], q))
                                       ELSE leg[i]
      /\ leg' = [i \in DOMAIN leg |-> leg'[i]]
  BY <1>2 DEF UpdateLegs
<1>4. loaded[a] \in Leg /\ loaded[b] \in Leg
  BY <1>1, <1>2 DEF IsRows
<1>5. LegFor(loaded[a], q) = SourceLeg(q) /\ LegFor(loaded[b], q) = DestinationLeg(q)
  BY <1>2, <1>4 DEF LegFor, Mirrored, Leg
<1>6. SourceLeg(q) \in Leg /\ DestinationLeg(q) \in Leg
  BY AskedRows
<1>7. ASSUME NEW i \in DOMAIN leg PROVE leg'[i] \in Leg
  <2>1. leg[i] \in Leg
    BY <1>1 DEF IsRows
  <2>2. CASE i \in {a, b}
    BY <2>1, <2>2, <1>3, <1>4, <1>5, <1>6, FlushedLeg
  <2>3. CASE i \notin {a, b}
    BY <2>1, <2>3, <1>3
  <2>. QED BY <2>2, <2>3
<1>8. IsRows(leg', LegIds, Leg)
  BY <1>1, <1>3, <1>7 DEF IsRows
<1>9. \A i \in DOMAIN leg \ LegsOf(t) : leg'[i] = leg[i]
  BY <1>3 DEF LegsOf, Sides
<1>10. ASSUME t \in transfer PROVE Mirrored(leg'[a], leg'[b])
  <2>1. a \in DOMAIN leg /\ b \in DOMAIN leg /\ leg[a] \in Leg /\ leg[b] \in Leg
    BY <1>1, <1>10 DEF IsRows, Sides
  <2>2. Mirrored(leg[a], leg[b])
    BY <1>10 DEF IInv, LegsMirror
  <2>. HIDE DEF loaded
  <2>. QED BY <2>1, <2>2, <1>2, <1>3, <1>4, FlushedMirrored
<1>11. ASSUME s \notin stale
       PROVE  leg'[a] = SourceLeg(q) /\ leg'[b] = DestinationLeg(q)
  <2>1. t \in transfer /\ \A i \in LegsOf(t) : loaded[i] = leg[i]
    BY <1>11 DEF IInv, AllLoaded, Current, Going
  <2>2. a \in DOMAIN leg /\ b \in DOMAIN leg /\ loaded[a] = leg[a] /\ loaded[b] = leg[b]
    BY <2>1, <1>1 DEF LegsOf, Sides
  <2>3. leg'[a] = Flushed(leg[a], leg[a], SourceLeg(q))
    BY <2>2, <1>3, <1>5
  <2>4. leg'[b] = Flushed(leg[b], leg[b], DestinationLeg(q))
    BY <2>2, <1>3, <1>5
  <2>. QED BY <2>2, <2>3, <2>4, <1>4, <1>6, FlushedLeg
<1>. QED BY <1>3, <1>8, <1>9, <1>10, <1>11

\* What the end of an update does to the fees: those of other transfers stay, no
\* row changes its transfer, and a row is added only to a transfer that exists.
LEMMA UpdateFeesEffect ==
  ASSUME IInv, NEW s \in Sessions, NEW q \in Requests, pc[s] = "updating",
         AddFee(s, q) \/ ChangeFee(s, q) \/ RemoveFee(s, q)
  PROVE  /\ IsRows(fee', Fees, Fee)
         /\ \A f \in DOMAIN fee \ FeesOf(about[s]) : f \in DOMAIN fee' /\ fee'[f] = fee[f]
         /\ \A f \in DOMAIN fee' \cap DOMAIN fee : fee'[f].transfer = fee[f].transfer
         /\ \A f \in DOMAIN fee' \ DOMAIN fee :
              /\ f \in FreeFees
              /\ fee'[f].transfer = about[s]
              /\ about[s] \in transfer
              /\ AddFee(s, q)
         /\ AddFee(s, q) => \E f \in FreeFees :
              /\ DOMAIN fee' = DOMAIN fee \cup {f}
              /\ fee'[f] = FeeRow(about[s], q)
<1>. DEFINE t == about[s]
            loaded == read[s].fees
<1>1. /\ t \in Transfers
      /\ IsRows(fee, Fees, Fee)
      /\ IsRows(loaded, Fees, Fee)
      /\ FeeRow(t, q) \in Fee
      /\ FeeRow(t, q).transfer = t
  BY AskedRows DEF IInv, TypeOK, Going, IsReading, FeeRow
<1>2. \A f \in DOMAIN loaded : loaded[f].transfer = t /\ (f \in DOMAIN fee => fee[f].transfer = t)
  BY DEF IInv, AllLoaded, FeesLoaded, Going
<1>3. FreeFees \subseteq Fees /\ FreeFees \cap DOMAIN fee = {}
  BY DEF FreeFees
<1>4. CASE AddFee(s, q)
  <2>1. PICK f \in FreeFees : fee' = With(fee, [i \in {f} |-> FeeRow(t, q)])
    BY <1>4 DEF AddFee
  <2>2. /\ IsRows(fee', Fees, Fee)
        /\ DOMAIN fee' = DOMAIN fee \cup {f}
        /\ fee'[f] = FeeRow(t, q)
        /\ \A i \in DOMAIN fee \ {f} : fee'[i] = fee[i]
    BY <2>1, <1>1, <1>3 DEF With, IsRows
  <2>3. t \in transfer /\ f \notin DOMAIN fee /\ fee'[f].transfer = t
    BY <2>2, <1>1, <1>3, <1>4 DEF AddFee
  <2>4. \A i \in DOMAIN fee \ FeesOf(t) : i \in DOMAIN fee' /\ fee'[i] = fee[i]
    BY <2>2, <2>3
  <2>. QED BY <2>2, <2>3, <2>4, <1>4
<1>5. CASE ChangeFee(s, q)
  <2>1. PICK f \in DOMAIN loaded :
          fee' = [i \in DOMAIN fee |->
                    IF i = f THEN Flushed(fee[i], loaded[f], FeeRow(t, q)) ELSE fee[i]]
    BY <1>5 DEF ChangeFee
  <2>2. loaded[f] \in Fee /\ loaded[f].transfer = t
    BY <1>1, <1>2 DEF IsRows
  <2>3. ASSUME f \in DOMAIN fee
        PROVE  fee'[f] \in Fee /\ fee'[f].transfer = fee[f].transfer /\ fee[f].transfer = t
    <3>1. fee[f] \in Fee /\ fee[f].transfer = t
      BY <2>3, <1>1, <1>2 DEF IsRows
    <3>. HIDE DEF t, loaded
    <3>. QED BY <3>1, <2>1, <2>2, <2>3, <1>1, FlushedFee
  <2>4. DOMAIN fee' = DOMAIN fee /\ \A i \in DOMAIN fee \ {f} : fee'[i] = fee[i]
    BY <2>1
  <2>5. IsRows(fee', Fees, Fee)
    BY <2>1, <2>3, <2>4, <1>1 DEF IsRows
  <2>6. ~AddFee(s, q)
    BY DEF AddFee
  <2>. QED BY <2>3, <2>4, <2>5, <2>6 DEF FeesOf
<1>6. CASE RemoveFee(s, q)
  <2>1. ~AddFee(s, q)
    BY <1>6 DEF AddFee, RemoveFee
  <2>2. CASE fee' = fee
    BY <2>1, <2>2, <1>1
  <2>3. CASE \E f \in DOMAIN loaded : fee' = Without(fee, {f})
    <3>1. PICK f \in DOMAIN loaded : fee' = Without(fee, {f})
      BY <2>3
    <3>2. /\ IsRows(fee', Fees, Fee)
          /\ DOMAIN fee' = DOMAIN fee \ {f}
          /\ \A i \in DOMAIN fee \ {f} : fee'[i] = fee[i]
      BY <3>1, <1>1 DEF Without, IsRows
    <3>3. \A i \in DOMAIN fee \ FeesOf(t) : i \in DOMAIN fee' /\ fee'[i] = fee[i]
      BY <3>2, <1>2 DEF FeesOf
    <3>4. DOMAIN fee' \subseteq DOMAIN fee
      BY <3>2
    <3>. QED BY <3>2, <3>3, <3>4, <2>1
  <2>. QED BY <2>2, <2>3, <1>6 DEF RemoveFee
<1>. QED BY <1>4, <1>5, <1>6

\* A session that has not been overtaken leaves the fee that is asked for.
LEMMA UpdateFeesCurrent ==
  ASSUME IInv, NEW s \in Sessions, NEW q \in Requests, pc[s] = "updating",
         s \notin stale, about[s] \notin doubled,
         AddFee(s, q) \/ ChangeFee(s, q) \/ RemoveFee(s, q)
  PROVE  LET left == {f \in DOMAIN fee' : fee'[f].transfer = about[s]}
         IN  IF q.fee = 0
             THEN left = {}
             ELSE \E f \in DOMAIN fee' : left = {f} /\ fee'[f] = FeeRow(about[s], q)
<1>. DEFINE t == about[s]
            loaded == read[s].fees
<1>1. /\ t \in Transfers
      /\ IsRows(fee, Fees, Fee)
      /\ FeeRow(t, q) \in Fee
      /\ FeeRow(t, q).transfer = t
  BY AskedRows DEF IInv, TypeOK, Going, FeeRow
<1>2. /\ t \in transfer
      /\ DOMAIN loaded = FeesOf(t)
      /\ \A f \in FeesOf(t) : loaded[f] = fee[f]
  BY DEF IInv, AllLoaded, Current, Going
<1>3. \A f, g \in FeesOf(t) : f = g
  BY <1>2 DEF IInv, OneFee
<1>4. CASE AddFee(s, q)
  <2>1. q.fee # 0 /\ FeesOf(t) = {}
    BY <1>2, <1>4 DEF AddFee
  <2>2. PICK f \in FreeFees : DOMAIN fee' = DOMAIN fee \cup {f} /\ fee'[f] = FeeRow(t, q)
    BY <1>4, UpdateFeesEffect
  <2>3. \A i \in DOMAIN fee : fee'[i].transfer # t
    BY <2>1, <2>2, <1>4, UpdateFeesEffect DEF FeesOf
  <2>. QED BY <2>1, <2>2, <2>3, <1>1
<1>5. CASE ChangeFee(s, q)
  <2>1. PICK f \in DOMAIN loaded :
          fee' = [i \in DOMAIN fee |->
                    IF i = f THEN Flushed(fee[i], loaded[f], FeeRow(t, q)) ELSE fee[i]]
    BY <1>5 DEF ChangeFee
  <2>2. q.fee # 0 /\ f \in DOMAIN fee /\ fee[f] \in Fee /\ loaded[f] = fee[f]
    BY <1>1, <1>2, <1>5 DEF ChangeFee, FeesOf, IsRows
  <2>3. fee'[f] = FeeRow(t, q)
    BY <2>1, <2>2, <1>1, FlushedFee
  <2>4. \A i \in DOMAIN fee \ {f} : fee[i].transfer # t
    BY <1>2, <1>3 DEF FeesOf
  <2>5. DOMAIN fee' = DOMAIN fee /\ \A i \in DOMAIN fee \ {f} : fee'[i].transfer # t
    BY <2>1, <2>4
  <2>. QED BY <2>2, <2>3, <2>5, <1>1
<1>6. CASE RemoveFee(s, q)
  <2>1. q.fee = 0
    BY <1>6 DEF RemoveFee
  <2>2. CASE DOMAIN loaded = {}
    BY <2>1, <2>2, <1>2, <1>6 DEF RemoveFee, FeesOf
  <2>3. CASE DOMAIN loaded # {}
    <3>1. PICK f \in DOMAIN loaded : fee' = Without(fee, {f})
      BY <2>3, <1>6 DEF RemoveFee
    <3>2. DOMAIN fee' = DOMAIN fee \ {f} /\ \A i \in DOMAIN fee \ {f} : fee'[i] = fee[i]
      BY <3>1 DEF Without
    <3>3. \A i \in DOMAIN fee \ {f} : fee[i].transfer # t
      BY <1>2, <1>3 DEF FeesOf
    <3>. QED BY <3>2, <3>3, <2>1
  <2>. QED BY <2>2, <2>3
<1>. QED BY <1>4, <1>5, <1>6

\* The session that has come to its end, and the others.
LEMMA PublishEffect ==
  ASSUME IInv, NEW s \in Sessions, Publish(s)
  PROVE  /\ pc' \in [Sessions -> {"idle", "update", "delete", "updating", "deleting"}]
         /\ about' \in [Sessions -> Transfers \cup {Nothing}]
         /\ DOMAIN read' = Sessions
         /\ pc'[s] = "idle" /\ about'[s] = Nothing /\ read'[s] = Nothing
         /\ \A u \in Sessions \ {s} :
              pc'[u] = pc[u] /\ about'[u] = about[u] /\ read'[u] = read[u]
         /\ stale' = {u \in Sessions \ {s} :
                        u \in stale \/ (Going(u) /\ about[u] = about[s])}
  BY DEF IInv, TypeOK, Publish, Close

\* What TypeOK says of the sessions, when one of them has come to its end.
LEMMA PublishTypes ==
  ASSUME IInv, NEW s \in Sessions, Publish(s)
  PROVE  /\ pc' \in [Sessions -> {"idle", "update", "delete", "updating", "deleting"}]
         /\ about' \in [Sessions -> Transfers \cup {Nothing}]
         /\ \A u \in Sessions : pc'[u] = "idle" <=> about'[u] = Nothing
         /\ DOMAIN read' = Sessions
         /\ \A u \in Sessions :
              IF Going(u)' THEN IsReading(read'[u]) ELSE read'[u] = Nothing
         /\ stale' \subseteq {u \in Sessions : Going(u)'}
<1>1. /\ \A u \in Sessions : pc[u] = "idle" <=> about[u] = Nothing
      /\ \A u \in Sessions : IF Going(u) THEN IsReading(read[u]) ELSE read[u] = Nothing
      /\ stale \subseteq {u \in Sessions : Going(u)}
  BY DEF IInv, TypeOK
<1>2. \A u \in Sessions : IF Going(u)' THEN IsReading(read'[u]) ELSE read'[u] = Nothing
  <2>. SUFFICES ASSUME NEW u \in Sessions
                PROVE  IF Going(u)' THEN IsReading(read'[u]) ELSE read'[u] = Nothing
    OBVIOUS
  <2>1. CASE u = s
    BY <2>1, PublishEffect DEF Going
  <2>2. CASE u # s
    <3>1. read'[u] = read[u] /\ (Going(u)' <=> Going(u))
      BY <2>2, PublishEffect DEF Going
    <3>. QED BY <3>1, <1>1
  <2>. QED BY <2>1, <2>2
<1>3. stale' \subseteq {u \in Sessions : Going(u)'}
  BY <1>1, PublishEffect DEF Going
<1>. QED BY <1>1, <1>2, <1>3, PublishEffect

-----------------------------------------------------------------------------
(* Each step keeps the invariant.                                          *)

LEMMA InitInv == Init => IInv
<1>. SUFFICES ASSUME Init PROVE IInv
  OBVIOUS
<1>1. TypeOK
  BY DEF Init, TypeOK, IsRows, Going
<1>2. NothingLeftBehind /\ LegsMirror /\ AsAsked /\ AllLoaded /\ OneFee /\ AllAsked
  BY DEF Init, NothingLeftBehind, LegsMirror, AsAsked, AllLoaded, OneFee, AllAsked, Going, Sides
<1>. QED BY <1>1, <1>2 DEF IInv

\* What is said of the tables stays true while they stay.
LEMMA TablesStay ==
  ASSUME IInv, UNCHANGED <<rows, asked, mixed, doubled>>
  PROVE  NothingLeftBehind' /\ LegsMirror' /\ AsAsked' /\ OneFee' /\ AllAsked'
  BY DEF IInv, rows, NothingLeftBehind, LegsMirror, AsAsked, FeeAsAsked, FeesOf, OneFee, AllAsked

\* So does what is said of a session that does nothing.
LEMMA SessionStays ==
  ASSUME IInv, UNCHANGED rows, NEW u \in Sessions, Going(u),
         pc'[u] = pc[u], about'[u] = about[u], read'[u] = read[u],
         u \notin stale' => u \notin stale
  PROVE  LegsLoaded(u)' /\ FeesLoaded(u)' /\ (u \notin stale' => Current(u)')
<1>1. LegsLoaded(u) /\ FeesLoaded(u) /\ (u \notin stale => Current(u))
  BY DEF IInv, AllLoaded
<1>. QED BY <1>1 DEF LegsLoaded, FeesLoaded, Current, rows, FeesOf

LEMMA RollbackStep ==
  ASSUME IInv, NEW s \in Sessions, Rollback(s)
  PROVE  IInv'
<1>1. /\ pc' = [pc EXCEPT ![s] = "idle"]
      /\ about' = [about EXCEPT ![s] = Nothing]
      /\ read' = [read EXCEPT ![s] = Nothing]
      /\ stale' = stale \ {s}
      /\ UNCHANGED <<rows, asked, mixed, doubled>>
  BY DEF Rollback, Close
<1>2. TypeOK'
  BY <1>1 DEF IInv, TypeOK, rows, Going, IsRows, IsReading
<1>3. AllLoaded'
  <2>. SUFFICES ASSUME NEW u \in Sessions, Going(u)'
                PROVE  LegsLoaded(u)' /\ FeesLoaded(u)' /\ (u \notin stale' => Current(u)')
    BY DEF AllLoaded
  <2>1. u # s /\ pc'[u] = pc[u] /\ about'[u] = about[u] /\ read'[u] = read[u] /\ Going(u)
    BY <1>1 DEF IInv, TypeOK, Going
  <2>. QED BY <2>1, <1>1, SessionStays
<1>. QED BY <1>1, <1>2, <1>3, TablesStay DEF IInv

LEMMA LoadTransferStep ==
  ASSUME IInv, NEW s \in Sessions, NEW t \in Transfers, NEW purpose \in {"update", "delete"},
         LoadTransfer(s, t, purpose)
  PROVE  IInv'
<1>1. /\ pc[s] = "idle"
      /\ pc' = [pc EXCEPT ![s] = purpose]
      /\ about' = [about EXCEPT ![s] = t]
      /\ UNCHANGED <<rows, read, stale, asked, mixed, doubled>>
  BY DEF LoadTransfer, history
<1>2. TypeOK'
  BY <1>1, RequestsAssumption
  DEF IInv, TypeOK, rows, Going, IsRows, IsReading, RequestsAssumption
<1>3. AllLoaded'
  <2>. SUFFICES ASSUME NEW u \in Sessions, Going(u)'
                PROVE  LegsLoaded(u)' /\ FeesLoaded(u)' /\ (u \notin stale' => Current(u)')
    BY DEF AllLoaded
  <2>1. u # s /\ pc'[u] = pc[u] /\ about'[u] = about[u] /\ read'[u] = read[u] /\ Going(u)
    BY <1>1 DEF IInv, TypeOK, Going
  <2>. QED BY <2>1, <1>1, SessionStays
<1>. QED BY <1>1, <1>2, <1>3, TablesStay DEF IInv

LEMMA LoadLegsStep ==
  ASSUME IInv, NEW s \in Sessions, LoadLegs(s)
  PROVE  IInv'
<1>. DEFINE t == about[s]
            legs == Part(leg, LegsOf(t))
            fees == Part(fee, FeesOf(t))
<1>1. /\ pc[s] \in {"update", "delete"}
      /\ pc' = [pc EXCEPT ![s] = IF pc[s] = "update" THEN "updating" ELSE "deleting"]
      /\ pc[s] = "update" => LegsOf(t) \subseteq DOMAIN leg
      /\ read' = [read EXCEPT ![s] = [legs |-> legs, fees |-> fees]]
      /\ UNCHANGED <<rows, about, asked, stale, mixed, doubled>>
  BY DEF LoadLegs, history
<1>2. /\ t \in Transfers
      /\ IsRows(leg, LegIds, Leg)
      /\ IsRows(fee, Fees, Fee)
      /\ DOMAIN leg = transfer \X Sides
      /\ s \notin stale
  BY <1>1 DEF IInv, TypeOK, NothingLeftBehind, Going
<1>3. /\ IsRows(legs, LegIds, Leg)
      /\ DOMAIN legs = DOMAIN leg \cap LegsOf(t)
      /\ \A i \in DOMAIN legs : legs[i] = leg[i]
  BY <1>2 DEF IsRows, Part
<1>4. /\ IsRows(fees, Fees, Fee)
      /\ DOMAIN fees = FeesOf(t)
      /\ \A f \in DOMAIN fees : fees[f] = fee[f]
  BY <1>2 DEF IsRows, Part, FeesOf
<1>. HIDE DEF legs, fees
<1>5. read'[s] = [legs |-> legs, fees |-> fees] /\ pc'[s] # "idle" /\ Going(s)'
  BY <1>1 DEF IInv, TypeOK, Going
<1>6. IsReading(read'[s])
  BY <1>3, <1>4, <1>5 DEF IsReading
<1>7. TypeOK'
  <2>1. \A u \in Sessions \ {s} : read'[u] = read[u] /\ pc'[u] = pc[u] /\ (Going(u)' <=> Going(u))
    BY <1>1 DEF IInv, TypeOK, Going
  <2>2. \A u \in Sessions : IF Going(u)' THEN IsReading(read'[u]) ELSE read'[u] = Nothing
    BY <2>1, <1>5, <1>6 DEF IInv, TypeOK
  <2>3. stale' \subseteq {u \in Sessions : Going(u)'}
    BY <2>1, <1>1, <1>5 DEF IInv, TypeOK
  <2>4. \A u \in Sessions : pc'[u] = "idle" <=> about'[u] = Nothing
    BY <2>1, <1>1, <1>5 DEF IInv, TypeOK
  <2>5. /\ pc' \in [Sessions -> {"idle", "update", "delete", "updating", "deleting"}]
        /\ DOMAIN read' = Sessions
    BY <1>1 DEF IInv, TypeOK
  <2>. QED BY <2>2, <2>3, <2>4, <2>5, <1>1 DEF IInv, TypeOK, rows, IsRows
<1>8. AllLoaded'
  <2>. SUFFICES ASSUME NEW u \in Sessions, Going(u)'
                PROVE  LegsLoaded(u)' /\ FeesLoaded(u)' /\ (u \notin stale' => Current(u)')
    BY DEF AllLoaded
  <2>1. CASE u # s
    <3>1. pc'[u] = pc[u] /\ about'[u] = about[u] /\ read'[u] = read[u] /\ Going(u)
      BY <2>1, <1>1 DEF IInv, TypeOK, Going
    <3>. QED BY <3>1, <1>1, SessionStays
  <2>2. CASE u = s
    <3>1. t \in transfer => DOMAIN legs = LegsOf(t)
      BY <1>2, <1>3 DEF LegsOf
    <3>2. pc'[s] = "updating" => t \in transfer
      <4>1. pc'[s] = "updating" => LegsOf(t) \subseteq transfer \X Sides
        BY <1>1, <1>2 DEF IInv, TypeOK
      <4>2. <<t, "source">> \in LegsOf(t)
        BY DEF LegsOf, Sides
      <4>. QED BY <4>1, <4>2
    <3>3. t \in transfer => Mirrored(legs[<<t, "source">>], legs[<<t, "destination">>])
      <4>. SUFFICES ASSUME t \in transfer
                    PROVE  Mirrored(legs[<<t, "source">>], legs[<<t, "destination">>])
        OBVIOUS
      <4>1. <<t, "source">> \in DOMAIN legs /\ <<t, "destination">> \in DOMAIN legs
        BY <3>1 DEF LegsOf, Sides
      <4>2. /\ legs[<<t, "source">>] = leg[<<t, "source">>]
            /\ legs[<<t, "destination">>] = leg[<<t, "destination">>]
        BY <4>1, <1>3
      <4>. QED BY <4>2 DEF IInv, LegsMirror
    <3>4. LegsLoaded(s)'
      BY <3>1, <3>2, <3>3, <1>1, <1>3, <1>5 DEF LegsLoaded, rows
    <3>5. FeesLoaded(s)'
      BY <1>1, <1>4, <1>5 DEF FeesLoaded, FeesOf, rows
    <3>6. Current(s)'
      <4>1. t \in transfer => \A i \in LegsOf(t) : legs[i] = leg[i]
        BY <3>1, <1>3
      <4>. QED BY <4>1, <3>2, <1>1, <1>4, <1>5 DEF Current, FeesOf, rows
    <3>. QED BY <2>2, <3>4, <3>5, <3>6
  <2>. QED BY <2>1, <2>2
<1>. QED BY <1>1, <1>7, <1>8, TablesStay DEF IInv

LEMMA CreateStep ==
  ASSUME IInv, NEW t \in Transfers, NEW q \in Requests, CreateTransfer(t, q)
  PROVE  IInv'
<1>. DEFINE a == <<t, "source">>
            b == <<t, "destination">>
<1>1. /\ t \notin transfer
      /\ \A u \in Sessions : about[u] # t
      /\ transfer' = transfer \cup {t}
      /\ asked' = [asked EXCEPT ![t] = q]
      /\ UNCHANGED <<pc, about, read, stale, mixed, doubled>>
  BY DEF CreateTransfer, FreeTransfers
<1>2. /\ IsRows(leg, LegIds, Leg)
      /\ IsRows(fee, Fees, Fee)
      /\ DOMAIN leg = transfer \X Sides
      /\ \A f \in DOMAIN fee : fee[f].transfer \in transfer
  BY DEF IInv, TypeOK, NothingLeftBehind
<1>3. /\ SourceLeg(q) \in Leg /\ DestinationLeg(q) \in Leg
      /\ Mirrored(SourceLeg(q), DestinationLeg(q))
      /\ FeeRow(t, q) \in Fee /\ FeeRow(t, q).transfer = t
  BY AskedRows DEF FeeRow
<1>4. leg' = With(leg, [i \in LegsOf(t) |->
                          IF i[2] = "source" THEN SourceLeg(q) ELSE DestinationLeg(q)])
  BY DEF CreateTransfer
<1>5. /\ DOMAIN leg' = DOMAIN leg \cup {a, b}
      /\ leg'[a] = SourceLeg(q)
      /\ leg'[b] = DestinationLeg(q)
      /\ \A i \in DOMAIN leg : leg'[i] = leg[i]
      /\ leg' = [i \in DOMAIN leg' |-> leg'[i]]
  BY <1>1, <1>2, <1>4 DEF With, LegsOf, Sides
<1>6. IsRows(leg', LegIds, Leg)
  <2>1. {a, b} \subseteq LegIds
    BY DEF LegIds, Sides
  <2>2. \A i \in DOMAIN leg' : leg'[i] \in Leg
    BY <1>2, <1>3, <1>5 DEF IsRows
  <2>. QED BY <2>1, <2>2, <1>2, <1>5 DEF IsRows
<1>7. /\ IsRows(fee', Fees, Fee)
      /\ DOMAIN fee \subseteq DOMAIN fee'
      /\ \A f \in DOMAIN fee : fee'[f] = fee[f]
      /\ DOMAIN fee' \cap UNION {DOMAIN read[u].fees : u \in {v \in Sessions : Going(v)}}
           \subseteq DOMAIN fee
      /\ IF q.fee = 0
         THEN DOMAIN fee' = DOMAIN fee
         ELSE \E f \in Fees \ DOMAIN fee :
                DOMAIN fee' = DOMAIN fee \cup {f} /\ fee'[f] = FeeRow(t, q)
  <2>1. CASE q.fee = 0
    BY <2>1, <1>2 DEF CreateTransfer
  <2>2. CASE q.fee # 0
    <3>1. PICK f \in FreeFees : fee' = With(fee, [i \in {f} |-> FeeRow(t, q)])
      BY <2>2 DEF CreateTransfer
    <3>2. /\ f \in Fees \ DOMAIN fee
          /\ f \notin UNION {DOMAIN read[u].fees : u \in {v \in Sessions : Going(v)}}
      BY DEF FreeFees
    <3>3. /\ IsRows(fee', Fees, Fee)
          /\ DOMAIN fee' = DOMAIN fee \cup {f}
          /\ fee'[f] = FeeRow(t, q)
          /\ \A i \in DOMAIN fee : fee'[i] = fee[i]
      BY <3>1, <3>2, <1>2, <1>3 DEF With, IsRows
    <3>. QED BY <2>2, <3>2, <3>3
  <2>. QED BY <2>1, <2>2
<1>8. \A f \in DOMAIN fee' \ DOMAIN fee : fee'[f] = FeeRow(t, q) /\ q.fee # 0
  BY <1>7
<1>9. TypeOK'
  <2>1. \A u \in Sessions : Going(u)' <=> Going(u)
    BY <1>1 DEF Going
  <2>. QED BY <2>1, <1>1, <1>6, <1>7 DEF IInv, TypeOK
<1>10. NothingLeftBehind'
  <2>1. DOMAIN leg' = transfer' \X Sides
    BY <1>1, <1>2, <1>5 DEF Sides
  <2>. QED BY <2>1, <1>1, <1>2, <1>3, <1>7, <1>8 DEF NothingLeftBehind
<1>11. LegsMirror'
  <2>. SUFFICES ASSUME NEW x \in transfer'
                PROVE  Mirrored(leg'[<<x, "source">>], leg'[<<x, "destination">>])
    BY DEF LegsMirror
  <2>1. CASE x = t
    BY <2>1, <1>3, <1>5
  <2>2. CASE x # t
    <3>1. /\ x \in transfer
          /\ leg'[<<x, "source">>] = leg[<<x, "source">>]
          /\ leg'[<<x, "destination">>] = leg[<<x, "destination">>]
      BY <2>2, <1>1, <1>2, <1>5 DEF Sides
    <3>. QED BY <3>1 DEF IInv, LegsMirror
  <2>. QED BY <2>1, <2>2
<1>12. \A x \in transfer : FeesOf(x)' = FeesOf(x)
  BY <1>1, <1>3, <1>7, <1>8 DEF FeesOf
<1>13. \A x \in transfer : asked'[x] = asked[x]
  BY <1>1 DEF IInv, TypeOK
<1>14. asked'[t] = q
  BY <1>1 DEF IInv, TypeOK
<1>15. FeeAsAsked(t)' /\ \A f, g \in FeesOf(t)' : f = g
  <2>1. \A f \in DOMAIN fee : fee'[f].transfer # t
    BY <1>1, <1>2, <1>7
  <2>2. FeesOf(t)' = DOMAIN fee' \ DOMAIN fee
    BY <2>1, <1>3, <1>8 DEF FeesOf
  <2>. QED BY <2>2, <1>7, <1>14 DEF FeeAsAsked
<1>16. AsAsked'
  <2>. SUFFICES ASSUME NEW x \in transfer', x \notin mixed'
                PROVE  /\ leg'[<<x, "source">>] = SourceLeg(asked'[x])
                       /\ leg'[<<x, "destination">>] = DestinationLeg(asked'[x])
                       /\ x \in doubled' \/ FeeAsAsked(x)'
    BY DEF AsAsked
  <2>1. CASE x = t
    BY <2>1, <1>5, <1>14, <1>15
  <2>2. CASE x # t
    <3>1. /\ x \in transfer \ mixed
          /\ leg'[<<x, "source">>] = leg[<<x, "source">>]
          /\ leg'[<<x, "destination">>] = leg[<<x, "destination">>]
          /\ asked'[x] = asked[x]
          /\ FeesOf(x)' = FeesOf(x)
      BY <2>2, <1>1, <1>2, <1>5, <1>12, <1>13 DEF Sides
    <3>2. FeeAsAsked(x) => FeeAsAsked(x)'
      BY <3>1, <1>7 DEF FeeAsAsked
    <3>. QED BY <3>1, <3>2, <1>1 DEF IInv, AsAsked
  <2>. QED BY <2>1, <2>2
<1>17. AllLoaded'
  <2>. SUFFICES ASSUME NEW u \in Sessions, Going(u)
                PROVE  LegsLoaded(u)' /\ FeesLoaded(u)' /\ (u \notin stale => Current(u)')
    BY <1>1 DEF AllLoaded, Going
  <2>1. LegsLoaded(u) /\ FeesLoaded(u) /\ (u \notin stale => Current(u))
    BY DEF IInv, AllLoaded
  <2>2. about[u] \in transfer' <=> about[u] \in transfer
    BY <1>1
  <2>3. LegsLoaded(u)'
    BY <2>1, <2>2, <1>1 DEF LegsLoaded
  <2>4. FeesLoaded(u)'
    BY <2>1, <1>1, <1>7 DEF FeesLoaded
  <2>5. ASSUME Current(u) PROVE Current(u)'
    <3>1. PICK x \in Transfers : x = about[u]
      BY DEF IInv, TypeOK, Going
    <3>2. x \in transfer => \A i \in LegsOf(x) : leg'[i] = leg[i]
      BY <1>2, <1>5 DEF LegsOf
    <3>3. x \in transfer => FeesOf(x)' = FeesOf(x) /\ \A f \in FeesOf(x) : fee'[f] = fee[f]
      BY <1>7, <1>12 DEF FeesOf
    <3>. QED BY <2>2, <2>5, <3>1, <3>2, <3>3, <1>1 DEF Current, FeesOf
  <2>. QED BY <2>1, <2>3, <2>4, <2>5
<1>18. OneFee'
  BY <1>1, <1>12, <1>15 DEF IInv, OneFee
<1>19. AllAsked'
  BY <1>1, <1>13, <1>14 DEF IInv, AllAsked
<1>. QED BY <1>9, <1>10, <1>11, <1>16, <1>17, <1>18, <1>19 DEF IInv

LEMMA UpdateStep ==
  ASSUME IInv, NEW s \in Sessions, NEW q \in Requests, CommitUpdate(s, q)
  PROVE  IInv'
<1>. DEFINE a(x) == <<x, "source">>
            b(x) == <<x, "destination">>
<1>0. PICK t \in Transfers : t = about[s] /\ pc[s] = "updating"
  BY DEF CommitUpdate, IInv, TypeOK
<1>1. /\ UpdateLegs(s, q)
      /\ AddFee(s, q) \/ ChangeFee(s, q) \/ RemoveFee(s, q)
      /\ asked' = [asked EXCEPT ![t] = IF t \in transfer THEN q ELSE @]
      /\ mixed' = IF s \in stale THEN mixed \cup ({t} \cap transfer) ELSE mixed \ {t}
      /\ doubled' = IF s \in stale /\ AddFee(s, q) THEN doubled \cup {t} ELSE doubled
      /\ Publish(s)
      /\ transfer' = transfer
  BY <1>0 DEF CommitUpdate
<1>2. /\ DOMAIN leg = transfer \X Sides
      /\ \A f \in DOMAIN fee : fee[f].transfer \in transfer
  BY DEF IInv, NothingLeftBehind
<1>3. /\ IsRows(leg', LegIds, Leg)
      /\ DOMAIN leg' = DOMAIN leg
      /\ \A i \in DOMAIN leg \ LegsOf(t) : leg'[i] = leg[i]
      /\ t \in transfer => Mirrored(leg'[a(t)], leg'[b(t)])
      /\ s \notin stale => leg'[a(t)] = SourceLeg(q) /\ leg'[b(t)] = DestinationLeg(q)
  BY <1>0, <1>1, UpdateLegsEffect
<1>4. /\ IsRows(fee', Fees, Fee)
      /\ \A f \in DOMAIN fee \ FeesOf(t) : f \in DOMAIN fee' /\ fee'[f] = fee[f]
      /\ \A f \in DOMAIN fee' \cap DOMAIN fee : fee'[f].transfer = fee[f].transfer
      /\ \A f \in DOMAIN fee' \ DOMAIN fee :
           /\ f \in FreeFees
           /\ fee'[f].transfer = t
           /\ t \in transfer
           /\ AddFee(s, q)
  BY <1>0, <1>1, UpdateFeesEffect
<1>5. \A x \in Transfers \ {t}, i \in DOMAIN leg : i \in LegsOf(x) => leg'[i] = leg[i]
  BY <1>3 DEF LegsOf
<1>6. ASSUME NEW x \in Transfers \ {t}
      PROVE  FeesOf(x)' = FeesOf(x) /\ \A f \in FeesOf(x) : fee'[f] = fee[f]
  BY <1>4 DEF FeesOf
<1>7. \A x \in Transfers \ {t} :
        /\ asked'[x] = asked[x]
        /\ x \in mixed' <=> x \in mixed
        /\ x \in doubled' <=> x \in doubled
  BY <1>1 DEF IInv, TypeOK
<1>8. t \in transfer => asked'[t] = q
  BY <1>1 DEF IInv, TypeOK
<1>9. transfer \subseteq Transfers /\ mixed \subseteq transfer /\ doubled \subseteq transfer
  BY DEF IInv, TypeOK
<1>10. TypeOK'
  <2>1. asked' \in [Transfers -> Requests \cup {Nothing}]
    BY <1>1 DEF IInv, TypeOK
  <2>2. mixed' \subseteq transfer' /\ doubled' \subseteq transfer'
    BY <1>1, <1>0, <1>9 DEF AddFee
  <2>. QED BY <2>1, <2>2, <1>1, <1>3, <1>4, <1>9, PublishTypes DEF TypeOK
<1>11. NothingLeftBehind'
  BY <1>1, <1>2, <1>3, <1>4 DEF NothingLeftBehind
<1>12. ASSUME NEW x \in transfer, x # t
       PROVE  leg'[a(x)] = leg[a(x)] /\ leg'[b(x)] = leg[b(x)]
  <2>1. a(x) \in DOMAIN leg \ LegsOf(t) /\ b(x) \in DOMAIN leg \ LegsOf(t)
    BY <1>2, <1>12 DEF LegsOf, Sides
  <2>. QED BY <2>1, <1>3
<1>13. LegsMirror'
  <2>. SUFFICES ASSUME NEW x \in transfer PROVE Mirrored(leg'[a(x)], leg'[b(x)])
    BY <1>1 DEF LegsMirror
  <2>1. CASE x = t
    BY <2>1, <1>3
  <2>2. CASE x # t
    BY <2>2, <1>12 DEF IInv, LegsMirror
  <2>. QED BY <2>1, <2>2
<1>14. AsAsked'
  <2>. SUFFICES ASSUME NEW x \in transfer, x \notin mixed'
                PROVE  /\ leg'[a(x)] = SourceLeg(asked'[x])
                       /\ leg'[b(x)] = DestinationLeg(asked'[x])
                       /\ x \in doubled' \/ FeeAsAsked(x)'
    BY <1>1 DEF AsAsked
  <2>1. CASE x = t
    <3>1. s \notin stale
      BY <2>1, <1>1
    <3>2. ASSUME t \notin doubled PROVE FeeAsAsked(t)'
      <4>1. FeesOf(t)' = {f \in DOMAIN fee' : fee'[f].transfer = about[s]}
        BY <1>0 DEF FeesOf
      <4>. QED BY <4>1, <3>1, <3>2, <2>1, <1>0, <1>1, <1>8, UpdateFeesCurrent DEF FeeAsAsked
    <3>3. doubled' = doubled
      BY <3>1, <1>1
    <3>. QED BY <3>1, <3>2, <3>3, <2>1, <1>3, <1>8
  <2>2. CASE x # t
    <3>1. /\ leg[a(x)] = SourceLeg(asked[x])
          /\ leg[b(x)] = DestinationLeg(asked[x])
          /\ x \in doubled \/ FeeAsAsked(x)
      BY <2>2, <1>7, <1>9 DEF IInv, AsAsked
    <3>2. FeeAsAsked(x) => FeeAsAsked(x)'
      BY <2>2, <1>4, <1>6, <1>7, <1>9 DEF FeeAsAsked, FeesOf
    <3>. QED BY <3>1, <3>2, <2>2, <1>7, <1>9, <1>12
  <2>. QED BY <2>1, <2>2
<1>15. AllLoaded'
  <2>. SUFFICES ASSUME NEW u \in Sessions, Going(u)'
                PROVE  LegsLoaded(u)' /\ FeesLoaded(u)' /\ (u \notin stale' => Current(u)')
    BY DEF AllLoaded
  <2>1. /\ u # s /\ pc'[u] = pc[u] /\ about'[u] = about[u] /\ read'[u] = read[u]
        /\ Going(u)
        /\ u \notin stale' => u \notin stale /\ about[u] # t
    BY <1>0, <1>1, PublishEffect DEF Going
  <2>2. LegsLoaded(u) /\ FeesLoaded(u) /\ (u \notin stale => Current(u))
    BY <2>1 DEF IInv, AllLoaded
  <2>3. LegsLoaded(u)'
    BY <2>1, <2>2, <1>1 DEF LegsLoaded
  <2>4. FeesLoaded(u)'
    <3>1. \A f \in DOMAIN read[u].fees : f \in DOMAIN fee' => f \in DOMAIN fee
      BY <2>1, <1>4 DEF FreeFees
    <3>. QED BY <3>1, <2>1, <2>2, <1>4 DEF FeesLoaded
  <2>5. ASSUME u \notin stale' PROVE Current(u)'
    <3>1. about[u] \in Transfers \ {t} /\ Current(u)
      BY <2>1, <2>2, <2>5 DEF IInv, TypeOK, Going
    <3>2. PICK x \in Transfers \ {t} : x = about[u]
      BY <3>1
    <3>3. x \in transfer => \A i \in LegsOf(x) : leg'[i] = leg[i]
      BY <1>2, <1>5 DEF LegsOf
    <3>4. FeesOf(x)' = FeesOf(x) /\ \A f \in FeesOf(x) : fee'[f] = fee[f]
      BY <1>6
    <3>. QED BY <3>1, <3>2, <3>3, <3>4, <2>1, <1>1 DEF Current, FeesOf
  <2>. QED BY <2>3, <2>4, <2>5
<1>16. OneFee'
  <2>. SUFFICES ASSUME NEW x \in transfer, x \notin doubled',
                       NEW f \in DOMAIN fee', NEW g \in DOMAIN fee',
                       fee'[f].transfer = x, fee'[g].transfer = x
                PROVE  f = g
    BY <1>1 DEF OneFee, FeesOf
  <2>0. \A h, i \in FeesOf(x) : h = i
    BY <1>1 DEF IInv, OneFee
  <2>1. CASE f \in DOMAIN fee /\ g \in DOMAIN fee
    BY <2>0, <2>1, <1>4 DEF FeesOf
  <2>2. CASE ~(f \in DOMAIN fee /\ g \in DOMAIN fee)
    <3>1. x = t /\ AddFee(s, q)
      BY <2>2, <1>4
    <3>2. s \notin stale /\ t \notin doubled
      BY <3>1, <1>1
    <3>3. \E h \in DOMAIN fee' : {i \in DOMAIN fee' : fee'[i].transfer = t} \subseteq {h}
      BY <2>2, <3>1, <3>2, <1>0, <1>1, UpdateFeesCurrent
    <3>. QED BY <3>1, <3>3
  <2>. QED BY <2>1, <2>2
<1>17. AllAsked'
  <2>. SUFFICES ASSUME NEW x \in transfer PROVE asked'[x] \in Requests
    BY <1>1 DEF AllAsked
  <2>. QED BY <1>7, <1>8, <1>9 DEF IInv, AllAsked
<1>. QED BY <1>10, <1>11, <1>13, <1>14, <1>15, <1>16, <1>17 DEF IInv

LEMMA DeleteStep ==
  ASSUME IInv, NEW s \in Sessions, CommitDelete(s)
  PROVE  IInv'
<1>0. PICK t \in Transfers : t = about[s] /\ pc[s] = "deleting"
  BY DEF CommitDelete, IInv, TypeOK
<1>1. /\ Unreferred(s)
      /\ leg' = Without(leg, DOMAIN read[s].legs)
      /\ fee' = Without(fee, DOMAIN read[s].fees)
      /\ transfer' = transfer \ {t}
      /\ asked' = [asked EXCEPT ![t] = Nothing]
      /\ mixed' = mixed \ {t}
      /\ doubled' = doubled \ {t}
      /\ Publish(s)
  BY <1>0 DEF CommitDelete
<1>2. /\ IsRows(leg, LegIds, Leg)
      /\ IsRows(fee, Fees, Fee)
      /\ DOMAIN leg = transfer \X Sides
      /\ \A f \in DOMAIN fee : fee[f].transfer \in transfer
      /\ transfer \subseteq Transfers /\ mixed \subseteq transfer /\ doubled \subseteq transfer
  BY DEF IInv, TypeOK, NothingLeftBehind
<1>3. /\ DOMAIN read[s].legs \subseteq LegsOf(t)
      /\ t \in transfer => DOMAIN read[s].legs = LegsOf(t)
      /\ \A f \in DOMAIN read[s].fees : f \in DOMAIN fee => fee[f].transfer = t
  BY <1>0 DEF IInv, AllLoaded, LegsLoaded, FeesLoaded, Going
<1>4. /\ IsRows(leg', LegIds, Leg)
      /\ DOMAIN leg' = DOMAIN leg \ LegsOf(t)
      /\ \A i \in DOMAIN leg' : leg'[i] = leg[i]
  <2>1. DOMAIN leg \cap LegsOf(t) = DOMAIN leg \cap DOMAIN read[s].legs
    BY <1>0, <1>1, <1>3 DEF Unreferred
  <2>. QED BY <2>1, <1>1, <1>2 DEF Without, IsRows
<1>5. /\ IsRows(fee', Fees, Fee)
      /\ DOMAIN fee' = DOMAIN fee \ FeesOf(t)
      /\ \A f \in DOMAIN fee' : fee'[f] = fee[f]
  <2>1. FeesOf(t) = DOMAIN fee \cap DOMAIN read[s].fees
    BY <1>0, <1>1, <1>3 DEF Unreferred, FeesOf
  <2>. QED BY <2>1, <1>1, <1>2 DEF Without, IsRows
<1>6. ASSUME NEW x \in transfer'
      PROVE  /\ x \in transfer /\ x \in Transfers /\ x # t
             /\ leg'[<<x, "source">>] = leg[<<x, "source">>]
             /\ leg'[<<x, "destination">>] = leg[<<x, "destination">>]
             /\ \A i \in LegsOf(x) : leg'[i] = leg[i]
             /\ FeesOf(x)' = FeesOf(x)
             /\ \A f \in FeesOf(x) : fee'[f] = fee[f]
             /\ asked'[x] = asked[x]
             /\ x \in mixed' <=> x \in mixed
             /\ x \in doubled' <=> x \in doubled
  <2>1. x \in transfer /\ x \in Transfers /\ x # t
    BY <1>1, <1>2, <1>6
  <2>2. LegsOf(x) \subseteq DOMAIN leg'
    BY <2>1, <1>2, <1>4 DEF LegsOf
  <2>3. <<x, "source">> \in LegsOf(x) /\ <<x, "destination">> \in LegsOf(x)
    BY DEF LegsOf, Sides
  <2>4. FeesOf(x)' = FeesOf(x) /\ \A f \in FeesOf(x) : fee'[f] = fee[f]
    BY <2>1, <1>5 DEF FeesOf
  <2>5. asked'[x] = asked[x]
    BY <2>1, <1>1 DEF IInv, TypeOK
  <2>. QED BY <2>1, <2>2, <2>3, <2>4, <2>5, <1>1, <1>4
<1>7. TypeOK'
  <2>1. asked' \in [Transfers -> Requests \cup {Nothing}]
    BY <1>1 DEF IInv, TypeOK
  <2>. QED BY <2>1, <1>1, <1>2, <1>4, <1>5, PublishTypes DEF TypeOK
<1>8. NothingLeftBehind'
  <2>1. DOMAIN leg' = transfer' \X Sides
    BY <1>1, <1>2, <1>4 DEF LegsOf
  <2>2. \A f \in DOMAIN fee' : fee'[f].transfer \in transfer'
    BY <1>1, <1>2, <1>5 DEF FeesOf
  <2>. QED BY <2>1, <2>2 DEF NothingLeftBehind
<1>9. LegsMirror'
  BY <1>6 DEF IInv, LegsMirror
<1>10. AsAsked'
  <2>. SUFFICES ASSUME NEW x \in transfer', x \notin mixed'
                PROVE  /\ leg'[<<x, "source">>] = SourceLeg(asked'[x])
                       /\ leg'[<<x, "destination">>] = DestinationLeg(asked'[x])
                       /\ x \in doubled' \/ FeeAsAsked(x)'
    BY DEF AsAsked
  <2>1. /\ leg[<<x, "source">>] = SourceLeg(asked[x])
        /\ leg[<<x, "destination">>] = DestinationLeg(asked[x])
        /\ x \in doubled \/ FeeAsAsked(x)
    BY <1>6 DEF IInv, AsAsked
  <2>2. FeeAsAsked(x) => FeeAsAsked(x)'
    BY <1>5, <1>6 DEF FeeAsAsked, FeesOf
  <2>. QED BY <2>1, <2>2, <1>6
<1>11. AllLoaded'
  <2>. SUFFICES ASSUME NEW u \in Sessions, Going(u)'
                PROVE  LegsLoaded(u)' /\ FeesLoaded(u)' /\ (u \notin stale' => Current(u)')
    BY DEF AllLoaded
  <2>1. /\ u # s /\ pc'[u] = pc[u] /\ about'[u] = about[u] /\ read'[u] = read[u]
        /\ Going(u)
        /\ u \notin stale' => u \notin stale /\ about[u] # t
    BY <1>0, <1>1, PublishEffect DEF Going
  <2>2. LegsLoaded(u) /\ FeesLoaded(u) /\ (u \notin stale => Current(u))
    BY <2>1 DEF IInv, AllLoaded
  <2>3. LegsLoaded(u)'
    BY <2>1, <2>2, <1>1 DEF LegsLoaded
  <2>4. FeesLoaded(u)'
    BY <2>1, <2>2, <1>5 DEF FeesLoaded
  <2>5. ASSUME u \notin stale' PROVE Current(u)'
    <3>1. PICK x \in Transfers : x = about[u] /\ x # t
      BY <2>1, <2>5 DEF IInv, TypeOK, Going
    <3>2. x \in transfer' <=> x \in transfer
      BY <3>1, <1>1
    <3>3. x \in transfer' =>
            /\ \A i \in LegsOf(x) : leg'[i] = leg[i]
            /\ FeesOf(x)' = FeesOf(x)
            /\ \A f \in FeesOf(x) : fee'[f] = fee[f]
      BY <1>6
    <3>. QED BY <2>1, <2>2, <2>5, <3>1, <3>2, <3>3 DEF Current, FeesOf
  <2>. QED BY <2>3, <2>4, <2>5
<1>12. OneFee'
  <2>. SUFFICES ASSUME NEW x \in transfer', x \notin doubled'
                PROVE  \A f, g \in FeesOf(x)' : f = g
    BY DEF OneFee
  <2>1. x \in transfer \ doubled /\ FeesOf(x)' = FeesOf(x)
    BY <1>6
  <2>. QED BY <2>1 DEF IInv, OneFee
<1>13. AllAsked'
  BY <1>6 DEF IInv, AllAsked
<1>. QED BY <1>7, <1>8, <1>9, <1>10, <1>11, <1>12, <1>13 DEF IInv

\* The variables stand still.
LEMMA StutterStep == IInv /\ UNCHANGED vars => IInv'
<1>. SUFFICES ASSUME IInv, UNCHANGED vars PROVE IInv'
  OBVIOUS
<1>1. UNCHANGED <<rows, pc, about, read, asked, stale, mixed, doubled>>
  BY DEF vars, history
<1>2. AllLoaded'
  <2>. SUFFICES ASSUME NEW u \in Sessions, Going(u)'
                PROVE  LegsLoaded(u)' /\ FeesLoaded(u)' /\ (u \notin stale' => Current(u)')
    BY DEF AllLoaded
  <2>. QED BY <1>1, SessionStays DEF Going
<1>3. TypeOK'
  BY <1>1 DEF IInv, TypeOK, rows, Going, IsRows, IsReading
<1>. QED BY <1>1, <1>2, <1>3, TablesStay DEF IInv

\* The inductive invariant of Transfers.
THEOREM Invariant == Spec => []IInv
<1>1. IInv /\ [Next]_vars => IInv'
  <2>. SUFFICES ASSUME IInv, Next PROVE IInv'
    BY StutterStep
  <2>1. CASE \E t \in Transfers, q \in Requests : CreateTransfer(t, q)
    BY <2>1, CreateStep
  <2>2. ASSUME NEW s \in Sessions, NEW t \in Transfers, NEW purpose \in {"update", "delete"},
               LoadTransfer(s, t, purpose)
        PROVE  IInv'
    BY <2>2, LoadTransferStep
  <2>3. ASSUME NEW s \in Sessions, LoadLegs(s) PROVE IInv'
    BY <2>3, LoadLegsStep
  <2>4. ASSUME NEW s \in Sessions, NEW q \in Requests, CommitUpdate(s, q) PROVE IInv'
    BY <2>4, UpdateStep
  <2>5. ASSUME NEW s \in Sessions, CommitDelete(s) PROVE IInv'
    BY <2>5, DeleteStep
  <2>6. ASSUME NEW s \in Sessions, Rollback(s) PROVE IInv'
    BY <2>6, RollbackStep
  <2>. QED BY <2>1, <2>2, <2>3, <2>4, <2>5, <2>6 DEF Next
<1>. QED BY <1>1, InitInv, PTL DEF Spec

-----------------------------------------------------------------------------
(* The theorems.                                                           *)

\* The variables of TransferService's sessions and tables keep their types.
THEOREM TypeCorrect == Spec => []TypeOK
<1>1. IInv => TypeOK
  BY DEF IInv
<1>. QED BY <1>1, Invariant, PTL

\* Every transfer has its two legs, and deletions leave nothing behind.
THEOREM Complete == Spec => []NothingLeftBehind
<1>1. IInv => NothingLeftBehind
  BY DEF IInv
<1>. QED BY <1>1, Invariant, PTL

\* The legs of a transfer mirror each other whatever updates race and whichever
\* accounts are renamed meanwhile: in names, date and roubles.
THEOREM Mirror == Spec => []LegsMirror
<1>1. IInv => LegsMirror
  BY DEF IInv
<1>. QED BY <1>1, Invariant, PTL

\* A transfer is what was asked for last, unless its last update had been overtaken.
THEOREM LastRequest == Spec => []AsAsked
<1>1. IInv => AsAsked
  BY DEF IInv
<1>. QED BY <1>1, Invariant, PTL

=============================================================================
