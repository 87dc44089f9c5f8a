---------------------------- MODULE AiOAuthProofs ----------------------------
(***************************************************************************)
(* Proofs about AiOAuth, for any number of codes, connections, tokens and  *)
(* sessions: it gives what Grants promises.                                *)
(***************************************************************************)
EXTENDS AiOAuth, TLAPS

(* The inductive invariant.                                                *)

\* A session that has found its code or token good still holds it, unchanged.
Holding(s) ==
  /\ pc[s] = "exchange" =>
       /\ ask[s] \in DOMAIN codes /\ lock[ask[s]] = s
       /\ ~codes[ask[s]].used /\ now[s] < codes[ask[s]].expires
  /\ pc[s] \in {"rotated", "fresh", "rotate"} =>
       ask[s] \in DOMAIN tokens /\ lock[ask[s]] = s
  /\ pc[s] \in {"fresh", "rotate"} => ~tokens[ask[s]].revoked
  /\ pc[s] = "rotate" => now[s] < tokens[ask[s]].expires

\* Rows refer to connections that exist, and of a connection's code only a used
\* row can be left.
Referring ==
  /\ DOMAIN codes \subseteq approved
  /\ DOMAIN tokens \subseteq 1 .. issued
  /\ \A t \in DOMAIN tokens : tokens[t].connection \in DOMAIN connections
  /\ \A k \in DOMAIN codes : codes[k].used => codes[k].connection \in DOMAIN connections
  /\ \A c \in DOMAIN connections :
       /\ connections[c].code \in approved
       /\ connections[c].code \in DOMAIN codes => codes[connections[c].code].used

Inv ==
  /\ TypeOK
  /\ \A s \in Sessions : Holding(s)
  /\ Referring
  /\ OneConnectionPerCode
  /\ OneLiveTokenPerConnection
  /\ ReplayEndsConnection

-----------------------------------------------------------------------------
(* Lemmas.                                                                 *)

\* A table with a row more, or with another row in its place.
LEMMA WithRow ==
  ASSUME NEW ids, NEW rows, NEW table, IsRows(table, ids, rows),
         NEW id \in ids, NEW row \in rows
  PROVE  /\ IsRows(With(table, id, row), ids, rows)
         /\ DOMAIN With(table, id, row) = DOMAIN table \cup {id}
         /\ With(table, id, row)[id] = row
         /\ \A i \in DOMAIN table : i # id => With(table, id, row)[i] = table[i]
  BY DEF IsRows, With

\* Closing a session frees its rows and leaves the others alone.
LEMMA CloseEffect ==
  ASSUME TypeOK, NEW s \in Sessions, Close(s)
  PROVE  /\ lock' \in [Codes \cup Tokens -> Sessions \cup {Nobody}]
         /\ pc' \in [Sessions -> {"idle", "code", "exchange", "refresh", "rotated", "fresh",
                                  "rotate", "replay"}]
         /\ ask' \in [Sessions -> Codes \cup Tokens \cup {Nothing}]
         /\ now' \in [Sessions -> Nat]
         /\ suspect' \in [Sessions -> Connections \cup {Nothing}]
         /\ pc'[s] = "idle"
         /\ \A u \in Sessions \ {s} :
              /\ pc'[u] = pc[u] /\ ask'[u] = ask[u] /\ now'[u] = now[u]
              /\ suspect'[u] = suspect[u]
              /\ \A i \in Codes \cup Tokens : lock[i] = u => lock'[i] = u
  BY DEF TypeOK, Close

\* Closing keeps the types, if the tables do.
LEMMA CloseType ==
  ASSUME TypeOK, NEW s \in Sessions, Close(s), clock' = clock, approved' = approved,
         IsRows(codes', Codes, Code), IsRows(connections', Connections, Connection),
         IsRows(tokens', Tokens, Token), issued' \in 0 .. MaxTokens,
         DOMAIN connections \subseteq DOMAIN connections',
         exposed' \subseteq DOMAIN connections'
  PROVE  TypeOK'
<1>1. \A u \in Sessions :
        /\ pc'[u] \in {"code", "exchange"} => ask'[u] \in Codes
        /\ pc'[u] \in {"refresh", "rotated", "fresh", "rotate"} => ask'[u] \in Tokens
        /\ pc'[u] = "replay" => suspect'[u] \in DOMAIN connections'
  BY CloseEffect DEF TypeOK
<1>. QED BY <1>1, CloseEffect DEF TypeOK

\* What a session holds outlives the steps that keep off its rows.
LEMMA Undisturbed ==
  ASSUME TypeOK, NEW u \in Sessions, Holding(u),
         pc'[u] = pc[u], ask'[u] = ask[u], now'[u] = now[u],
         \A i \in Codes \cup Tokens : lock[i] = u => lock'[i] = u,
         \A k \in DOMAIN codes : lock[k] = u => k \in DOMAIN codes' /\ codes'[k] = codes[k],
         \A t \in DOMAIN tokens : lock[t] = u => t \in DOMAIN tokens' /\ tokens'[t] = tokens[t]
  PROVE  Holding(u)'
<1>1. DOMAIN codes \subseteq Codes /\ DOMAIN tokens \subseteq Tokens
  BY DEF TypeOK, IsRows
<1>. QED BY <1>1 DEF Holding

\* A purge drops no row that another session holds.
LEMMA PurgeSpares ==
  ASSUME TypeOK, NEW s \in Sessions, NEW u \in Sessions \ {s}, CanPurge(s)
  PROVE  /\ \A k \in DOMAIN codes : lock[k] = u =>
              k \in DOMAIN Purged(s, codes) /\ Purged(s, codes)[k] = codes[k]
         /\ \A t \in DOMAIN tokens : lock[t] = u =>
              t \in DOMAIN Purged(s, tokens) /\ Purged(s, tokens)[t] = tokens[t]
  BY OAuthAssumption DEF OAuthAssumption, CanPurge, Free, Expired, Purged

\* While the tables stay, what remains to be seen is the sessions.
LEMMA TablesStay ==
  ASSUME Inv, UNCHANGED <<approved, codes, connections, tokens, issued, exposed>>,
         TypeOK', \A u \in Sessions : Holding(u)'
  PROVE  Inv'
  BY DEF Inv, Referring, OneConnectionPerCode, OneLiveTokenPerConnection, Live,
         ReplayEndsConnection

-----------------------------------------------------------------------------
(* The invariant holds from the start and every action keeps it.           *)

LEMMA InitInv == Init => Inv
<1>1. SUFFICES ASSUME Init PROVE Inv
  OBVIOUS
<1>2. IsRows(NoRows, Codes, Code) /\ IsRows(NoRows, Connections, Connection)
      /\ IsRows(NoRows, Tokens, Token) /\ DOMAIN NoRows = {}
  BY DEF IsRows, NoRows
<1>3. TypeOK
  BY <1>1, <1>2, OAuthAssumption DEF Init, TypeOK, OAuthAssumption
<1>4. \A s \in Sessions : Holding(s)
  BY <1>1 DEF Init, Holding
<1>5. Referring /\ OneConnectionPerCode /\ OneLiveTokenPerConnection /\ ReplayEndsConnection
  BY <1>1, <1>2
     DEF Init, Referring, OneConnectionPerCode, OneLiveTokenPerConnection, Live,
         ReplayEndsConnection
<1>. QED BY <1>3, <1>4, <1>5 DEF Inv

LEMMA ApproveKeepsInv ==
  ASSUME Inv, NEW k \in Codes, Approve(k)
  PROVE  Inv'
<1>. DEFINE row == [expires |-> clock + CodeLifetime, used |-> FALSE, connection |-> Nothing]
<1>1. row \in Code
  BY OAuthAssumption DEF Inv, TypeOK, Code, OAuthAssumption
<1>2. /\ IsRows(codes', Codes, Code)
      /\ DOMAIN codes' = DOMAIN codes \cup {k}
      /\ codes'[k] = row
      /\ \A i \in DOMAIN codes : i # k => codes'[i] = codes[i]
  <2>1. IsRows(codes, Codes, Code) /\ codes' = With(codes, k, row)
    BY DEF Approve, Inv, TypeOK
  <2>. HIDE DEF row
  <2>. QED BY <1>1, <2>1, WithRow
<1>3. k \notin DOMAIN codes
  BY DEF Approve, Inv, Referring
<1>4. TypeOK'
  BY <1>2 DEF Approve, Inv, TypeOK
<1>5. \A u \in Sessions : Holding(u)'
  BY <1>2, <1>3, Undisturbed DEF Approve, Inv
<1>6. Referring'
  <2>1. ~codes'[k].used /\ approved' = approved \cup {k} /\ k \notin approved
    BY <1>2 DEF Approve
  <2>2. UNCHANGED <<connections, tokens, issued>>
    BY DEF Approve
  <2>3. \A i \in DOMAIN codes' : codes'[i].used => i # k /\ codes'[i] = codes[i]
    BY <1>2, <2>1
  <2>4. \A c \in DOMAIN connections :
          connections[c].code \in DOMAIN codes' => codes'[connections[c].code].used
    BY <1>2, <2>1 DEF Inv, Referring
  <2>. HIDE DEF row
  <2>. QED BY <1>2, <2>1, <2>2, <2>3, <2>4 DEF Inv, Referring
<1>7. OneConnectionPerCode' /\ OneLiveTokenPerConnection' /\ ReplayEndsConnection'
  BY DEF Approve, Inv, OneConnectionPerCode, OneLiveTokenPerConnection, Live,
         ReplayEndsConnection
<1>. QED BY <1>4, <1>5, <1>6, <1>7 DEF Inv

LEMMA PresentKeepsInv ==
  ASSUME Inv, NEW s \in Sessions,
         \/ \E k \in DOMAIN codes : Present(s, k, "code")
         \/ \E t \in DOMAIN tokens : Present(s, t, "refresh")
  PROVE  Inv'
<1>1. PICK i \in DOMAIN codes \cup DOMAIN tokens, grant \in {"code", "refresh"} :
        /\ Present(s, i, grant)
        /\ grant = "code" => i \in DOMAIN codes
        /\ grant = "refresh" => i \in DOMAIN tokens
  OBVIOUS
<1>2. DOMAIN codes \subseteq Codes /\ DOMAIN tokens \subseteq Tokens
  BY DEF Inv, TypeOK, IsRows
<1>3. TypeOK'
  BY <1>1, <1>2 DEF Present, Inv, TypeOK
<1>4. \A u \in Sessions : Holding(u)'
  <2>. SUFFICES ASSUME NEW u \in Sessions PROVE Holding(u)'
    OBVIOUS
  <2>1. CASE u = s
    BY <1>1, <2>1 DEF Present, Holding, Inv, TypeOK
  <2>2. CASE u # s
    BY <1>1, <2>2, Undisturbed DEF Present, Inv, TypeOK
  <2>. QED BY <2>1, <2>2
<1>. QED BY <1>1, <1>3, <1>4, TablesStay DEF Present

LEMMA FailKeepsInv ==
  ASSUME Inv, NEW s \in Sessions, Fail(s)
  PROVE  Inv'
<1>1. Close(s) /\ TypeOK
  BY DEF Fail, Inv
<1>2. TypeOK'
  BY <1>1, CloseType DEF Fail, TypeOK
<1>3. \A u \in Sessions : Holding(u)'
  <2>. SUFFICES ASSUME NEW u \in Sessions PROVE Holding(u)'
    OBVIOUS
  <2>1. CASE u = s
    BY <1>1, <2>1, CloseEffect DEF Holding
  <2>2. CASE u # s
    BY <1>1, <2>2, CloseEffect, Undisturbed DEF Fail, Inv
  <2>. QED BY <2>1, <2>2
<1>. QED BY <1>2, <1>3, TablesStay DEF Fail

LEMMA ReadCodeKeepsInv ==
  ASSUME Inv, NEW s \in Sessions, ReadCode(s)
  PROVE  Inv'
<1>1. DOMAIN codes \subseteq Codes /\ codes \in [DOMAIN codes -> Code]
  BY DEF Inv, TypeOK, IsRows
<1>2. lock' \in [Codes \cup Tokens -> Sessions \cup {Nobody}] /\ lock'[ask[s]] = s
      /\ \A u \in Sessions \ {s}, i \in Codes \cup Tokens : lock[i] = u => lock'[i] = u
  BY <1>1, OAuthAssumption DEF ReadCode, Free, Inv, TypeOK, OAuthAssumption
<1>3. codes[ask[s]].used => codes[ask[s]].connection \in DOMAIN connections
  BY DEF ReadCode, Inv, Referring
<1>4. TypeOK'
  <2>1. suspect' \in [Sessions -> Connections \cup {Nothing}]
    BY <1>1 DEF ReadCode, Inv, TypeOK, Code
  <2>2. pc' \in [Sessions -> {"idle", "code", "exchange", "refresh", "rotated", "fresh",
                              "rotate", "replay"}]
    BY DEF ReadCode, Inv, TypeOK
  <2>3. \A u \in Sessions :
          /\ pc'[u] \in {"code", "exchange"} => ask'[u] \in Codes
          /\ pc'[u] \in {"refresh", "rotated", "fresh", "rotate"} => ask'[u] \in Tokens
          /\ pc'[u] = "replay" => suspect'[u] \in DOMAIN connections'
    BY <1>1, <1>3 DEF ReadCode, Inv, TypeOK
  <2>. QED BY <1>2, <2>1, <2>2, <2>3 DEF ReadCode, Inv, TypeOK
<1>5. \A u \in Sessions : Holding(u)'
  <2>. SUFFICES ASSUME NEW u \in Sessions PROVE Holding(u)'
    OBVIOUS
  <2>1. CASE u = s
    BY <1>2, <2>1 DEF ReadCode, Holding, Inv, TypeOK
  <2>2. CASE u # s
    BY <1>2, <2>2, Undisturbed DEF ReadCode, Inv, TypeOK
  <2>. QED BY <2>1, <2>2
<1>. QED BY <1>4, <1>5, TablesStay DEF ReadCode

LEMMA ReadTokenKeepsInv ==
  ASSUME Inv, NEW s \in Sessions, ReadToken(s)
  PROVE  Inv'
<1>1. DOMAIN tokens \subseteq Tokens
  BY DEF Inv, TypeOK, IsRows
<1>2. lock' \in [Codes \cup Tokens -> Sessions \cup {Nobody}] /\ lock'[ask[s]] = s
      /\ \A u \in Sessions \ {s}, i \in Codes \cup Tokens : lock[i] = u => lock'[i] = u
  BY <1>1, OAuthAssumption DEF ReadToken, Free, Inv, TypeOK, OAuthAssumption
<1>3. TypeOK'
  BY <1>1, <1>2 DEF ReadToken, Inv, TypeOK
<1>4. \A u \in Sessions : Holding(u)'
  <2>. SUFFICES ASSUME NEW u \in Sessions PROVE Holding(u)'
    OBVIOUS
  <2>1. CASE u = s
    BY <1>2, <2>1 DEF ReadToken, Holding, Inv, TypeOK
  <2>2. CASE u # s
    BY <1>2, <2>2, Undisturbed DEF ReadToken, Inv, TypeOK
  <2>. QED BY <2>1, <2>2
<1>. QED BY <1>3, <1>4, TablesStay DEF ReadToken

LEMMA ReadConnectionKeepsInv ==
  ASSUME Inv, NEW s \in Sessions, ReadConnection(s)
  PROVE  Inv'
<1>1. /\ ask[s] \in DOMAIN tokens /\ ask[s] \in Tokens
      /\ tokens[ask[s]].connection \in DOMAIN connections
      /\ DOMAIN connections \subseteq Connections
  BY DEF ReadConnection, Inv, TypeOK, IsRows, Holding, Referring
<1>2. TypeOK'
  BY <1>1 DEF ReadConnection, Inv, TypeOK
<1>3. \A u \in Sessions : Holding(u)'
  <2>. SUFFICES ASSUME NEW u \in Sessions PROVE Holding(u)'
    OBVIOUS
  <2>1. CASE u = s
    BY <2>1 DEF ReadConnection, Holding, Inv, TypeOK
  <2>2. CASE u # s
    BY <2>2, Undisturbed DEF ReadConnection, Inv, TypeOK
  <2>. QED BY <2>1, <2>2
<1>. QED BY <1>2, <1>3, TablesStay DEF ReadConnection

\* Nothing but the connection changes when one is revoked.
LEMMA RevokeKeepsInv ==
  ASSUME Inv, NEW c \in Connections, Revoke(c)
  PROVE  Inv'
<1>1. /\ connections' \in [DOMAIN connections -> Connection]
      /\ DOMAIN connections' = DOMAIN connections
      /\ \A d \in DOMAIN connections : connections'[d].code = connections[d].code
      /\ \A d \in DOMAIN connections : connections[d].revoked => connections'[d].revoked
  BY ZenonT(60) DEF Revoke, Inv, TypeOK, IsRows, Connection
<1>2. TypeOK'
  BY <1>1 DEF Revoke, Inv, TypeOK, IsRows
<1>3. \A u \in Sessions : Holding(u)'
  BY Undisturbed DEF Revoke, Inv
<1>4. Referring'
  BY <1>1 DEF Revoke, Inv, Referring
<1>5. OneConnectionPerCode' /\ OneLiveTokenPerConnection'
  BY <1>1 DEF Revoke, Inv, OneConnectionPerCode, OneLiveTokenPerConnection, Live
<1>6. ReplayEndsConnection'
  BY <1>1 DEF Revoke, Inv, TypeOK, ReplayEndsConnection
<1>. QED BY <1>2, <1>3, <1>4, <1>5, <1>6 DEF Inv

LEMMA CommitReplayKeepsInv ==
  ASSUME Inv, NEW s \in Sessions, CommitReplay(s)
  PROVE  Inv'
<1>1. Close(s) /\ TypeOK /\ suspect[s] \in DOMAIN connections
  BY DEF CommitReplay, Inv, TypeOK
<1>2. /\ connections' \in [DOMAIN connections -> Connection]
      /\ DOMAIN connections' = DOMAIN connections
      /\ connections'[suspect[s]].revoked
      /\ \A d \in DOMAIN connections : connections'[d].code = connections[d].code
      /\ \A d \in DOMAIN connections : connections[d].revoked => connections'[d].revoked
  BY <1>1 DEF CommitReplay, TypeOK, IsRows, Connection
<1>3. IsRows(connections', Connections, Connection)
  BY <1>1, <1>2 DEF TypeOK, IsRows
<1>4. TypeOK'
  BY <1>1, <1>2, <1>3, CloseType DEF CommitReplay, TypeOK
<1>5. \A u \in Sessions : Holding(u)'
  <2>. SUFFICES ASSUME NEW u \in Sessions PROVE Holding(u)'
    OBVIOUS
  <2>1. CASE u = s
    BY <1>1, <2>1, CloseEffect DEF Holding
  <2>2. CASE u # s
    BY <1>1, <2>2, CloseEffect, Undisturbed DEF CommitReplay, Inv
  <2>. QED BY <2>1, <2>2
<1>6. Referring'
  BY <1>2 DEF CommitReplay, Inv, Referring
<1>7. OneConnectionPerCode' /\ OneLiveTokenPerConnection'
  BY <1>2 DEF CommitReplay, Inv, OneConnectionPerCode, OneLiveTokenPerConnection, Live
<1>8. ReplayEndsConnection'
  BY <1>2 DEF CommitReplay, Inv, TypeOK, ReplayEndsConnection
<1>. QED BY <1>4, <1>5, <1>6, <1>7, <1>8 DEF Inv

\* What a commit of a session with a new pair leaves of the tables.
LEMMA PurgedBy ==
  ASSUME Inv, NEW s \in Sessions
  PROVE  /\ IsRows(Purged(s, codes), Codes, Code)
         /\ IsRows(Purged(s, tokens), Tokens, Token)
         /\ DOMAIN Purged(s, codes) \subseteq DOMAIN codes
         /\ DOMAIN Purged(s, tokens) \subseteq DOMAIN tokens
         /\ \A k \in DOMAIN Purged(s, codes) : Purged(s, codes)[k] = codes[k]
         /\ \A t \in DOMAIN Purged(s, tokens) : Purged(s, tokens)[t] = tokens[t]
<1>1. IsRows(codes, Codes, Code) /\ IsRows(tokens, Tokens, Token)
  BY DEF Inv, TypeOK
<1>2. /\ IsRows(Purged(s, codes), Codes, Code)
      /\ DOMAIN Purged(s, codes) \subseteq DOMAIN codes
      /\ \A k \in DOMAIN Purged(s, codes) : Purged(s, codes)[k] = codes[k]
  BY <1>1 DEF IsRows, Purged
<1>3. /\ IsRows(Purged(s, tokens), Tokens, Token)
      /\ DOMAIN Purged(s, tokens) \subseteq DOMAIN tokens
      /\ \A t \in DOMAIN Purged(s, tokens) : Purged(s, tokens)[t] = tokens[t]
  BY <1>1 DEF IsRows, Purged
<1>. QED BY <1>2, <1>3

\* An exchange: the code is used, a connection opens, and it has the new token
\* alone.
LEMMA ExchangeEffect ==
  ASSUME Inv, NEW s \in Sessions, CommitExchange(s)
  PROVE  \E c \in Connections \ DOMAIN connections :
           LET k == ask[s]
               t == issued + 1
           IN /\ k \in DOMAIN codes /\ k \in DOMAIN codes' /\ ~codes[k].used
              /\ IsRows(codes', Codes, Code)
              /\ DOMAIN codes' = DOMAIN Purged(s, codes)
              /\ codes'[k].used /\ codes'[k].connection = c
              /\ \A i \in DOMAIN codes' : i # k => codes'[i] = codes[i]
              /\ IsRows(connections', Connections, Connection)
              /\ DOMAIN connections' = DOMAIN connections \cup {c}
              /\ connections'[c] = [code |-> k, revoked |-> FALSE]
              /\ \A d \in DOMAIN connections : connections'[d] = connections[d]
              /\ IsRows(tokens', Tokens, Token)
              /\ issued' = t /\ t \in 1 .. MaxTokens
              /\ DOMAIN tokens' = DOMAIN Purged(s, tokens) \cup {t}
              /\ t \in DOMAIN tokens' /\ t \notin DOMAIN tokens
              /\ tokens'[t].connection = c /\ ~tokens'[t].revoked
              /\ \A i \in DOMAIN tokens' : i # t => tokens'[i] = tokens[i]
<1>1. PICK c \in Connections \ DOMAIN connections :
        /\ issued < MaxTokens
        /\ issued' = issued + 1
        /\ connections' = With(connections, c, [code |-> ask[s], revoked |-> FALSE])
        /\ codes' = [Purged(s, codes) EXCEPT ![ask[s]].used = TRUE, ![ask[s]].connection = c]
        /\ tokens' = With(Purged(s, tokens), issued',
             [connection |-> c, expires |-> now[s] + TokenLifetime, revoked |-> FALSE])
  BY DEF CommitExchange
<1>. DEFINE pair == [connection |-> c, expires |-> now[s] + TokenLifetime, revoked |-> FALSE]
            opening == [code |-> ask[s], revoked |-> FALSE]
<1>2. /\ ask[s] \in DOMAIN codes /\ ask[s] \in Codes /\ ~codes[ask[s]].used
      /\ now[s] < codes[ask[s]].expires /\ now[s] \in Nat /\ codes[ask[s]] \in Code
  BY DEF CommitExchange, Inv, Holding, TypeOK, IsRows
<1>3. ask[s] \in DOMAIN Purged(s, codes)
  BY <1>2 DEF Purged, Expired, Code
<1>4. /\ IsRows(codes', Codes, Code)
      /\ DOMAIN codes' = DOMAIN Purged(s, codes)
      /\ codes'[ask[s]].used /\ codes'[ask[s]].connection = c
      /\ \A i \in DOMAIN codes' : i # ask[s] => codes'[i] = codes[i]
  <2>. DEFINE left == Purged(s, codes)
  <2>1. IsRows(left, Codes, Code) /\ \A i \in DOMAIN left : left[i] = codes[i]
    BY PurgedBy
  <2>2. codes' = [left EXCEPT ![ask[s]].used = TRUE, ![ask[s]].connection = c]
    BY <1>1
  <2>3. ask[s] \in DOMAIN left /\ DOMAIN left = DOMAIN Purged(s, codes)
    BY <1>3
  <2>. HIDE DEF left
  <2>4. left \in [DOMAIN left -> Code] /\ DOMAIN left \subseteq Codes
    BY <2>1 DEF IsRows
  <2>5. /\ DOMAIN codes' = DOMAIN left
        /\ \A i \in DOMAIN left : i # ask[s] => codes'[i] = left[i]
        /\ codes'[ask[s]] = [left[ask[s]] EXCEPT !.used = TRUE, !.connection = c]
    BY <2>2, <2>3
  <2>6. /\ codes'[ask[s]] \in Code /\ codes'[ask[s]].used
        /\ codes'[ask[s]].connection = c
    <3>1. left[ask[s]] \in Code /\ c \in Connections \cup {Nothing}
      BY <2>3, <2>4
    <3>. QED BY <2>5, <3>1 DEF Code
  <2>7. codes' = [i \in DOMAIN left |-> codes'[i]]
    BY <2>2
  <2>8. codes' \in [DOMAIN codes' -> Code]
    BY <2>4, <2>5, <2>6, <2>7
  <2>. QED BY <2>1, <2>3, <2>4, <2>5, <2>6, <2>8 DEF IsRows
<1>5. issued' \in 1 .. MaxTokens /\ issued' \notin DOMAIN tokens
  BY <1>1, OAuthAssumption DEF Inv, TypeOK, Referring, OAuthAssumption
<1>6. pair \in Token /\ opening \in Connection
  BY <1>2, OAuthAssumption DEF Token, Connection, OAuthAssumption
<1>. HIDE DEF pair, opening
<1>7. /\ IsRows(connections', Connections, Connection)
      /\ DOMAIN connections' = DOMAIN connections \cup {c}
      /\ connections'[c] = opening
      /\ \A d \in DOMAIN connections : connections'[d] = connections[d]
  <2>1. IsRows(connections, Connections, Connection) /\ connections' = With(connections, c, opening)
    BY <1>1 DEF Inv, TypeOK, opening
  <2>2. c \in Connections
    OBVIOUS
  <2>3. /\ IsRows(With(connections, c, opening), Connections, Connection)
        /\ DOMAIN With(connections, c, opening) = DOMAIN connections \cup {c}
        /\ With(connections, c, opening)[c] = opening
        /\ \A d \in DOMAIN connections :
             d # c => With(connections, c, opening)[d] = connections[d]
    BY <1>6, <2>1, <2>2, WithRow
  <2>. QED BY <2>1, <2>3
<1>8. /\ IsRows(tokens', Tokens, Token)
      /\ DOMAIN tokens' = DOMAIN Purged(s, tokens) \cup {issued'}
      /\ tokens'[issued'] = pair
      /\ \A i \in DOMAIN Purged(s, tokens) : i # issued' => tokens'[i] = Purged(s, tokens)[i]
  <2>1. /\ IsRows(Purged(s, tokens), Tokens, Token)
        /\ tokens' = With(Purged(s, tokens), issued', pair)
        /\ issued' \in Tokens
    BY <1>1, <1>5, PurgedBy DEF pair, Tokens
  <2>. QED BY <1>6, <2>1, WithRow
<1>9. pair.connection = c /\ ~pair.revoked /\ opening = [code |-> ask[s], revoked |-> FALSE]
  BY DEF pair, opening
<1>10. /\ ask[s] \in DOMAIN codes'
       /\ \A i \in DOMAIN tokens' : i # issued' => tokens'[i] = tokens[i]
  BY <1>3, <1>4, <1>8, PurgedBy
<1>11. issued' \in DOMAIN tokens' /\ tokens'[issued'].connection = c /\ ~tokens'[issued'].revoked
  BY <1>8, <1>9
<1>12. connections'[c] = [code |-> ask[s], revoked |-> FALSE]
  BY <1>7, <1>9
<1>. WITNESS c \in Connections \ DOMAIN connections
<1>. QED BY <1>1, <1>2, <1>4, <1>5, <1>7, <1>8, <1>10, <1>11, <1>12

LEMMA ExchangeKeepsInv ==
  ASSUME Inv, NEW s \in Sessions, CommitExchange(s)
  PROVE  Inv'
<1>. DEFINE k == ask[s]
            t == issued + 1
<1>1. PICK c \in Connections \ DOMAIN connections :
        /\ k \in DOMAIN codes /\ k \in DOMAIN codes' /\ ~codes[k].used
        /\ IsRows(codes', Codes, Code)
        /\ DOMAIN codes' = DOMAIN Purged(s, codes)
        /\ codes'[k].used /\ codes'[k].connection = c
        /\ \A i \in DOMAIN codes' : i # k => codes'[i] = codes[i]
        /\ IsRows(connections', Connections, Connection)
        /\ DOMAIN connections' = DOMAIN connections \cup {c}
        /\ connections'[c] = [code |-> k, revoked |-> FALSE]
        /\ \A d \in DOMAIN connections : connections'[d] = connections[d]
        /\ IsRows(tokens', Tokens, Token)
        /\ issued' = t /\ t \in 1 .. MaxTokens
        /\ DOMAIN tokens' = DOMAIN Purged(s, tokens) \cup {t}
        /\ t \in DOMAIN tokens' /\ t \notin DOMAIN tokens
        /\ tokens'[t].connection = c /\ ~tokens'[t].revoked
        /\ \A i \in DOMAIN tokens' : i # t => tokens'[i] = tokens[i]
  BY ExchangeEffect
<1>2. /\ Close(s) /\ CanPurge(s) /\ TypeOK
      /\ UNCHANGED <<clock, approved, exposed>>
      /\ lock[k] = s /\ k \in approved
  BY DEF CommitExchange, Inv, Holding, Referring
<1>3. DOMAIN codes' \subseteq DOMAIN codes /\ DOMAIN tokens' \subseteq DOMAIN tokens \cup {t}
  BY <1>1, PurgedBy
<1>4. issued \in Nat /\ k \in Codes
  BY <1>1, OAuthAssumption DEF Inv, TypeOK, IsRows, OAuthAssumption
<1>5. TypeOK'
  <2>1. issued' \in 0 .. MaxTokens /\ exposed' \subseteq DOMAIN connections'
    BY <1>1, <1>2, <1>4 DEF TypeOK
  <2>2. UNCHANGED <<clock, approved>> /\ DOMAIN connections \subseteq DOMAIN connections'
    BY <1>1, <1>2
  <2>. QED BY <1>1, <1>2, <2>1, <2>2, CloseType
<1>6. \A u \in Sessions : Holding(u)'
  <2>. SUFFICES ASSUME NEW u \in Sessions PROVE Holding(u)'
    OBVIOUS
  <2>1. CASE u = s
    BY <1>2, <2>1, CloseEffect DEF Holding
  <2>2. CASE u # s
    <3>1. /\ pc'[u] = pc[u] /\ ask'[u] = ask[u] /\ now'[u] = now[u]
          /\ \A i \in Codes \cup Tokens : lock[i] = u => lock'[i] = u
      BY <1>2, <2>2, CloseEffect
    <3>2. \A i \in DOMAIN codes : lock[i] = u => i \in DOMAIN codes' /\ codes'[i] = codes[i]
      BY <1>1, <1>2, <2>2, PurgeSpares
    <3>3. \A i \in DOMAIN tokens : lock[i] = u =>
            i \in DOMAIN tokens' /\ tokens'[i] = tokens[i]
      BY <1>1, <1>2, <2>2, PurgeSpares
    <3>. QED BY <1>2, <3>1, <3>2, <3>3, Undisturbed DEF Inv
  <2>. QED BY <2>1, <2>2
<1>. HIDE DEF k
<1>7. Referring'
  <2>1. DOMAIN codes' \subseteq approved' /\ DOMAIN tokens' \subseteq 1 .. issued'
    BY <1>1, <1>2, <1>3, <1>4 DEF Inv, Referring
  <2>2. \A i \in DOMAIN tokens' : tokens'[i].connection \in DOMAIN connections'
    BY <1>1, <1>3 DEF Inv, Referring
  <2>3. \A i \in DOMAIN codes' : codes'[i].used => codes'[i].connection \in DOMAIN connections'
    BY <1>1, <1>3 DEF Inv, Referring
  <2>4. ASSUME NEW d \in DOMAIN connections'
        PROVE  /\ connections'[d].code \in approved'
               /\ connections'[d].code \in DOMAIN codes' => codes'[connections'[d].code].used
    BY <1>1, <1>2, <1>3 DEF Inv, Referring
  <2>. QED BY <2>1, <2>2, <2>3, <2>4 DEF Referring
<1>8. OneConnectionPerCode'
  <2>1. \A d \in DOMAIN connections : connections[d].code # k
    BY <1>1 DEF Inv, Referring
  <2>. QED BY <1>1, <2>1 DEF Inv, OneConnectionPerCode
<1>9. OneLiveTokenPerConnection'
  <2>1. \A i \in DOMAIN tokens : tokens[i].connection # c
    BY <1>1 DEF Inv, Referring
  <2>2. ASSUME NEW i \in Live', i # t
        PROVE  i \in Live /\ tokens'[i] = tokens[i] /\ i \in DOMAIN tokens
    <3>1. i \in DOMAIN tokens' /\ ~tokens'[i].revoked
      BY DEF Live
    <3>. HIDE DEF t
    <3>. QED BY <1>1, <1>3, <2>2, <3>1 DEF Live
  <2>. SUFFICES ASSUME NEW i \in Live', NEW j \in Live',
                       tokens'[i].connection = tokens'[j].connection
                PROVE  i = j
    BY DEF OneLiveTokenPerConnection
  <2>3. CASE i = t \/ j = t
    BY <1>1, <2>1, <2>2, <2>3
  <2>4. CASE i # t /\ j # t
    BY <2>2, <2>4 DEF Inv, OneLiveTokenPerConnection
  <2>. QED BY <2>3, <2>4
<1>10. ReplayEndsConnection'
  BY <1>1, <1>2 DEF TypeOK, Inv, ReplayEndsConnection
<1>. QED BY <1>5, <1>6, <1>7, <1>8, <1>9, <1>10 DEF Inv

\* A rotation: the token that was asked with is revoked, and its connection has
\* the new one.
LEMMA RotationEffect ==
  ASSUME Inv, NEW s \in Sessions, CommitRotation(s)
  PROVE  LET r == ask[s]
             t == issued + 1
         IN /\ r \in Live /\ r \in DOMAIN tokens' /\ tokens'[r].revoked
            /\ tokens'[r].connection = tokens[r].connection
            /\ codes' = Purged(s, codes)
            /\ IsRows(tokens', Tokens, Token)
            /\ issued' = t /\ t \in 1 .. MaxTokens
            /\ DOMAIN tokens' = DOMAIN Purged(s, tokens) \cup {t}
            /\ t \in DOMAIN tokens' /\ t \notin DOMAIN tokens
            /\ tokens'[t].connection = tokens[r].connection /\ ~tokens'[t].revoked
            /\ \A i \in DOMAIN tokens' \ {t, r} : tokens'[i] = tokens[i]
<1>. DEFINE r == ask[s]
            left == Purged(s, tokens)
            rotated == [left EXCEPT ![r].revoked = TRUE]
            pair == [connection |-> tokens[r].connection,
                     expires |-> now[s] + TokenLifetime, revoked |-> FALSE]
<1>1. /\ r \in Live /\ r \in DOMAIN tokens /\ now[s] < tokens[r].expires
      /\ now[s] \in Nat /\ tokens[r] \in Token
  BY DEF CommitRotation, Inv, Holding, TypeOK, IsRows, Live
<1>2. issued' = issued + 1 /\ tokens' = With(rotated, issued', pair) /\ codes' = Purged(s, codes)
  BY DEF CommitRotation
<1>3. /\ issued' \in 1 .. MaxTokens /\ issued' \notin DOMAIN tokens /\ issued' \in Tokens
      /\ r # issued'
  BY <1>1, OAuthAssumption DEF CommitRotation, Inv, TypeOK, Referring, Tokens, OAuthAssumption
<1>4. pair \in Token /\ pair.connection = tokens[r].connection /\ ~pair.revoked
  BY <1>1, OAuthAssumption DEF Token, OAuthAssumption
<1>5. /\ IsRows(left, Tokens, Token) /\ DOMAIN left = DOMAIN Purged(s, tokens)
      /\ \A i \in DOMAIN left : left[i] = tokens[i]
  BY PurgedBy
<1>6. r \in DOMAIN left
  BY <1>1 DEF Purged, Expired, Token
<1>. HIDE DEF r, left, pair
<1>7. /\ DOMAIN rotated = DOMAIN left
      /\ rotated \in [DOMAIN left -> Token]
      /\ rotated[r].revoked /\ rotated[r].connection = tokens[r].connection
      /\ \A i \in DOMAIN left \ {r} : rotated[i] = tokens[i]
  <2>1. left \in [DOMAIN left -> Token] /\ left[r] \in Token /\ left[r] = tokens[r]
    BY <1>5, <1>6 DEF IsRows
  <2>2. [left[r] EXCEPT !.revoked = TRUE] \in Token
    BY <2>1 DEF Token
  <2>3. /\ rotated[r] = [left[r] EXCEPT !.revoked = TRUE]
        /\ [left[r] EXCEPT !.revoked = TRUE].revoked
        /\ [left[r] EXCEPT !.revoked = TRUE].connection = tokens[r].connection
    BY <1>6, <2>1 DEF Token
  <2>. QED BY <1>5, <1>6, <2>1, <2>2, <2>3
<1>8. IsRows(rotated, Tokens, Token)
  BY <1>5, <1>7 DEF IsRows
<1>. HIDE DEF rotated
<1>9. /\ IsRows(tokens', Tokens, Token)
      /\ DOMAIN tokens' = DOMAIN rotated \cup {issued'}
      /\ tokens'[issued'] = pair
      /\ \A i \in DOMAIN rotated : i # issued' => tokens'[i] = rotated[i]
  <2>1. tokens' = With(rotated, issued', pair) /\ issued' \in Tokens /\ pair \in Token
    BY <1>2, <1>3, <1>4
  <2>. QED BY <1>8, <2>1, WithRow
<1>10. /\ r \in DOMAIN tokens' /\ tokens'[r].revoked
       /\ tokens'[r].connection = tokens[r].connection
       /\ issued' \in DOMAIN tokens'
       /\ tokens'[issued'].connection = tokens[r].connection /\ ~tokens'[issued'].revoked
       /\ \A i \in DOMAIN tokens' \ {issued', r} : tokens'[i] = tokens[i]
  BY <1>3, <1>4, <1>6, <1>7, <1>9
<1>11. DOMAIN tokens' = DOMAIN Purged(s, tokens) \cup {issued'}
  BY <1>5, <1>7, <1>9
<1>. QED BY <1>1, <1>2, <1>3, <1>9, <1>10, <1>11 DEF r

LEMMA RotationKeepsInv ==
  ASSUME Inv, NEW s \in Sessions, CommitRotation(s)
  PROVE  Inv'
<1>. DEFINE r == ask[s]
            t == issued + 1
<1>1. /\ r \in Live /\ r \in DOMAIN tokens' /\ tokens'[r].revoked
      /\ tokens'[r].connection = tokens[r].connection
      /\ codes' = Purged(s, codes)
      /\ IsRows(tokens', Tokens, Token)
      /\ issued' = t /\ t \in 1 .. MaxTokens
      /\ DOMAIN tokens' = DOMAIN Purged(s, tokens) \cup {t}
      /\ t \in DOMAIN tokens' /\ t \notin DOMAIN tokens
      /\ tokens'[t].connection = tokens[r].connection /\ ~tokens'[t].revoked
      /\ \A i \in DOMAIN tokens' \ {t, r} : tokens'[i] = tokens[i]
  BY RotationEffect
<1>2. /\ Close(s) /\ CanPurge(s) /\ TypeOK
      /\ UNCHANGED <<clock, approved, connections, exposed>>
      /\ lock[r] = s /\ r \in DOMAIN tokens
  BY DEF CommitRotation, Inv, Holding
<1>3. /\ DOMAIN codes' \subseteq DOMAIN codes /\ DOMAIN tokens' \subseteq DOMAIN tokens \cup {t}
      /\ \A i \in DOMAIN codes' : codes'[i] = codes[i]
  BY <1>1, PurgedBy
<1>4. issued \in Nat
  BY DEF Inv, TypeOK
<1>5. TypeOK'
  <2>1. IsRows(codes', Codes, Code) /\ IsRows(connections', Connections, Connection)
    BY <1>1, <1>2, PurgedBy DEF TypeOK
  <2>2. issued' \in 0 .. MaxTokens /\ exposed' \subseteq DOMAIN connections'
    BY <1>1, <1>2, <1>4 DEF TypeOK
  <2>3. UNCHANGED <<clock, approved>> /\ DOMAIN connections \subseteq DOMAIN connections'
    BY <1>2
  <2>. QED BY <1>1, <1>2, <2>1, <2>2, <2>3, CloseType
<1>6. \A u \in Sessions : Holding(u)'
  <2>. SUFFICES ASSUME NEW u \in Sessions PROVE Holding(u)'
    OBVIOUS
  <2>1. CASE u = s
    BY <1>2, <2>1, CloseEffect DEF Holding
  <2>2. CASE u # s
    <3>1. /\ pc'[u] = pc[u] /\ ask'[u] = ask[u] /\ now'[u] = now[u]
          /\ \A i \in Codes \cup Tokens : lock[i] = u => lock'[i] = u
      BY <1>2, <2>2, CloseEffect
    <3>2. \A i \in DOMAIN codes : lock[i] = u => i \in DOMAIN codes' /\ codes'[i] = codes[i]
      BY <1>1, <1>2, <2>2, PurgeSpares
    <3>3. \A i \in DOMAIN tokens : lock[i] = u =>
            i \in DOMAIN tokens' /\ tokens'[i] = tokens[i]
      BY <1>1, <1>2, <2>2, PurgeSpares
    <3>. QED BY <1>2, <3>1, <3>2, <3>3, Undisturbed DEF Inv
  <2>. QED BY <2>1, <2>2
<1>. HIDE DEF r
<1>7. Referring'
  <2>1. DOMAIN codes' \subseteq approved' /\ DOMAIN tokens' \subseteq 1 .. issued'
    BY <1>1, <1>2, <1>3, <1>4 DEF Inv, Referring
  <2>2. ASSUME NEW i \in DOMAIN tokens'
        PROVE  tokens'[i].connection \in DOMAIN connections'
    <3>. HIDE DEF t
    <3>1. tokens[r].connection \in DOMAIN connections
      BY <1>2 DEF Inv, Referring
    <3>2. CASE i \in {t, r}
      BY <1>1, <1>2, <3>1, <3>2
    <3>3. CASE i \notin {t, r}
      BY <1>1, <1>2, <1>3, <3>3 DEF Inv, Referring
    <3>. QED BY <3>2, <3>3
  <2>3. /\ \A i \in DOMAIN codes' : codes'[i].used => codes'[i].connection \in DOMAIN connections'
        /\ \A d \in DOMAIN connections' :
             /\ connections'[d].code \in approved'
             /\ connections'[d].code \in DOMAIN codes' => codes'[connections'[d].code].used
    BY <1>2, <1>3 DEF Inv, Referring
  <2>. QED BY <2>1, <2>2, <2>3 DEF Referring
<1>8. OneConnectionPerCode' /\ ReplayEndsConnection'
  BY <1>2 DEF Inv, OneConnectionPerCode, ReplayEndsConnection
<1>9. OneLiveTokenPerConnection'
  <2>. HIDE DEF t
  <2>1. ASSUME NEW i \in Live', i # t
        PROVE  i \in Live /\ tokens'[i] = tokens[i] /\ i # r
    <3>1. i \in DOMAIN tokens' /\ ~tokens'[i].revoked
      BY DEF Live
    <3>. QED BY <1>1, <1>3, <2>1, <3>1 DEF Live
  <2>2. ASSUME NEW i \in Live', i # t
        PROVE  tokens'[i].connection # tokens[r].connection
    BY <1>1, <2>1, <2>2 DEF Inv, OneLiveTokenPerConnection
  <2>. SUFFICES ASSUME NEW i \in Live', NEW j \in Live',
                       tokens'[i].connection = tokens'[j].connection
                PROVE  i = j
    BY DEF OneLiveTokenPerConnection
  <2>3. CASE i = t \/ j = t
    BY <1>1, <2>2, <2>3
  <2>4. CASE i # t /\ j # t
    BY <2>1, <2>4 DEF Inv, OneLiveTokenPerConnection
  <2>. QED BY <2>3, <2>4
<1>. QED BY <1>5, <1>6, <1>7, <1>8, <1>9 DEF Inv

\* Every step keeps the invariant.
LEMMA NextKeepsInv == Inv /\ [Next]_vars => Inv'
<1>. SUFFICES ASSUME Inv, [Next]_vars PROVE Inv'
  OBVIOUS
<1>1. CASE UNCHANGED vars
  BY <1>1, TablesStay DEF vars, Inv, TypeOK, Holding
<1>2. ASSUME NEW k \in Codes, Approve(k) PROVE Inv'
  BY <1>2, ApproveKeepsInv
<1>3. ASSUME NEW c \in Connections, Revoke(c) PROVE Inv'
  BY <1>3, RevokeKeepsInv
<1>4. ASSUME NEW s \in Sessions, Exchange(s) PROVE Inv'
  BY <1>4, PresentKeepsInv, ReadCodeKeepsInv, ExchangeKeepsInv DEF Exchange
<1>5. ASSUME NEW s \in Sessions, Refresh(s) PROVE Inv'
  BY <1>5, PresentKeepsInv, ReadTokenKeepsInv, ReadConnectionKeepsInv, RotationKeepsInv
     DEF Refresh
<1>6. ASSUME NEW s \in Sessions, CommitReplay(s) \/ Fail(s) PROVE Inv'
  BY <1>6, CommitReplayKeepsInv, FailKeepsInv
<1>7. CASE Tick
  <2>1. TypeOK'
    BY <1>7, OAuthAssumption DEF Tick, Inv, TypeOK, OAuthAssumption
  <2>2. \A u \in Sessions : Holding(u)'
    BY <1>7, Undisturbed DEF Tick, Inv
  <2>. QED BY <1>7, <2>1, <2>2, TablesStay DEF Tick
<1>. QED BY <1>1, <1>2, <1>3, <1>4, <1>5, <1>6, <1>7 DEF Next

\* The invariant holds in every state.
THEOREM Invariance == Spec => []Inv
<1>. QED BY InitInv, NextKeepsInv, PTL DEF Spec

-----------------------------------------------------------------------------
(* What is promised.                                                       *)

LEMMA InitPromised == Init => Promise!NoGrants
  BY DEF Init, Promise!NoGrants, Opened, Good, Given, Ended, NoRows

\* A purge between two states takes from a connection the token that it can be
\* renewed with, or leaves it.
LEMMA Lapse ==
  ASSUME Inv, NEW c \in Connections, NEW p \in Tokens, p \notin DOMAIN tokens,
         DOMAIN connections' = DOMAIN connections \cup {c},
         p \in Live', tokens'[p].connection = c,
         \A t \in Live' \ {p} :
           t \in Live /\ tokens'[t] = tokens[t] /\ tokens[t].connection # c
  PROVE  Promise!Current(c, p)
<1>. DEFINE lapsed == {d \in DOMAIN Good \ {c} : Good'[d] = {}}
<1>1. /\ DOMAIN Good = DOMAIN connections
      /\ DOMAIN Good' = DOMAIN Good \cup {c}
      /\ \A d \in DOMAIN Good : Good[d] = {t \in Live : tokens[t].connection = d}
      /\ \A d \in DOMAIN Good' : Good'[d] = {t \in Live' : tokens'[t].connection = d}
      /\ Good' = [d \in DOMAIN Good' |-> Good'[d]]
  BY DEF Good
<1>2. Good'[c] = {p}
  BY <1>1
<1>3. ASSUME NEW d \in DOMAIN Good \ {c}, Good'[d] # {}
      PROVE  Good'[d] = Good[d]
  <2>1. PICK t : t \in Good'[d]
    BY <1>3
  <2>2. Good'[d] \subseteq Good[d]
    BY <1>1
  <2>3. \A u \in Good[d] : u = t
    BY <1>1, <2>1, <2>2 DEF Inv, OneLiveTokenPerConnection
  <2>. QED BY <2>1, <2>2, <2>3
<1>4. \A d \in DOMAIN Good \cup {c} :
        Good'[d] = IF d = c THEN {p} ELSE IF d \in lapsed THEN {} ELSE Good[d]
  BY <1>2, <1>3
<1>5. Good' = [d \in DOMAIN Good \cup {c} |->
                 IF d = c THEN {p} ELSE IF d \in lapsed THEN {} ELSE Good[d]]
  BY <1>1, <1>4
<1>6. lapsed \in SUBSET (DOMAIN Good \ {c})
  OBVIOUS
<1>. QED BY <1>5, <1>6 DEF Promise!Current

LEMMA ExchangePromised ==
  ASSUME Inv, NEW s \in Sessions, CommitExchange(s)
  PROVE  Promise!Grant
<1>. DEFINE k == ask[s]
            t == issued + 1
<1>1. PICK c \in Connections \ DOMAIN connections :
        /\ k \in DOMAIN codes /\ ~codes[k].used
        /\ DOMAIN connections' = DOMAIN connections \cup {c}
        /\ connections'[c] = [code |-> k, revoked |-> FALSE]
        /\ \A d \in DOMAIN connections : connections'[d] = connections[d]
        /\ issued' = t /\ t \in 1 .. MaxTokens
        /\ DOMAIN tokens' = DOMAIN Purged(s, tokens) \cup {t}
        /\ t \in DOMAIN tokens' /\ t \notin DOMAIN tokens
        /\ tokens'[t].connection = c /\ ~tokens'[t].revoked
        /\ \A i \in DOMAIN tokens' : i # t => tokens'[i] = tokens[i]
  BY ExchangeEffect
<1>2. k \in Codes /\ issued \in Nat
  BY <1>1 DEF Inv, TypeOK, IsRows
<1>3. t \in Tokens /\ t \notin Given /\ Given' = Given \cup {t}
  BY <1>1, <1>2 DEF Tokens, Given
<1>. HIDE DEF k, t
<1>4. c \notin DOMAIN Opened /\ \A d \in DOMAIN Opened : Opened[d] # k
  BY <1>1 DEF Opened, Inv, Referring
<1>5. Opened' = [d \in DOMAIN Opened \cup {c} |-> IF d = c THEN k ELSE Opened[d]]
  BY <1>1 DEF Opened
<1>6. Ended' = Ended
  BY <1>1 DEF Ended
<1>7. Promise!Current(c, t)
  <2>1. t \in Live'
    BY <1>1 DEF Live
  <2>2. ASSUME NEW i \in Live' \ {t}
        PROVE  i \in Live /\ tokens'[i] = tokens[i] /\ tokens[i].connection # c
    <3>1. i \in DOMAIN tokens' /\ ~tokens'[i].revoked
      BY DEF Live
    <3>2. i \in DOMAIN tokens /\ tokens'[i] = tokens[i]
      BY <1>1, <3>1, PurgedBy
    <3>. QED BY <1>1, <3>1, <3>2 DEF Live, Inv, Referring
  <2>. QED BY <1>1, <1>3, <2>1, <2>2, Lapse
<1>8. Promise!Open(k, c, t)
  BY <1>3, <1>4, <1>5, <1>6, <1>7 DEF Promise!Open
<1>. QED BY <1>2, <1>3, <1>8 DEF Promise!Grant

LEMMA RotationPromised ==
  ASSUME Inv, NEW s \in Sessions, CommitRotation(s)
  PROVE  Promise!Grant
<1>. DEFINE r == ask[s]
            t == issued + 1
            c == tokens[r].connection
<1>1. /\ r \in Live /\ r \in DOMAIN tokens' /\ tokens'[r].revoked
      /\ issued' = t /\ t \in 1 .. MaxTokens
      /\ DOMAIN tokens' = DOMAIN Purged(s, tokens) \cup {t}
      /\ t \in DOMAIN tokens' /\ t \notin DOMAIN tokens
      /\ tokens'[t].connection = tokens[r].connection /\ ~tokens'[t].revoked
      /\ \A i \in DOMAIN tokens' \ {t, r} : tokens'[i] = tokens[i]
  BY RotationEffect
<1>2. /\ connections' = connections /\ issued \in Nat
      /\ c \in DOMAIN connections /\ c \in Connections
  BY <1>1 DEF CommitRotation, Inv, TypeOK, IsRows, Referring, Live
<1>3. t \in Tokens /\ t \notin Given /\ Given' = Given \cup {t}
  BY <1>1, <1>2 DEF Tokens, Given
<1>. HIDE DEF r, t
<1>4. c \in DOMAIN Opened /\ Opened' = Opened /\ Ended' = Ended
  BY <1>2 DEF Opened, Ended
<1>5. Good[c] # {}
  BY <1>1, <1>2 DEF Good
<1>6. Promise!Current(c, t)
  <2>1. t \in Live'
    BY <1>1 DEF Live
  <2>2. ASSUME NEW i \in Live' \ {t}
        PROVE  i \in Live /\ tokens'[i] = tokens[i] /\ tokens[i].connection # c
    <3>1. i \in DOMAIN tokens' /\ ~tokens'[i].revoked
      BY DEF Live
    <3>2. i \in DOMAIN tokens /\ i # r /\ tokens'[i] = tokens[i]
      BY <1>1, <3>1, PurgedBy
    <3>3. i \in Live
      BY <3>1, <3>2 DEF Live
    <3>. QED BY <1>1, <3>2, <3>3 DEF Inv, OneLiveTokenPerConnection
  <2>. HIDE DEF c
  <2>. QED BY <1>1, <1>2, <1>3, <2>1, <2>2, Lapse DEF c
<1>7. Promise!Renew(c, t)
  BY <1>3, <1>4, <1>5, <1>6 DEF Promise!Renew
<1>. QED BY <1>2, <1>3, <1>7 DEF Promise!Grant

\* A connection ends when its user or its client revokes it, and when a code or a
\* token of it comes back.
LEMMA EndPromised ==
  ASSUME Inv, NEW c \in DOMAIN connections,
         connections' = [connections EXCEPT ![c].revoked = TRUE],
         UNCHANGED <<tokens, issued>>
  PROVE  Promise!Grant
<1>1. c \in Connections /\ connections \in [DOMAIN connections -> Connection]
  BY DEF Inv, TypeOK, IsRows
<1>2. /\ DOMAIN connections' = DOMAIN connections
      /\ connections'[c].revoked
      /\ \A d \in DOMAIN connections :
           /\ connections'[d].code = connections[d].code
           /\ d # c => connections'[d].revoked = connections[d].revoked
  BY <1>1 DEF Connection
<1>3. Opened' = Opened /\ Good' = Good /\ Given' = Given
  BY <1>2 DEF Opened, Good, Given, Live
<1>4. c \in DOMAIN Opened /\ Ended' = Ended \cup {c}
  BY <1>2 DEF Opened, Ended
<1>5. Promise!End(c)
  BY <1>3, <1>4 DEF Promise!End
<1>. QED BY <1>1, <1>5 DEF Promise!Grant

\* Every step is one that Grants allows, or cannot be told from none.
LEMMA StepPromised ==
  ASSUME Inv, [Next]_vars
  PROVE  [Promise!Grant]_(Promise!grants)
<1>1. ASSUME UNCHANGED <<connections, tokens, issued>> PROVE UNCHANGED Promise!grants
  BY <1>1 DEF Promise!grants, Opened, Good, Given, Ended, Live
<1>2. CASE UNCHANGED vars
  BY <1>1, <1>2 DEF vars
<1>3. ASSUME NEW k \in Codes, Approve(k) PROVE UNCHANGED Promise!grants
  BY <1>1, <1>3 DEF Approve
<1>4. ASSUME NEW c \in Connections, Revoke(c) PROVE Promise!Grant
  BY <1>4, EndPromised DEF Revoke
<1>5. ASSUME NEW s \in Sessions, Exchange(s)
      PROVE  Promise!Grant \/ UNCHANGED Promise!grants
  BY <1>1, <1>5, ExchangePromised DEF Exchange, Present, ReadCode
<1>6. ASSUME NEW s \in Sessions, Refresh(s)
      PROVE  Promise!Grant \/ UNCHANGED Promise!grants
  BY <1>1, <1>6, RotationPromised DEF Refresh, Present, ReadToken, ReadConnection
<1>7. ASSUME NEW s \in Sessions, CommitReplay(s) PROVE Promise!Grant
  BY <1>7, EndPromised DEF CommitReplay, Inv, TypeOK
<1>8. ASSUME NEW s \in Sessions, Fail(s) PROVE UNCHANGED Promise!grants
  BY <1>1, <1>8 DEF Fail
<1>9. CASE Tick
  BY <1>1, <1>9 DEF Tick
<1>. QED BY <1>2, <1>3, <1>4, <1>5, <1>6, <1>7, <1>8, <1>9 DEF Next

-----------------------------------------------------------------------------
(* Theorems.                                                               *)

\* The tables, sessions and locks keep their types.
THEOREM TypeCorrect == Spec => []TypeOK
<1>1. Inv => TypeOK
  BY DEF Inv
<1>. QED BY <1>1, Invariance, PTL

\* A code opens one connection, however many requests present it and when
\* (_exchange_code, under get_code's lock).
THEOREM OneConnection == Spec => []OneConnectionPerCode
<1>1. Inv => OneConnectionPerCode
  BY DEF Inv
<1>. QED BY <1>1, Invariance, PTL

\* Two refreshes at once do not both get a pair that is good (_refresh, under
\* get_token's lock).
THEOREM OneLiveToken == Spec => []OneLiveTokenPerConnection
<1>1. Inv => OneLiveTokenPerConnection
  BY DEF Inv
<1>. QED BY <1>1, Invariance, PTL

\* A connection whose used code or rotated token has come back, and has been
\* answered, is revoked for good.
THEOREM ReplayEnds == Spec => []ReplayEndsConnection
<1>1. Inv => ReplayEndsConnection
  BY DEF Inv
<1>. QED BY <1>1, Invariance, PTL

\* The server with its rows, locks and purges implements what Grants says of
\* connections and pairs.
THEOREM Implements == Spec => GivesWhatIsPromised
<1>. QED BY InitPromised, StepPromised, Invariance, PTL
     DEF Spec, GivesWhatIsPromised, Promise!GrantsSpec
=============================================================================
