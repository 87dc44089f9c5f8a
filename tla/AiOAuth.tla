------------------------------- MODULE AiOAuth -------------------------------
(***************************************************************************)
(* Connections of AI assistants (backend/app/domains/ai): an authorization *)
(* code, given when the user consents, is exchanged once for a connection  *)
(* with a pair of tokens; the refresh token of the pair is exchanged once  *)
(* for the next pair.  A code or a refresh token that comes back ends the  *)
(* connection.                                                             *)
(*                                                                         *)
(* A request is served in a database session of its own.  A step is one    *)
(* read, or the commit with the statements before it that no other session *)
(* can tell apart.  get_code and get_token lock their row until the        *)
(* session ends; get_connection locks nothing.                             *)
(*                                                                         *)
(* An access token is never revoked by itself, authenticate looks at its   *)
(* connection each time: a pair is its refresh token here.  A client that  *)
(* shows the wrong client_id, redirect_uri, verifier, resource or scope is *)
(* refused, which is Fail.                                                 *)
(***************************************************************************)
EXTENDS Integers, FiniteSets

CONSTANTS
  Codes,            \* authorization codes
  MaxConnections,   \* bound on the connections that a run opens
  MaxTokens,        \* bound on the pairs that a run issues
  Sessions,         \* database sessions; each serves one request at a time
  CodeLifetime,     \* CODE_TTL
  TokenLifetime,    \* REFRESH_TOKEN_TTL
  MaxTime,          \* bound on the clock
  Nobody,           \* no session
  Nothing           \* nothing presented; no connection

Connections == 1 .. MaxConnections
Tokens == 1 .. MaxTokens

ASSUME OAuthAssumption ==
  /\ MaxConnections \in Nat
  /\ MaxTokens \in Nat
  /\ CodeLifetime \in Nat \ {0}
  /\ TokenLifetime \in Nat \ {0}
  /\ MaxTime \in Nat
  /\ Nobody \notin Sessions
  /\ Nothing \notin Codes \cup Tokens \cup Connections
  /\ Codes \cap Tokens = {}

VARIABLES
  clock,
  approved,    \* codes given so far: new_code never repeats
  codes,       \* committed rows of ai_oauth_codes
  connections, \* committed rows of ai_connections
  tokens,      \* committed refresh rows of ai_tokens
  issued,      \* pairs issued so far
  lock,        \* the session that has the row of a code or token locked
  pc,          \* how far the session's request has got
  ask,         \* the code or token presented
  now,         \* the time the request has read
  suspect,     \* the connection that the session is to revoke
  exposed      \* history: connections whose code or token came back

vars == <<clock, approved, codes, connections, tokens, issued, lock, pc, ask, now,
          suspect, exposed>>

-----------------------------------------------------------------------------
Code == [expires : Nat, used : BOOLEAN, connection : Connections \cup {Nothing}]
Connection == [code : Codes, revoked : BOOLEAN]
Token == [connection : Connections, expires : Nat, revoked : BOOLEAN]

IsRows(table, ids, rows) == DOMAIN table \subseteq ids /\ table \in [DOMAIN table -> rows]

NoRows == [i \in {} |-> {}]

With(table, id, row) ==
  [i \in DOMAIN table \cup {id} |-> IF i = id THEN row ELSE table[i]]

Live == {t \in DOMAIN tokens : ~tokens[t].revoked}

\* The row is to be had.
Free(s, row) == lock[row] \in {s, Nobody}

Expired(s, table) == {i \in DOMAIN table : table[i].expires < now[s]}

\* delete_expired: every row that has expired by the request's time, once no
\* other session holds it.
CanPurge(s) == \A i \in Expired(s, codes) \cup Expired(s, tokens) : Free(s, i)

Purged(s, table) == [i \in DOMAIN table \ Expired(s, table) |-> table[i]]

-----------------------------------------------------------------------------
(* Requests.                                                               *)

\* approve: the user consents and a code goes to the client.
Approve(k) ==
  /\ k \notin approved
  /\ approved' = approved \cup {k}
  /\ codes' = With(codes, k,
       [expires |-> clock + CodeLifetime, used |-> FALSE, connection |-> Nothing])
  /\ UNCHANGED <<clock, connections, tokens, issued, lock, pc, ask, now, suspect, exposed>>

\* POST /oauth/token comes in, with a code or a refresh token that was given.
Present(s, row, grant) ==
  /\ pc[s] = "idle"
  /\ pc' = [pc EXCEPT ![s] = grant]
  /\ ask' = [ask EXCEPT ![s] = row]
  /\ now' = [now EXCEPT ![s] = clock]
  /\ UNCHANGED <<clock, approved, codes, connections, tokens, issued, lock, suspect, exposed>>

Close(s) ==
  /\ pc' = [pc EXCEPT ![s] = "idle"]
  /\ ask' = [ask EXCEPT ![s] = Nothing]
  /\ now' = [now EXCEPT ![s] = 0]
  /\ suspect' = [suspect EXCEPT ![s] = Nothing]
  /\ lock' = [i \in DOMAIN lock |-> IF lock[i] = s THEN Nobody ELSE lock[i]]

\* The request may fail, be refused or be dropped at any point: nothing is
\* written.  So ends one that finds its code or token gone or expired, too.
Fail(s) ==
  /\ pc[s] # "idle"
  /\ Close(s)
  /\ UNCHANGED <<clock, approved, codes, connections, tokens, issued, exposed>>

\* get_code FOR UPDATE: the code is used already, or it is good.
ReadCode(s) ==
  /\ pc[s] = "code"
  /\ ask[s] \in DOMAIN codes
  /\ Free(s, ask[s])
  /\ lock' = [lock EXCEPT ![ask[s]] = s]
  /\ IF codes[ask[s]].used
     THEN /\ suspect' = [suspect EXCEPT ![s] = codes[ask[s]].connection]
          /\ pc' = [pc EXCEPT ![s] = "replay"]
     ELSE /\ now[s] < codes[ask[s]].expires
          /\ pc' = [pc EXCEPT ![s] = "exchange"]
          /\ UNCHANGED suspect
  /\ UNCHANGED <<clock, approved, codes, connections, tokens, issued, ask, now, exposed>>

\* _exchange_code and _issue: the code is used up, a connection opens and gets
\* its first pair.
CommitExchange(s) ==
  /\ pc[s] = "exchange"
  /\ CanPurge(s)
  /\ \E c \in Connections \ DOMAIN connections :
       /\ issued < MaxTokens
       /\ issued' = issued + 1
       /\ connections' = With(connections, c, [code |-> ask[s], revoked |-> FALSE])
       /\ codes' = [Purged(s, codes) EXCEPT ![ask[s]].used = TRUE, ![ask[s]].connection = c]
       /\ tokens' = With(Purged(s, tokens), issued',
            [connection |-> c, expires |-> now[s] + TokenLifetime, revoked |-> FALSE])
  /\ Close(s)
  /\ UNCHANGED <<clock, approved, exposed>>

\* A fault for the runs: get_token without FOR UPDATE.
ReadTokenUnlocked(s) ==
  /\ pc[s] = "refresh"
  /\ ask[s] \in DOMAIN tokens
  /\ pc' = [pc EXCEPT ![s] = IF tokens[ask[s]].revoked THEN "rotated" ELSE "fresh"]
  /\ UNCHANGED <<clock, approved, codes, connections, tokens, issued, lock, ask, now,
                 suspect, exposed>>

\* _refresh: get_token FOR UPDATE ...
ReadToken(s) ==
  /\ pc[s] = "refresh"
  /\ ask[s] \in DOMAIN tokens
  /\ Free(s, ask[s])
  /\ lock' = [lock EXCEPT ![ask[s]] = s]
  /\ pc' = [pc EXCEPT ![s] = IF tokens[ask[s]].revoked THEN "rotated" ELSE "fresh"]
  /\ UNCHANGED <<clock, approved, codes, connections, tokens, issued, ask, now,
                 suspect, exposed>>

\* ... get_connection, which must not be revoked: the token was rotated
\* already, or it is good.
ReadConnection(s) ==
  /\ pc[s] \in {"rotated", "fresh"}
  /\ ~connections[tokens[ask[s]].connection].revoked
  /\ IF pc[s] = "rotated"
     THEN /\ suspect' = [suspect EXCEPT ![s] = tokens[ask[s]].connection]
          /\ pc' = [pc EXCEPT ![s] = "replay"]
     ELSE /\ now[s] < tokens[ask[s]].expires
          /\ pc' = [pc EXCEPT ![s] = "rotate"]
          /\ UNCHANGED suspect
  /\ UNCHANGED <<clock, approved, codes, connections, tokens, issued, lock, ask, now, exposed>>

\* _issue: the next pair.
CommitRotation(s) ==
  /\ pc[s] = "rotate"
  /\ CanPurge(s)
  /\ issued < MaxTokens
  /\ issued' = issued + 1
  /\ codes' = Purged(s, codes)
  /\ tokens' = With([Purged(s, tokens) EXCEPT ![ask[s]].revoked = TRUE], issued',
       [connection |-> tokens[ask[s]].connection, expires |-> now[s] + TokenLifetime,
        revoked |-> FALSE])
  /\ Close(s)
  /\ UNCHANGED <<clock, approved, connections, exposed>>

\* A fault for the runs: the error leaves the route before its commit.
ReplayRolledBack(s) ==
  /\ pc[s] = "replay"
  /\ exposed' = exposed \cup {suspect[s]}
  /\ Close(s)
  /\ UNCHANGED <<clock, approved, codes, connections, tokens, issued>>

\* revoke_connection; the route commits it and answers with the error.
CommitReplay(s) ==
  /\ pc[s] = "replay"
  /\ connections' = [connections EXCEPT ![suspect[s]].revoked = TRUE]
  /\ exposed' = exposed \cup {suspect[s]}
  /\ Close(s)
  /\ UNCHANGED <<clock, approved, codes, tokens, issued>>

\* The user revokes the connection, or its client does (RFC 7009).
Revoke(c) ==
  /\ c \in DOMAIN connections
  /\ ~connections[c].revoked
  /\ connections' = [connections EXCEPT ![c].revoked = TRUE]
  /\ UNCHANGED <<clock, approved, codes, tokens, issued, lock, pc, ask, now, suspect, exposed>>

Tick ==
  /\ clock < MaxTime
  /\ clock' = clock + 1
  /\ UNCHANGED <<approved, codes, connections, tokens, issued, lock, pc, ask, now,
                 suspect, exposed>>

-----------------------------------------------------------------------------
Init ==
  /\ clock = 0
  /\ approved = {}
  /\ codes = NoRows
  /\ connections = NoRows
  /\ tokens = NoRows
  /\ issued = 0
  /\ lock = [i \in Codes \cup Tokens |-> Nobody]
  /\ pc = [s \in Sessions |-> "idle"]
  /\ ask = [s \in Sessions |-> Nothing]
  /\ now = [s \in Sessions |-> 0]
  /\ suspect = [s \in Sessions |-> Nothing]
  /\ exposed = {}

Exchange(s) ==
  \/ \E k \in DOMAIN codes : Present(s, k, "code")
  \/ ReadCode(s)
  \/ CommitExchange(s)

Refresh(s) ==
  \/ \E t \in DOMAIN tokens : Present(s, t, "refresh")
  \/ ReadToken(s)
  \/ ReadConnection(s)
  \/ CommitRotation(s)

Next ==
  \/ \E k \in Codes : Approve(k)
  \/ \E c \in Connections : Revoke(c)
  \/ \E s \in Sessions : Exchange(s) \/ Refresh(s) \/ CommitReplay(s) \/ Fail(s)
  \/ Tick

Spec == Init /\ [][Next]_vars

-----------------------------------------------------------------------------
(* Properties.                                                             *)

TypeOK ==
  /\ clock \in 0 .. MaxTime
  /\ approved \subseteq Codes
  /\ IsRows(codes, Codes, Code)
  /\ IsRows(connections, Connections, Connection)
  /\ IsRows(tokens, Tokens, Token)
  /\ issued \in 0 .. MaxTokens
  /\ lock \in [Codes \cup Tokens -> Sessions \cup {Nobody}]
  /\ pc \in [Sessions -> {"idle", "code", "exchange", "refresh", "rotated", "fresh",
                          "rotate", "replay"}]
  /\ ask \in [Sessions -> Codes \cup Tokens \cup {Nothing}]
  /\ now \in [Sessions -> Nat]
  /\ suspect \in [Sessions -> Connections \cup {Nothing}]
  /\ exposed \subseteq DOMAIN connections
  /\ \A s \in Sessions :
       /\ pc[s] \in {"code", "exchange"} => ask[s] \in Codes
       /\ pc[s] \in {"refresh", "rotated", "fresh", "rotate"} => ask[s] \in Tokens
       /\ pc[s] = "replay" => suspect[s] \in DOMAIN connections

\* A code opens one connection, however many requests present it and when.
OneConnectionPerCode ==
  \A c, d \in DOMAIN connections : connections[c].code = connections[d].code => c = d

\* A connection has one refresh token that is good: two refreshes at once do
\* not both get a new pair.
OneLiveTokenPerConnection ==
  \A t, u \in Live : tokens[t].connection = tokens[u].connection => t = u

\* Once a used code or a rotated token has been answered, its connection is
\* of no use to anybody, also when the answer raced a refresh.
ReplayEndsConnection == \A c \in exposed : connections[c].revoked

\* What others may rely on (Grants): the rows of codes and tokens, the locks and
\* the clock are left out.
Opened == [c \in DOMAIN connections |-> connections[c].code]
Good == [c \in DOMAIN connections |-> {t \in Live : tokens[t].connection = c}]
Given == 1 .. issued
Ended == {c \in DOMAIN connections : connections[c].revoked}

Promise ==
  INSTANCE Grants WITH
    Pairs <- Tokens, opened <- Opened, good <- Good, given <- Given, ended <- Ended

\* However requests race, and whenever expired rows are purged, the server
\* opens, renews and ends connections as Grants says.
GivesWhatIsPromised == Promise!GrantsSpec
=============================================================================
