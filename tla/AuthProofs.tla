----------------------------- MODULE AuthProofs -----------------------------
(***************************************************************************)
(* Proofs about who gets in.  AuthSessions: for any number of users, tokens*)
(* and sessions.  AiAccess: for any connections, tokens and requests, any  *)
(* lifetimes, limits and size of the memory.                               *)
(***************************************************************************)
EXTENDS AuthSessions, AiAccess, TLAPS

(* Tokens of the site: the inductive invariant.                            *)

\* A session that is about to replace a token has it locked, live, and
\* marked to be revoked.
Holds(s) ==
  /\ pc[s] = "idle" => ask[s] = NoToken /\ revoking[s] = {}
  /\ pc[s] \in {"issue", "purge", "commit"} =>
       IF ask[s] = NoToken
       THEN revoking[s] = {}
       ELSE lock[ask[s]] = s /\ ask[s] \in Live /\ revoking[s] = {ask[s]}

\* The new token of a session, which no other session and no table has.
Adds(s, t) ==
  /\ DOMAIN adding[s] = {t}
  /\ t \in 1 .. issued
  /\ t \notin DOMAIN tokens
  /\ ~adding[s][t].revoked
  /\ adding[s][t].login = IF ask[s] = NoToken THEN t ELSE tokens[ask[s]].login
  /\ \A u \in Sessions \ {s} : t \notin DOMAIN adding[u]
  /\ ask[s] = NoToken => \A x \in DOMAIN tokens : tokens[x].login # t

Writes(s) ==
  /\ \A t \in dropping[s] : lock[t] = s
  /\ IF pc[s] \in {"purge", "commit"}
     THEN \E t \in Tokens : Adds(s, t)
     ELSE DOMAIN adding[s] = {}

\* Logins are numbered by tokens issued.
Numbered ==
  \A x \in DOMAIN tokens : x <= issued /\ tokens[x].login <= issued

Inv ==
  /\ TypeOK
  /\ \A s \in Sessions : Holds(s) /\ Writes(s)
  /\ Numbered
  /\ OneLiveTokenPerLogin

-----------------------------------------------------------------------------
(* Lemmas.                                                                 *)

\* The empty table is a table.
LEMMA NoRowsTable == IsTable(NoRows) /\ DOMAIN NoRows = {}
  BY DEF IsTable, NoRows

\* Locking takes rows that are free.
LEMMA LockEffect ==
  ASSUME TypeOK, NEW s \in Sessions, CanLock(s), Lock(s)
  PROVE  /\ lock' \in [Tokens -> Sessions \cup {Nobody}]
         /\ \A t \in Needs(s) \cap Tokens : lock'[t] = s
         /\ \A t \in Tokens : lock[t] = s => lock'[t] = s
         /\ \A u \in Sessions \ {s} : \A t \in Tokens : lock[t] = u => lock'[t] = u
  BY AuthAssumption DEF TypeOK, CanLock, Lock, AuthAssumption

\* Closing a session frees its rows and leaves the others alone.
LEMMA CloseEffect ==
  ASSUME TypeOK, NEW s \in Sessions, Close(s)
  PROVE  /\ lock' \in [Tokens -> Sessions \cup {Nobody}]
         /\ pc'[s] = "idle" /\ ask'[s] = NoToken /\ revoking'[s] = {}
         /\ DOMAIN adding'[s] = {} /\ dropping'[s] = {}
         /\ \A u \in Sessions \ {s} :
              /\ pc'[u] = pc[u] /\ ask'[u] = ask[u] /\ revoking'[u] = revoking[u]
              /\ adding'[u] = adding[u] /\ dropping'[u] = dropping[u]
              /\ \A t \in Tokens : lock[t] = u => lock'[t] = u
  BY NoRowsTable DEF TypeOK, Close

\* Closing keeps the types of what it resets.
LEMMA CloseType ==
  ASSUME TypeOK, NEW s \in Sessions, Close(s), clock' = clock,
         IsTable(tokens'), issued' = issued, denied' \subseteq Tokens
  PROVE  TypeOK'
<1>1. \A u \in Sessions : IsTable(adding'[u])
  BY NoRowsTable DEF TypeOK, Close
<1>2. adding' = [u \in Sessions |-> adding'[u]]
  BY DEF TypeOK, Close
<1>3. \A u \in Sessions :
        /\ pc'[u] # "idle" => who'[u] \in Users
        /\ pc'[u] \in {"waiting", "logout"} => ask'[u] \in Tokens
  BY DEF TypeOK, Close
<1>. QED BY <1>1, <1>2, <1>3, CloseEffect DEF TypeOK, Close

\* A session's part of the invariant outlives the steps of the others, as
\* long as they keep off the rows it has locked and the token it adds.
LEMMA Undisturbed ==
  ASSUME Inv, NEW u \in Sessions,
         pc'[u] = pc[u], ask'[u] = ask[u], revoking'[u] = revoking[u],
         adding'[u] = adding[u], dropping'[u] = dropping[u],
         \A t \in Tokens : lock[t] = u =>
           /\ lock'[t] = u
           /\ t \in Live => t \in DOMAIN tokens' /\ tokens'[t] = tokens[t],
         issued' \in Nat, issued <= issued',
         \A t \in DOMAIN adding[u] :
           /\ t \notin DOMAIN tokens'
           /\ \A w \in Sessions \ {u} : t \notin DOMAIN adding'[w]
           /\ ask[u] = NoToken => \A x \in DOMAIN tokens' : tokens'[x].login # t
  PROVE  Holds(u)' /\ Writes(u)'
<1>1. Holds(u) /\ Writes(u) /\ Live \subseteq Tokens
  BY DEF Inv, TypeOK, IsTable, Live
<1>2. Holds(u)'
  BY <1>1 DEF Holds, Live
<1>3. \A t \in dropping'[u] : lock'[t] = u
  BY <1>1 DEF Writes, Inv, TypeOK
<1>4. ASSUME NEW t \in Tokens, Adds(u, t), pc[u] \in {"purge", "commit"}
      PROVE  Adds(u, t)'
  <2>1. ask[u] # NoToken => ask[u] \in Live /\ tokens'[ask[u]] = tokens[ask[u]]
    BY <1>1, <1>4 DEF Holds
  <2>2. t \in 1 .. issued'
    BY <1>4 DEF Adds, Inv, TypeOK
  <2>. QED BY <1>4, <2>1, <2>2 DEF Adds
<1>. QED BY <1>1, <1>2, <1>3, <1>4 DEF Writes

\* No two sessions add one token.
LEMMA AddedApart ==
  ASSUME Inv, NEW u \in Sessions, NEW t \in DOMAIN adding[u]
  PROVE  /\ Adds(u, t) /\ t \in Tokens
         /\ pc[u] \in {"purge", "commit"}
  BY DEF Inv, Writes, Adds

\* While the table and the new tokens stay as they are, so does what the
\* invariant says of the other sessions.
LEMMA OthersKept ==
  ASSUME Inv, NEW s \in Sessions, NEW u \in Sessions \ {s},
         UNCHANGED <<tokens, issued>>,
         DOMAIN adding'[s] \subseteq DOMAIN adding[s],
         \A w \in Sessions \ {s} :
           /\ pc'[w] = pc[w] /\ ask'[w] = ask[w] /\ revoking'[w] = revoking[w]
           /\ adding'[w] = adding[w] /\ dropping'[w] = dropping[w]
           /\ \A t \in Tokens : lock[t] = w => lock'[t] = w
  PROVE  Holds(u)' /\ Writes(u)'
<1>1. \A t \in DOMAIN adding[u] :
        /\ t \notin DOMAIN tokens
        /\ \A w \in Sessions \ {u} : t \notin DOMAIN adding'[w]
        /\ ask[u] = NoToken => \A x \in DOMAIN tokens : tokens[x].login # t
  BY AddedApart DEF Adds
<1>2. \A t \in Tokens : lock[t] = u =>
        lock'[t] = u /\ (t \in Live => t \in DOMAIN tokens' /\ tokens'[t] = tokens[t])
  BY DEF Live
<1>3. issued' \in Nat /\ issued <= issued'
  BY DEF Inv, TypeOK
<1>. QED BY <1>1, <1>2, <1>3, Undisturbed

\* A step that writes to no table: the rest of the invariant stays.
LEMMA TablesKept ==
  ASSUME Inv, TypeOK', UNCHANGED <<tokens, issued>>,
         \A u \in Sessions : Holds(u)' /\ Writes(u)'
  PROVE  Inv'
  BY DEF Inv, Numbered, OneLiveTokenPerLogin, Live

-----------------------------------------------------------------------------
(* The steps.                                                              *)

\* A session closes, with nothing written or with the user's reuse noted.
LEMMA CloseStep ==
  ASSUME Inv, NEW s \in Sessions, Close(s), denied' \subseteq Tokens,
         UNCHANGED <<clock, tokens, issued>>
  PROVE  Inv'
<1>1. TypeOK'
  BY CloseType DEF Inv, TypeOK
<1>2. Holds(s)' /\ Writes(s)'
  BY CloseEffect DEF Inv, Holds, Writes
<1>3. \A u \in Sessions \ {s} : Holds(u)' /\ Writes(u)'
  BY CloseEffect, OthersKept DEF Inv
<1>. QED BY <1>1, <1>2, <1>3, TablesKept

\* A request comes in, and the clock ticks.
LEMMA BeginStep ==
  ASSUME Inv, NEW s \in Sessions, Begin(s)
  PROVE  Inv'
<1>1. TypeOK'
  <2>1. ASSUME NEW user \in Users, Login(s, user) PROVE TypeOK'
    BY <2>1 DEF Inv, TypeOK, Login
  <2>2. ASSUME NEW t \in Tokens, Refresh(s, t) \/ Logout(s, t) PROVE TypeOK'
    <3>1. tokens[t].user \in Users
      BY <2>2 DEF Inv, TypeOK, IsTable, Row, Refresh, Logout, Live
    <3>. QED BY <2>2, <3>1 DEF Inv, TypeOK, Refresh, Logout
  <2>. QED BY <2>1, <2>2 DEF Begin
<1>2. Holds(s)' /\ Writes(s)'
  <2>1. /\ pc[s] = "idle" /\ pc'[s] \in {"waiting", "logout", "issue"}
        /\ pc'[s] = "issue" => ask' = ask
        /\ adding' = adding /\ dropping' = dropping /\ revoking' = revoking /\ lock' = lock
    BY DEF Inv, TypeOK, Begin, Login, Refresh, Logout
  <2>. QED BY <2>1 DEF Inv, Writes, Holds
<1>3. \A u \in Sessions \ {s} : Holds(u)' /\ Writes(u)'
  BY OthersKept DEF Inv, TypeOK, Begin, Login, Refresh, Logout
<1>. QED BY <1>1, <1>2, <1>3, TablesKept DEF Begin, Login, Refresh, Logout

LEMMA TickStep == Inv /\ Tick => Inv'
<1> SUFFICES ASSUME Inv, Tick PROVE Inv'
  OBVIOUS
<1>1. TypeOK'
  BY AuthAssumption DEF Inv, TypeOK, Tick, AuthAssumption
<1>2. \A u \in Sessions : Holds(u)' /\ Writes(u)'
  BY DEF Inv, Tick, Holds, Writes, Adds, Live
<1>. QED BY <1>1, <1>2, TablesKept DEF Tick

\* What CanLock's steps have in common.
LEMMA LockStep ==
  ASSUME Inv, NEW s \in Sessions, CanLock(s), Lock(s),
         UNCHANGED <<clock, tokens, issued, who, ask, adding, denied>>,
         pc' \in [Sessions -> {"idle", "waiting", "revoke", "refuse", "issue",
                              "purge", "commit", "logout"}],
         revoking' \in [Sessions -> SUBSET Tokens],
         dropping' \in [Sessions -> SUBSET Tokens],
         pc[s] # "idle", pc'[s] \notin {"waiting", "logout"},
         \A u \in Sessions \ {s} :
           pc'[u] = pc[u] /\ revoking'[u] = revoking[u] /\ dropping'[u] = dropping[u],
         Holds(s)' /\ Writes(s)'
  PROVE  Inv'
<1>1. TypeOK'
  BY LockEffect DEF Inv, TypeOK
<1>2. \A u \in Sessions \ {s} : Holds(u)' /\ Writes(u)'
  BY LockEffect, OthersKept DEF Inv
<1>. QED BY <1>1, <1>2, TablesKept

LEMMA RotateStep ==
  ASSUME Inv, NEW s \in Sessions, Rotate(s)
  PROVE  Inv'
<1>1. ask[s] \in Tokens /\ lock'[ask[s]] = s
  BY LockEffect DEF Inv, TypeOK, Rotate, Needs
<1>2. Holds(s)'
  <2>1. /\ pc'[s] = "issue" /\ ask'[s] = ask[s] /\ revoking'[s] = {ask[s]}
        /\ ask[s] \in Live /\ Live' = Live /\ ask[s] # NoToken
    BY <1>1, AuthAssumption DEF Inv, TypeOK, Rotate, Live, AuthAssumption
  <2>. QED BY <1>1, <2>1 DEF Holds
<1>3. Writes(s)'
  BY LockEffect DEF Inv, TypeOK, Rotate, Writes
<1>. QED BY <1>1, <1>2, <1>3, LockStep DEF Inv, TypeOK, Rotate

LEMMA ReusedStep ==
  ASSUME Inv, NEW s \in Sessions, Reused(s)
  PROVE  Inv'
<1>1. Holds(s)'
  BY DEF Inv, TypeOK, Reused, Holds
<1>2. Writes(s)'
  BY LockEffect DEF Inv, TypeOK, Reused, Writes
<1>. QED BY <1>1, <1>2, LockStep DEF Inv, TypeOK, Reused

LEMMA RevokeAllStep ==
  ASSUME Inv, NEW s \in Sessions, RevokeAll(s)
  PROVE  Inv'
<1>1. Holds(s)'
  BY DEF Inv, TypeOK, RevokeAll, Holds
<1>2. Writes(s)'
  BY LockEffect DEF Inv, TypeOK, RevokeAll, Writes
<1>3. LiveOf(who[s]) \subseteq Tokens
  BY DEF Inv, TypeOK, IsTable, LiveOf, Live
<1>. QED BY <1>1, <1>2, <1>3, LockStep DEF Inv, TypeOK, RevokeAll

LEMMA PurgeStep ==
  ASSUME Inv, NEW s \in Sessions, Purge(s)
  PROVE  Inv'
<1>1. Expired \subseteq Tokens /\ Needs(s) = Expired
  BY DEF Inv, TypeOK, IsTable, Expired, Purge, Needs
<1>2. Holds(s)'
  <2>1. ask[s] # NoToken => lock[ask[s]] = s /\ ask[s] \in Tokens
    BY DEF Inv, TypeOK, Holds, Purge
  <2>. QED BY <2>1, LockEffect DEF Inv, TypeOK, Purge, Holds, Live
<1>3. Writes(s)'
  <2>1. \A t \in dropping'[s] : lock'[t] = s
    BY <1>1, LockEffect DEF Inv, TypeOK, Purge
  <2>2. PICK t \in Tokens : Adds(s, t)
    BY DEF Inv, Writes, Purge
  <2>3. Adds(s, t)'
    BY <2>2 DEF Adds, Purge
  <2>. QED BY <2>1, <2>3 DEF Inv, TypeOK, Writes, Purge
<1>. QED BY <1>1, <1>2, <1>3, LockStep DEF Inv, TypeOK, Purge

\* The token that a session issues is its own.
LEMMA IssueStep ==
  ASSUME Inv, NEW s \in Sessions, Issue(s)
  PROVE  Inv'
<1>0. PICK t : t = issued + 1
  OBVIOUS
<1>1. /\ t \in Tokens /\ issued \in Nat
      /\ issued' = t
      /\ adding' = [u \in Sessions |-> adding'[u]]
      /\ \A u \in Sessions \ {s} : adding'[u] = adding[u]
      /\ DOMAIN adding'[s] = {t} /\ adding'[s] = [x \in {t} |-> adding'[s][t]]
      /\ adding'[s][t] =
           [user |-> who[s], expires |-> clock + Lifetime, revoked |-> FALSE,
            login |-> IF ask[s] = NoToken THEN t ELSE tokens[ask[s]].login]
  <2>1. issued < MaxTokens /\ issued \in Nat /\ MaxTokens \in Nat /\ issued' = t
    BY <1>0, AuthAssumption DEF Issue, Inv, TypeOK, AuthAssumption
  <2>2. t \in Tokens
    BY <1>0, <2>1 DEF Tokens
  <2>3. adding' = [adding EXCEPT ![s] =
          [x \in {t} |->
            [user |-> who[s], expires |-> clock + Lifetime, revoked |-> FALSE,
             login |-> IF ask[s] = NoToken THEN x ELSE tokens[ask[s]].login]]]
    BY <1>0 DEF Issue
  <2>. QED BY <2>1, <2>2, <2>3 DEF Inv, TypeOK
<1>2. \A x \in DOMAIN tokens : x <= issued /\ tokens[x].login <= issued /\ tokens[x] \in Row
  BY DEF Inv, Numbered, TypeOK, IsTable
<1>3. ask[s] # NoToken => ask[s] \in Live
  BY DEF Issue, Inv, Holds
<1>4. adding'[s][t] \in Row
  BY <1>1, <1>2, <1>3, AuthAssumption DEF Issue, Inv, TypeOK, Row, Live, AuthAssumption
<1>5. \A u \in Sessions \ {s} : t \notin DOMAIN adding[u]
  BY <1>0, <1>1, AddedApart DEF Adds
<1>6. \A x \in DOMAIN tokens : x # t /\ tokens[x].login # t
  BY <1>0, <1>1, <1>2 DEF Row, Tokens, Inv, TypeOK, IsTable
<1>7. TypeOK'
  <2>1. \A u \in Sessions : IsTable(adding'[u])
    <3>1. IsTable(adding'[s])
      BY <1>1, <1>4 DEF IsTable
    <3>. QED BY <1>1, <3>1 DEF Inv, TypeOK
  <2>2. issued' \in 0 .. MaxTokens
    BY <1>1 DEF Tokens
  <2>. QED BY <1>1, <2>1, <2>2 DEF Issue, Inv, TypeOK
<1>8. Holds(s)' /\ Writes(s)'
  <2>1. Holds(s)'
    BY DEF Issue, Inv, TypeOK, Holds, Live
  <2>2. ask' = ask /\ tokens' = tokens /\ pc'[s] = "purge" /\ dropping' = dropping /\ lock' = lock
    BY DEF Issue, Inv, TypeOK
  <2>3. t \notin DOMAIN tokens /\ \A x \in DOMAIN tokens : tokens[x].login # t
    BY <1>6
  <2>4. t \in 1 .. issued' /\ ~adding'[s][t].revoked
    BY <1>0, <1>1
  <2>5. adding'[s][t].login = IF ask[s] = NoToken THEN t ELSE tokens[ask[s]].login
    BY <1>1
  <2>6. \A u \in Sessions \ {s} : t \notin DOMAIN adding'[u]
    BY <1>1, <1>5
  <2>7. Adds(s, t)'
    BY <1>1, <2>2, <2>3, <2>4, <2>5, <2>6 DEF Adds
  <2>. QED BY <1>1, <2>1, <2>2, <2>7 DEF Inv, Writes
<1>9. ASSUME NEW u \in Sessions \ {s} PROVE Holds(u)' /\ Writes(u)'
  <2>1. \A y \in DOMAIN adding[u] :
          /\ y \notin DOMAIN tokens
          /\ \A w \in Sessions \ {u} : y \notin DOMAIN adding'[w]
          /\ ask[u] = NoToken => \A x \in DOMAIN tokens : tokens[x].login # y
    <3> SUFFICES ASSUME NEW y \in DOMAIN adding[u]
                 PROVE  /\ y \notin DOMAIN tokens
                        /\ \A w \in Sessions \ {u} : y \notin DOMAIN adding'[w]
                        /\ ask[u] = NoToken => \A x \in DOMAIN tokens : tokens[x].login # y
      OBVIOUS
    <3>1. Adds(u, y) /\ y # t
      BY <1>5, AddedApart
    <3>. QED BY <1>1, <3>1 DEF Adds
  <2>2. /\ pc'[u] = pc[u] /\ ask'[u] = ask[u] /\ revoking'[u] = revoking[u]
        /\ adding'[u] = adding[u] /\ dropping'[u] = dropping[u]
        /\ lock' = lock /\ tokens' = tokens
    BY <1>1 DEF Issue, Inv, TypeOK
  <2>3. issued' \in Nat /\ issued <= issued'
    BY <1>0, <1>1
  <2>. QED BY <2>1, <2>2, <2>3, Undisturbed DEF Live
<1>10. Numbered'
  BY <1>0, <1>1, <1>2 DEF Numbered, Issue, Row, Tokens, Inv, TypeOK, IsTable
<1>. QED BY <1>7, <1>8, <1>9, <1>10 DEF Inv, OneLiveTokenPerLogin, Live, Issue

\* The table after a session's commit.
LEMMA CommitEffect ==
  ASSUME Inv, NEW s \in Sessions, Commit(s), NEW t \in Tokens, Adds(s, t)
  PROVE  /\ DOMAIN tokens' = (DOMAIN tokens \ dropping[s]) \cup {t}
         /\ tokens'[t] = adding[s][t] /\ tokens'[t] \in Row
         /\ \A x \in DOMAIN tokens \ dropping[s] :
              /\ x # t /\ tokens'[x] \in Row
              /\ tokens'[x].login = tokens[x].login
              /\ tokens'[x].revoked = (tokens[x].revoked \/ x \in revoking[s])
              /\ x \notin revoking[s] => tokens'[x] = tokens[x]
<1>1. DOMAIN adding[s] = {t} /\ t \notin DOMAIN tokens /\ adding[s][t] \in Row
  BY DEF Adds, Inv, TypeOK, IsTable
<1>2. \A x \in DOMAIN tokens : tokens[x] \in Row
  BY DEF Inv, TypeOK, IsTable
<1>3. tokens' =
       [x \in (DOMAIN tokens \ dropping[s]) \cup {t} |->
          IF x \in {t} THEN adding[s][x]
          ELSE [tokens[x] EXCEPT !.revoked = @ \/ x \in revoking[s]]]
  BY <1>1 DEF Commit
<1>4. ASSUME NEW x \in DOMAIN tokens \ dropping[s]
      PROVE  /\ x # t /\ tokens'[x] \in Row
             /\ tokens'[x].login = tokens[x].login
             /\ tokens'[x].revoked = (tokens[x].revoked \/ x \in revoking[s])
             /\ x \notin revoking[s] => tokens'[x] = tokens[x]
  <2>1. x # t /\ tokens'[x] = [tokens[x] EXCEPT !.revoked = @ \/ x \in revoking[s]]
    BY <1>1, <1>3
  <2>2. tokens[x].revoked \in BOOLEAN
    BY <1>2 DEF Row
  <2>. QED BY ZenonT(60), <1>2, <2>1, <2>2 DEF Row
<1>. QED BY <1>1, <1>3, <1>4

\* A commit writes only rows that the session has locked.
LEMMA CommitOwnRows ==
  ASSUME Inv, NEW s \in Sessions, Commit(s)
  PROVE  \A x \in dropping[s] \cup revoking[s] : x \in Tokens /\ lock[x] = s
  BY DEF Inv, TypeOK, Holds, Writes, Commit

LEMMA CommitStep ==
  ASSUME Inv, NEW s \in Sessions, Commit(s)
  PROVE  Inv'
<1>1. PICK t \in Tokens : Adds(s, t)
  BY DEF Inv, Writes, Commit
<1>2. /\ DOMAIN tokens' = (DOMAIN tokens \ dropping[s]) \cup {t}
      /\ tokens'[t] = adding[s][t] /\ tokens'[t] \in Row
      /\ \A x \in DOMAIN tokens \ dropping[s] :
           /\ x # t /\ tokens'[x] \in Row
           /\ tokens'[x].login = tokens[x].login
           /\ tokens'[x].revoked = (tokens[x].revoked \/ x \in revoking[s])
           /\ x \notin revoking[s] => tokens'[x] = tokens[x]
  BY <1>1, CommitEffect
<1>3. /\ t \in 1 .. issued /\ t \notin DOMAIN tokens /\ issued' = issued
      /\ tokens'[t].login = IF ask[s] = NoToken THEN t ELSE tokens[ask[s]].login
      /\ ask[s] = NoToken => \A x \in DOMAIN tokens : tokens[x].login # t
      /\ ask[s] # NoToken => ask[s] \in Live /\ revoking[s] = {ask[s]}
  BY <1>1, <1>2 DEF Adds, Commit, Inv, Holds
<1>4. TypeOK'
  <2>1. IsTable(tokens')
    <3>1. DOMAIN tokens' \subseteq Tokens /\ \A x \in DOMAIN tokens' : tokens'[x] \in Row
      BY <1>2 DEF Inv, TypeOK, IsTable
    <3>2. tokens' = [x \in DOMAIN tokens' |-> tokens'[x]]
      BY DEF Commit
    <3>. QED BY <3>1, <3>2 DEF IsTable
  <2>. QED BY <2>1, CloseType DEF Inv, TypeOK, Commit
<1>5. Holds(s)' /\ Writes(s)'
  BY CloseEffect DEF Inv, Commit, Holds, Writes
<1>6. ASSUME NEW u \in Sessions \ {s} PROVE Holds(u)' /\ Writes(u)'
  <2>1. /\ pc'[u] = pc[u] /\ ask'[u] = ask[u] /\ revoking'[u] = revoking[u]
        /\ adding'[u] = adding[u] /\ dropping'[u] = dropping[u]
    BY CloseEffect DEF Inv, Commit
  <2>2. ASSUME NEW x \in Tokens, lock[x] = u
        PROVE  /\ lock'[x] = u
               /\ x \in Live => x \in DOMAIN tokens' /\ tokens'[x] = tokens[x]
    <3>1. x \notin dropping[s] /\ x \notin revoking[s]
      BY <2>2, CommitOwnRows
    <3>2. lock'[x] = u
      BY <2>2, CloseEffect DEF Inv, Commit
    <3>. QED BY <1>2, <3>1, <3>2 DEF Live
  <2>3. ASSUME NEW y \in DOMAIN adding[u]
        PROVE  /\ y \notin DOMAIN tokens'
               /\ \A w \in Sessions \ {u} : y \notin DOMAIN adding'[w]
               /\ ask[u] = NoToken => \A x \in DOMAIN tokens' : tokens'[x].login # y
    <3>1. Adds(u, y)
      BY AddedApart
    <3>2. y # t
      BY <1>1, <3>1 DEF Adds
    <3>3. y \notin DOMAIN tokens'
      BY <1>2, <3>1, <3>2 DEF Adds
    <3>4. \A w \in Sessions \ {u} : y \notin DOMAIN adding'[w]
      BY <3>1, CloseEffect DEF Adds, Inv, Commit
    <3>5. ask[u] = NoToken => tokens'[t].login # y
      BY <1>3, <3>1, <3>2 DEF Adds, Live
    <3>6. ask[u] = NoToken => \A x \in DOMAIN tokens' : tokens'[x].login # y
      BY <1>2, <3>1, <3>5 DEF Adds
    <3>. QED BY <3>3, <3>4, <3>6
  <2>4. issued' \in Nat /\ issued <= issued'
    BY <1>3 DEF Inv, TypeOK
  <2>. QED BY <2>1, <2>2, <2>3, <2>4, Undisturbed
<1>7. Numbered'
  <2>1. tokens'[t].login <= issued
    BY <1>3 DEF Inv, Numbered, Live
  <2>2. t <= issued
    BY <1>3
  <2>. QED BY <1>2, <1>3, <2>1, <2>2 DEF Inv, Numbered
<1>8. OneLiveTokenPerLogin'
  <2>1. \A x \in Live' \ {t} : x \in Live /\ x \notin revoking[s] /\ tokens'[x].login = tokens[x].login
    BY <1>2 DEF Live
  <2>2. \A x \in Live' \ {t} : tokens'[x].login # tokens'[t].login
    BY <1>3, <2>1 DEF Inv, OneLiveTokenPerLogin, Live
  <2>3. \A x, y \in Live' \ {t} : tokens'[x].login = tokens'[y].login => x = y
    BY <2>1 DEF Inv, OneLiveTokenPerLogin
  <2>. QED BY <2>2, <2>3 DEF OneLiveTokenPerLogin
<1>. QED BY <1>4, <1>5, <1>6, <1>7, <1>8 DEF Inv

LEMMA CommitLogoutStep ==
  ASSUME Inv, NEW s \in Sessions, CommitLogout(s)
  PROVE  Inv'
<1>1. /\ ask[s] \in DOMAIN tokens /\ lock[ask[s]] \in {s, Nobody}
      /\ tokens' = [tokens EXCEPT ![ask[s]].revoked = TRUE]
      /\ issued' = issued /\ pc[s] = "logout"
  BY DEF CommitLogout, CanLock, Needs
<1>2. /\ DOMAIN tokens' = DOMAIN tokens
      /\ \A x \in DOMAIN tokens :
           /\ tokens'[x] \in Row /\ tokens'[x].login = tokens[x].login
           /\ ~tokens'[x].revoked => ~tokens[x].revoked
           /\ x # ask[s] => tokens'[x] = tokens[x]
  BY ZenonT(60), <1>1 DEF Inv, TypeOK, IsTable, Row
<1>3. TypeOK'
  <2>1. IsTable(tokens')
    BY <1>1, <1>2 DEF Inv, TypeOK, IsTable
  <2>. QED BY <2>1, CloseType DEF Inv, TypeOK, CommitLogout
<1>4. Holds(s)' /\ Writes(s)'
  BY CloseEffect DEF Inv, CommitLogout, Holds, Writes
<1>5. ASSUME NEW u \in Sessions \ {s} PROVE Holds(u)' /\ Writes(u)'
  <2>1. \A x \in Tokens : lock[x] = u =>
          lock'[x] = u /\ (x \in Live => x \in DOMAIN tokens' /\ tokens'[x] = tokens[x])
    BY <1>1, <1>2, CloseEffect, AuthAssumption DEF Inv, CommitLogout, Live, AuthAssumption
  <2>2. \A y \in DOMAIN adding[u] :
          /\ y \notin DOMAIN tokens'
          /\ \A w \in Sessions \ {u} : y \notin DOMAIN adding'[w]
          /\ ask[u] = NoToken => \A x \in DOMAIN tokens' : tokens'[x].login # y
    BY <1>2, AddedApart, CloseEffect DEF Adds, Inv, CommitLogout
  <2>3. issued' \in Nat /\ issued <= issued'
    BY <1>1 DEF Inv, TypeOK
  <2>4. /\ pc'[u] = pc[u] /\ ask'[u] = ask[u] /\ revoking'[u] = revoking[u]
        /\ adding'[u] = adding[u] /\ dropping'[u] = dropping[u]
    BY CloseEffect DEF Inv, CommitLogout
  <2>. QED BY <2>1, <2>2, <2>3, <2>4, Undisturbed
<1>6. Numbered' /\ OneLiveTokenPerLogin'
  BY <1>1, <1>2 DEF Inv, Numbered, OneLiveTokenPerLogin, Live
<1>. QED BY <1>3, <1>4, <1>5, <1>6 DEF Inv

-----------------------------------------------------------------------------
(* Tokens of the site: the theorems.                                       *)

LEMMA InvInit == Init => Inv
  BY NoRowsTable, AuthAssumption
  DEF Init, Inv, TypeOK, Holds, Writes, Numbered, OneLiveTokenPerLogin, Live, NoRows,
      AuthAssumption

LEMMA InvStep == Inv /\ [Next]_vars => Inv'
<1> SUFFICES ASSUME Inv, [Next]_vars PROVE Inv'
  OBVIOUS
<1>1. ASSUME NEW s \in Sessions, Serve(s) PROVE Inv'
  <2>1. CASE Unknown(s) \/ StaleLogout(s)
    BY <2>1, CloseStep DEF Unknown, StaleLogout, RollBack, Inv, TypeOK
  <2>2. CASE Refuse(s)
    <3>1. denied' \subseteq Tokens
      BY <2>2 DEF Refuse, Inv, TypeOK
    <3>. QED BY <2>2, <3>1, CloseStep DEF Refuse
  <2>. QED BY <1>1, <2>1, <2>2, RotateStep, ReusedStep, RevokeAllStep, IssueStep,
         PurgeStep, CommitStep, CommitLogoutStep DEF Serve
<1>2. ASSUME NEW s \in Sessions, Fail(s) \/ AbortDeadlock(s) PROVE Inv'
  BY <1>2, CloseStep DEF Fail, AbortDeadlock, RollBack, Inv, TypeOK
<1>3. CASE UNCHANGED vars
  BY <1>3 DEF vars, Inv, TypeOK, Holds, Writes, Adds, Numbered, OneLiveTokenPerLogin, Live
<1>. QED BY <1>1, <1>2, <1>3, BeginStep, TickStep DEF Next

\* The inductive invariant holds in every reachable state.
THEOREM Invariant == Spec => []Inv
  BY InvInit, InvStep, PTL DEF Spec

\* Every reachable state is well typed.
THEOREM TypeCorrect == Spec => []TypeOK
<1>1. Inv => TypeOK
  BY DEF Inv
<1>. QED BY <1>1, Invariant, PTL

\* A login never has two tokens that can still be refreshed.
THEOREM OneLiveToken == Spec => []OneLiveTokenPerLogin
<1>1. Inv => OneLiveTokenPerLogin
  BY DEF Inv
<1>. QED BY <1>1, Invariant, PTL

\* Only a commit brings new tokens.
LEMMA WhoAdds ==
  ASSUME [Next]_vars, NEW t \in DOMAIN tokens' \ DOMAIN tokens
  PROVE  \E s \in Sessions : Commit(s)
<1>1. ~UNCHANGED tokens
  OBVIOUS
<1>2. \A s \in Sessions : ~CommitLogout(s)
  BY DEF CommitLogout
<1>. QED BY <1>1, <1>2 DEF Next, vars, Tick, Begin, Login, Refresh, Logout, Serve, Unknown,
       Rotate, Reused, RevokeAll, Refuse, Issue, Purge, StaleLogout, Fail, AbortDeadlock,
       RollBack

\* A rotation takes the token it starts from out of use in the same commit.
THEOREM RotationsConsume == Spec => RotationsConsumeTheirToken
<1>1. Inv /\ [Next]_vars =>
        \A t \in DOMAIN tokens' \ DOMAIN tokens :
          tokens'[t].login # t =>
            \E p \in Live : /\ tokens[p].login = tokens'[t].login
                            /\ p \in DOMAIN tokens' => tokens'[p].revoked
  <2> SUFFICES ASSUME Inv, [Next]_vars,
                      NEW t \in DOMAIN tokens' \ DOMAIN tokens, tokens'[t].login # t
               PROVE  \E p \in Live : /\ tokens[p].login = tokens'[t].login
                                      /\ p \in DOMAIN tokens' => tokens'[p].revoked
    OBVIOUS
  <2>1. PICK s \in Sessions : Commit(s)
    BY WhoAdds
  <2>2. PICK y \in Tokens : Adds(s, y)
    BY <2>1 DEF Inv, Writes, Commit
  <2>0. /\ DOMAIN tokens' = (DOMAIN tokens \ dropping[s]) \cup {y}
        /\ tokens'[y] = adding[s][y]
        /\ \A x \in DOMAIN tokens \ dropping[s] :
             tokens'[x].revoked = (tokens[x].revoked \/ x \in revoking[s])
    BY <2>1, <2>2, CommitEffect
  <2>3. y = t /\ tokens'[t] = adding[s][t]
    BY <2>0
  <2>4. ask[s] \in Live /\ revoking[s] = {ask[s]} /\ tokens[ask[s]].login = tokens'[t].login
    BY <2>1, <2>2, <2>3 DEF Adds, Inv, Holds, Commit
  <2>5. ask[s] \in DOMAIN tokens' => tokens'[ask[s]].revoked
    BY <2>0, <2>2, <2>4 DEF Adds, Live
  <2>. QED BY <2>4, <2>5
<1>. QED BY <1>1, Invariant, PTL DEF Spec, RotationsConsumeTheirToken

-----------------------------------------------------------------------------
(* The connections of the assistant: the inductive invariant.              *)

Verdicts == [cause : Causes, scopes : SUBSET AllScopes]

Token == [connection : DOMAIN opened, expires : Nat \cup {None}]

Request ==
  [phase : {"idle", "asking", "told", "calling"}, pair : given \cup {None}, at : Nat,
   answer : Verdicts]

\* The types of the variables: every token that was given is of a connection.
AccessTypes ==
  /\ moment \in Nat
  /\ scopes \in [DOMAIN opened -> SUBSET AllScopes]
  /\ endedAt \in [ended -> 0 .. moment]
  /\ closedAt \in 0 .. moment \cup {None}
  /\ access \in [given -> Token]
  /\ DOMAIN memory \subseteq given
  /\ memory \in [DOMAIN memory -> [until : Nat, answer : Verdicts]]
  /\ requests \in [Requests -> Request]

\* The token had not come to an end before that time.
LastedUntil(p, time) == \A end \in Ends(p) : time <= end

\* The answer about a token was right at that time, and what it has against the
\* token is so for good.
Stands(answer, p, time) ==
  /\ time <= moment
  /\ "read" \in answer.scopes => LastedUntil(p, time)
  /\ answer.cause = "token" => ~Good(p)

Remembered ==
  \A p \in DOMAIN memory : Stands(memory[p].answer, p, memory[p].until - CacheSeconds)

Asking ==
  \A r \in Requests :
    /\ requests[r].phase \in {"asking", "told", "calling"} => requests[r].pair \in given
    /\ requests[r].phase = "asking" => requests[r].at <= moment
    /\ requests[r].phase = "told" =>
         Stands(requests[r].answer, requests[r].pair, requests[r].at)

AccessInv == AccessTypes /\ Remembered /\ Asking

-----------------------------------------------------------------------------
(* Connections and time: what has been given stays as it is, and an end is *)
(* never put back.                                                         *)

\* The owner never grants a scope that there is not.
LEMMA GrantedType ==
  ASSUME AccessTypes, NEW c, Granted(c), DOMAIN opened' = DOMAIN opened \cup {c}
  PROVE  scopes' \in [DOMAIN opened' -> SUBSET AllScopes]
<1>1. PICK ticked \in SUBSET AllScopes :
        scopes' = [d \in DOMAIN scopes \cup {c} |->
                     IF d = c THEN Normalized(ticked) ELSE scopes[d]]
  BY DEF Granted
<1>2. Normalized(ticked) \in SUBSET AllScopes
  BY DEF Normalized, AllScopes
<1>. QED BY <1>1, <1>2 DEF AccessTypes

\* A new token is of its connection, and the others are as they were.
LEMMA IssuedType ==
  ASSUME AccessTypes, NEW c, NEW p, Issued(c, p), p \notin given, given' = given \cup {p},
         DOMAIN opened' = DOMAIN opened \cup {c}
  PROVE  /\ access' \in [given' -> Token']
         /\ \A q \in given : access'[q] = access[q]
<1>1. (IF c \in Personal THEN None ELSE moment + AccessLifetime) \in Nat \cup {None}
  BY AccessAssumption DEF AccessAssumption, AccessTypes
<1>. QED BY <1>1 DEF AccessTypes, Issued, Token

\* Ends of a token are numbers.
LEMMA EndsType ==
  ASSUME AccessTypes, NEW p \in given
  PROVE  Ends(p) \subseteq Nat
BY DEF Ends, AccessTypes, Token

\* What a step of the moment, of the owner or of an authorization request leaves
\* as it was.
Onward ==
  /\ moment' \in Nat /\ moment <= moment'
  /\ given \subseteq given'
  /\ \A p \in given : access'[p] = access[p]
  /\ ended \subseteq ended'
  /\ \A c \in ended : endedAt'[c] = endedAt[c]
  /\ \A c \in ended' \ ended : endedAt'[c] = moment
  /\ closedAt' = closedAt \/ (closedAt = None /\ closedAt' = moment)

\* A token that has come to an end stays so, and one that has lasted until some
\* time does not come to an end before it.
LEMMA NothingPutBack ==
  ASSUME AccessTypes, Onward, NEW p \in given
  PROVE  /\ Good(p)' => Good(p)
         /\ \A time \in Int : time <= moment /\ LastedUntil(p, time) => LastedUntil(p, time)'
<1>1. access'[p] = access[p] /\ access[p] \in Token
  BY DEF Onward, AccessTypes
<1>2. Good(p)' => Good(p)
  BY <1>1, AccessAssumption DEF AccessAssumption, Good, Authentic, Onward, AccessTypes, Token
<1>3. ASSUME NEW time \in Int, time <= moment, LastedUntil(p, time), NEW end \in Ends(p)'
      PROVE  time <= end
  <2> DEFINE c == access[p].connection
  <2>1. CASE end \in Ends(p)
    BY <1>3, <2>1 DEF LastedUntil
  <2>2. CASE end \notin Ends(p)
    <3>1. \/ c \in ended' /\ end = endedAt'[c]
          \/ end = closedAt' /\ end # None
      BY <1>1, <2>2 DEF Ends, Onward
    <3>2. CASE c \in ended' /\ end = endedAt'[c]
      <4>1. c \notin ended
        BY <2>2, <3>2 DEF Ends, Onward
      <4>. QED BY <1>3, <3>2, <4>1 DEF Onward
    <3>3. CASE end = closedAt' /\ end # None
      <4>1. closedAt' # closedAt
        BY <2>2, <3>3 DEF Ends
      <4>. QED BY <1>3, <3>3, <4>1 DEF Onward
    <3>. QED BY <3>1, <3>2, <3>3
  <2>. QED BY <2>1, <2>2
<1>. QED BY <1>2, <1>3 DEF LastedUntil

\* An answer stands whatever comes after it.
LEMMA StandsOn ==
  ASSUME AccessTypes, Onward, NEW p \in given, NEW answer, NEW time \in Int,
         Stands(answer, p, time)
  PROVE  Stands(answer, p, time)'
<1>1. time <= moment'
  BY DEF Stands, Onward, AccessTypes
<1>. QED BY <1>1, NothingPutBack DEF Stands

\* Such steps keep what the gate knows, and what it is at.
LEMMA OnwardKeeps ==
  ASSUME AccessInv, Onward, UNCHANGED <<memory, requests>>
  PROVE  Remembered' /\ Asking'
<1>1. Remembered'
  <2> SUFFICES ASSUME NEW p \in DOMAIN memory
               PROVE  Stands(memory[p].answer, p, memory[p].until - CacheSeconds)'
    BY DEF Remembered
  <2>1. p \in given /\ memory[p].until - CacheSeconds \in Int
    BY AccessAssumption DEF AccessAssumption, AccessInv, AccessTypes
  <2>2. Stands(memory[p].answer, p, memory[p].until - CacheSeconds)
    BY DEF AccessInv, Remembered
  <2>. QED BY <2>1, <2>2, StandsOn DEF AccessInv, Stands
<1>2. Asking'
  <2> SUFFICES ASSUME NEW r \in Requests
               PROVE  /\ requests[r].phase \in {"asking", "told", "calling"} =>
                           requests[r].pair \in given'
                      /\ requests[r].phase = "asking" => requests[r].at <= moment'
                      /\ requests[r].phase = "told" =>
                           Stands(requests[r].answer, requests[r].pair, requests[r].at)'
    BY DEF Asking, Stands
  <2>1. requests[r] \in Request
    BY DEF AccessInv, AccessTypes
  <2>2. requests[r].phase \in {"asking", "told", "calling"} => requests[r].pair \in given'
    BY DEF AccessInv, Asking, Onward
  <2>3. requests[r].phase = "asking" => requests[r].at <= moment'
    BY <2>1 DEF AccessInv, Asking, Onward, AccessTypes, Request
  <2>4. ASSUME requests[r].phase = "told"
        PROVE  Stands(requests[r].answer, requests[r].pair, requests[r].at)'
    <3>1. /\ requests[r].pair \in given
          /\ requests[r].at \in Int
          /\ Stands(requests[r].answer, requests[r].pair, requests[r].at)
      BY <2>1, <2>4 DEF AccessInv, Asking, Request
    <3>. QED BY <3>1, StandsOn DEF AccessInv, Stands
  <2>. QED BY <2>2, <2>3, <2>4
<1>. QED BY <1>1, <1>2

\* The steps of the owner, of authorization and of the moment.
LEMMA ConsentKeeps ==
  ASSUME AccessInv, NEW c \in Connections, NEW p \in Pairs, Consent(c, p)
  PROVE  AccessInv'
<1>1. /\ DOMAIN opened' = DOMAIN opened \cup {c}
      /\ p \notin given /\ given' = given \cup {p} /\ ended' = ended
      /\ Granted(c) /\ Issued(c, p)
      /\ UNCHANGED <<moment, endedAt, closedAt, hits, memory, requests>>
  BY DEF Consent, Open
<1>2. AccessTypes /\ AccessTypes'
  BY <1>1, GrantedType, IssuedType DEF AccessInv, AccessTypes, Request
<1>3. Onward
  BY <1>1, <1>2, IssuedType DEF Onward, AccessTypes
<1>. QED BY <1>1, <1>2, <1>3, OnwardKeeps DEF AccessInv

LEMMA PersonalKeeps ==
  ASSUME AccessInv, NEW c \in Connections, NEW p \in Pairs, CreatePersonalToken(c, p)
  PROVE  AccessInv'
<1>1. /\ DOMAIN opened' = DOMAIN opened \cup {c}
      /\ p \notin given /\ given' = given \cup {p} /\ ended' = ended
      /\ Granted(c) /\ Issued(c, p)
      /\ UNCHANGED <<moment, endedAt, closedAt, hits, memory, requests>>
  BY DEF CreatePersonalToken
<1>2. AccessTypes /\ AccessTypes'
  BY <1>1, GrantedType, IssuedType DEF AccessInv, AccessTypes, Request
<1>3. Onward
  BY <1>1, <1>2, IssuedType DEF Onward, AccessTypes
<1>. QED BY <1>1, <1>2, <1>3, OnwardKeeps DEF AccessInv

LEMMA RefreshKeeps ==
  ASSUME AccessInv, NEW c \in Connections, NEW p \in Pairs, RefreshPair(c, p)
  PROVE  AccessInv'
<1>1. /\ DOMAIN opened' = DOMAIN opened \cup {c} /\ DOMAIN opened' = DOMAIN opened
      /\ p \notin given /\ given' = given \cup {p} /\ ended' = ended
      /\ Issued(c, p)
      /\ UNCHANGED <<moment, scopes, endedAt, closedAt, hits, memory, requests>>
  BY DEF RefreshPair, Renew
<1>2. AccessTypes /\ AccessTypes'
  BY <1>1, IssuedType DEF AccessInv, AccessTypes, Request
<1>3. Onward
  BY <1>1, <1>2, IssuedType DEF Onward, AccessTypes
<1>. QED BY <1>1, <1>2, <1>3, OnwardKeeps DEF AccessInv

LEMMA RevokeKeeps ==
  ASSUME AccessInv, NEW c \in Connections, Revoke(c)
  PROVE  AccessInv'
<1>1. /\ UNCHANGED <<opened, given, moment, scopes, closedAt, access, hits, memory, requests>>
      /\ ended' = ended \cup {c} /\ c \notin ended
      /\ endedAt' = [d \in ended' |-> IF d = c THEN moment ELSE endedAt[d]]
  BY DEF Revoke, End
<1>2. AccessTypes /\ AccessTypes'
  BY <1>1 DEF AccessInv, AccessTypes, Request, Token
<1>3. Onward
  BY <1>1, <1>2 DEF Onward, AccessTypes
<1>. QED BY <1>1, <1>2, <1>3, OnwardKeeps DEF AccessInv

LEMMA CloseKeeps ==
  ASSUME AccessInv, CloseAccount
  PROVE  AccessInv'
<1>1. /\ closedAt = None /\ closedAt' = moment
      /\ UNCHANGED <<grants, moment, scopes, endedAt, access, memory, requests>>
  BY DEF CloseAccount
<1>2. AccessTypes /\ AccessTypes'
  BY <1>1 DEF AccessInv, AccessTypes, Request, Token, grants
<1>3. Onward
  BY <1>1, <1>2 DEF Onward, AccessTypes, grants
<1>. QED BY <1>1, <1>2, <1>3, OnwardKeeps DEF AccessInv

LEMMA TickKeeps ==
  ASSUME AccessInv, MomentPasses
  PROVE  AccessInv'
<1>1. moment' = moment + 1 /\ UNCHANGED <<accessRows, memory, requests>>
  BY DEF MomentPasses
<1>2. AccessTypes /\ AccessTypes'
  BY <1>1 DEF accessRows, AccessInv, AccessTypes, Request, Token, grants
<1>3. Onward
  BY <1>1, <1>2 DEF accessRows, Onward, AccessTypes, grants
<1>. QED BY <1>1, <1>2, <1>3, OnwardKeeps DEF AccessInv

-----------------------------------------------------------------------------
(* Answers.                                                                *)

\* The site's answer about a token at this moment.
LEMMA WhoamiRoute ==
  Whoami \in Routes /\ Whoami.area = "whoami"
<1>1. [area |-> "whoami", method |-> "read"] \in Routes
  BY DEF Routes, Areas, Methods
<1>. QED BY <1>1 DEF Whoami

\* It refuses the question whose a token is for the token alone, or because of
\* the limit.
LEMMA AnswerStands ==
  ASSUME AccessTypes, NEW p \in given, NEW status \in Statuses,
         SiteAnswers(p, Whoami, status)
  PROVE  Understood(p, status) \in Verdicts /\ Stands(Understood(p, status), p, moment)
<1>1. access[p] \in Token /\ scopes[access[p].connection] \in SUBSET AllScopes
  BY DEF AccessTypes, Token
<1>2. Understood(p, status) \in Verdicts
  BY <1>1 DEF Understood, Identity, Refusal, Verdicts, Causes
<1>3. PassesGuard(Whoami) /\ Admission(p, Whoami) = IF Good(p) THEN 200 ELSE 401
  BY WhoamiRoute DEF PassesGuard, Admission, Denied
<1>4. \/ Good(p) /\ status = 200
      \/ ~Good(p) /\ status = 401
      \/ status = 429
  <2>1. CASE ~Authentic(p)
    BY <1>3, <2>1 DEF SiteAnswers, Good
  <2>2. CASE Authentic(p) /\ ~WithinLimit(access[p].connection)
    BY <1>3, <2>2 DEF SiteAnswers
  <2>3. CASE Authentic(p) /\ WithinLimit(access[p].connection)
    BY <1>3, <2>3 DEF SiteAnswers
  <2>. QED BY <2>1, <2>2, <2>3
<1>5. Good(p) => LastedUntil(p, moment)
  BY <1>1, AccessAssumption
  DEF AccessAssumption, Good, Authentic, LastedUntil, Ends, AccessTypes, Token
<1>6. /\ "read" \in Understood(p, status).scopes => Good(p)
      /\ Understood(p, status).cause = "token" => ~Good(p)
  BY <1>4 DEF Understood, Identity, Refusal
<1>. QED BY <1>2, <1>5, <1>6 DEF Stands, AccessTypes

-----------------------------------------------------------------------------
(* Steps of the site and of the gate.                                      *)

Unmoved == UNCHANGED <<accessRows, moment>>

\* They change nothing that an answer is about.
LEMMA StandsStill ==
  ASSUME Unmoved, NEW answer, NEW p, NEW time
  PROVE  Stands(answer, p, time)' <=> Stands(answer, p, time)
BY DEF Unmoved, accessRows, grants, Stands, LastedUntil, Ends, Good, Authentic

LEMMA TypesStill ==
  ASSUME AccessTypes, Unmoved,
         DOMAIN memory' \subseteq given,
         memory' \in [DOMAIN memory' -> [until : Nat, answer : Verdicts]],
         requests' \in [Requests -> Request]
  PROVE  AccessTypes'
BY DEF AccessTypes, Unmoved, accessRows, grants, Token, Request

LEMMA AskSiteKeeps ==
  ASSUME AccessInv, NEW p \in given, NEW route \in Tried, AskSite(p, route)
  PROVE  AccessInv'
<1>1. Unmoved /\ UNCHANGED <<memory, requests>>
  BY DEF AskSite, Unmoved
<1>2. AccessTypes'
  BY <1>1, TypesStill DEF AccessInv, AccessTypes
<1>3. Onward
  BY <1>1 DEF Onward, Unmoved, accessRows, grants, AccessInv, AccessTypes
<1>. QED BY <1>1, <1>2, <1>3, OnwardKeeps DEF AccessInv

LEMMA IdleType == Idle \in Request /\ Idle.phase = "idle"
BY DEF Idle, Request, NoAnswer, Identity, Verdicts, Causes

\* The request that a step is about is in order, the others as they were.
LEMMA RequestsStill ==
  ASSUME AccessInv, Unmoved, NEW r \in Requests, NEW request \in Request,
         requests' = [requests EXCEPT ![r] = request],
         request.phase \in {"asking", "told", "calling"} => request.pair \in given,
         request.phase = "asking" => request.at <= moment,
         request.phase = "told" => Stands(request.answer, request.pair, request.at)
  PROVE  requests' \in [Requests -> Request] /\ Asking'
<1>1. requests' \in [Requests -> Request]
  BY DEF AccessInv, AccessTypes
<1>2. requests'[r] = request /\ \A t \in Requests \ {r} : requests'[t] = requests[t]
  BY DEF AccessInv, AccessTypes
<1>3. moment' = moment /\ given' = given
  BY DEF Unmoved, accessRows, grants
<1>4. ASSUME NEW t \in Requests
      PROVE  /\ requests'[t].phase \in {"asking", "told", "calling"} =>
                  requests'[t].pair \in given'
             /\ requests'[t].phase = "asking" => requests'[t].at <= moment'
             /\ requests'[t].phase = "told" =>
                  Stands(requests'[t].answer, requests'[t].pair, requests'[t].at)
  BY <1>2, <1>3 DEF AccessInv, Asking
<1>5. ASSUME NEW t \in Requests, requests'[t].phase = "told"
      PROVE  Stands(requests[t].answer, requests[t].pair, requests[t].at)'
  BY <1>4, <1>5, StandsStill
<1>. QED BY <1>1, <1>4, <1>5 DEF Asking, Stands

\* What the answer decides is in order.
LEMMA DecidedType ==
  ASSUME AccessInv, Unmoved, NEW r \in Requests, NEW p \in given, NEW answer \in Verdicts,
         Decided(r, p, answer)
  PROVE  requests' \in [Requests -> Request] /\ Asking'
<1>1. CASE "read" \notin answer.scopes
  BY <1>1, IdleType, RequestsStill DEF Decided
<1>2. CASE "read" \in answer.scopes
  <2> DEFINE request == [Idle EXCEPT !.phase = "calling", !.pair = p, !.answer = answer]
  <2>1. request \in Request /\ request.phase = "calling" /\ request.pair = p
    BY DEF Idle, Request
  <2>2. requests' = [requests EXCEPT ![r] = request]
    BY <1>2 DEF Decided
  <2>. HIDE DEF request
  <2>. QED BY <2>1, <2>2, RequestsStill
<1>. QED BY <1>1, <1>2

LEMMA IdentifyKeeps ==
  ASSUME AccessInv, NEW r \in Requests, NEW p \in given, Identify(r, p)
  PROVE  AccessInv'
<1>1. Unmoved /\ memory' = memory
  BY DEF Identify, Unmoved
<1>2. requests' \in [Requests -> Request] /\ Asking'
  <2>1. CASE p \in DOMAIN memory /\ memory[p].until > moment
    <3>1. Decided(r, p, memory[p].answer) /\ memory[p].answer \in Verdicts
      BY <2>1 DEF Identify, AccessInv, AccessTypes
    <3>. QED BY <1>1, <3>1, DecidedType
  <2>2. CASE ~(p \in DOMAIN memory /\ memory[p].until > moment)
    <3> DEFINE request == [Idle EXCEPT !.phase = "asking", !.pair = p, !.at = moment]
    <3>1. /\ request \in Request /\ request.phase = "asking" /\ request.pair = p
          /\ request.at = moment
      BY DEF Idle, Request, NoAnswer, Identity, Verdicts, Causes, AccessInv, AccessTypes
    <3>2. requests' = [requests EXCEPT ![r] = request]
      BY <2>2 DEF Identify
    <3>3. moment <= moment
      BY DEF AccessInv, AccessTypes
    <3>. HIDE DEF request
    <3>. QED BY <1>1, <3>1, <3>2, <3>3, RequestsStill
  <2>. QED BY <2>1, <2>2
<1>3. AccessTypes'
  BY <1>1, <1>2, TypesStill DEF AccessInv, AccessTypes
<1>4. Remembered'
  BY <1>1, StandsStill DEF AccessInv, Remembered
<1>. QED BY <1>2, <1>3, <1>4 DEF AccessInv

\* The gate hears an answer that is right as it comes.
LEMMA ToldKeeps ==
  ASSUME AccessInv, NEW r \in Requests, requests[r].phase = "asking",
         NEW answer \in Verdicts, Stands(answer, requests[r].pair, moment), Told(r, answer)
  PROVE  AccessInv'
<1> DEFINE p == requests[r].pair
<1>1. Unmoved /\ memory' = memory
  BY DEF Told, Unmoved
<1>2. requests' = [requests EXCEPT ![r].phase = "told", ![r].answer = answer]
  BY DEF Told
<1>3. requests[r] \in Request /\ p \in given /\ requests[r].at <= moment
  BY DEF AccessInv, AccessTypes, Asking
<1>4. Stands(answer, p, requests[r].at)
  <2>1. \A end \in Ends(p) : moment <= end => requests[r].at <= end
    BY <1>3, EndsType DEF AccessInv, AccessTypes, Request
  <2>. QED BY <1>3, <2>1 DEF Stands, LastedUntil
<1> DEFINE request == [requests[r] EXCEPT !.phase = "told", !.answer = answer]
<1>5. requests' = [requests EXCEPT ![r] = request]
  BY <1>2
<1>6. /\ request \in Request /\ request.phase = "told" /\ request.pair = p
      /\ request.at = requests[r].at /\ request.answer = answer
  BY <1>3 DEF Request
<1>7. requests' \in [Requests -> Request] /\ Asking'
  <2>. HIDE DEF request, p
  <2>. QED BY <1>1, <1>3, <1>4, <1>5, <1>6, RequestsStill
<1>8. AccessTypes'
  BY <1>1, <1>7, TypesStill DEF AccessInv, AccessTypes
<1>9. Remembered'
  BY <1>1, StandsStill DEF AccessInv, Remembered
<1>. QED BY <1>7, <1>8, <1>9 DEF AccessInv

LEMMA SiteSaysWhoKeeps ==
  ASSUME AccessInv, NEW r \in Requests, SiteSaysWho(r)
  PROVE  AccessInv'
<1>1. PICK status \in Statuses :
        /\ SiteAnswers(requests[r].pair, Whoami, status)
        /\ Told(r, Understood(requests[r].pair, status))
  BY DEF SiteSaysWho
<1>2. requests[r].phase = "asking" /\ requests[r].pair \in given
  BY DEF SiteSaysWho, AccessInv, Asking
<1>3. /\ Understood(requests[r].pair, status) \in Verdicts
      /\ Stands(Understood(requests[r].pair, status), requests[r].pair, moment)
  BY <1>1, <1>2, AnswerStands DEF AccessInv
<1>. QED BY <1>1, <1>2, <1>3, ToldKeeps

LEMMA UnreadableKeeps ==
  ASSUME AccessInv, NEW r \in Requests, Unreadable(r)
  PROVE  AccessInv'
<1>1. Refusal("other") \in Verdicts
  BY DEF Refusal, Verdicts, Causes
<1>2. Stands(Refusal("other"), requests[r].pair, moment)
  BY DEF Stands, Refusal, AccessInv, AccessTypes
<1>. QED BY <1>1, <1>2, ToldKeeps DEF Unreadable

LEMMA RememberKeeps ==
  ASSUME AccessInv, NEW r \in Requests, Remember(r)
  PROVE  AccessInv'
<1> DEFINE request == requests[r]
           p == request.pair
           new == [until |-> request.at + CacheSeconds, answer |-> request.answer]
<1>1. Unmoved
  BY DEF Remember, Unmoved
<1>2. /\ request \in Request /\ p \in given
      /\ Stands(request.answer, p, request.at)
      /\ Decided(r, p, request.answer)
      /\ memory' = Stored(p, request.at, request.answer)
  BY DEF Remember, AccessInv, AccessTypes, Asking
<1>3. DOMAIN RoomAt(request.at) \subseteq DOMAIN memory
  BY DEF RoomAt
<1>4. /\ DOMAIN memory' \subseteq DOMAIN memory \cup {p}
      /\ memory' = [q \in DOMAIN memory' |-> IF q = p THEN new ELSE memory[q]]
  BY <1>2, <1>3 DEF Stored
<1>5. new \in [until : Nat, answer : Verdicts] /\ new.until - CacheSeconds = request.at
  BY <1>2, AccessAssumption DEF AccessAssumption, Request
<1>6. /\ DOMAIN memory' \subseteq given
      /\ memory' \in [DOMAIN memory' -> [until : Nat, answer : Verdicts]]
  <2>. HIDE DEF new
  <2>. QED BY <1>2, <1>4, <1>5 DEF AccessInv, AccessTypes
<1>7. requests' \in [Requests -> Request] /\ Asking'
  BY <1>1, <1>2, DecidedType DEF Request
<1>8. AccessTypes'
  BY <1>1, <1>6, <1>7, TypesStill DEF AccessInv
<1>9. Remembered'
  <2> SUFFICES ASSUME NEW q \in DOMAIN memory'
               PROVE  Stands(memory'[q].answer, q, memory'[q].until - CacheSeconds)
    BY <1>1, StandsStill DEF Remembered
  <2>1. CASE q = p
    <3>1. memory'[q] = new /\ new.answer = request.answer
      BY <1>4, <2>1
    <3>. QED BY <1>2, <1>5, <2>1, <3>1
  <2>2. CASE q # p
    BY <1>4, <2>2 DEF AccessInv, Remembered
  <2>. QED BY <2>1, <2>2
<1>. QED BY <1>7, <1>8, <1>9 DEF AccessInv

\* Steps after which a request is over, and the memory has nothing new.
LEMMA OverKeeps ==
  ASSUME AccessInv, Unmoved, NEW r \in Requests, requests' = [requests EXCEPT ![r] = Idle],
         NEW S, S \subseteq DOMAIN memory, memory' = [q \in S |-> memory[q]]
  PROVE  AccessInv'
<1>1. requests' \in [Requests -> Request] /\ Asking'
  BY IdleType, RequestsStill
<1>2. AccessTypes'
  BY <1>1, TypesStill DEF AccessInv, AccessTypes
<1>3. Remembered'
  BY StandsStill DEF AccessInv, Remembered
<1>. QED BY <1>1, <1>2, <1>3 DEF AccessInv

LEMMA ServeKeeps ==
  ASSUME AccessInv, NEW r \in Requests, ServeRequest(r)
  PROVE  AccessInv'
<1>1. CASE \E p \in given : Identify(r, p)
  BY <1>1, IdentifyKeeps
<1>2. CASE SiteSaysWho(r) \/ Unreadable(r)
  BY <1>2, SiteSaysWhoKeeps, UnreadableKeeps
<1>3. CASE Remember(r)
  BY <1>3, RememberKeeps
<1>4. CASE Unanswered(r) \/ Leave(r)
  <2>1. memory' = [q \in DOMAIN memory |-> memory[q]]
    BY <1>4 DEF Unanswered, Leave, AccessInv, AccessTypes
  <2>2. Unmoved /\ requests' = [requests EXCEPT ![r] = Idle]
    BY <1>4 DEF Unanswered, Leave, Unmoved
  <2>. QED BY <2>1, <2>2, OverKeeps
<1>5. CASE \E route \in Routes : CallTool(r, route)
  <2>1. PICK route \in Routes : CallTool(r, route)
    BY <1>5
  <2>2. \E S \in SUBSET DOMAIN memory : memory' = [q \in S |-> memory[q]]
    BY <2>1 DEF CallTool
  <2>3. Unmoved /\ requests' = [requests EXCEPT ![r] = Idle]
    BY <2>1 DEF CallTool, Unmoved
  <2>. QED BY <2>2, <2>3, OverKeeps
<1>. QED BY <1>1, <1>2, <1>3, <1>4, <1>5 DEF ServeRequest

LEMMA AccessInvariance == AccessSpec => []AccessInv
<1>1. AccessInit => AccessInv
  BY IdleType
  DEF AccessInit, NoGrants, AccessInv, AccessTypes, Remembered, Asking, Token
<1>2. ASSUME AccessInv, [AccessNext]_accessVars
      PROVE  AccessInv'
  <2>1. CASE UNCHANGED accessVars
    <3>1. /\ UNCHANGED <<opened, given, ended, moment, scopes, endedAt, closedAt, access>>
          /\ UNCHANGED <<memory, requests>>
      BY <2>1 DEF accessVars, grants
    <3>2. Onward
      BY <1>2, <3>1 DEF Onward, AccessInv, AccessTypes
    <3>3. AccessTypes'
      BY <1>2, <3>1 DEF AccessInv, AccessTypes, Token, Request
    <3>. QED BY <1>2, <3>1, <3>2, <3>3, OnwardKeeps DEF AccessInv
  <2>2. CASE Connect
    BY <1>2, <2>2, ConsentKeeps, PersonalKeeps, RefreshKeeps, RevokeKeeps, CloseKeeps
    DEF Connect
  <2>3. CASE \E p \in given, route \in Tried : AskSite(p, route)
    BY <1>2, <2>3, AskSiteKeeps
  <2>4. CASE \E r \in Requests : ServeRequest(r)
    BY <1>2, <2>4, ServeKeeps
  <2>5. CASE MomentPasses
    BY <1>2, <2>5, TickKeeps
  <2>. QED BY <1>2, <2>1, <2>2, <2>3, <2>4, <2>5 DEF AccessNext
<1>. QED BY <1>1, <1>2, PTL DEF AccessSpec

-----------------------------------------------------------------------------
(* The connections of the assistant: the theorems.                         *)

\* An assistant with a token that is good is never refused for the token's sake, of
\* whatever the gate remembers or is about to hear: only for its limit, for another
\* server's sake, or for an answer that says nothing.
THEOREM Refusals == AccessSpec => []RefusedForACause
<1>1. AccessInv => RefusedForACause
  <2> SUFFICES ASSUME AccessInv, NEW p \in DOMAIN access, Good(p), NEW answer \in AnswersAbout(p)
               PROVE  answer.cause # "token"
    BY DEF RefusedForACause
  <2>1. CASE p \in DOMAIN memory /\ answer = memory[p].answer
    BY <2>1 DEF AccessInv, Remembered, Stands
  <2>2. CASE \E r \in Requests : /\ requests[r].pair = p /\ requests[r].phase = "told"
                                  /\ answer = requests[r].answer
    BY <2>2 DEF AccessInv, Asking, Stands
  <2>. QED BY <2>1, <2>2 DEF AnswersAbout
<1>. QED BY <1>1, AccessInvariance, PTL

\* A token that has come to an end opens the MCP server for as long as an answer
\* is remembered or on its way, whichever requests overlap, and no longer.
THEOREM Revocations == AccessSpec => RevocationRunsOut
<1>1. ASSUME AccessInv, [AccessNext]_accessVars, NEW r \in Requests,
             requests'[r].phase = "calling", requests[r].phase # "calling",
             NEW end \in Ends(requests'[r].pair)
      PROVE  moment <= end + Staleness
  <2>1. /\ moment \in Nat /\ Patience \in Nat /\ CacheSeconds \in Nat
        /\ Patience <= Staleness /\ CacheSeconds <= Staleness /\ Staleness \in Nat
    BY <1>1, AccessAssumption DEF AccessAssumption, AccessInv, AccessTypes, Staleness
  <2>2. PICK t \in Requests : ServeRequest(t)
    BY <1>1 DEF AccessNext, accessVars, Connect, Consent, CreatePersonalToken, RefreshPair, Revoke,
                CloseAccount, AskSite, MomentPasses
  <2>3. DOMAIN requests = Requests
    BY <1>1 DEF AccessInv, AccessTypes
  <2>4. CASE \E p \in given : Identify(t, p)
    <3>1. PICK p \in given : Identify(t, p)
      BY <2>4
    <3>2. t = r /\ p \in DOMAIN memory /\ memory[p].until > moment
      BY <1>1, <2>3, <3>1 DEF Identify, Decided, Idle
    <3>3. "read" \in memory[p].answer.scopes /\ requests'[r].pair = p
      BY <1>1, <2>3, <3>1, <3>2 DEF Identify, Decided, Idle
    <3>4. end \in Nat /\ memory[p].until \in Nat /\ memory[p].until - CacheSeconds <= end
      BY <1>1, <3>2, <3>3, EndsType DEF AccessInv, AccessTypes, Remembered, Stands, LastedUntil
    <3>. QED BY <2>1, <3>2, <3>4
  <2>5. CASE Remember(t)
    <3>1. t = r /\ requests[r].phase = "told" /\ moment <= requests[r].at + Patience
      BY <1>1, <2>3, <2>5 DEF Remember, Decided
    <3>2. "read" \in requests[r].answer.scopes /\ requests'[r].pair = requests[r].pair
      BY <1>1, <2>3, <2>5, <3>1 DEF Remember, Decided, Idle
    <3>3. requests[r] \in Request /\ requests[r].pair \in given
      BY <1>1, <3>1 DEF AccessInv, AccessTypes, Asking
    <3>4. end \in Nat /\ requests[r].at \in Nat /\ requests[r].at <= end
      BY <1>1, <3>1, <3>2, <3>3, EndsType DEF AccessInv, Asking, Stands, LastedUntil, Request
    <3>. QED BY <2>1, <3>1, <3>4
  <2>6. CASE SiteSaysWho(t) \/ Unreadable(t)
    BY <1>1, <2>3, <2>6 DEF SiteSaysWho, Unreadable, Told, AccessInv, AccessTypes, Request
  <2>7. CASE Unanswered(t) \/ Leave(t) \/ \E route \in Routes : CallTool(t, route)
    BY <1>1, <2>3, <2>7 DEF Unanswered, Leave, CallTool, Idle
  <2>. QED BY <2>2, <2>4, <2>5, <2>6, <2>7 DEF ServeRequest
<1>2. AccessInv /\ [AccessNext]_accessVars =>
        \A r \in Requests :
          LET request == requests'[r] IN
          request.phase = "calling" /\ requests[r].phase # "calling" =>
            \A end \in Ends(request.pair) : moment <= end + Staleness
  BY <1>1
<1>. QED BY <1>2, AccessInvariance, PTL DEF RevocationRunsOut, AccessSpec
=============================================================================
