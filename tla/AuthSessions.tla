---------------------------- MODULE AuthSessions ----------------------------
(***************************************************************************)
(* Refresh tokens of the web application (backend/app/domains/auth):       *)
(* login, refresh with rotation, logout, and the purge of expired tokens   *)
(* that every login and refresh ends with.                                 *)
(*                                                                         *)
(* A request is served in a database session of its own.  A step is one    *)
(* SQL statement, with the row locks it takes: get_refresh_token's FOR     *)
(* UPDATE, and those of UPDATE and DELETE, all kept until the session      *)
(* commits or rolls back.  A statement that needs a locked row waits.      *)
(*                                                                         *)
(* Presenting an expired token to refresh is answered by decode_token      *)
(* without a statement, and logging out with a token that is unknown or    *)
(* revoked writes nothing: neither is a step here.                         *)
(***************************************************************************)
EXTENDS Integers, FiniteSets

CONSTANTS
  Users,      \* user ids
  MaxTokens,  \* bound on the tokens that a run issues
  Sessions,   \* database sessions; each serves one request at a time
  Lifetime,   \* refresh_token_expire_days
  MaxTime,    \* bound on the clock
  NoToken,    \* no token presented: a login
  Nobody      \* no session, no user

\* Refresh tokens, in the order of their issue.
Tokens == 1 .. MaxTokens

ASSUME AuthAssumption ==
  /\ MaxTokens \in Nat
  /\ IsFiniteSet(Sessions)
  /\ Lifetime \in Nat \ {0}
  /\ MaxTime \in Nat
  /\ NoToken \notin Tokens
  /\ Nobody \notin Sessions \cup Users

VARIABLES
  clock,
  tokens,     \* committed rows of refresh_tokens: a function on their ids
  issued,     \* how many have been issued: jti makes each of them new
  lock,       \* the session that has the row locked
  pc,         \* how far the session's request has got
  who,        \* the user it is for
  ask,        \* the token presented
  revoking,   \* rows whose revoked_at the session has set and not committed
  adding,     \* rows it has inserted and not committed
  dropping,   \* rows it has deleted and not committed
  denied      \* history: tokens revoked in answer to a reuse

vars == <<clock, tokens, issued, lock, pc, who, ask, revoking, adding, dropping, denied>>

-----------------------------------------------------------------------------
\* login is a history field: the token of the login that the row goes back to.
Row == [user : Users, expires : Nat, revoked : BOOLEAN, login : Tokens]

IsTable(table) == DOMAIN table \subseteq Tokens /\ table \in [DOMAIN table -> Row]

NoRows == [t \in {} |-> {}]

Live == {t \in DOMAIN tokens : ~tokens[t].revoked}

Expired == {t \in DOMAIN tokens : tokens[t].expires < clock}

LiveOf(user) == {t \in Live : tokens[t].user = user}

\* The rows the session's next statement needs to lock.
Needs(s) ==
  CASE pc[s] \in {"waiting", "logout"} -> {ask[s]}
    [] pc[s] = "revoke" -> LiveOf(who[s])
    [] pc[s] = "purge" -> Expired
    [] OTHER -> {}

\* It gets them.
CanLock(s) == \A t \in Needs(s) : lock[t] \in {s, Nobody}

Lock(s) == lock' = [t \in Tokens |-> IF t \in Needs(s) THEN s ELSE lock[t]]

WaitsFor(s) == {lock[t] : t \in Needs(s)} \ {s, Nobody}

\* A fault for the runs: a session that is never given back to the pool.
CloseKeepingLocks(s) ==
  /\ pc' = [pc EXCEPT ![s] = "idle"]
  /\ who' = [who EXCEPT ![s] = Nobody]
  /\ ask' = [ask EXCEPT ![s] = NoToken]
  /\ revoking' = [revoking EXCEPT ![s] = {}]
  /\ adding' = [adding EXCEPT ![s] = NoRows]
  /\ dropping' = [dropping EXCEPT ![s] = {}]
  /\ UNCHANGED lock

\* get_db closes the session: its locks go, and what it has not committed.
Close(s) ==
  /\ pc' = [pc EXCEPT ![s] = "idle"]
  /\ who' = [who EXCEPT ![s] = Nobody]
  /\ ask' = [ask EXCEPT ![s] = NoToken]
  /\ revoking' = [revoking EXCEPT ![s] = {}]
  /\ adding' = [adding EXCEPT ![s] = NoRows]
  /\ dropping' = [dropping EXCEPT ![s] = {}]
  /\ lock' = [t \in Tokens |-> IF lock[t] = s THEN Nobody ELSE lock[t]]

\* The request ends with nothing written.
RollBack(s) == Close(s) /\ UNCHANGED <<clock, tokens, issued, denied>>

\* The bound: a request that may issue a token begins while there is one left.
Room ==
  issued + Cardinality({s \in Sessions : pc[s] \in {"waiting", "issue"}}) < MaxTokens

-----------------------------------------------------------------------------
(* refresh: the SELECT ... FOR UPDATE and what follows from it.            *)

Refresh(s, t) ==
  /\ pc[s] = "idle"
  /\ Room
  /\ t \in DOMAIN tokens
  /\ clock < tokens[t].expires
  /\ pc' = [pc EXCEPT ![s] = "waiting"]
  /\ ask' = [ask EXCEPT ![s] = t]
  /\ who' = [who EXCEPT ![s] = tokens[t].user]
  /\ UNCHANGED <<clock, tokens, issued, lock, revoking, adding, dropping, denied>>

\* The row has gone by the time it is read, or its time has come.
Unknown(s) ==
  /\ pc[s] = "waiting"
  /\ CanLock(s)
  /\ ask[s] \in DOMAIN tokens =>
       ~tokens[ask[s]].revoked /\ tokens[ask[s]].expires <= clock
  /\ RollBack(s)

\* A fault for the runs: the row is what it was before the wait, not revoked.
RotateStale(s) ==
  /\ pc[s] = "waiting"
  /\ CanLock(s)
  /\ ask[s] \in DOMAIN tokens
  /\ clock < tokens[ask[s]].expires
  /\ Lock(s)
  /\ revoking' = [revoking EXCEPT ![s] = {ask[s]}]
  /\ pc' = [pc EXCEPT ![s] = "issue"]
  /\ UNCHANGED <<clock, tokens, issued, who, ask, adding, dropping, denied>>

Rotate(s) ==
  /\ pc[s] = "waiting"
  /\ CanLock(s)
  /\ ask[s] \in Live
  /\ clock < tokens[ask[s]].expires
  /\ Lock(s)
  /\ revoking' = [revoking EXCEPT ![s] = {ask[s]}]
  /\ pc' = [pc EXCEPT ![s] = "issue"]
  /\ UNCHANGED <<clock, tokens, issued, who, ask, adding, dropping, denied>>

\* A token that was rotated before comes back.
Reused(s) ==
  /\ pc[s] = "waiting"
  /\ CanLock(s)
  /\ ask[s] \in DOMAIN tokens \ Live
  /\ Lock(s)
  /\ pc' = [pc EXCEPT ![s] = "revoke"]
  /\ UNCHANGED <<clock, tokens, issued, who, ask, revoking, adding, dropping, denied>>

RevokeAll(s) ==
  /\ pc[s] = "revoke"
  /\ CanLock(s)
  /\ Lock(s)
  /\ revoking' = [revoking EXCEPT ![s] = LiveOf(who[s])]
  /\ pc' = [pc EXCEPT ![s] = "refuse"]
  /\ UNCHANGED <<clock, tokens, issued, who, ask, adding, dropping, denied>>

\* UnauthorizedError leaves the route before its commit.
Refuse(s) ==
  /\ pc[s] = "refuse"
  /\ denied' = denied \cup revoking[s]
  /\ Close(s)
  /\ UNCHANGED <<clock, tokens, issued>>

-----------------------------------------------------------------------------
(* login, and _issue_pair.                                                 *)

\* A fault for the runs: the user is not passed on to _issue_pair.
LoginUnnamed(s, user) ==
  /\ pc[s] = "idle"
  /\ Room
  /\ pc' = [pc EXCEPT ![s] = "issue"]
  /\ UNCHANGED <<clock, tokens, issued, lock, who, ask, revoking, adding, dropping, denied>>

Login(s, user) ==
  /\ pc[s] = "idle"
  /\ Room
  /\ pc' = [pc EXCEPT ![s] = "issue"]
  /\ who' = [who EXCEPT ![s] = user]
  /\ UNCHANGED <<clock, tokens, issued, lock, ask, revoking, adding, dropping, denied>>

Issue(s) ==
  /\ pc[s] = "issue"
  /\ issued < MaxTokens
  /\ issued' = issued + 1
  /\ adding' = [adding EXCEPT ![s] =
       [t \in {issued + 1} |->
          [user |-> who[s], expires |-> clock + Lifetime, revoked |-> FALSE,
           login |-> IF ask[s] = NoToken THEN t ELSE tokens[ask[s]].login]]]
  /\ pc' = [pc EXCEPT ![s] = "purge"]
  /\ UNCHANGED <<clock, tokens, lock, who, ask, revoking, dropping, denied>>

\* delete_expired_tokens, of every user.
Purge(s) ==
  /\ pc[s] = "purge"
  /\ CanLock(s)
  /\ Lock(s)
  /\ dropping' = [dropping EXCEPT ![s] = Expired]
  /\ pc' = [pc EXCEPT ![s] = "commit"]
  /\ UNCHANGED <<clock, tokens, issued, who, ask, revoking, adding, denied>>

\* A fault for the runs: the presented token is not revoked.
CommitWithoutRevoking(s) ==
  /\ pc[s] = "commit"
  /\ tokens' =
       [t \in (DOMAIN tokens \ dropping[s]) \cup DOMAIN adding[s] |->
          IF t \in DOMAIN adding[s] THEN adding[s][t] ELSE tokens[t]]
  /\ Close(s)
  /\ UNCHANGED <<clock, issued, denied>>

Commit(s) ==
  /\ pc[s] = "commit"
  /\ tokens' =
       [t \in (DOMAIN tokens \ dropping[s]) \cup DOMAIN adding[s] |->
          IF t \in DOMAIN adding[s] THEN adding[s][t]
          ELSE [tokens[t] EXCEPT !.revoked = @ \/ t \in revoking[s]]]
  /\ Close(s)
  /\ UNCHANGED <<clock, issued, denied>>

-----------------------------------------------------------------------------
(* logout reads the row without a lock and writes it by its id.            *)

Logout(s, t) ==
  /\ pc[s] = "idle"
  /\ t \in Live
  /\ pc' = [pc EXCEPT ![s] = "logout"]
  /\ ask' = [ask EXCEPT ![s] = t]
  /\ who' = [who EXCEPT ![s] = tokens[t].user]
  /\ UNCHANGED <<clock, tokens, issued, lock, revoking, adding, dropping, denied>>

CommitLogout(s) ==
  /\ pc[s] = "logout"
  /\ CanLock(s)
  /\ ask[s] \in DOMAIN tokens
  /\ tokens' = [tokens EXCEPT ![ask[s]].revoked = TRUE]
  /\ Close(s)
  /\ UNCHANGED <<clock, issued, denied>>

\* The row was purged meanwhile: StaleDataError.
StaleLogout(s) ==
  /\ pc[s] = "logout"
  /\ ask[s] \notin DOMAIN tokens
  /\ RollBack(s)

-----------------------------------------------------------------------------
(* Around the requests.                                                    *)

\* A request may fail or be dropped at any point before its commit.
Fail(s) == pc[s] # "idle" /\ RollBack(s)

\* PostgreSQL aborts one of a ring of sessions that wait for one another.
AbortDeadlock(s) ==
  /\ \E ring \in SUBSET Sessions :
       s \in ring /\ \A w \in ring : WaitsFor(w) \cap ring # {}
  /\ RollBack(s)

Tick ==
  /\ clock < MaxTime
  /\ clock' = clock + 1
  /\ UNCHANGED <<tokens, issued, lock, pc, who, ask, revoking, adding, dropping, denied>>

Init ==
  /\ clock = 0
  /\ tokens = NoRows
  /\ issued = 0
  /\ lock = [t \in Tokens |-> Nobody]
  /\ pc = [s \in Sessions |-> "idle"]
  /\ who = [s \in Sessions |-> Nobody]
  /\ ask = [s \in Sessions |-> NoToken]
  /\ revoking = [s \in Sessions |-> {}]
  /\ adding = [s \in Sessions |-> NoRows]
  /\ dropping = [s \in Sessions |-> {}]
  /\ denied = {}

\* A request comes in.
Begin(s) ==
  \/ \E user \in Users : Login(s, user)
  \/ \E t \in Tokens : Refresh(s, t) \/ Logout(s, t)

\* The server's next statement for it.
Serve(s) ==
  \/ Unknown(s) \/ Rotate(s) \/ Reused(s) \/ RevokeAll(s) \/ Refuse(s)
  \/ Issue(s) \/ Purge(s) \/ Commit(s)
  \/ CommitLogout(s) \/ StaleLogout(s)

Next ==
  \/ Tick
  \/ \E s \in Sessions : Begin(s) \/ Serve(s) \/ Fail(s) \/ AbortDeadlock(s)

\* The server runs every request on.  Strong fairness: PostgreSQL serves a
\* queue for a row lock in order, so whoever waits is not overtaken for ever.
Fairness ==
  \A s \in Sessions : SF_vars(Serve(s)) /\ WF_vars(AbortDeadlock(s))

Spec == Init /\ [][Next]_vars /\ Fairness

-----------------------------------------------------------------------------
(* Properties.                                                             *)

TypeOK ==
  /\ clock \in 0 .. MaxTime
  /\ IsTable(tokens)
  /\ issued \in 0 .. MaxTokens
  /\ lock \in [Tokens -> Sessions \cup {Nobody}]
  /\ pc \in [Sessions -> {"idle", "waiting", "revoke", "refuse", "issue",
                          "purge", "commit", "logout"}]
  /\ who \in [Sessions -> Users \cup {Nobody}]
  /\ ask \in [Sessions -> Tokens \cup {NoToken}]
  /\ revoking \in [Sessions -> SUBSET Tokens]
  /\ adding = [s \in Sessions |-> adding[s]]
  /\ dropping \in [Sessions -> SUBSET Tokens]
  /\ denied \subseteq Tokens
  /\ \A s \in Sessions :
       /\ IsTable(adding[s])
       /\ pc[s] # "idle" => who[s] \in Users
       /\ pc[s] \in {"waiting", "logout"} => ask[s] \in Tokens

\* However many times and at once a token is presented, a login has at most
\* one token that can still be refreshed.
OneLiveTokenPerLogin ==
  \A t, u \in Live : tokens[t].login = tokens[u].login => t = u

\* A new token of an old login comes in the same commit that takes the
\* presented one out of use: a login that was logged out, or whose token was
\* used meanwhile, gets none.
RotationsConsumeTheirToken ==
  [][\A t \in DOMAIN tokens' \ DOMAIN tokens :
       tokens'[t].login # t =>
         \E p \in Live : /\ tokens[p].login = tokens'[t].login
                         /\ p \in DOMAIN tokens' => tokens'[p].revoked]_vars

\* Every request is answered: whoever waits for a row gets it.
Answered == \A s \in Sessions : pc[s] # "idle" ~> pc[s] = "idle"

\* The answer to a token that comes back ends every session of its user.
ReuseEndsSessions ==
  \A t \in denied \cap DOMAIN tokens : tokens[t].revoked

=============================================================================
