------------------------------ MODULE AiAccess -------------------------------
(***************************************************************************)
(* How a connection of an AI assistant gets in: the check of its token by  *)
(* the site (ai_token_guard, get_current_user, the limit per connection,   *)
(* the policy), and the gate of the MCP server, which asks the site whose  *)
(* a token is and remembers the answer (TokenGate, BearerGuard).           *)
(*                                                                         *)
(* The connections are those of Grants, with personal tokens beside them;  *)
(* of a pair it is the access token that is shown here.  A request of the  *)
(* site is one step.  A request to the MCP server waits for the site, and  *)
(* others come in meanwhile.                                               *)
(***************************************************************************)
EXTENDS Grants, Integers, Sequences, FiniteSets

CONSTANTS
  Personal,        \* connections that the owner opens with a personal token
  Asked,           \* for each connection, the scopes that it asks for
  AccessLifetime,  \* ACCESS_TOKEN_TTL
  Window,          \* _WINDOW_SECONDS
  PerMinute,       \* ai_rate_limit_per_minute; 0 is no limit
  CacheSeconds,    \* CACHE_SECONDS
  MaxCached,       \* _MAX_CACHED
  Patience,        \* the time limit on a request of the MCP server to the site
  Elsewhere,       \* connections that, the site says, are for another MCP server
  Tried,           \* routes that the assistant tries on its own
  Requests,        \* requests that the MCP server has in work
  LastMoment,         \* bound on the moment
  None

ASSUME AccessAssumption ==
  /\ Personal \subseteq Connections
  /\ Elsewhere \subseteq Connections
  /\ Asked \in [Connections -> SUBSET {"read", "write"}]
  /\ AccessLifetime \in Nat \ {0}
  /\ Window \in Nat \ {0}
  /\ PerMinute \in Nat
  /\ CacheSeconds \in Nat
  /\ MaxCached \in Nat \ {0}
  /\ Patience \in Nat
  /\ LastMoment \in Nat
  /\ None \notin Connections \cup Pairs \cup Nat

VARIABLES
  moment,
  scopes,    \* for each connection, what the owner has granted
  endedAt,   \* revoked_at of the connections that have ended
  closedAt,  \* when the owner has closed her account (is_active), or None
  access,    \* for each pair, the connection and the expiry of its access token
  hits,      \* ConnectionRateLimiter._hits
  memory,    \* TokenGate._cache: for each token, until when which answer holds
  requests   \* what the requests of the MCP server are at

accessVars ==
  <<grants, moment, scopes, endedAt, closedAt, access, hits, memory, requests>>

\* What is known of connections and tokens.
accessRows == <<grants, scopes, endedAt, closedAt, access>>

\* An answer is good for as long as it is remembered, or on its way.
Staleness == IF CacheSeconds > Patience THEN CacheSeconds ELSE Patience

-----------------------------------------------------------------------------
(* The policy.                                                             *)

Methods == {"read", "write", "delete"}

\* Paths of routes, as far as the rules tell them apart.
Areas ==
  {"whoami", "ai", "me", "import", "dump", "rates", "archive", "reconcile", "profile",
   "data"}

\* The routes that ask who the user is (CurrentUser).  The others give what is
\* public (health, config, currencies, the protocol of OAuth), or are closed to an
\* assistant by the guard alone (auth).
Routes ==
  {r \in [area : Areas, method : Methods] :
     /\ r.method = "delete" => r.area \in {"profile", "data"}
     /\ r.area \in {"whoami", "me", "dump"} => r.method = "read"
     /\ r.area \in {"import", "rates", "archive", "reconcile"} => r.method = "write"}

ASSUME TriedAssumption == Tried \subseteq Routes

\* normalize_scopes: writing includes reading.
Normalized(asked) == IF "write" \in asked THEN asked \cup {"read"} ELSE asked

AllScopes == {"read", "write"}

\* deny_reason: what an assistant may not do at all ...
Closed(route) ==
  \/ route.area \in {"ai", "import", "dump", "rates", "archive", "reconcile"}
  \/ route.area = "profile" /\ route.method # "read"
  \/ route.method = "delete"

\* ... and what these scopes do not reach.
Denied(route, granted) ==
  /\ route.area \notin {"whoami", "me"}
  /\ \/ Closed(route)
     \/ "read" \notin granted
     \/ route.method # "read" /\ "write" \notin granted

-----------------------------------------------------------------------------
(* Connections.                                                            *)

\* validate_authorization: a client that names no scopes asks for all of them.
\* Any other fault of its request is an error, and the owner is asked nothing.
Requested(c) == IF Asked[c] = {} THEN AllScopes ELSE Normalized(Asked[c])

\* approve, or create_personal_token: the owner grants what she was asked for,
\* or less.
Granted(c) ==
  \E ticked \in SUBSET AllScopes :
    /\ Normalized(ticked) # {}
    /\ Normalized(ticked) \subseteq Requested(c)
    /\ scopes' = [d \in DOMAIN scopes \cup {c} |->
                    IF d = c THEN Normalized(ticked) ELSE scopes[d]]

\* _issue; a personal token does not expire.
Issued(c, p) ==
  access' = [q \in DOMAIN access \cup {p} |->
               IF q = p
               THEN [connection |-> c,
                     expires |-> IF c \in Personal THEN None ELSE moment + AccessLifetime]
               ELSE access[q]]

Consent(c, p) ==
  /\ c \notin Personal
  /\ \E k \in Codes : Open(k, c, p)
  /\ Granted(c)
  /\ Issued(c, p)
  /\ UNCHANGED <<moment, endedAt, closedAt, hits, memory, requests>>

\* create_personal_token: no code opens the connection, and nothing renews it.
CreatePersonalToken(c, p) ==
  /\ closedAt = None
  /\ c \in Personal \ DOMAIN opened
  /\ p \notin given
  /\ opened' = [d \in DOMAIN opened \cup {c} |-> IF d = c THEN None ELSE opened[d]]
  /\ good' = [d \in DOMAIN opened' |-> IF d = c THEN {} ELSE good[d]]
  /\ given' = given \cup {p}
  /\ Granted(c)
  /\ Issued(c, p)
  /\ UNCHANGED <<ended, moment, endedAt, closedAt, hits, memory, requests>>

RefreshPair(c, p) ==
  /\ Renew(c, p)
  /\ Issued(c, p)
  /\ UNCHANGED <<moment, scopes, endedAt, closedAt, hits, memory, requests>>

Revoke(c) ==
  /\ c \notin ended
  /\ End(c)
  /\ endedAt' = [d \in ended' |-> IF d = c THEN moment ELSE endedAt[d]]
  /\ UNCHANGED <<moment, scopes, closedAt, access, hits, memory, requests>>

\* deactivate: nothing opens the account again.  The connections stay as they are,
\* and those of a client can still be renewed.
CloseAccount ==
  /\ closedAt = None
  /\ closedAt' = moment
  /\ UNCHANGED <<grants, moment, scopes, endedAt, access, hits, memory, requests>>

\* hit: what is left in the window.
Recent(c, now) == SelectSeq(hits[c], LAMBDA t : t > now - Window)

\* What has left the window is never looked at again: it goes with the time,
\* before hit or _prune drops it.
MomentPasses ==
  /\ moment < LastMoment
  /\ moment' = moment + 1
  /\ hits' = [c \in Connections |-> Recent(c, moment')]
  /\ UNCHANGED <<accessRows, memory, requests>>

-----------------------------------------------------------------------------
(* The site.                                                               *)

\* authenticate: the token stands, and so does its connection.
Authentic(p) ==
  /\ access[p].expires = None \/ moment < access[p].expires
  /\ access[p].connection \notin ended

\* The user of the token is there, too.
Good(p) == Authentic(p) /\ closedAt = None

WithinLimit(c) == PerMinute = 0 \/ Len(Recent(c, moment)) < PerMinute

\* ai_token_guard, before any route.
PassesGuard(route) == ~Denied(route, AllScopes)

\* A request that is within the limit: the scopes are looked at before the user.
Admission(p, route) ==
  IF Denied(route, scopes[access[p].connection]) THEN 403
  ELSE IF Good(p) THEN 200
  ELSE 401

\* A request, with the status of its answer: what is refused by the scopes, or for
\* the user's sake, counts as well.
SiteAnswers(p, route, status) ==
  LET c == access[p].connection IN
  IF ~PassesGuard(route) THEN status = 403 /\ UNCHANGED hits
  ELSE IF ~Authentic(p) THEN status = 401 /\ UNCHANGED hits
  ELSE IF ~WithinLimit(c) THEN
    /\ status = 429
    /\ hits' = [hits EXCEPT ![c] = Recent(c, moment)]
  ELSE
    /\ status = Admission(p, route)
    /\ hits' = [hits EXCEPT ![c] = IF PerMinute = 0 THEN @ ELSE Append(Recent(c, moment), moment)]

Statuses == {200, 401, 403, 429}

Whoami == CHOOSE r \in Routes : r.area = "whoami"

\* The assistant asks the site itself, with its token.
AskSite(p, route) ==
  /\ \E status \in Statuses : SiteAnswers(p, route, status)
  /\ UNCHANGED <<accessRows, moment, memory, requests>>

-----------------------------------------------------------------------------
(* The MCP server.                                                         *)

\* What the gate makes of the site's answer: the scopes of the connection; and
\* whether a refusal is for the token's sake, which it does not keep.
Identity(granted) == [cause |-> "none", scopes |-> granted]
Refusal(cause) == [cause |-> cause, scopes |-> {}]

Causes == {"none", "token", "other"}

NoAnswer == Identity({})

Idle == [phase |-> "idle", pair |-> None, at |-> 0, answer |-> NoAnswer]

\* The answer stands: 401 for a token that is not accepted.
Decided(r, p, answer) ==
  requests' =
    [requests EXCEPT ![r] =
       IF "read" \notin answer.scopes THEN Idle
       ELSE [Idle EXCEPT !.phase = "calling", !.pair = p, !.answer = answer]]

\* identify, for BearerGuard or for _caller, which asks once more behind it: by
\* heart, or it asks the site.
Identify(r, p) ==
  /\ requests[r] = Idle
  /\ IF p \in DOMAIN memory /\ memory[p].until > moment
     THEN Decided(r, p, memory[p].answer)
     ELSE requests' = [requests EXCEPT ![r] = [Idle EXCEPT !.phase = "asking", !.pair = p,
                                                           !.at = moment]]
  /\ UNCHANGED <<accessRows, moment, hits, memory>>

\* _ask: anything but 200 is a no, of which 429 is for the limit; and so is a token
\* that was issued for another server (_issued_for_us).
Understood(p, status) ==
  LET c == access[p].connection IN
  IF status = 429 THEN Refusal("other")
  ELSE IF status # 200 THEN Refusal("token")
  ELSE IF c \in Elsewhere THEN Refusal("other")
  ELSE Identity(scopes[c])

Told(r, answer) ==
  /\ requests' = [requests EXCEPT ![r].phase = "told", ![r].answer = answer]
  /\ UNCHANGED <<accessRows, moment, memory>>

\* The site's answer to /ai/whoami.
SiteSaysWho(r) ==
  /\ requests[r].phase = "asking"
  /\ \E status \in Statuses :
       /\ SiteAnswers(requests[r].pair, Whoami, status)
       /\ Told(r, Understood(requests[r].pair, status))

\* A 200 that is not the site's, and does not say who it is, is a no as well.
Unreadable(r) ==
  /\ requests[r].phase = "asking"
  /\ Told(r, Refusal("other"))
  /\ UNCHANGED hits

\* Once the memory is full, what is out of date goes, or everything.
RoomAt(now) ==
  LET fresh == {p \in DOMAIN memory : memory[p].until > now}
  IN IF Cardinality(DOMAIN memory) < MaxCached THEN memory
     ELSE IF Cardinality(fresh) < MaxCached THEN [p \in fresh |-> memory[p]]
     ELSE [p \in {} |-> {}]

\* A fault for the runs: the answer is remembered from when it has come.
StoredLate(p, at, answer) ==
  [q \in DOMAIN RoomAt(at) \cup {p} |->
     IF q = p THEN [until |-> moment + CacheSeconds, answer |-> answer] ELSE memory[q]]

\* The answer is remembered, from when the gate set out to ask.
Stored(p, at, answer) ==
  [q \in DOMAIN RoomAt(at) \cup {p} |->
     IF q = p THEN [until |-> at + CacheSeconds, answer |-> answer] ELSE memory[q]]

Remember(r) ==
  LET request == requests[r] IN
  /\ request.phase = "told"
  /\ moment <= request.at + Patience
  /\ memory' = Stored(request.pair, request.at, request.answer)
  /\ Decided(r, request.pair, request.answer)
  /\ UNCHANGED <<accessRows, moment, hits>>

\* A fault for the runs: a site that does not answer has said no.
RefuseUnanswered(r) ==
  /\ requests[r].phase \in {"asking", "told"}
  /\ requests' = [requests EXCEPT ![r] = Idle]
  /\ memory' = Stored(requests[r].pair, requests[r].at, Refusal("token"))
  /\ UNCHANGED <<accessRows, moment, hits>>

\* BackendUnavailableError: the site does not answer, or not in time.  503, and
\* nothing is remembered.
Unanswered(r) ==
  /\ requests[r].phase \in {"asking", "told"}
  /\ requests' = [requests EXCEPT ![r] = Idle]
  /\ UNCHANGED <<accessRows, moment, hits, memory>>

\* The guard has let the request through, and it ends without a tool.
Leave(r) ==
  /\ requests[r].phase = "calling"
  /\ requests' = [requests EXCEPT ![r] = Idle]
  /\ UNCHANGED <<accessRows, moment, hits, memory>>

\* A tool that the scopes allow asks the site with the token of the request;
\* forget, if the site does not take the token.
CallTool(r, route) ==
  LET p == requests[r].pair IN
  /\ requests[r].phase = "calling"
  /\ route.area = "data"
  /\ route.method # "delete"
  /\ route.method = "write" => "write" \in requests[r].answer.scopes
  /\ \E status \in Statuses :
       /\ SiteAnswers(p, route, status)
       /\ memory' = [q \in DOMAIN memory \ (IF status = 401 THEN {p} ELSE {}) |-> memory[q]]
  /\ requests' = [requests EXCEPT ![r] = Idle]
  /\ UNCHANGED <<accessRows, moment>>

-----------------------------------------------------------------------------
AccessInit ==
  /\ NoGrants
  /\ moment = 0
  /\ scopes = [c \in {} |-> {}]
  /\ endedAt = [c \in {} |-> {}]
  /\ closedAt = None
  /\ access = [p \in {} |-> {}]
  /\ hits = [c \in Connections |-> <<>>]
  /\ memory = [p \in {} |-> {}]
  /\ requests = [r \in Requests |-> Idle]

Connect ==
  \/ CloseAccount
  \/ \E c \in Connections :
       \/ Revoke(c)
       \/ \E p \in Pairs : Consent(c, p) \/ CreatePersonalToken(c, p) \/ RefreshPair(c, p)

ServeRequest(r) ==
  \/ \E p \in given : Identify(r, p)
  \/ SiteSaysWho(r)
  \/ Unreadable(r)
  \/ Remember(r)
  \/ Unanswered(r)
  \/ Leave(r)
  \/ \E route \in Routes : CallTool(r, route)

AccessNext ==
  \/ Connect
  \/ \E p \in given, route \in Tried : AskSite(p, route)
  \/ \E r \in Requests : ServeRequest(r)
  \/ MomentPasses

AccessSpec == AccessInit /\ [][AccessNext]_accessVars

-----------------------------------------------------------------------------
(* Properties.                                                             *)

\* When the token of a pair comes to an end, as far as that is known.
Ends(p) ==
  LET c == access[p].connection
  IN ({access[p].expires, closedAt} \ {None}) \cup (IF c \in ended THEN {endedAt[c]} ELSE {})

\* The MCP server lets a request in only with a token that was good not long
\* ago, whichever answers are late, forgotten, or remembered over one another:
\* the price of the memory (auth.py:9-11) is bounded.
RevocationRunsOut ==
  [][\A r \in Requests :
       LET request == requests'[r] IN
       request.phase = "calling" /\ requests[r].phase # "calling" =>
         \A end \in Ends(request.pair) : moment <= end + Staleness]_accessVars

\* Answers about the token of a pair that are remembered, or will be.
AnswersAbout(p) ==
  {memory[q].answer : q \in {q \in DOMAIN memory : q = p /\ memory[q].until > moment}}
  \cup {requests[r].answer :
         r \in {r \in Requests :
                  /\ requests[r].pair = p
                  /\ requests[r].phase = "told"
                  /\ moment <= requests[r].at + Patience}}

\* A token that is good is called invalid only when its connection had used up its
\* limit, when it was issued for another server, or when what came was not the
\* site's answer: never because the site did not answer, or an answer came late
\* and was remembered.  The client would throw it away (auth.py:240-241).
RefusedForACause ==
  \A p \in DOMAIN access :
    Good(p) => \A answer \in AnswersAbout(p) : answer.cause # "token"
=============================================================================
