------------------------------ MODULE McpReplay ------------------------------
(***************************************************************************)
(* Repeated writes of one connection of the MCP server (bot, mcp_server).  *)
(* The client names a write with a key; the server remembers the answer of *)
(* the site under that key and gives it again instead of writing twice.    *)
(* The memory belongs to an object that lives as long as the connection is *)
(* in use, and dies with the process.                                      *)
(*                                                                         *)
(* The server is one event loop: a step runs from one await to the next.   *)
(* The site is another process: a request that was sent is carried out     *)
(* before or after the server stops waiting for it, or never.              *)
(*                                                                         *)
(* One writing tool stands for all (the slot of a replay is the tool and   *)
(* the key).  A tool reads before it writes, and may return a text without *)
(* having written: that it knows no such account, or that it must ask      *)
(* back.  Reads touch none of this; a write without a key only takes its   *)
(* turn behind the lock and is left out.                                   *)
(***************************************************************************)
EXTENDS Integers, FiniteSets

CONSTANTS
  Callers,        \* calls under way at once
  Keys,           \* idempotency keys
  Arguments,
  ReplayTTL,      \* _REPLAY_TTL
  ConnectionTTL,  \* _CONNECTION_TTL
  Patience,       \* the time the site may take over what one call asks of it
  MaxTime,        \* bound on the clock
  MaxObjects,     \* bound on the connection objects that a run opens
  MaxPosts,       \* bound on the requests that a run sends
  Nobody,         \* no caller
  None            \* no connection, no post

Objects == 1 .. MaxObjects
Posts == 1 .. MaxPosts

ASSUME ReplayAssumption ==
  /\ ReplayTTL \in Nat \ {0}
  /\ ConnectionTTL \in Nat \ {0}
  /\ Patience \in Nat \ {0}
  /\ MaxTime \in Nat
  /\ MaxObjects \in Nat
  /\ MaxPosts \in Nat
  /\ Nobody \notin Callers
  /\ None \notin Objects \cup Posts \cup [key : Keys, arguments : Arguments]

\* Calls that come together, and wait for the site one after the other for as long as
\* they may, are through before their connection is forgotten; and it is not forgotten
\* sooner than an answer.  In the code a day (for both) against a minute for each of
\* the few requests of a call: hundreds of calls would have to come at once.
ASSUME QueueAssumption ==
  /\ IsFiniteSet(Callers)
  /\ Patience * (1 + Cardinality(Callers)) <= ConnectionTTL
  /\ ReplayTTL <= ConnectionTTL

VARIABLES
  clock,
  current,   \* the object in _connections
  opened,    \* objects opened so far
  seen,      \* when it was last asked for
  creating,  \* the caller that holds _creating
  lock,      \* for each object, the caller that holds its lock
  replays,   \* for each object, the answers it remembers, by key
  pc,        \* how far a call has got
  call,      \* its key and arguments
  arrived,   \* when it came
  using,     \* the object it found
  asking,    \* the request it has sent to the site
  answer,    \* the request whose result the call returns
  post       \* the requests sent, each with what became of it

vars == <<clock, current, opened, seen, creating, lock, replays, pc, call, arrived,
          using, asking, answer, post>>

-----------------------------------------------------------------------------
Call == [key : Keys, arguments : Arguments]
Replay == [arguments : Arguments, expires : Nat, result : Posts]

\* outcome: the site has written, or the tool has said something and written nothing.
\* known: the server waits for the text of the tool, has it, or has given it up.
Post == [call : Call, arrived : Nat, sent : Nat,
         outcome : {"none", "written", "said"}, known : {"awaited", "kept", "lost"}]

IsMemory(memory) == DOMAIN memory \subseteq Keys /\ memory \in [DOMAIN memory -> Replay]

NoRows == [i \in {} |-> {}]

With(table, id, row) ==
  [i \in DOMAIN table \cup {id} |-> IF i = id THEN row ELSE table[i]]

\* _forget_idle
Idle == current # None /\ clock - seen > ConnectionTTL

\* What the object still remembers.
Unexpired(object) ==
  LET good == {k \in DOMAIN replays[object] : replays[object][k].expires > clock}
  IN [k \in good |-> replays[object][k]]

-----------------------------------------------------------------------------
(* call_tool.                                                              *)

\* found.seen = now
Join(c, object, time) ==
  /\ using' = [using EXCEPT ![c] = object]
  /\ seen' = time
  /\ pc' = [pc EXCEPT ![c] = "queued"]

\* A fault for the runs: asking for a connection does not keep it alive.
ArriveUnseen(c, key, arguments) ==
  /\ pc[c] = "idle"
  /\ call' = [call EXCEPT ![c] = [key |-> key, arguments |-> arguments]]
  /\ arrived' = [arrived EXCEPT ![c] = clock]
  /\ IF current = None \/ Idle
     THEN /\ current' = None
          /\ pc' = [pc EXCEPT ![c] = "connecting"]
          /\ UNCHANGED <<using, seen>>
     ELSE Join(c, current, seen) /\ UNCHANGED current
  /\ UNCHANGED <<clock, opened, creating, lock, replays, asking, answer, post>>

\* _connection: an idle one is forgotten; one that is there is used.
Arrive(c, key, arguments) ==
  /\ pc[c] = "idle"
  /\ call' = [call EXCEPT ![c] = [key |-> key, arguments |-> arguments]]
  /\ arrived' = [arrived EXCEPT ![c] = clock]
  /\ IF current = None \/ Idle
     THEN /\ current' = None
          /\ pc' = [pc EXCEPT ![c] = "connecting"]
          /\ UNCHANGED <<using, seen>>
     ELSE Join(c, current, clock) /\ UNCHANGED current
  /\ UNCHANGED <<clock, opened, creating, lock, replays, asking, answer, post>>

\* Behind _creating: another call has opened the connection meanwhile.
FindOpened(c) ==
  /\ pc[c] = "connecting"
  /\ creating = Nobody
  /\ current # None
  /\ Join(c, current, arrived[c])
  /\ UNCHANGED <<clock, current, opened, creating, lock, replays, call, arrived, asking,
                 answer, post>>

\* A fault for the runs: what the connections were is not looked at again.
OpenUnasked(c) ==
  /\ pc[c] = "connecting"
  /\ creating = Nobody
  /\ creating' = c
  /\ pc' = [pc EXCEPT ![c] = "opening"]
  /\ UNCHANGED <<clock, current, opened, seen, lock, replays, call, arrived, using,
                 asking, answer, post>>

\* _open asks the site for the profile ...
Open(c) ==
  /\ pc[c] = "connecting"
  /\ creating = Nobody
  /\ current = None
  /\ creating' = c
  /\ pc' = [pc EXCEPT ![c] = "opening"]
  /\ UNCHANGED <<clock, current, opened, seen, lock, replays, call, arrived, using,
                 asking, answer, post>>

\* ... and, with or without it, the connection is there.
Opened(c) ==
  /\ pc[c] = "opening"
  /\ opened < MaxObjects
  /\ opened' = opened + 1
  /\ current' = opened'
  /\ creating' = Nobody
  /\ Join(c, opened', arrived[c])
  /\ UNCHANGED <<clock, lock, replays, call, arrived, asking, answer, post>>

Previous(c) == replays[using[c]][call[c].key]

Remembers(c) == call[c].key \in DOMAIN Unexpired(using[c])

Leave(c, result) ==
  /\ pc' = [pc EXCEPT ![c] = "done"]
  /\ using' = [using EXCEPT ![c] = None]
  /\ asking' = [asking EXCEPT ![c] = None]
  /\ answer' = [answer EXCEPT ![c] = result]

\* A fault for the runs: the arguments are not compared.
ReplayAnything(c) ==
  /\ pc[c] = "queued"
  /\ lock[using[c]] = Nobody
  /\ Remembers(c)
  /\ replays' = [replays EXCEPT ![using[c]] = Unexpired(using[c])]
  /\ Leave(c, Previous(c).result)
  /\ UNCHANGED <<clock, current, opened, seen, creating, lock, call, arrived, post>>

\* _run_once with a key that is known: the first answer again, or an error when
\* the arguments are others.
ReplayAnswer(c) ==
  /\ pc[c] = "queued"
  /\ lock[using[c]] = Nobody
  /\ Remembers(c)
  /\ replays' = [replays EXCEPT ![using[c]] = Unexpired(using[c])]
  /\ Leave(c, IF Previous(c).arguments = call[c].arguments THEN Previous(c).result ELSE None)
  /\ UNCHANGED <<clock, current, opened, seen, creating, lock, call, arrived, post>>

\* _run_once with a new key: the lock is held and the site is asked.
Ask(c) ==
  /\ pc[c] = "queued"
  /\ lock[using[c]] = Nobody
  /\ ~Remembers(c)
  /\ lock' = [lock EXCEPT ![using[c]] = c]
  /\ replays' = [replays EXCEPT ![using[c]] = Unexpired(using[c])]
  /\ pc' = [pc EXCEPT ![c] = "asking"]
  /\ \E p \in Posts :
       /\ p = Cardinality(DOMAIN post) + 1
       /\ asking' = [asking EXCEPT ![c] = p]
       /\ post' = With(post, p, [call |-> call[c], arrived |-> arrived[c], sent |-> clock,
                                 outcome |-> "none", known |-> "awaited"])
  /\ UNCHANGED <<clock, current, opened, seen, creating, call, arrived, using, answer>>

\* The site carries the request out, while the server waits for it or later.
Write(p) ==
  /\ p \in DOMAIN post
  /\ post[p].outcome = "none"
  /\ post' = [post EXCEPT ![p].outcome = "written"]
  /\ UNCHANGED <<clock, current, opened, seen, creating, lock, replays, pc, call, arrived,
                 using, asking, answer>>

\* The tool returns a text: that the site has written, or why nothing was written.
\* Either is remembered, from the time the lock was had.
Answered(c) ==
  /\ pc[c] = "asking"
  /\ replays' = [replays EXCEPT ![using[c]] = With(@, call[c].key,
       [arguments |-> call[c].arguments, expires |-> post[asking[c]].sent + ReplayTTL,
        result |-> asking[c]])]
  /\ post' = [post EXCEPT ![asking[c]].known = "kept",
                          ![asking[c]].outcome = IF @ = "none" THEN "said" ELSE @]
  /\ lock' = [lock EXCEPT ![using[c]] = Nobody]
  /\ Leave(c, asking[c])
  /\ UNCHANGED <<clock, current, opened, seen, creating, call, arrived>>

\* The tool raised: the site refused, did not answer in time, or failed after the
\* write.  An error is not remembered.
Unanswered(c) ==
  /\ pc[c] = "asking"
  /\ post' = [post EXCEPT ![asking[c]].known = "lost"]
  /\ lock' = [lock EXCEPT ![using[c]] = Nobody]
  /\ Leave(c, None)
  /\ UNCHANGED <<clock, current, opened, seen, creating, replays, call, arrived>>

\* The client has its answer, or the error.
Return(c) ==
  /\ pc[c] = "done"
  /\ pc' = [pc EXCEPT ![c] = "idle"]
  /\ call' = [call EXCEPT ![c] = None]
  /\ arrived' = [arrived EXCEPT ![c] = 0]
  /\ answer' = [answer EXCEPT ![c] = None]
  /\ UNCHANGED <<clock, current, opened, seen, creating, lock, replays, using, asking, post>>

\* The container is deployed anew: calls and memory are gone.
Restart ==
  /\ current' = None
  /\ creating' = Nobody
  /\ lock' = [o \in Objects |-> Nobody]
  /\ replays' = [o \in Objects |-> NoRows]
  /\ pc' = [c \in Callers |-> "idle"]
  /\ using' = [c \in Callers |-> None]
  /\ asking' = [c \in Callers |-> None]
  /\ answer' = [c \in Callers |-> None]
  /\ post' = [p \in DOMAIN post |-> [post[p] EXCEPT !.known = "lost"]]
  /\ call' = [c \in Callers |-> None]
  /\ arrived' = [c \in Callers |-> 0]
  /\ UNCHANGED <<clock, opened, seen>>

\* Only the site takes time, and at most Patience at each turn.
Waits(c) ==
  CASE pc[c] = "idle" -> TRUE
    [] pc[c] = "connecting" -> creating # Nobody
    [] pc[c] = "opening" -> clock < arrived[c] + Patience
    [] pc[c] = "queued" -> lock[using[c]] # Nobody
    [] pc[c] = "asking" -> clock < post[asking[c]].sent + Patience
    [] pc[c] = "done" -> FALSE

Tick ==
  /\ clock < MaxTime
  /\ \A c \in Callers : Waits(c)
  /\ clock' = clock + 1
  /\ UNCHANGED <<current, opened, seen, creating, lock, replays, pc, call, arrived, using,
                 asking, answer, post>>

-----------------------------------------------------------------------------
Init ==
  /\ clock = 0
  /\ current = None
  /\ opened = 0
  /\ seen = 0
  /\ creating = Nobody
  /\ lock = [o \in Objects |-> Nobody]
  /\ replays = [o \in Objects |-> NoRows]
  /\ pc = [c \in Callers |-> "idle"]
  /\ call = [c \in Callers |-> None]
  /\ arrived = [c \in Callers |-> 0]
  /\ using = [c \in Callers |-> None]
  /\ asking = [c \in Callers |-> None]
  /\ answer = [c \in Callers |-> None]
  /\ post = NoRows

Connect(c) == FindOpened(c) \/ Open(c) \/ Opened(c)

RunOnce(c) == ReplayAnswer(c) \/ Ask(c) \/ Answered(c) \/ Unanswered(c) \/ Return(c)

Next ==
  \/ \E c \in Callers :
       \/ \E k \in Keys, a \in Arguments : Arrive(c, k, a)
       \/ Connect(c)
       \/ RunOnce(c)
  \/ \E p \in Posts : Write(p)
  \/ Restart
  \/ Tick

Spec == Init /\ [][Next]_vars

-----------------------------------------------------------------------------
(* Properties.                                                             *)

TypeOK ==
  /\ clock \in 0 .. MaxTime
  /\ opened \in 0 .. MaxObjects
  /\ current \in 1 .. opened \cup {None}
  /\ seen \in 0 .. clock
  /\ creating \in Callers \cup {Nobody}
  /\ lock \in [Objects -> Callers \cup {Nobody}]
  /\ DOMAIN replays = Objects /\ \A o \in Objects : IsMemory(replays[o])
  /\ pc \in [Callers -> {"idle", "connecting", "opening", "queued", "asking", "done"}]
  /\ call \in [Callers -> Call \cup {None}]
  /\ arrived \in [Callers -> 0 .. clock]
  /\ using \in [Callers -> 1 .. opened \cup {None}]
  /\ asking \in [Callers -> Posts \cup {None}]
  /\ answer \in [Callers -> Posts \cup {None}]
  /\ DOMAIN post \subseteq Posts /\ post \in [DOMAIN post -> Post]
  /\ \A c \in Callers :
       /\ pc[c] \in {"queued", "asking"} <=> using[c] # None
       /\ pc[c] = "asking" <=> asking[c] # None
       /\ pc[c] # "idle" <=> call[c] # None
       /\ pc[c] = "asking" => asking[c] \in DOMAIN post /\ lock[using[c]] = c

\* The writes of a connection reach the site one after the other: calls that
\* come together, and find the connection missing or forgotten, end up behind
\* the same lock.
OneWriteAtATime ==
  \A c, d \in Callers : pc[c] = "asking" /\ pc[d] = "asking" => c = d

\* A call whose text the server has is not sent to the site again under its key within
\* the time it is remembered, so that what was written is not written twice, however long calls had to wait and whatever else was
\* asked meanwhile; but for the wait of one request, by which a call that waited for
\* the connection to open sets its last use back (found.seen = now).
AnsweredWriteNotRepeated ==
  \A p, q \in DOMAIN post :
    p < q /\ post[p].call.key = post[q].call.key /\ post[p].known = "kept"
      => post[q].sent + Patience > post[p].arrived + ReplayTTL

\* The text that a call is given, be it a first answer given again, is that of a
\* request made with the same key and the same arguments, which has ended with a text:
\* nobody is told that something else was written.  Whether anything was written
\* is what the text says: one that asks back is given again like any other.
AnswersTheCall ==
  \A c \in Callers :
    answer[c] # None => post[answer[c]].outcome # "none" /\ post[answer[c]].call = call[c]
=============================================================================
