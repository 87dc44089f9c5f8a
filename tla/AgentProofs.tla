---------------------------- MODULE AgentProofs ----------------------------
(***************************************************************************)
(* Proofs about what agents write.  McpReplay: for any number of calls     *)
(* under way, keys and objects, and whatever the times.  StatementImport:  *)
(* for any operations, statements and accounts, any time zone ahead of UTC,*)
(* any number of messages, meetings, restarts and imports whose answer is  *)
(* lost.                                                                   *)
(***************************************************************************)
EXTENDS McpReplay, StatementImport, SumsProofs

(* Repeated calls: the inductive invariant.                                *)

\* The post has come to a text, for this call.
WrittenFor(p, k, arguments) ==
  /\ p \in DOMAIN post
  /\ post[p].outcome # "none"
  /\ post[p].call = [key |-> k, arguments |-> arguments]

\* Memories hold posts that came to a text, for the key that they are under.
Remembering ==
  \A o \in Objects : \A k \in DOMAIN replays[o] :
    WrittenFor(replays[o][k].result, k, replays[o][k].arguments)

\* A call has sent what it was asked for, and an answer is of such a post.
Calling(c) ==
  /\ pc[c] = "asking" => post[asking[c]].call = call[c]
  /\ answer[c] # None =>
       pc[c] = "done" /\ WrittenFor(answer[c], call[c].key, call[c].arguments)

\* Posts are numbered as they are sent.
Numbered == \E n \in 0 .. MaxPosts : DOMAIN post = 1 .. n

Inv ==
  /\ TypeOK
  /\ Remembering
  /\ \A c \in Callers : Calling(c)
  /\ Numbered

-----------------------------------------------------------------------------
(* Lemmas.                                                                 *)

\* What is forgotten is out of date; the rest stays as it was.
LEMMA UnexpiredMemory ==
  ASSUME NEW o \in Objects, IsMemory(replays[o])
  PROVE  /\ IsMemory(Unexpired(o))
         /\ DOMAIN Unexpired(o) \subseteq DOMAIN replays[o]
         /\ \A k \in DOMAIN Unexpired(o) : Unexpired(o)[k] = replays[o][k]
  BY DEF IsMemory, Unexpired

\* The next post is one that was not sent.
LEMMA NextPost ==
  ASSUME Numbered, NEW p \in Posts, p = Cardinality(DOMAIN post) + 1
  PROVE  p \notin DOMAIN post /\ DOMAIN post \cup {p} = 1 .. p /\ p \in 0 .. MaxPosts
<1>1. PICK n \in 0 .. MaxPosts : DOMAIN post = 1 .. n
  BY DEF Numbered
<1>2. n \in Nat /\ MaxPosts \in Nat
  BY <1>1, ReplayAssumption DEF ReplayAssumption
<1>3. Cardinality(1 .. n) = n
  BY <1>2, FS_Interval
<1>4. p = n + 1
  BY <1>1, <1>3
<1>. QED BY <1>1, <1>2, <1>4 DEF Posts

\* While posts and memories stay, so does what is remembered.
LEMMA NothingSent ==
  ASSUME Inv, TypeOK', UNCHANGED <<post, replays>>, \A c \in Callers : Calling(c)'
  PROVE  Inv'
  BY DEF Inv, Remembering, WrittenFor, Numbered

\* A call that a step leaves alone, while posts keep what they came to and were
\* sent for.
LEMMA Undisturbed ==
  ASSUME TypeOK, NEW c \in Callers, Calling(c),
         pc'[c] = pc[c], asking'[c] = asking[c], call'[c] = call[c], answer'[c] = answer[c],
         DOMAIN post \subseteq DOMAIN post',
         \A p \in DOMAIN post :
           post'[p].call = post[p].call /\ (post[p].outcome # "none" => post'[p].outcome # "none")
  PROVE  Calling(c)'
  BY DEF Calling, WrittenFor, TypeOK

-----------------------------------------------------------------------------
(* The invariant holds from the start and every action keeps it.           *)

LEMMA InitInv == Init => Inv
<1>. SUFFICES ASSUME Init PROVE Inv
  OBVIOUS
<1>1. DOMAIN NoRows = {} /\ IsMemory(NoRows) /\ NoRows \in [{} -> Post]
  BY DEF NoRows, IsMemory
<1>2. TypeOK
  BY <1>1, ReplayAssumption DEF Init, TypeOK, ReplayAssumption
<1>3. Remembering /\ \A c \in Callers : Calling(c)
  BY <1>1 DEF Init, Remembering, Calling
<1>4. Numbered
  <2>1. DOMAIN post = 1 .. 0 /\ 0 \in 0 .. MaxPosts
    BY <1>1, ReplayAssumption DEF Init, ReplayAssumption
  <2>. QED BY <2>1 DEF Numbered
<1>. QED BY <1>2, <1>3, <1>4 DEF Inv

\* Calls come, and find a connection or open one.
LEMMA ArriveKeepsInv ==
  ASSUME Inv, NEW c \in Callers, NEW k \in Keys, NEW a \in Arguments, Arrive(c, k, a)
  PROVE  Inv'
<1>1. [key |-> k, arguments |-> a] \in Call /\ [key |-> k, arguments |-> a] # None
  BY ReplayAssumption DEF Call, ReplayAssumption
<1>2. TypeOK'
  BY <1>1 DEF Arrive, Join, Inv, TypeOK
<1>3. \A d \in Callers : Calling(d)'
  <2>. SUFFICES ASSUME NEW d \in Callers PROVE Calling(d)'
    OBVIOUS
  <2>1. CASE d = c
    BY <2>1 DEF Arrive, Join, Inv, TypeOK, Calling
  <2>2. CASE d # c
    BY <2>2, Undisturbed DEF Arrive, Join, Inv, TypeOK
  <2>. QED BY <2>1, <2>2
<1>. QED BY <1>2, <1>3, NothingSent DEF Arrive

LEMMA ConnectKeepsInv ==
  ASSUME Inv, NEW c \in Callers, Connect(c)
  PROVE  Inv'
<1>1. CASE FindOpened(c)
  <2>1. TypeOK'
    BY <1>1 DEF FindOpened, Join, Inv, TypeOK
  <2>2. \A d \in Callers : Calling(d)'
    BY <1>1 DEF FindOpened, Join, Inv, TypeOK, Calling, WrittenFor
  <2>. QED BY <1>1, <2>1, <2>2, NothingSent DEF FindOpened
<1>2. CASE Open(c)
  <2>1. TypeOK'
    BY <1>2 DEF Open, Inv, TypeOK
  <2>2. \A d \in Callers : Calling(d)'
    BY <1>2 DEF Open, Inv, TypeOK, Calling, WrittenFor
  <2>. QED BY <1>2, <2>1, <2>2, NothingSent DEF Open
<1>3. CASE Opened(c)
  <2>1. TypeOK'
    BY <1>3, ReplayAssumption, SMTT(60) DEF Opened, Join, Inv, TypeOK, Objects, ReplayAssumption
  <2>2. \A d \in Callers : Calling(d)'
    BY <1>3 DEF Opened, Join, Inv, TypeOK, Calling, WrittenFor
  <2>. QED BY <1>3, <2>1, <2>2, NothingSent DEF Opened
<1>. QED BY <1>1, <1>2, <1>3 DEF Connect

\* A call finds the answer to another, and gives it again.
LEMMA ReplayKeepsInv ==
  ASSUME Inv, NEW c \in Callers, ReplayAnswer(c)
  PROVE  Inv'
<1>. DEFINE o == using[c]
<1>1. o \in Objects /\ lock[o] = Nobody /\ call[c] \in Call /\ IsMemory(replays[o])
  <2>1. using[c] # None /\ using[c] \in 1 .. opened /\ opened \in 0 .. MaxObjects
        /\ call[c] \in Call
    BY DEF ReplayAnswer, Inv, TypeOK
  <2>2. o \in Objects
    BY <2>1, ReplayAssumption DEF Objects, ReplayAssumption
  <2>. QED BY <2>1, <2>2 DEF ReplayAnswer, Inv, TypeOK
<1>2. /\ IsMemory(Unexpired(o)) /\ DOMAIN Unexpired(o) \subseteq DOMAIN replays[o]
      /\ \A k \in DOMAIN Unexpired(o) : Unexpired(o)[k] = replays[o][k]
  BY <1>1, UnexpiredMemory
<1>3. /\ DOMAIN replays' = Objects /\ replays'[o] = Unexpired(o)
      /\ \A q \in Objects \ {o} : replays'[q] = replays[q]
  BY <1>1 DEF ReplayAnswer, Inv, TypeOK
<1>4. call[c].key \in DOMAIN replays[o] /\ Previous(c) = replays[o][call[c].key]
  BY <1>2 DEF ReplayAnswer, Remembers, Previous
<1>5. /\ Previous(c).result \in Posts
      /\ WrittenFor(Previous(c).result, call[c].key, Previous(c).arguments)
  BY <1>1, <1>4 DEF Inv, Remembering, IsMemory, Replay
<1>. DEFINE result == IF Previous(c).arguments = call[c].arguments
                      THEN Previous(c).result ELSE None
<1>6. Leave(c, result) /\ result \in Posts \cup {None}
  BY <1>5 DEF ReplayAnswer
<1>7. result # None => WrittenFor(result, call[c].key, call[c].arguments)
  BY <1>5
<1>. HIDE DEF o, result
<1>8. TypeOK'
  <2>1. \A q \in Objects : IsMemory(replays'[q])
    BY <1>1, <1>2, <1>3 DEF Inv, TypeOK
  <2>2. /\ pc' \in [Callers -> {"idle", "connecting", "opening", "queued", "asking", "done"}]
        /\ using' \in [Callers -> 1 .. opened \cup {None}]
        /\ asking' \in [Callers -> Posts \cup {None}]
        /\ answer' \in [Callers -> Posts \cup {None}]
    BY <1>6 DEF Leave, Inv, TypeOK
  <2>3. \A d \in Callers :
          /\ pc'[d] \in {"queued", "asking"} <=> using'[d] # None
          /\ pc'[d] = "asking" <=> asking'[d] # None
          /\ pc'[d] # "idle" <=> call'[d] # None
          /\ pc'[d] = "asking" => asking'[d] \in DOMAIN post' /\ lock'[using'[d]] = d
    BY <1>6 DEF ReplayAnswer, Leave, Inv, TypeOK
  <2>. QED BY <1>3, <2>1, <2>2, <2>3 DEF ReplayAnswer, Inv, TypeOK
<1>9. Remembering'
  BY <1>1, <1>2, <1>3 DEF ReplayAnswer, Inv, Remembering, WrittenFor
<1>10. \A d \in Callers : Calling(d)'
  <2>. SUFFICES ASSUME NEW d \in Callers PROVE Calling(d)'
    OBVIOUS
  <2>1. CASE d = c
    BY <1>6, <1>7, <2>1 DEF ReplayAnswer, Leave, Inv, TypeOK, Calling, WrittenFor
  <2>2. CASE d # c
    BY <1>6, <2>2, Undisturbed DEF ReplayAnswer, Leave, Inv, TypeOK
  <2>. QED BY <2>1, <2>2
<1>11. Numbered'
  BY DEF ReplayAnswer, Inv, Numbered
<1>. QED BY <1>8, <1>9, <1>10, <1>11 DEF Inv

\* A call with a new key takes the lock and sends its post.
LEMMA AskKeepsInv ==
  ASSUME Inv, NEW c \in Callers, Ask(c)
  PROVE  Inv'
<1>. DEFINE o == using[c]
<1>1. o \in Objects /\ o # None /\ lock[o] = Nobody /\ call[c] \in Call
      /\ IsMemory(replays[o])
  <2>1. using[c] # None /\ using[c] \in 1 .. opened /\ opened \in 0 .. MaxObjects
        /\ call[c] \in Call
    BY DEF Ask, Inv, TypeOK
  <2>2. o \in Objects
    BY <2>1, ReplayAssumption DEF Objects, ReplayAssumption
  <2>. QED BY <2>1, <2>2 DEF Ask, Inv, TypeOK
<1>2. /\ IsMemory(Unexpired(o)) /\ DOMAIN Unexpired(o) \subseteq DOMAIN replays[o]
      /\ \A k \in DOMAIN Unexpired(o) : Unexpired(o)[k] = replays[o][k]
  BY <1>1, UnexpiredMemory
<1>3. /\ DOMAIN replays' = Objects /\ replays'[o] = Unexpired(o)
      /\ \A q \in Objects \ {o} : replays'[q] = replays[q]
  BY <1>1 DEF Ask, Inv, TypeOK
<1>4. PICK p \in Posts :
        /\ p = Cardinality(DOMAIN post) + 1
        /\ asking' = [asking EXCEPT ![c] = p]
        /\ post' = With(post, p, [call |-> call[c], arrived |-> arrived[c], sent |-> clock,
                                  outcome |-> "none", known |-> "awaited"])
  BY DEF Ask
<1>5. p \notin DOMAIN post /\ DOMAIN post \cup {p} = 1 .. p /\ p \in 0 .. MaxPosts
      /\ p # None
  BY <1>4, NextPost, ReplayAssumption DEF Inv, ReplayAssumption
<1>. DEFINE row == [call |-> call[c], arrived |-> arrived[c], sent |-> clock,
                    outcome |-> "none", known |-> "awaited"]
<1>6. row \in Post /\ row.call = call[c]
  BY <1>1, ReplayAssumption DEF Inv, TypeOK, Post, ReplayAssumption
<1>. HIDE DEF row, o
<1>7. /\ post' \in [DOMAIN post \cup {p} -> Post] /\ DOMAIN post' = DOMAIN post \cup {p}
      /\ post'[p] = row
      /\ \A i \in DOMAIN post : post'[i] = post[i]
  <2>1. post' = With(post, p, row) /\ post \in [DOMAIN post -> Post]
    BY <1>4 DEF row, Inv, TypeOK
  <2>. QED BY <1>5, <1>6, <2>1 DEF With
<1>8. TypeOK'
  <2>1. \A q \in Objects : IsMemory(replays'[q])
    BY <1>1, <1>2, <1>3 DEF Inv, TypeOK
  <2>2. /\ pc' \in [Callers -> {"idle", "connecting", "opening", "queued", "asking", "done"}]
        /\ asking' \in [Callers -> Posts \cup {None}]
        /\ lock' \in [Objects -> Callers \cup {Nobody}]
        /\ DOMAIN post' \subseteq Posts /\ post' \in [DOMAIN post' -> Post]
    BY <1>4, <1>7 DEF Ask, Inv, TypeOK
  <2>3. /\ lock'[o] = c /\ \A q \in Objects \ {o} : lock'[q] = lock[q]
    BY <1>1 DEF Ask, Inv, TypeOK, o
  <2>4. ASSUME NEW d \in Callers
        PROVE  /\ pc'[d] \in {"queued", "asking"} <=> using'[d] # None
               /\ pc'[d] = "asking" <=> asking'[d] # None
               /\ pc'[d] # "idle" <=> call'[d] # None
               /\ pc'[d] = "asking" => asking'[d] \in DOMAIN post' /\ lock'[using'[d]] = d
    <3>1. CASE d = c
      BY <1>1, <1>4, <1>5, <1>7, <2>3, <3>1 DEF Ask, Inv, TypeOK, o
    <3>2. CASE d # c
      <4>1. UNCHANGED <<using, call>> /\ pc'[d] = pc[d] /\ asking'[d] = asking[d]
        BY <1>4, <3>2 DEF Ask, Inv, TypeOK
      <4>2. pc[d] = "asking" => lock[using[d]] = d /\ using[d] # None /\ using[d] \in Objects
        BY ReplayAssumption DEF Inv, TypeOK, Objects, ReplayAssumption
      <4>3. pc[d] = "asking" => using[d] # o
        BY <1>1, <4>2, ReplayAssumption DEF ReplayAssumption
      <4>. QED BY <1>7, <2>3, <4>1, <4>2, <4>3 DEF Inv, TypeOK
    <3>. QED BY <3>1, <3>2
  <2>. QED BY <1>3, <2>1, <2>2, <2>4 DEF Ask, Inv, TypeOK
<1>9. Remembering'
  BY <1>1, <1>2, <1>3, <1>7 DEF Inv, Remembering, WrittenFor
<1>10. \A d \in Callers : Calling(d)'
  <2>. SUFFICES ASSUME NEW d \in Callers PROVE Calling(d)'
    OBVIOUS
  <2>1. CASE d = c
    BY <1>4, <1>6, <1>7, <2>1 DEF Ask, Inv, TypeOK, Calling
  <2>2. CASE d # c
    BY <1>4, <1>7, <2>2, Undisturbed DEF Ask, Inv, TypeOK
  <2>. QED BY <2>1, <2>2
<1>11. Numbered'
  BY <1>5, <1>7 DEF Numbered
<1>. QED BY <1>8, <1>9, <1>10, <1>11 DEF Inv

\* The site carries a post out.
LEMMA WriteKeepsInv ==
  ASSUME Inv, NEW p \in Posts, Write(p)
  PROVE  Inv'
<1>1. p \in DOMAIN post /\ post \in [DOMAIN post -> Post] /\ post[p] \in Post
  BY DEF Write, Inv, TypeOK
<1>2. /\ DOMAIN post' = DOMAIN post /\ post' \in [DOMAIN post -> Post]
      /\ \A q \in DOMAIN post :
           post'[q].call = post[q].call /\ (post[q].outcome # "none" => post'[q].outcome # "none")
  BY <1>1 DEF Write, Post
<1>3. TypeOK'
  BY <1>2 DEF Write, Inv, TypeOK
<1>4. Remembering' /\ Numbered'
  BY <1>2 DEF Write, Inv, Remembering, WrittenFor, Numbered
<1>5. \A c \in Callers : Calling(c)'
  BY <1>2, Undisturbed DEF Write, Inv
<1>. QED BY <1>3, <1>4, <1>5 DEF Inv

\* A caller that asks has the lock of an object that exists, and no other has.
LEMMA AskerHolds ==
  ASSUME Inv, NEW c \in Callers, pc[c] = "asking"
  PROVE  /\ using[c] \in Objects /\ using[c] # None /\ lock[using[c]] = c
         /\ asking[c] \in DOMAIN post /\ asking[c] \in Posts /\ asking[c] # None
         /\ call[c] \in Call /\ post[asking[c]].call = call[c]
         /\ post \in [DOMAIN post -> Post] /\ post[asking[c]] \in Post
         /\ \A d \in Callers \ {c} : pc[d] = "asking" => using[d] # using[c]
  BY ReplayAssumption DEF Inv, TypeOK, Calling, Objects, ReplayAssumption

\* What an end of the request leaves of the calls.
LEMMA LeaveEffect ==
  ASSUME Inv, NEW c \in Callers, pc[c] = "asking",
         NEW result \in Posts \cup {None}, Leave(c, result),
         lock' = [lock EXCEPT ![using[c]] = Nobody],
         UNCHANGED <<clock, current, opened, seen, creating, call, arrived>>,
         DOMAIN post' = DOMAIN post, post' \in [DOMAIN post -> Post],
         DOMAIN replays' = Objects, \A o \in Objects : IsMemory(replays'[o])
  PROVE  TypeOK'
<1>1. /\ pc' \in [Callers -> {"idle", "connecting", "opening", "queued", "asking", "done"}]
      /\ using' \in [Callers -> 1 .. opened \cup {None}]
      /\ asking' \in [Callers -> Posts \cup {None}]
      /\ answer' \in [Callers -> Posts \cup {None}]
      /\ lock' \in [Objects -> Callers \cup {Nobody}]
  BY DEF Leave, Inv, TypeOK
<1>2. \A o \in Objects : o # using[c] => lock'[o] = lock[o]
  BY DEF Inv, TypeOK
<1>3. ASSUME NEW d \in Callers
      PROVE  /\ pc'[d] \in {"queued", "asking"} <=> using'[d] # None
             /\ pc'[d] = "asking" <=> asking'[d] # None
             /\ pc'[d] # "idle" <=> call'[d] # None
             /\ pc'[d] = "asking" => asking'[d] \in DOMAIN post' /\ lock'[using'[d]] = d
  <2>1. CASE d = c
    BY <2>1 DEF Leave, Inv, TypeOK
  <2>2. CASE d # c
    <3>1. /\ pc'[d] = pc[d] /\ using'[d] = using[d] /\ asking'[d] = asking[d]
          /\ call'[d] = call[d]
      BY <2>2 DEF Leave, Inv, TypeOK
    <3>2. pc[d] = "asking" => lock'[using[d]] = d
      BY <1>2, <2>2, AskerHolds
    <3>. QED BY <3>1, <3>2 DEF Inv, TypeOK
  <2>. QED BY <2>1, <2>2
<1>. QED BY <1>1, <1>3 DEF Inv, TypeOK

\* The answer is remembered under the key of the call.
LEMMA AnsweredKeepsInv ==
  ASSUME Inv, NEW c \in Callers, Answered(c)
  PROVE  Inv'
<1>. DEFINE o == using[c]
            p == asking[c]
            key == call[c].key
            row == [arguments |-> call[c].arguments, expires |-> post[p].sent + ReplayTTL,
                    result |-> p]
<1>1. /\ pc[c] = "asking" /\ Leave(c, p)
      /\ replays' = [replays EXCEPT ![o] = With(@, key, row)]
      /\ post' = [post EXCEPT ![p].known = "kept",
                              ![p].outcome = IF @ = "none" THEN "said" ELSE @]
      /\ lock' = [lock EXCEPT ![o] = Nobody]
      /\ UNCHANGED <<clock, current, opened, seen, creating, call, arrived>>
  BY DEF Answered
<1>2. /\ o \in Objects /\ p \in DOMAIN post /\ p \in Posts /\ p # None
      /\ call[c] \in Call /\ post[p].call = call[c] /\ post[p] \in Post
      /\ post \in [DOMAIN post -> Post]
  BY <1>1, AskerHolds
<1>3. /\ DOMAIN post' = DOMAIN post /\ post' \in [DOMAIN post -> Post]
      /\ post'[p].outcome # "none"
      /\ \A q \in DOMAIN post :
           post'[q].call = post[q].call /\ (post[q].outcome # "none" => post'[q].outcome # "none")
  BY <1>1, <1>2 DEF Post
<1>4. key \in Keys /\ row \in Replay /\ call[c] = [key |-> key, arguments |-> row.arguments]
      /\ row.result = p
  BY <1>2, ReplayAssumption DEF Call, Replay, Post, ReplayAssumption
<1>5. IsMemory(replays[o]) /\ DOMAIN replays = Objects
  BY <1>2 DEF Inv, TypeOK
<1>. HIDE DEF o, p, key, row
<1>6. /\ DOMAIN replays' = Objects
      /\ \A q \in Objects \ {o} : replays'[q] = replays[q]
      /\ replays'[o] = With(replays[o], key, row)
  BY <1>1, <1>2, <1>5
<1>7. /\ DOMAIN replays'[o] = DOMAIN replays[o] \cup {key}
      /\ replays'[o][key] = row
      /\ \A k \in DOMAIN replays[o] : k # key => replays'[o][k] = replays[o][k]
      /\ IsMemory(replays'[o])
  BY <1>4, <1>5, <1>6 DEF With, IsMemory
<1>8. TypeOK'
  <2>1. \A q \in Objects : IsMemory(replays'[q])
    BY <1>6, <1>7 DEF Inv, TypeOK
  <2>. QED BY <1>1, <1>2, <1>3, <1>6, <2>1, LeaveEffect DEF o, p
<1>9. Remembering'
  <2>. SUFFICES ASSUME NEW q \in Objects, NEW k \in DOMAIN replays'[q]
                PROVE  WrittenFor(replays[q][k].result, k, replays[q][k].arguments)'
    BY DEF Remembering
  <2>1. CASE q = o /\ k = key
    BY <1>1, <1>2, <1>3, <1>4, <1>7, <2>1 DEF WrittenFor
  <2>2. CASE q # o \/ k # key
    <3>1. k \in DOMAIN replays[q] /\ replays'[q][k] = replays[q][k]
      BY <1>6, <1>7, <2>2
    <3>. QED BY <1>3, <3>1 DEF Inv, Remembering, WrittenFor
  <2>. QED BY <2>1, <2>2
<1>10. \A d \in Callers : Calling(d)'
  <2>. SUFFICES ASSUME NEW d \in Callers PROVE Calling(d)'
    OBVIOUS
  <2>1. CASE d = c
    <3>1. pc'[c] = "done" /\ answer'[c] = p /\ call'[c] = call[c]
      BY <1>1 DEF Leave, Inv, TypeOK
    <3>2. call[c] = [key |-> call[c].key, arguments |-> call[c].arguments]
      BY <1>2 DEF Call
    <3>. QED BY <1>1, <1>2, <1>3, <2>1, <3>1, <3>2 DEF Calling, WrittenFor
  <2>2. CASE d # c
    BY <1>1, <1>3, <2>2, Undisturbed DEF Leave, Inv, TypeOK
  <2>. QED BY <2>1, <2>2
<1>11. Numbered'
  BY <1>3 DEF Inv, Numbered
<1>. QED BY <1>8, <1>9, <1>10, <1>11 DEF Inv

\* An error is not remembered.
LEMMA UnansweredKeepsInv ==
  ASSUME Inv, NEW c \in Callers, Unanswered(c)
  PROVE  Inv'
<1>1. pc[c] = "asking" /\ Leave(c, None)
  BY DEF Unanswered
<1>2. /\ asking[c] \in DOMAIN post /\ post[asking[c]] \in Post
      /\ post \in [DOMAIN post -> Post]
  BY <1>1, AskerHolds
<1>3. /\ DOMAIN post' = DOMAIN post /\ post' \in [DOMAIN post -> Post]
      /\ \A q \in DOMAIN post :
           post'[q].call = post[q].call /\ (post[q].outcome # "none" => post'[q].outcome # "none")
  BY <1>2 DEF Unanswered, Post
<1>4. TypeOK'
  <2>1. DOMAIN replays' = Objects /\ \A o \in Objects : IsMemory(replays'[o])
    BY DEF Unanswered, Inv, TypeOK
  <2>. QED BY <1>1, <1>3, <2>1, LeaveEffect DEF Unanswered
<1>5. Remembering' /\ Numbered'
  BY <1>3 DEF Unanswered, Inv, Remembering, WrittenFor, Numbered
<1>6. \A d \in Callers : Calling(d)'
  <2>. SUFFICES ASSUME NEW d \in Callers PROVE Calling(d)'
    OBVIOUS
  <2>1. CASE d = c
    BY <1>1, <2>1 DEF Leave, Inv, TypeOK, Calling
  <2>2. CASE d # c
    BY <1>1, <1>3, <2>2, Undisturbed DEF Unanswered, Leave, Inv, TypeOK
  <2>. QED BY <2>1, <2>2
<1>. QED BY <1>4, <1>5, <1>6 DEF Inv

\* The client has what it asked for, or the error.
LEMMA ReturnKeepsInv ==
  ASSUME Inv, NEW c \in Callers, Return(c)
  PROVE  Inv'
<1>1. TypeOK'
  BY DEF Return, Inv, TypeOK
<1>2. \A d \in Callers : Calling(d)'
  <2>. SUFFICES ASSUME NEW d \in Callers PROVE Calling(d)'
    OBVIOUS
  <2>1. CASE d = c
    BY <2>1 DEF Return, Inv, TypeOK, Calling
  <2>2. CASE d # c
    BY <2>2, Undisturbed DEF Return, Inv, TypeOK
  <2>. QED BY <2>1, <2>2
<1>. QED BY <1>1, <1>2, NothingSent DEF Return

\* Calls and memory are gone; posts remain what they are.
LEMMA RestartKeepsInv ==
  ASSUME Inv, Restart
  PROVE  Inv'
<1>1. DOMAIN NoRows = {} /\ IsMemory(NoRows)
  BY DEF NoRows, IsMemory
<1>2. post \in [DOMAIN post -> Post]
  BY DEF Inv, TypeOK
<1>3. DOMAIN post' = DOMAIN post /\ post' \in [DOMAIN post -> Post]
  BY <1>2 DEF Restart, Post
<1>4. TypeOK'
  BY <1>1, <1>3 DEF Restart, Inv, TypeOK
<1>5. Remembering' /\ Numbered' /\ \A c \in Callers : Calling(c)'
  BY <1>1, <1>3 DEF Restart, Inv, Remembering, Numbered, Calling
<1>. QED BY <1>4, <1>5 DEF Inv

\* Every step keeps the invariant.
LEMMA NextKeepsInv == Inv /\ [Next]_vars => Inv'
<1>. SUFFICES ASSUME Inv, [Next]_vars PROVE Inv'
  OBVIOUS
<1>1. CASE UNCHANGED vars
  BY <1>1, NothingSent DEF vars, Inv, TypeOK, Calling, WrittenFor
<1>2. ASSUME NEW c \in Callers, NEW k \in Keys, NEW a \in Arguments, Arrive(c, k, a)
      PROVE  Inv'
  BY <1>2, ArriveKeepsInv
<1>3. ASSUME NEW c \in Callers, Connect(c) PROVE Inv'
  BY <1>3, ConnectKeepsInv
<1>4. ASSUME NEW c \in Callers, RunOnce(c) PROVE Inv'
  BY <1>4, ReplayKeepsInv, AskKeepsInv, AnsweredKeepsInv, UnansweredKeepsInv, ReturnKeepsInv
     DEF RunOnce
<1>5. ASSUME NEW p \in Posts, Write(p) PROVE Inv'
  BY <1>5, WriteKeepsInv
<1>6. CASE Restart
  BY <1>6, RestartKeepsInv
<1>7. CASE Tick
  <2>1. TypeOK'
    BY <1>7, ReplayAssumption DEF Tick, Inv, TypeOK, ReplayAssumption
  <2>2. \A c \in Callers : Calling(c)'
    BY <1>7, Undisturbed DEF Tick, Inv
  <2>. QED BY <1>7, <2>1, <2>2, NothingSent DEF Tick
<1>. QED BY <1>1, <1>2, <1>3, <1>4, <1>5, <1>6, <1>7 DEF Next

\* The invariant holds in every state.
THEOREM Invariance == Spec => []Inv
<1>. QED BY InitInv, NextKeepsInv, PTL DEF Spec

-----------------------------------------------------------------------------
(* Repeated calls: the theorems.                                           *)

\* Calls, locks and memories keep their types, and a call that waits for the
\* site has the lock of its connection.
THEOREM TypeCorrect == Spec => []TypeOK
<1>1. Inv => TypeOK
  BY DEF Inv
<1>. QED BY <1>1, Invariance, PTL

\* The text that a call is given is that of a request with its own key and arguments,
\* which has ended with a text, whether the call made it or another did before
\* (_run_once).  It may say that nothing was written.
THEOREM Answers == Spec => []AnswersTheCall
<1>1. Inv => AnswersTheCall
  <2>. SUFFICES ASSUME Inv, NEW c \in Callers, answer[c] # None
                PROVE  post[answer[c]].outcome # "none" /\ post[answer[c]].call = call[c]
    BY DEF AnswersTheCall
  <2>1. call[c] \in Call
    BY DEF Inv, Calling, TypeOK
  <2>2. call[c] = [key |-> call[c].key, arguments |-> call[c].arguments]
    BY <2>1 DEF Call
  <2>. QED BY <2>2 DEF Inv, Calling, WrittenFor
<1>. QED BY <1>1, Invariance, PTL

-----------------------------------------------------------------------------
(* The queue of a connection: no connection is forgotten while it is used. *)

Users == {c \in Callers : using[c] # None}

\* One call at a time opens the connection, and only while there is none.
Opening ==
  /\ creating # Nobody => current = None /\ pc[creating] = "opening"
  /\ \A c \in Callers : pc[c] = "opening" => creating = c

\* A call waits for the connection no longer than for one request, and that of the
\* call that opens it was there first.
Connecting ==
  /\ \A c, d \in Callers :
       pc[c] = "opening" /\ pc[d] = "connecting" => arrived[c] <= arrived[d]
  /\ \A c \in Callers : pc[c] \in {"connecting", "opening"} => clock <= arrived[c] + Patience
  /\ \A c \in Callers : pc[c] = "connecting" /\ creating = Nobody =>
       IF current = None THEN arrived[c] = clock ELSE clock <= seen + Patience

\* The holder of a lock waits for the site.
Holding ==
  \A o \in Objects : lock[o] # Nobody => pc[lock[o]] = "asking" /\ using[lock[o]] = o

\* When the last request of the queue is sent, at the latest, if the connection was
\* asked for last at this time: each of the calls that are not in the queue, or not
\* any more, has taken its turn.
Due(time, queue) == time + Patience * (1 + Cardinality(Callers) - Cardinality(queue))

Queueing ==
  /\ \A c \in Users : using[c] = current /\ arrived[c] <= seen + Patience
  /\ \A c \in Callers : pc[c] = "asking" =>
       clock <= post[asking[c]].sent + Patience /\ post[asking[c]].sent <= Due(seen, Users)
  /\ Users # {} /\ lock[current] = Nobody => clock <= Due(seen, Users)

Queue == Opening /\ Connecting /\ Holding /\ Queueing

\* Turns of the queue, each as long as a request may take.
LEMMA Turns ==
  /\ Patience \in Nat \ {0} /\ ConnectionTTL \in Nat /\ ReplayTTL \in Nat
  /\ \A m \in Nat : Patience * m \in Nat /\ Patience * (m + 1) = Patience * m + Patience
  /\ \A m, n \in Nat : m <= n => Patience * m <= Patience * n
<1>1. Patience \in Nat \ {0}
  BY ReplayAssumption DEF ReplayAssumption
<1>. QED BY <1>1, ReplayAssumption DEF ReplayAssumption

\* The queue is through by Due, and Due is before the connection is forgotten.  A call
\* that leaves the queue gives its turn to the others.
LEMMA DueBounds ==
  ASSUME NEW time \in Nat, NEW queue \in SUBSET Callers
  PROVE  /\ Due(time, queue) \in Nat
         /\ time + Patience <= Due(time, queue)
         /\ queue # {} => Due(time, queue) + Patience <= time + ConnectionTTL
         /\ \A c \in queue : Due(time, queue \ {c}) = Due(time, queue) + Patience
<1>. DEFINE n == Cardinality(Callers)
            u == Cardinality(queue)
            r == 1 + n - u
            turns == Patience * r
            all == Patience * (1 + n)
<1>1. IsFiniteSet(Callers) /\ all <= ConnectionTTL
  BY QueueAssumption DEF QueueAssumption
<1>2. IsFiniteSet(queue) /\ n \in Nat /\ u \in Nat /\ u <= n /\ (queue # {} => u # 0)
  BY <1>1, FS_Subset, FS_CardinalityType, FS_EmptySet
<1>3. \A c \in queue : Cardinality(queue \ {c}) = u - 1
  BY <1>2, FS_RemoveElement
<1>4. Due(time, queue) = time + turns
  BY DEF Due
<1>5. \A c \in queue :
        Due(time, queue \ {c}) = time + Patience * (1 + n - Cardinality(queue \ {c}))
  BY DEF Due
<1>. HIDE DEF n, u
<1>6. r \in Nat /\ 1 <= r /\ (queue # {} => r <= n) /\ 1 + n - (u - 1) = r + 1
  BY <1>2
<1>. HIDE DEF r
<1>7. turns \in Nat /\ Patience * 1 <= turns /\ Patience * 1 = Patience
      /\ Patience * (r + 1) = turns + Patience
  BY <1>6, Turns
<1>8. queue # {} => turns <= Patience * n
  BY <1>2, <1>6, Turns
<1>9. Patience * n \in Nat /\ all = Patience * n + Patience
  BY <1>2, Turns
<1>10. \A c \in queue : Due(time, queue \ {c}) = time + (turns + Patience)
  BY <1>3, <1>5, <1>6, <1>7
<1>. HIDE DEF turns, all
<1>. QED BY <1>1, <1>4, <1>7, <1>8, <1>9, <1>10, Turns

\* A connection that calls use, or are about to find, is not forgotten.
LEMMA UsedIsNotIdle ==
  ASSUME TypeOK, Queue,
         Users # {} \/ \E c \in Callers : pc[c] = "connecting" /\ creating = Nobody
  PROVE  ~Idle
<1>0. clock \in Nat /\ seen \in Nat /\ Users \in SUBSET Callers
  BY ReplayAssumption DEF TypeOK, Users, ReplayAssumption
<1>. SUFFICES ASSUME current # None PROVE clock - seen <= ConnectionTTL
  BY <1>0, Turns DEF Idle
<1>. DEFINE due == Due(seen, Users)
<1>1. Patience <= ConnectionTTL
  <2>. DEFINE n == 1 + Cardinality(Callers)
  <2>1. n \in Nat /\ 1 <= n /\ Patience * n <= ConnectionTTL
    BY FS_CardinalityType, QueueAssumption DEF QueueAssumption
  <2>. HIDE DEF n
  <2>2. Patience * 1 <= Patience * n /\ Patience * 1 = Patience /\ Patience * n \in Nat
    BY <2>1, Turns
  <2>. QED BY <2>1, <2>2, Turns
<1>2. due \in Nat /\ (Users # {} => due + Patience <= seen + ConnectionTTL)
  BY <1>0, DueBounds
<1>3. CASE \E c \in Callers : pc[c] = "connecting" /\ creating = Nobody
  BY <1>0, <1>1, <1>3, Turns DEF Queue, Connecting
<1>4. CASE Users # {}
  <2>1. CASE lock[current] = Nobody
    <3>1. clock <= due
      BY <1>4, <2>1 DEF Queue, Queueing
    <3>. HIDE DEF due
    <3>. QED BY <1>0, <1>2, <1>4, <3>1, Turns
  <2>2. CASE lock[current] # Nobody
    <3>1. current \in Objects
      BY ReplayAssumption DEF TypeOK, Objects, ReplayAssumption
    <3>2. PICK c \in Callers : pc[c] = "asking"
      BY <2>2, <3>1 DEF Queue, Holding, TypeOK
    <3>3. post[asking[c]].sent \in Nat
      BY <3>2 DEF TypeOK, Post
    <3>4. clock <= post[asking[c]].sent + Patience /\ post[asking[c]].sent <= due
      BY <3>2 DEF Queue, Queueing
    <3>. HIDE DEF due
    <3>. QED BY <1>0, <1>2, <1>4, <3>3, <3>4, Turns
  <2>. QED BY <2>1, <2>2
<1>. QED BY <1>3, <1>4

-----------------------------------------------------------------------------
(* Posts.                                                                  *)

\* A post is sent after its call came, and posts are sent in turn.
Sending ==
  /\ \A p \in DOMAIN post : post[p].arrived <= post[p].sent /\ post[p].sent <= clock
  /\ \A p, q \in DOMAIN post : p < q => post[p].sent <= post[q].sent

\* What a step leaves of the posts: whose they are, and when they were sent.
SentAsBefore ==
  /\ DOMAIN post \subseteq DOMAIN post'
  /\ \A p \in DOMAIN post :
       /\ post'[p].call = post[p].call
       /\ post'[p].arrived = post[p].arrived
       /\ post'[p].sent = post[p].sent

\* The post of a call that asks is the last one.
LEMMA AskedPost ==
  ASSUME Inv, NEW c \in Callers, Ask(c)
  PROVE  /\ asking'[c] \notin DOMAIN post /\ DOMAIN post' = DOMAIN post \cup {asking'[c]}
         /\ post'[asking'[c]] =
              [call |-> call[c], arrived |-> arrived[c], sent |-> clock,
               outcome |-> "none", known |-> "awaited"]
         /\ \A p \in DOMAIN post : post'[p] = post[p] /\ p < asking'[c]
<1>1. PICK p \in Posts :
        /\ p = Cardinality(DOMAIN post) + 1
        /\ asking' = [asking EXCEPT ![c] = p]
        /\ post' = With(post, p, [call |-> call[c], arrived |-> arrived[c], sent |-> clock,
                                  outcome |-> "none", known |-> "awaited"])
  BY DEF Ask
<1>2. p \notin DOMAIN post /\ DOMAIN post \cup {p} = 1 .. p /\ p \in Nat
  BY <1>1, NextPost, ReplayAssumption DEF Inv, ReplayAssumption
<1>3. asking'[c] = p
  BY <1>1 DEF Inv, TypeOK
<1>4. \A i \in DOMAIN post : i < p
  <2>1. \A i \in DOMAIN post : i \in 1 .. p /\ i # p
    BY <1>2
  <2>. QED BY <1>2, <2>1
<1>. QED BY <1>1, <1>2, <1>3, <1>4 DEF With

\* Only a call that asks sends a post; the others keep theirs.
LEMMA PostsStay ==
  ASSUME Inv, [Next]_vars
  PROVE  /\ SentAsBefore
         /\ clock' \in Nat /\ clock <= clock'
         /\ (\E c \in Callers : Ask(c)) \/ DOMAIN post' = DOMAIN post
<1>1. post \in [DOMAIN post -> Post] /\ clock \in Nat
  BY ReplayAssumption DEF Inv, TypeOK, ReplayAssumption
<1>2. CASE \E c \in Callers : Ask(c)
  <2>1. PICK c \in Callers : Ask(c)
    BY <1>2
  <2>2. clock' = clock
    BY <2>1 DEF Ask
  <2>3. DOMAIN post \subseteq DOMAIN post' /\ \A p \in DOMAIN post : post'[p] = post[p]
    BY <2>1, AskedPost
  <2>. QED BY <1>1, <1>2, <2>2, <2>3 DEF SentAsBefore
<1>3. CASE UNCHANGED <<post, clock>>
  BY <1>1, <1>3 DEF SentAsBefore
<1>4. ASSUME NEW p \in Posts, Write(p)
      PROVE  SentAsBefore /\ DOMAIN post' = DOMAIN post /\ clock' = clock
  BY <1>1, <1>4 DEF Write, SentAsBefore, Post
<1>5. ASSUME NEW c \in Callers, Answered(c) \/ Unanswered(c)
      PROVE  SentAsBefore /\ DOMAIN post' = DOMAIN post /\ clock' = clock
  BY <1>1, <1>5 DEF Answered, Unanswered, SentAsBefore, Post
<1>6. CASE Restart
  BY <1>1, <1>6 DEF Restart, SentAsBefore, Post
<1>7. CASE Tick
  BY <1>1, <1>7 DEF Tick, SentAsBefore
<1>. QED
  BY <1>1, <1>2, <1>3, <1>4, <1>5, <1>6, <1>7
  DEF Next, vars, Connect, RunOnce, Arrive, FindOpened, Open, Opened, ReplayAnswer, Return

\* Posts go on being sent in turn.
LEMMA SendingKept ==
  ASSUME Inv, Sending, [Next]_vars
  PROVE  Sending'
<1>1. /\ SentAsBefore /\ clock \in Nat /\ clock' \in Nat /\ clock <= clock'
      /\ (\E c \in Callers : Ask(c)) \/ DOMAIN post' = DOMAIN post
      /\ \A p \in DOMAIN post : post[p].sent \in Nat /\ p \in Nat
  BY PostsStay, ReplayAssumption DEF Inv, TypeOK, Posts, Post, ReplayAssumption
<1>2. CASE DOMAIN post' = DOMAIN post
  BY <1>1, <1>2 DEF Sending, SentAsBefore
<1>3. CASE \E c \in Callers : Ask(c)
  <2>1. PICK c \in Callers : Ask(c)
    BY <1>3
  <2>2. clock' = clock /\ arrived[c] \in 0 .. clock
    BY <2>1 DEF Ask, Inv, TypeOK
  <2>. DEFINE n == asking'[c]
  <2>3. /\ n \notin DOMAIN post /\ DOMAIN post' = DOMAIN post \cup {n}
        /\ post'[n].arrived = arrived[c] /\ post'[n].sent = clock
        /\ \A p \in DOMAIN post : p < n /\ ~(n < p)
    <3>1. /\ n \notin DOMAIN post /\ DOMAIN post' = DOMAIN post \cup {n}
          /\ post'[n] = [call |-> call[c], arrived |-> arrived[c], sent |-> clock,
                         outcome |-> "none", known |-> "awaited"]
          /\ \A p \in DOMAIN post : p < n
      BY <2>1, AskedPost
    <3>2. DOMAIN post' \subseteq Posts
      BY NextKeepsInv DEF Inv, TypeOK
    <3>3. n \in Nat
      BY <3>1, <3>2 DEF Posts
    <3>. QED BY <1>1, <3>1, <3>3
  <2>. HIDE DEF n
  <2>. QED BY <1>1, <2>2, <2>3 DEF Sending, SentAsBefore
<1>. QED BY <1>1, <1>2, <1>3

-----------------------------------------------------------------------------
(* Steps of the queue.                                                     *)

\* Who uses a connection.
LEMMA UsersAre ==
  ASSUME TypeOK
  PROVE  /\ Users = {c \in Callers : pc[c] \in {"queued", "asking"}}
         /\ \A c \in Users : using[c] \in Objects /\ using[c] # None
         /\ \A c \in Callers : pc[c] = "asking" =>
              c \in Users /\ lock[using[c]] = c /\ asking[c] \in DOMAIN post
                /\ post[asking[c]].sent \in Nat
  BY ReplayAssumption DEF Users, TypeOK, Objects, Post, ReplayAssumption

\* A call joins the queue: of a connection that is there, or of a new one.
LEMMA JoinKeepsQueueing ==
  ASSUME Inv, TypeOK', Sending, Queueing, Holding,
         NEW c \in Callers, pc[c] \in {"idle", "connecting", "opening"},
         NEW o \in Objects, NEW time \in Nat, Join(c, o, time),
         clock <= time + Patience, Users = {} \/ current = o, current' = o,
         UNCHANGED <<clock, lock, asking, post>>
  PROVE  Holding' /\ Queueing'
<1>1. /\ using'[c] = o /\ pc'[c] = "queued" /\ seen' = time
      /\ \A d \in Callers \ {c} : using'[d] = using[d] /\ pc'[d] = pc[d]
  BY DEF Join, Inv, TypeOK
<1>2. TypeOK
  BY DEF Inv
<1>3. Users' = Users \cup {c} /\ c \notin Users
  BY <1>1, <1>2, UsersAre, ReplayAssumption DEF Users, ReplayAssumption, TypeOK
<1>4. Users' \in SUBSET Callers /\ Users' # {}
  BY <1>3 DEF Users
<1>. DEFINE due == Due(time, Users')
<1>5. due \in Nat /\ time + Patience <= due
  BY <1>4, DueBounds
<1>6. clock <= due /\ clock \in Nat
  BY <1>5, Turns, ReplayAssumption DEF Inv, TypeOK, ReplayAssumption
<1>7. \A d \in Callers : pc'[d] = "asking" => pc[d] = "asking" /\ d # c
  BY <1>1
<1>8. Holding'
  BY <1>1, <1>7 DEF Holding, Inv, TypeOK
<1>9. ASSUME NEW d \in Users'
      PROVE  using'[d] = current' /\ arrived'[d] <= seen' + Patience
  <2>1. using'[d] = o
    BY <1>1, <1>2, <1>3, <1>9, UsersAre DEF Queueing
  <2>2. arrived'[d] \in 0 .. clock
    BY <1>4, <1>9 DEF TypeOK
  <2>3. arrived'[d] <= time + Patience
    BY <1>6, <2>2, Turns
  <2>. QED BY <1>1, <2>1, <2>3
<1>10. ASSUME NEW d \in Callers, pc'[d] = "asking"
       PROVE  clock' <= post'[asking'[d]].sent + Patience /\ post'[asking'[d]].sent <= due
  <2>1. asking[d] \in DOMAIN post /\ post[asking[d]].sent \in Nat
    BY <1>2, <1>7, <1>10, UsersAre
  <2>2. post[asking[d]].sent <= clock /\ clock <= post[asking[d]].sent + Patience
    BY <1>7, <1>10, <2>1 DEF Sending, Queueing
  <2>. HIDE DEF due
  <2>. QED BY <1>5, <1>6, <2>1, <2>2
<1>11. Due(seen', Users') = due
  BY <1>1
<1>. HIDE DEF due
<1>. QED BY <1>6, <1>8, <1>9, <1>10, <1>11 DEF Queueing

\* A call leaves the queue, and the lock is free.
LEMMA LeaveKeepsQueue ==
  ASSUME Inv, TypeOK', Queue, NEW c \in Callers, NEW result, Leave(c, result),
         \/ pc[c] = "asking" /\ lock' = [lock EXCEPT ![using[c]] = Nobody]
         \/ pc[c] = "queued" /\ lock[using[c]] = Nobody /\ lock' = lock,
         UNCHANGED <<clock, current, seen, creating, arrived>>,
         \A p \in DOMAIN post : post'[p].sent = post[p].sent
  PROVE  Queue'
<1>. DEFINE due == Due(seen, Users)
<1>1. TypeOK /\ Opening /\ Connecting /\ Holding /\ Queueing
  BY DEF Inv, Queue
<1>2. /\ using' = [using EXCEPT ![c] = None] /\ pc' = [pc EXCEPT ![c] = "done"]
      /\ asking' = [asking EXCEPT ![c] = None]
      /\ \A d \in Callers \ {c} :
           using'[d] = using[d] /\ pc'[d] = pc[d] /\ asking'[d] = asking[d]
      /\ using'[c] = None /\ pc'[c] = "done"
  BY <1>1 DEF Leave, TypeOK
<1>3. c \in Users /\ Users' = Users \ {c} /\ Users \in SUBSET Callers
  BY <1>1, <1>2, UsersAre DEF Users
<1>4. seen \in Nat /\ clock \in Nat
  BY <1>1, ReplayAssumption DEF TypeOK, ReplayAssumption
<1>5. /\ due \in Nat /\ Due(seen', Users') = due + Patience
  BY <1>3, <1>4, DueBounds
<1>6. using[c] = current /\ current \in Objects
  BY <1>1, <1>3, UsersAre DEF Queueing
<1>7. lock'[current] = Nobody /\ \A o \in Objects \ {current} : lock'[o] = lock[o]
  BY <1>1, <1>6 DEF TypeOK
<1>8. clock <= due + Patience
  <2>1. CASE pc[c] = "asking"
    <3>1. post[asking[c]].sent \in Nat
      BY <1>1, <2>1, UsersAre
    <3>2. clock <= post[asking[c]].sent + Patience /\ post[asking[c]].sent <= due
      BY <1>1, <2>1 DEF Queueing
    <3>. HIDE DEF due
    <3>. QED BY <1>4, <1>5, <3>1, <3>2, Turns
  <2>2. CASE lock[using[c]] = Nobody
    <3>1. clock <= due
      BY <1>1, <1>3, <1>6, <2>2 DEF Queueing
    <3>. HIDE DEF due
    <3>. QED BY <1>4, <1>5, <3>1, Turns
  <2>. QED BY <2>1, <2>2
<1>9. Opening' /\ Connecting'
  <2>1. creating # Nobody => creating # c \/ pc[c] = "opening"
    BY <1>1 DEF Opening
  <2>2. pc[c] # "opening"
    OBVIOUS
  <2>3. creating \in Callers \cup {Nobody}
    BY <1>1 DEF TypeOK
  <2>. QED BY <1>1, <1>2, <2>1, <2>2, <2>3 DEF Opening, Connecting
<1>10. Holding'
  <2>. SUFFICES ASSUME NEW o \in Objects, lock'[o] # Nobody
                PROVE  pc'[lock'[o]] = "asking" /\ using'[lock'[o]] = o
    BY DEF Holding
  <2>1. o # current /\ lock'[o] = lock[o] /\ lock[o] \in Callers
    BY <1>1, <1>7 DEF TypeOK
  <2>2. pc[lock[o]] = "asking" /\ using[lock[o]] = o
    BY <1>1, <2>1 DEF Holding
  <2>3. lock[o] # c
    BY <1>6, <2>1, <2>2
  <2>. QED BY <1>2, <2>1, <2>2, <2>3
<1>11. ASSUME NEW d \in Callers, pc'[d] = "asking"
       PROVE  FALSE
  <2>1. d # c /\ pc[d] = "asking"
    BY <1>2, <1>11
  <2>2. d \in Users /\ lock[using[d]] = d
    BY <1>1, <2>1, UsersAre
  <2>3. using[d] = current
    BY <1>1, <2>2 DEF Queueing
  <2>4. lock[current] = c \/ lock[current] = Nobody
    BY <1>1, <1>6, UsersAre
  <2>. QED BY <2>1, <2>2, <2>3, <2>4, ReplayAssumption DEF ReplayAssumption
<1>12. \A d \in Users' : using'[d] = current' /\ arrived'[d] <= seen' + Patience
  BY <1>1, <1>2, <1>3 DEF Queueing
<1>13. clock' <= Due(seen', Users')
  BY <1>5, <1>8
<1>14. Queueing'
  BY <1>11, <1>12, <1>13 DEF Queueing
<1>. QED BY <1>9, <1>10, <1>14 DEF Queue

\* A call comes, and finds the connection in use or none.
LEMMA ArriveKeepsQueue ==
  ASSUME Inv, TypeOK', Sending, Queue,
         NEW c \in Callers, NEW k \in Keys, NEW a \in Arguments, Arrive(c, k, a)
  PROVE  Queue'
<1>1. TypeOK /\ Opening /\ Connecting /\ Holding /\ Queueing
  BY DEF Inv, Queue
<1>2. clock \in Nat /\ seen \in Nat /\ Users \in SUBSET Callers
  BY <1>1, ReplayAssumption DEF TypeOK, Users, ReplayAssumption
<1>3. /\ arrived'[c] = clock /\ \A d \in Callers \ {c} : arrived'[d] = arrived[d]
      /\ pc[c] = "idle" /\ UNCHANGED <<clock, creating, lock, asking, post>>
      /\ creating # c
  BY <1>1, ReplayAssumption DEF Arrive, TypeOK, Opening, ReplayAssumption
<1>4. CASE current = None \/ Idle
  <2>1. /\ current' = None /\ pc'[c] = "connecting" /\ using' = using /\ seen' = seen
        /\ \A d \in Callers \ {c} : pc'[d] = pc[d]
    BY <1>1, <1>4 DEF Arrive, TypeOK
  <2>2. Users = {} /\ (current = None \/ \A d \in Callers :
          ~(pc[d] = "connecting" /\ creating = Nobody))
    <3>1. CASE current = None
      BY <1>1, <3>1, UsersAre DEF Queueing
    <3>2. CASE Idle
      BY <1>1, <3>2, UsedIsNotIdle
    <3>. QED BY <1>4, <3>1, <3>2
  <2>3. Users' = {} /\ \A d \in Callers : pc[d] # "asking"
    BY <1>1, <2>1, <2>2, UsersAre DEF Users
  <2>4. Opening'
    BY <1>1, <1>3, <2>1, ReplayAssumption DEF Opening, TypeOK, ReplayAssumption
  <2>5. Connecting'
    <3>1. \A d \in Callers : arrived[d] <= clock /\ arrived[d] \in Nat
      BY <1>1, <1>2 DEF TypeOK
    <3>2. ASSUME NEW d \in Callers, NEW e \in Callers,
                 pc'[d] = "opening", pc'[e] = "connecting"
          PROVE  arrived'[d] <= arrived'[e]
      BY <1>1, <1>3, <2>1, <3>1, <3>2 DEF Connecting
    <3>3. ASSUME NEW d \in Callers, pc'[d] \in {"connecting", "opening"}
          PROVE  clock' <= arrived'[d] + Patience
      BY <1>1, <1>2, <1>3, <2>1, <3>3, Turns DEF Connecting
    <3>4. ASSUME NEW d \in Callers, pc'[d] = "connecting", creating' = Nobody
          PROVE  arrived'[d] = clock'
      BY <1>1, <1>3, <2>1, <2>2, <3>4 DEF Connecting
    <3>. QED BY <2>1, <3>2, <3>3, <3>4 DEF Connecting
  <2>6. Holding'
    <3>1. \A o \in Objects : lock[o] = Nobody
      BY <1>1, <2>3 DEF Holding, TypeOK
    <3>. QED BY <1>3, <3>1 DEF Holding
  <2>7. Queueing'
    BY <2>1, <2>3 DEF Queueing
  <2>. QED BY <2>4, <2>5, <2>6, <2>7 DEF Queue
<1>5. CASE ~(current = None \/ Idle)
  <2>1. Join(c, current, clock) /\ current' = current /\ current \in Objects
    BY <1>1, <1>5, ReplayAssumption DEF Arrive, TypeOK, Objects, ReplayAssumption
  <2>2. /\ seen' = clock /\ pc'[c] = "queued"
        /\ \A d \in Callers \ {c} : pc'[d] = pc[d]
    BY <1>1, <2>1 DEF Join, TypeOK
  <2>3. Opening'
    BY <1>1, <1>3, <2>1, <2>2, ReplayAssumption DEF Opening, TypeOK, ReplayAssumption
  <2>4. Connecting'
    <3>1. current # None /\ creating = Nobody
      BY <1>1, <1>5 DEF Opening
    <3>2. \A d \in Callers : pc'[d] # "opening"
      BY <1>1, <2>2, <3>1, ReplayAssumption DEF Opening, ReplayAssumption
    <3>3. ASSUME NEW d \in Callers, pc'[d] = "connecting"
          PROVE  d # c /\ pc[d] = "connecting" /\ arrived'[d] = arrived[d]
      BY <1>3, <2>2, <3>3
    <3>4. clock' <= seen' + Patience
      BY <1>2, <1>3, <2>2, Turns
    <3>. QED BY <1>1, <1>3, <2>1, <3>1, <3>2, <3>3, <3>4 DEF Connecting
  <2>5. Holding' /\ Queueing'
    BY <1>1, <1>2, <1>3, <2>1, JoinKeepsQueueing, Turns
  <2>. QED BY <2>3, <2>4, <2>5 DEF Queue
<1>. QED BY <1>4, <1>5

\* A call opens the connection, or finds that another has.
LEMMA ConnectKeepsQueue ==
  ASSUME Inv, TypeOK', Sending, Queue, NEW c \in Callers, Connect(c)
  PROVE  Queue'
<1>1. TypeOK /\ Opening /\ Connecting /\ Holding /\ Queueing
  BY DEF Inv, Queue
<1>2. clock \in Nat /\ seen \in Nat /\ Users \in SUBSET Callers
      /\ \A d \in Callers : arrived[d] <= clock /\ arrived[d] \in Nat
  BY <1>1, ReplayAssumption DEF TypeOK, Users, ReplayAssumption
<1>3. CASE FindOpened(c)
  <2>1. /\ pc[c] = "connecting" /\ creating = Nobody /\ current # None
        /\ Join(c, current, arrived[c])
        /\ UNCHANGED <<clock, current, creating, lock, asking, arrived, post>>
    BY <1>3 DEF FindOpened
  <2>2. /\ seen' = arrived[c] /\ pc'[c] = "queued"
        /\ \A d \in Callers \ {c} : pc'[d] = pc[d]
    BY <1>1, <2>1 DEF Join, TypeOK
  <2>3. clock <= arrived[c] + Patience /\ current \in Objects
    BY <1>1, <2>1, ReplayAssumption DEF Connecting, TypeOK, Objects, ReplayAssumption
  <2>4. Opening' /\ Connecting'
    BY <1>1, <2>1, <2>2, <2>3 DEF Opening, Connecting
  <2>5. Holding' /\ Queueing'
    BY <1>1, <1>2, <2>1, <2>3, JoinKeepsQueueing
  <2>. QED BY <2>4, <2>5 DEF Queue
<1>4. CASE Open(c)
  <2>1. /\ pc[c] = "connecting" /\ creating = Nobody /\ current = None /\ creating' = c
        /\ UNCHANGED <<clock, current, seen, lock, arrived, using, asking, post>>
        /\ pc'[c] = "opening" /\ \A d \in Callers \ {c} : pc'[d] = pc[d]
    BY <1>1, <1>4 DEF Open, TypeOK
  <2>2. Opening'
    BY <1>1, <2>1, ReplayAssumption DEF Opening, ReplayAssumption
  <2>3. \A d \in Callers : pc[d] # "opening"
    BY <1>1, <2>1, ReplayAssumption DEF Opening, ReplayAssumption
  <2>4. \A d \in Callers : pc[d] = "connecting" => arrived[d] = clock
    BY <1>1, <2>1 DEF Connecting
  <2>5. Connecting'
    BY <1>1, <1>2, <2>1, <2>3, <2>4, Turns, ReplayAssumption DEF Connecting, ReplayAssumption
  <2>6. Users = {} /\ Users' = Users
    BY <1>1, <2>1, UsersAre DEF Queueing, Users
  <2>7. Holding'
    BY <1>1, <2>1 DEF Holding, TypeOK
  <2>8. Queueing'
    BY <1>1, <2>1, <2>6, UsersAre DEF Queueing
  <2>. QED BY <2>2, <2>5, <2>7, <2>8 DEF Queue
<1>5. CASE Opened(c)
  <2>1. /\ pc[c] = "opening" /\ creating' = Nobody /\ Join(c, current', arrived[c])
        /\ UNCHANGED <<clock, lock, arrived, asking, post>>
    BY <1>5 DEF Opened
  <2>2. creating = c /\ current = None /\ current' \in Objects
    <3>1. creating = c /\ current' = opened + 1 /\ opened < MaxObjects /\ opened \in Nat
      BY <1>1, <1>5, ReplayAssumption DEF Opened, Opening, TypeOK, ReplayAssumption
    <3>2. creating # Nobody
      BY <3>1, ReplayAssumption DEF ReplayAssumption
    <3>. QED BY <1>1, <3>1, <3>2, ReplayAssumption DEF Opening, Objects, ReplayAssumption
  <2>3. /\ seen' = arrived[c] /\ pc'[c] = "queued"
        /\ \A d \in Callers \ {c} : pc'[d] = pc[d]
    BY <1>1, <2>1 DEF Join, TypeOK
  <2>4. clock <= arrived[c] + Patience /\ Users = {}
    BY <1>1, <2>1, <2>2, UsersAre DEF Connecting, Queueing
  <2>5. \A d \in Callers : pc'[d] # "opening"
    BY <1>1, <2>2, <2>3 DEF Opening
  <2>6. Opening' /\ Connecting'
    BY <1>1, <2>1, <2>2, <2>3, <2>4, <2>5, ReplayAssumption
    DEF Opening, Connecting, Objects, ReplayAssumption
  <2>7. Holding' /\ Queueing'
    <3>. DEFINE o == current'
    <3>1. o \in Objects /\ Join(c, o, arrived[c]) /\ current' = o
      BY <2>1, <2>2
    <3>. HIDE DEF o
    <3>. QED BY <1>1, <1>2, <2>1, <2>4, <3>1, JoinKeepsQueueing
  <2>. QED BY <2>6, <2>7 DEF Queue
<1>. QED BY <1>3, <1>4, <1>5 DEF Connect

\* A call of the queue takes the lock.
LEMMA AskKeepsQueue ==
  ASSUME Inv, TypeOK', Queue, NEW c \in Callers, Ask(c)
  PROVE  Queue'
<1>1. TypeOK /\ Opening /\ Connecting /\ Holding /\ Queueing
  BY DEF Inv, Queue
<1>2. clock \in Nat /\ seen \in Nat /\ Users \in SUBSET Callers
  BY <1>1, ReplayAssumption DEF TypeOK, Users, ReplayAssumption
<1>3. /\ pc[c] = "queued" /\ lock[using[c]] = Nobody
      /\ pc'[c] = "asking" /\ \A d \in Callers \ {c} : pc'[d] = pc[d]
      /\ UNCHANGED <<clock, current, seen, creating, arrived, using>>
      /\ \A d \in Callers \ {c} : asking'[d] = asking[d]
  BY <1>1 DEF Ask, TypeOK
<1>4. c \in Users /\ using[c] = current /\ current \in Objects /\ Users' = Users
  BY <1>1, <1>3, UsersAre DEF Queueing, Users
<1>5. lock'[current] = c /\ \A o \in Objects \ {current} : lock'[o] = lock[o]
  BY <1>1, <1>4 DEF Ask, TypeOK
<1>6. clock <= Due(seen, Users)
  BY <1>1, <1>3, <1>4 DEF Queueing
<1>7. post'[asking'[c]].sent = clock
  <2>1. post'[asking'[c]] = [call |-> call[c], arrived |-> arrived[c], sent |-> clock,
                             outcome |-> "none", known |-> "awaited"]
    BY AskedPost
  <2>. QED BY <2>1
<1>8. ASSUME NEW d \in Callers \ {c} PROVE pc[d] # "asking"
  <2>. SUFFICES ASSUME pc[d] = "asking" PROVE FALSE
    OBVIOUS
  <2>1. d \in Users /\ lock[using[d]] = d
    BY <1>1, UsersAre
  <2>2. using[d] = current
    BY <1>1, <2>1 DEF Queueing
  <2>. QED BY <1>3, <1>4, <2>1, <2>2, ReplayAssumption DEF ReplayAssumption
<1>9. Opening' /\ Connecting'
  <2>1. creating # c
    BY <1>1, <1>3, ReplayAssumption DEF Opening, ReplayAssumption
  <2>. QED BY <1>1, <1>3, <2>1 DEF Opening, Connecting, TypeOK
<1>10. Holding'
  <2>1. \A o \in Objects : lock[o] = Nobody
    BY <1>1, <1>3, <1>8, ReplayAssumption DEF Holding, TypeOK, ReplayAssumption
  <2>. QED BY <1>3, <1>4, <1>5, <2>1 DEF Holding
<1>11. Queueing'
  <2>1. c # Nobody
    BY ReplayAssumption DEF ReplayAssumption
  <2>2. \A d \in Users' : using'[d] = current' /\ arrived'[d] <= seen' + Patience
    BY <1>1, <1>3, <1>4 DEF Queueing
  <2>3. ASSUME NEW d \in Callers, pc'[d] = "asking"
        PROVE  /\ clock' <= post'[asking'[d]].sent + Patience
               /\ post'[asking'[d]].sent <= Due(seen', Users')
    <3>1. d = c
      BY <1>3, <1>8, <2>3
    <3>. QED BY <1>2, <1>3, <1>4, <1>6, <1>7, <3>1, Turns
  <2>. QED BY <1>3, <1>5, <2>1, <2>2, <2>3 DEF Queueing
<1>. QED BY <1>9, <1>10, <1>11 DEF Queue

\* The other steps: the site, the clients, the clock, and a new start.
LEMMA OthersKeepQueue ==
  ASSUME Inv, TypeOK', Sending, Queue,
         (\E p \in Posts : Write(p)) \/ (\E c \in Callers : Return(c)) \/ Restart \/ Tick
           \/ UNCHANGED vars
  PROVE  Queue'
<1>1. TypeOK /\ Opening /\ Connecting /\ Holding /\ Queueing
  BY DEF Inv, Queue
<1>2. clock \in Nat /\ seen \in Nat /\ Users \in SUBSET Callers
  BY <1>1, ReplayAssumption DEF TypeOK, Users, ReplayAssumption
<1>3. ASSUME NEW p \in Posts, Write(p) PROVE Queue'
  <2>1. \A q \in DOMAIN post : post'[q].sent = post[q].sent
    BY <1>1, <1>3 DEF Write, TypeOK, Post
  <2>2. UNCHANGED <<clock, current, seen, creating, lock, pc, arrived, using, asking>>
    BY <1>3 DEF Write
  <2>3. Opening' /\ Connecting' /\ Holding' /\ Users' = Users
    BY <1>1, <2>2 DEF Opening, Connecting, Holding, Users
  <2>4. \A c \in Callers : pc[c] = "asking" => asking[c] \in DOMAIN post
    BY <1>1, UsersAre
  <2>5. Queueing'
    BY <1>1, <2>1, <2>2, <2>3, <2>4 DEF Queueing
  <2>. QED BY <2>3, <2>5 DEF Queue
<1>4. ASSUME NEW c \in Callers, Return(c) PROVE Queue'
  <2>1. /\ UNCHANGED <<clock, current, seen, creating, lock, using, asking, post>>
        /\ pc[c] = "done" /\ pc'[c] = "idle"
        /\ \A d \in Callers \ {c} : pc'[d] = pc[d] /\ arrived'[d] = arrived[d]
    BY <1>1, <1>4 DEF Return, TypeOK
  <2>2. Users' = Users /\ c \notin Users
    BY <1>1, <2>1, UsersAre DEF Users
  <2>3. creating # c
    BY <1>1, <2>1, ReplayAssumption DEF Opening, ReplayAssumption
  <2>4. Opening' /\ Connecting'
    BY <1>1, <2>1, <2>3 DEF Opening, Connecting, TypeOK
  <2>5. Holding'
    BY <1>1, <2>1 DEF Holding, TypeOK
  <2>6. Queueing'
    BY <1>1, <2>1, <2>2, UsersAre DEF Queueing
  <2>. QED BY <2>4, <2>5, <2>6 DEF Queue
<1>5. CASE Restart
  <2>1. /\ \A c \in Callers : pc'[c] = "idle" /\ using'[c] = None
        /\ \A o \in Objects : lock'[o] = Nobody
        /\ creating' = Nobody /\ Users' = {}
    BY <1>5 DEF Restart, Users
  <2>. QED BY <2>1 DEF Queue, Opening, Connecting, Holding, Queueing
<1>6. CASE Tick
  <2>1. /\ clock' = clock + 1
        /\ UNCHANGED <<current, seen, creating, lock, pc, arrived, using, asking, post>>
        /\ \A c \in Callers : Waits(c)
    BY <1>6 DEF Tick
  <2>2. Opening' /\ Holding' /\ Users' = Users
    BY <1>1, <2>1 DEF Opening, Holding, Users
  <2>3. \A c \in Callers : arrived[c] \in Nat
    BY <1>1, <1>2 DEF TypeOK
  <2>4. \A c \in Callers : pc[c] = "opening" => clock + 1 <= arrived[c] + Patience
    <3>. SUFFICES ASSUME NEW c \in Callers, pc[c] = "opening"
                  PROVE  clock + 1 <= arrived[c] + Patience
      OBVIOUS
    <3>1. clock < arrived[c] + Patience
      BY <2>1 DEF Waits
    <3>2. arrived[c] \in Nat /\ Patience \in Nat
      BY <2>3, Turns
    <3>. QED BY <1>2, <3>1, <3>2
  <2>5. \A c \in Callers : pc[c] = "connecting" =>
          creating # Nobody /\ clock + 1 <= arrived[c] + Patience
    <3>. SUFFICES ASSUME NEW c \in Callers, pc[c] = "connecting"
                  PROVE  creating # Nobody /\ clock + 1 <= arrived[c] + Patience
      OBVIOUS
    <3>1. creating # Nobody
      BY <2>1 DEF Waits
    <3>2. PICK d \in Callers : d = creating /\ pc[d] = "opening"
      BY <1>1, <3>1 DEF Opening, TypeOK
    <3>3. arrived[d] <= arrived[c] /\ clock + 1 <= arrived[d] + Patience
      BY <1>1, <2>4, <3>2 DEF Connecting
    <3>4. arrived[c] \in Nat /\ arrived[d] \in Nat /\ Patience \in Nat
      BY <2>3, Turns
    <3>. QED BY <1>2, <3>1, <3>3, <3>4
  <2>6. Connecting'
    BY <1>1, <2>1, <2>4, <2>5 DEF Connecting
  <2>7. \A c \in Callers : pc[c] = "asking" =>
          post[asking[c]].sent \in Nat /\ clock + 1 <= post[asking[c]].sent + Patience
    <3>. SUFFICES ASSUME NEW c \in Callers, pc[c] = "asking"
                  PROVE  /\ post[asking[c]].sent \in Nat
                         /\ clock + 1 <= post[asking[c]].sent + Patience
      OBVIOUS
    <3>1. post[asking[c]].sent \in Nat /\ Patience \in Nat
      BY <1>1, UsersAre, Turns
    <3>2. clock < post[asking[c]].sent + Patience
      BY <2>1 DEF Waits
    <3>. QED BY <1>2, <3>1, <3>2
  <2>8. Users # {} => lock[current] # Nobody
    <3>. SUFFICES ASSUME NEW c \in Users PROVE lock[using[c]] # Nobody
      BY <1>1 DEF Queueing
    <3>1. pc[c] \in {"queued", "asking"} /\ c \in Callers
      BY <1>1, UsersAre
    <3>2. CASE pc[c] = "queued"
      BY <2>1, <3>1, <3>2 DEF Waits
    <3>3. CASE pc[c] = "asking"
      BY <1>1, <3>1, <3>3, UsersAre, ReplayAssumption DEF ReplayAssumption
    <3>. QED BY <3>1, <3>2, <3>3
  <2>9. Queueing'
    BY <1>1, <2>1, <2>2, <2>7, <2>8 DEF Queueing
  <2>. QED BY <2>2, <2>6, <2>9 DEF Queue
<1>7. CASE UNCHANGED vars
  BY <1>1, <1>7 DEF vars, Queue, Opening, Connecting, Holding, Queueing, Users
<1>. QED BY <1>3, <1>4, <1>5, <1>6, <1>7

\* Every step keeps the order of the queue.
LEMMA QueueKept ==
  ASSUME Inv, Sending, Queue, [Next]_vars
  PROVE  Queue'
<1>1. Inv' /\ TypeOK' /\ SentAsBefore
  BY NextKeepsInv, PostsStay DEF Inv
<1>2. ASSUME NEW c \in Callers, ReplayAnswer(c) \/ Answered(c) \/ Unanswered(c)
      PROVE  Queue'
  <2>1. \A p \in DOMAIN post : post'[p].sent = post[p].sent
    BY <1>1 DEF SentAsBefore
  <2>2. PICK result : Leave(c, result)
    BY <1>2 DEF ReplayAnswer, Answered, Unanswered
  <2>3. UNCHANGED <<clock, current, seen, creating, arrived>>
    BY <1>2 DEF ReplayAnswer, Answered, Unanswered
  <2>4. \/ pc[c] = "asking" /\ lock' = [lock EXCEPT ![using[c]] = Nobody]
        \/ pc[c] = "queued" /\ lock[using[c]] = Nobody /\ lock' = lock
    BY <1>2 DEF ReplayAnswer, Answered, Unanswered
  <2>. QED BY <1>1, <2>1, <2>2, <2>3, <2>4, LeaveKeepsQueue
<1>. QED
  BY <1>1, <1>2, ArriveKeepsQueue, ConnectKeepsQueue, AskKeepsQueue, OthersKeepQueue
  DEF Next, RunOnce

-----------------------------------------------------------------------------
(* Answers that are kept.                                                  *)

\* The connection remembers the answer of a post, and has been used since the call
\* of the post came, but for the wait of one request.
Held(p) ==
  /\ current # None
  /\ post[p].arrived <= seen + Patience
  /\ post[p].call.key \in DOMAIN replays[current]
  /\ post[p].sent + ReplayTTL <= replays[current][post[p].call.key].expires

\* The time for which an answer is remembered is over.
Over(p) == clock + Patience > post[p].arrived + ReplayTTL

\* An answer that is kept is held until its time is over; and a post under way is the
\* last of all.
Keeping ==
  /\ \A p \in DOMAIN post : post[p].known = "kept" => Held(p) \/ Over(p)
  /\ \A c \in Callers : pc[c] = "asking" =>
       /\ post[asking[c]].arrived <= seen + Patience
       /\ \A p \in DOMAIN post : p <= asking[c]

\* Posts and their times.
LEMMA PostTimes ==
  ASSUME Inv, Sending
  PROVE  /\ clock \in Nat /\ seen \in Nat /\ Patience \in Nat \ {0} /\ ReplayTTL \in Nat
         /\ post \in [DOMAIN post -> Post]
         /\ \A p \in DOMAIN post :
              /\ p \in Nat /\ post[p].arrived \in Nat /\ post[p].sent \in Nat
              /\ post[p].arrived <= post[p].sent /\ post[p].sent <= clock
              /\ post[p].call.key \in Keys
  BY ReplayAssumption DEF Inv, TypeOK, Sending, Posts, Post, Call, ReplayAssumption

\* Nothing that is kept is lost when neither the connection nor its memory changes.
LEMMA KeptStays ==
  ASSUME Inv, Sending, Keeping, NEW p \in DOMAIN post, post[p].known = "kept",
         SentAsBefore, clock' \in Nat, clock <= clock',
         \/ UNCHANGED <<current, replays>> /\ seen' = seen
         \/ UNCHANGED <<current, replays>> /\ seen' \in Nat /\ clock <= seen' + Patience
         \/ current = None
  PROVE  Held(p)' \/ Over(p)'
<1>1. /\ post'[p].arrived = post[p].arrived /\ post'[p].sent = post[p].sent
      /\ post'[p].call = post[p].call
  BY DEF SentAsBefore
<1>2. post[p].arrived \in Nat /\ post[p].arrived <= clock /\ clock \in Nat
      /\ Patience \in Nat /\ ReplayTTL \in Nat
  <2>1. post[p].sent \in Nat /\ post[p].sent <= clock /\ post[p].arrived <= post[p].sent
    BY PostTimes
  <2>. QED BY <2>1, PostTimes
<1>3. CASE Over(p)
  BY <1>1, <1>2, <1>3 DEF Over
<1>4. CASE Held(p)
  <2>1. current # None /\ UNCHANGED <<current, replays>>
    BY <1>4 DEF Held
  <2>2. post[p].arrived <= seen' + Patience
    BY <1>2, <1>4, <2>1 DEF Held
  <2>. QED BY <1>1, <1>4, <2>1, <2>2 DEF Held
<1>. QED BY <1>3, <1>4 DEF Keeping

\* An answer is kept when it comes, and not otherwise.
LEMMA OnlyAnswersAreKept ==
  ASSUME Inv, [Next]_vars, NEW p \in DOMAIN post', post'[p].known = "kept"
  PROVE  /\ p \in DOMAIN post
         /\ ~Restart
         /\ post[p].known = "kept" \/ \E c \in Callers : Answered(c) /\ p = asking[c]
<1>. USE DEF Inv, TypeOK, Post
<1>1. ASSUME NEW c \in Callers, Ask(c)
      PROVE  p \in DOMAIN post /\ post[p].known = "kept" /\ ~Restart
  <2>1. /\ DOMAIN post' = DOMAIN post \cup {asking'[c]}
        /\ post'[asking'[c]] = [call |-> call[c], arrived |-> arrived[c], sent |-> clock,
                                outcome |-> "none", known |-> "awaited"]
        /\ \A q \in DOMAIN post : post'[q] = post[q]
    BY <1>1, AskedPost
  <2>2. post'[asking'[c]].known = "awaited"
    BY <2>1
  <2>3. p \in DOMAIN post /\ post[p].known = "kept"
    BY <2>1, <2>2
  <2>4. ~Restart
    BY <2>1, <2>3 DEF Restart
  <2>. QED BY <2>3, <2>4
<1>2. ASSUME NEW c \in Callers, Answered(c)
      PROVE  p \in DOMAIN post /\ (post[p].known = "kept" \/ p = asking[c])
  BY <1>2 DEF Answered
<1>3. ASSUME NEW c \in Callers, Unanswered(c)
      PROVE  p \in DOMAIN post /\ post[p].known = "kept"
  BY <1>3 DEF Unanswered
<1>4. ASSUME NEW q \in Posts, Write(q) PROVE p \in DOMAIN post /\ post[p].known = "kept"
  BY <1>4 DEF Write
<1>5. ~Restart
  BY DEF Restart
<1>6. CASE UNCHANGED post
  BY <1>5, <1>6
<1>. QED
  BY <1>1, <1>2, <1>3, <1>4, <1>5, <1>6
  DEF Next, vars, Connect, RunOnce, Arrive, FindOpened, Open, Opened, ReplayAnswer, Return, Tick

\* Looking a key up forgets only answers whose time is over.
LEMMA LookUpKeeps ==
  ASSUME Inv, Sending, Queue, Keeping, NEW c \in Callers, pc[c] = "queued",
         replays' = [replays EXCEPT ![using[c]] = Unexpired(using[c])],
         UNCHANGED <<clock, current, seen>>, SentAsBefore,
         NEW p \in DOMAIN post, post[p].known = "kept"
  PROVE  Held(p)' \/ Over(p)'
<1>1. /\ post'[p].arrived = post[p].arrived /\ post'[p].sent = post[p].sent
      /\ post'[p].call = post[p].call
  BY DEF SentAsBefore
<1>2. /\ clock \in Nat /\ post[p].arrived \in Nat /\ post[p].sent \in Nat
      /\ post[p].arrived <= post[p].sent /\ Patience \in Nat \ {0} /\ ReplayTTL \in Nat
  BY PostTimes
<1>3. using[c] = current /\ current \in Objects /\ IsMemory(replays[current])
      /\ DOMAIN replays = Objects
  BY UsersAre DEF Inv, Queue, Queueing, TypeOK
<1>4. replays'[current] = Unexpired(current)
  BY <1>3
<1>5. CASE Over(p)
  BY <1>1, <1>5 DEF Over
<1>6. CASE Held(p)
  <2>. DEFINE row == replays[current][post[p].call.key]
  <2>1. post[p].call.key \in DOMAIN replays[current] /\ row.expires \in Nat
        /\ post[p].sent + ReplayTTL <= row.expires
    BY <1>3, <1>6 DEF Held, IsMemory, Replay
  <2>2. CASE row.expires > clock
    <3>1. post[p].call.key \in DOMAIN Unexpired(current)
          /\ Unexpired(current)[post[p].call.key] = row
      BY <2>1, <2>2 DEF Unexpired
    <3>2. post'[p].call.key \in DOMAIN replays'[current']
          /\ replays'[current'][post'[p].call.key] = row
      BY <1>1, <1>4, <3>1
    <3>3. post'[p].sent + ReplayTTL <= replays'[current'][post'[p].call.key].expires
      BY <1>1, <2>1, <3>2
    <3>4. current' # None /\ post'[p].arrived <= seen' + Patience
      BY <1>1, <1>6 DEF Held
    <3>. QED BY <3>2, <3>3, <3>4 DEF Held
  <2>3. CASE row.expires <= clock
    <3>1. post[p].sent + ReplayTTL <= clock
      BY <1>2, <2>1, <2>3
    <3>. QED BY <1>1, <1>2, <3>1 DEF Over
  <2>. QED BY <1>2, <2>1, <2>2, <2>3
<1>. QED BY <1>5, <1>6 DEF Keeping

\* A new answer is held, and leaves the others where they are, or takes the place of an
\* older one.
LEMMA AnswerKeeps ==
  ASSUME Inv, Sending, Queue, Keeping, NEW c \in Callers, Answered(c), SentAsBefore,
         NEW p \in DOMAIN post, post[p].known = "kept" \/ p = asking[c]
  PROVE  Held(p)' \/ Over(p)'
<1>. DEFINE q == asking[c]
            key == call[c].key
            row == [arguments |-> call[c].arguments, expires |-> post[q].sent + ReplayTTL,
                    result |-> q]
<1>1. /\ post'[p].arrived = post[p].arrived /\ post'[p].sent = post[p].sent
      /\ post'[p].call = post[p].call
  BY DEF SentAsBefore
<1>2. pc[c] = "asking" /\ UNCHANGED <<clock, current, seen>>
      /\ replays' = [replays EXCEPT ![using[c]] = With(@, key, row)]
  BY DEF Answered
<1>3. q \in DOMAIN post /\ post[q].call = call[c] /\ using[c] = current
      /\ current \in Objects /\ current # None /\ DOMAIN replays = Objects
  BY <1>2, AskerHolds, UsersAre DEF Inv, Queue, Queueing, TypeOK
<1>4. /\ post[p].sent \in Nat /\ post[q].sent \in Nat /\ post[p].sent <= post[q].sent
      /\ ReplayTTL \in Nat
  <2>1. p <= q /\ p \in Nat /\ q \in Nat
    BY <1>2, <1>3, PostTimes DEF Keeping
  <2>2. p = q \/ p < q
    BY <2>1
  <2>. QED BY <1>3, <2>2, PostTimes DEF Sending
<1>. HIDE DEF q, key, row
<1>5. replays'[current] = With(replays[current], key, row)
  BY <1>2, <1>3
<1>6. /\ DOMAIN replays'[current] = DOMAIN replays[current] \cup {key}
      /\ replays'[current][key] = row
      /\ \A k \in DOMAIN replays[current] \ {key} :
           replays'[current][k] = replays[current][k]
  BY <1>5 DEF With
<1>7. CASE post[p].call.key = key
  <2>1. row.expires = post[q].sent + ReplayTTL
    BY DEF row
  <2>2. CASE p # q /\ Over(p)
    BY <1>1, <1>2, <2>2 DEF Over
  <2>3. CASE p = q \/ Held(p)
    <3>1. post[p].arrived <= seen + Patience
      BY <1>2, <2>3 DEF Held, Keeping, q
    <3>2. post'[p].sent + ReplayTTL <= row.expires
      BY <1>1, <1>4, <2>1
    <3>. QED BY <1>1, <1>2, <1>3, <1>6, <1>7, <3>1, <3>2 DEF Held
  <2>. QED BY <2>2, <2>3 DEF Keeping, q
<1>8. CASE post[p].call.key # key
  <2>1. p # q
    BY <1>3, <1>8 DEF key
  <2>2. CASE Over(p)
    BY <1>1, <1>2, <2>2 DEF Over
  <2>3. CASE Held(p)
    BY <1>1, <1>2, <1>6, <1>8, <2>3 DEF Held
  <2>. QED BY <2>1, <2>2, <2>3 DEF Keeping, q
<1>. QED BY <1>7, <1>8

\* A connection that is forgotten takes no answer with it before its time is over.
LEMMA ForgettingKeeps ==
  ASSUME Inv, Sending, Keeping, Idle, NEW p \in DOMAIN post, post[p].known = "kept"
  PROVE  Over(p)
<1>1. /\ clock \in Nat /\ seen \in Nat /\ Patience \in Nat /\ ReplayTTL \in Nat
      /\ post[p].arrived \in Nat
  BY PostTimes
<1>2. clock - seen > ConnectionTTL /\ ReplayTTL <= ConnectionTTL /\ ConnectionTTL \in Nat
  BY QueueAssumption, Turns DEF Idle, QueueAssumption
<1>3. CASE Held(p)
  <2>1. post[p].arrived <= seen + Patience
    BY <1>3 DEF Held
  <2>2. clock + Patience > post[p].arrived + ReplayTTL
    BY <1>1, <1>2, <2>1
  <2>. QED BY <2>2 DEF Over
<1>. QED BY <1>3 DEF Keeping

\* How a step treats the connection that is used: it leaves it and its time, or a call
\* joins it not long after it came, or there was none, or it is forgotten.
LEMMA ConnectionSteps ==
  ASSUME Inv, Sending, Queue, [Next]_vars, ~Restart,
         \A c \in Callers : ~(ReplayAnswer(c) \/ Ask(c) \/ Answered(c))
  PROVE  /\ \/ UNCHANGED <<current, replays>> /\ seen' = seen
            \/ UNCHANGED <<current, replays>> /\ seen' \in Nat /\ clock <= seen' + Patience
            \/ current = None
            \/ Idle
<1>1. clock \in Nat /\ Patience \in Nat /\ TypeOK /\ Connecting /\ Opening
  BY PostTimes DEF Inv, Queue
<1>2. ASSUME NEW c \in Callers, NEW k \in Keys, NEW a \in Arguments, Arrive(c, k, a),
             ~(current = None \/ Idle)
      PROVE  UNCHANGED <<current, replays>> /\ seen' \in Nat /\ clock <= seen' + Patience
  BY <1>1, <1>2 DEF Arrive, Join
<1>3. ASSUME NEW c \in Callers, FindOpened(c)
      PROVE  UNCHANGED <<current, replays>> /\ seen' \in Nat /\ clock <= seen' + Patience
  <2>1. pc[c] = "connecting" /\ seen' = arrived[c] /\ UNCHANGED <<current, replays>>
    BY <1>3 DEF FindOpened, Join
  <2>2. arrived[c] \in Nat /\ clock <= arrived[c] + Patience
    BY <1>1, <2>1 DEF Connecting, TypeOK
  <2>. QED BY <2>1, <2>2
<1>4. ASSUME NEW c \in Callers, Open(c) \/ Opened(c)
      PROVE  current = None
  BY <1>1, <1>4, ReplayAssumption DEF Open, Opened, Opening, ReplayAssumption
<1>. QED
  BY <1>2, <1>3, <1>4
  DEF Next, vars, Connect, RunOnce, Unanswered, Return, Write, Tick

\* A call that asks has asked just now, or asked before and still does.
LEMMA StillAsking ==
  ASSUME Inv, [Next]_vars, NEW c \in Callers, pc'[c] = "asking", ~Ask(c)
  PROVE  pc[c] = "asking" /\ asking'[c] = asking[c]
<1>. USE DEF Inv, TypeOK
<1>1. ASSUME NEW d \in Callers, NEW k \in Keys, NEW a \in Arguments, Arrive(d, k, a)
      PROVE  pc[c] = "asking" /\ asking'[c] = asking[c]
  BY <1>1 DEF Arrive, Join
<1>2. ASSUME NEW d \in Callers, Connect(d)
      PROVE  pc[c] = "asking" /\ asking'[c] = asking[c]
  BY <1>2 DEF Connect, FindOpened, Open, Opened, Join
<1>3. ASSUME NEW d \in Callers, RunOnce(d)
      PROVE  pc[c] = "asking" /\ asking'[c] = asking[c]
  <2>1. CASE Ask(d)
    <3>1. d # c
      BY <2>1
    <3>2. pc'[c] = pc[c]
      BY <2>1, <3>1 DEF Ask
    <3>3. asking'[c] = asking[c]
      BY <2>1, <3>1 DEF Ask
    <3>. QED BY <3>2, <3>3
  <2>2. CASE ReplayAnswer(d) \/ Answered(d) \/ Unanswered(d)
    BY <2>2 DEF ReplayAnswer, Answered, Unanswered, Leave
  <2>3. CASE Return(d)
    BY <2>3 DEF Return
  <2>. QED BY <1>3, <2>1, <2>2, <2>3 DEF RunOnce
<1>4. CASE UNCHANGED <<pc, asking>>
  BY <1>4
<1>. QED BY <1>1, <1>2, <1>3, <1>4 DEF Next, vars, Write, Restart, Tick

\* Every step keeps what is held of the answers.
LEMMA KeepingKept ==
  ASSUME Inv, Sending, Queue, Keeping, [Next]_vars
  PROVE  Keeping'
<1>1. SentAsBefore /\ clock' \in Nat /\ clock <= clock' /\ Inv' /\ Sending' /\ Queue'
      /\ ((\E c \in Callers : Ask(c)) \/ DOMAIN post' = DOMAIN post)
  BY PostsStay, NextKeepsInv, SendingKept, QueueKept
<1>2. ASSUME NEW p \in DOMAIN post', post'[p].known = "kept"
      PROVE  Held(p)' \/ Over(p)'
  <2>1. /\ p \in DOMAIN post /\ ~Restart
        /\ post[p].known = "kept" \/ \E c \in Callers : Answered(c) /\ p = asking[c]
    BY <1>2, OnlyAnswersAreKept
  <2>2. CASE \E c \in Callers : Answered(c)
    <3>1. PICK c \in Callers : Answered(c)
      BY <2>2
    <3>2. post[p].known = "kept" \/ p = asking[c]
      <4>. SUFFICES ASSUME NEW d \in Callers, Answered(d), p = asking[d]
                    PROVE  p = asking[c]
        BY <2>1
      <4>1. pc[c] = "asking" /\ pc[d] = "asking"
        BY <3>1 DEF Answered
      <4>2. \A e \in Callers : pc[e] = "asking" => e \in Users /\ lock[using[e]] = e
        BY UsersAre DEF Inv
      <4>3. c = d
        BY <4>1, <4>2 DEF Queue, Queueing
      <4>. QED BY <4>3
    <3>. QED BY <1>1, <2>1, <3>1, <3>2, AnswerKeeps
  <2>3. CASE post[p].known = "kept" /\ \E c \in Callers : ReplayAnswer(c) \/ Ask(c)
    <3>1. PICK c \in Callers : ReplayAnswer(c) \/ Ask(c)
      BY <2>3
    <3>2. /\ pc[c] = "queued" /\ UNCHANGED <<clock, current, seen>>
          /\ replays' = [replays EXCEPT ![using[c]] = Unexpired(using[c])]
      BY <3>1 DEF ReplayAnswer, Ask
    <3>. QED BY <1>1, <2>1, <2>3, <3>2, LookUpKeeps
  <2>4. CASE post[p].known = "kept" /\ \A c \in Callers : ~(ReplayAnswer(c) \/ Ask(c) \/ Answered(c))
    <3>1. CASE Idle
      <4>1. Over(p)
        BY <2>1, <2>4, <3>1, ForgettingKeeps
      <4>2. post[p].arrived \in Nat /\ clock \in Nat /\ Patience \in Nat /\ ReplayTTL \in Nat
            /\ post'[p].arrived = post[p].arrived
        BY <1>1, <2>1, PostTimes DEF SentAsBefore
      <4>. QED BY <1>1, <4>1, <4>2 DEF Over
    <3>2. CASE ~Idle
      BY <1>1, <2>1, <2>4, <3>2, ConnectionSteps, KeptStays
    <3>. QED BY <3>1, <3>2
  <2>. QED BY <2>1, <2>2, <2>3, <2>4
<1>3. ASSUME NEW c \in Callers, pc'[c] = "asking"
      PROVE  /\ post'[asking'[c]].arrived <= seen' + Patience
             /\ \A p \in DOMAIN post' : p <= asking'[c]
  <2>1. TypeOK /\ TypeOK'
    BY <1>1 DEF Inv
  <2>2. CASE Ask(c)
    <3>1. /\ DOMAIN post' = DOMAIN post \cup {asking'[c]}
          /\ post'[asking'[c]] = [call |-> call[c], arrived |-> arrived[c], sent |-> clock,
                                  outcome |-> "none", known |-> "awaited"]
          /\ \A p \in DOMAIN post : p < asking'[c]
      BY <2>2, AskedPost
    <3>2. asking'[c] \in Nat /\ \A p \in DOMAIN post : p \in Nat
      BY <1>1, <3>1, PostTimes, ReplayAssumption DEF Inv, TypeOK, Posts, ReplayAssumption
    <3>3. post'[asking'[c]].arrived = arrived[c] /\ seen' = seen /\ pc[c] = "queued"
      BY <2>2, <3>1 DEF Ask
    <3>4. arrived[c] <= seen + Patience
      BY <2>1, <3>3, UsersAre DEF Queue, Queueing
    <3>. QED BY <3>1, <3>2, <3>3, <3>4
  <2>3. CASE ~Ask(c)
    <3>1. pc[c] = "asking" /\ asking'[c] = asking[c]
      BY <1>3, <2>3, StillAsking
    <3>2. c \in Users /\ lock[using[c]] = c /\ using[c] = current /\ asking[c] \in DOMAIN post
          /\ current # None /\ c # Nobody
      BY <2>1, <3>1, UsersAre, ReplayAssumption DEF Queue, Queueing, ReplayAssumption
    <3>3. \A d \in Callers : ~Ask(d)
      BY <2>1, <3>2, UsersAre DEF Ask, Queue, Queueing
    <3>4. DOMAIN post' = DOMAIN post /\ post'[asking[c]].arrived = post[asking[c]].arrived
      BY <1>1, <3>2, <3>3 DEF SentAsBefore
    <3>5. ~Idle
      BY <2>1, <3>2, UsedIsNotIdle
    <3>6. ~Restart
      BY <1>3 DEF Restart
    <3>7. post[asking[c]].arrived \in Nat /\ post[asking[c]].arrived <= clock
          /\ clock \in Nat /\ Patience \in Nat
      <4>1. post[asking[c]].sent \in Nat /\ post[asking[c]].sent <= clock
            /\ post[asking[c]].arrived <= post[asking[c]].sent
        BY <3>2, PostTimes
      <4>. QED BY <3>2, <4>1, PostTimes
    <3>8. seen' = seen \/ (seen' \in Nat /\ clock <= seen' + Patience)
      <4>1. CASE \E d \in Callers : ReplayAnswer(d) \/ Answered(d)
        BY <4>1 DEF ReplayAnswer, Answered
      <4>2. CASE \A d \in Callers : ~(ReplayAnswer(d) \/ Answered(d))
        BY <3>2, <3>3, <3>5, <3>6, <4>2, ConnectionSteps
      <4>. QED BY <4>1, <4>2
    <3>9. post[asking[c]].arrived <= seen' + Patience
      BY <3>1, <3>7, <3>8 DEF Keeping
    <3>. QED BY <3>1, <3>4, <3>9 DEF Keeping
  <2>. QED BY <2>2, <2>3
<1>. QED BY <1>2, <1>3 DEF Keeping

\* No step sends a post whose answer is kept and not over.
LEMMA NotRepeatedKept ==
  ASSUME Inv, Sending, Queue, Keeping, AnsweredWriteNotRepeated, [Next]_vars
  PROVE  AnsweredWriteNotRepeated'
<1>. SUFFICES ASSUME NEW p \in DOMAIN post', NEW q \in DOMAIN post', p < q,
                     post'[p].call.key = post'[q].call.key, post'[p].known = "kept"
              PROVE  post'[q].sent + Patience > post'[p].arrived + ReplayTTL
  BY DEF AnsweredWriteNotRepeated
<1>1. /\ SentAsBefore /\ p \in DOMAIN post
      /\ post[p].known = "kept" \/ \E c \in Callers : Answered(c) /\ p = asking[c]
  BY PostsStay, OnlyAnswersAreKept
<1>2. post'[p].arrived = post[p].arrived /\ post'[p].call = post[p].call
  BY <1>1 DEF SentAsBefore
<1>3. CASE DOMAIN post' = DOMAIN post
  <2>1. post[p].known = "kept"
    <3>. SUFFICES ASSUME NEW c \in Callers, Answered(c), p = asking[c] PROVE FALSE
      BY <1>1
    <3>1. q <= p /\ p \in Nat /\ q \in Nat
      BY <1>3, PostTimes DEF Answered, Keeping
    <3>. QED BY <3>1
  <2>. QED BY <1>1, <1>2, <1>3, <2>1 DEF SentAsBefore, AnsweredWriteNotRepeated
<1>4. ASSUME NEW c \in Callers, Ask(c)
      PROVE  post'[q].sent + Patience > post'[p].arrived + ReplayTTL
  <2>1. /\ DOMAIN post' = DOMAIN post \cup {asking'[c]}
        /\ post'[asking'[c]] = [call |-> call[c], arrived |-> arrived[c], sent |-> clock,
                                outcome |-> "none", known |-> "awaited"]
        /\ \A i \in DOMAIN post : post'[i] = post[i] /\ i < asking'[c]
    BY <1>4, AskedPost
  <2>2. post[p].known = "kept"
    BY <1>1, <2>1
  <2>3. CASE q \in DOMAIN post
    BY <1>1, <2>1, <2>2, <2>3 DEF AnsweredWriteNotRepeated
  <2>4. CASE q = asking'[c]
    <3>1. post'[q].sent = clock /\ post[p].call.key = call[c].key
      BY <1>2, <2>1, <2>4
    <3>2. /\ clock \in Nat /\ Patience \in Nat \ {0} /\ ReplayTTL \in Nat
          /\ post[p].arrived \in Nat /\ post[p].sent \in Nat
          /\ post[p].arrived <= post[p].sent
      BY <1>1, PostTimes
    <3>3. CASE Over(p)
      BY <1>2, <3>1, <3>3 DEF Over
    <3>4. CASE Held(p)
      <4>. DEFINE row == replays[current][call[c].key]
      <4>1. /\ pc[c] = "queued" /\ using[c] = current /\ current \in Objects
            /\ IsMemory(replays[current]) /\ ~Remembers(c)
        BY <1>4, UsersAre DEF Ask, Inv, Queue, Queueing, TypeOK
      <4>2. call[c].key \in DOMAIN replays[current] /\ row.expires \in Nat
            /\ post[p].sent + ReplayTTL <= row.expires
        BY <3>1, <3>4, <4>1 DEF Held, IsMemory, Replay
      <4>3. ~(row.expires > clock)
        BY <4>1, <4>2 DEF Remembers, Unexpired
      <4>4. post[p].sent + ReplayTTL <= clock
        BY <3>2, <4>2, <4>3
      <4>. QED BY <1>2, <3>1, <3>2, <4>4
    <3>. QED BY <1>1, <2>2, <3>3, <3>4 DEF Keeping
  <2>. QED BY <2>1, <2>3, <2>4
<1>. QED BY <1>3, <1>4, PostsStay

\* The queue and what is kept, in every state.
THEOREM QueueInvariance == Spec => [](Sending /\ Queue /\ Keeping /\ AnsweredWriteNotRepeated)
<1>. DEFINE All == Sending /\ Queue /\ Keeping /\ AnsweredWriteNotRepeated
<1>1. Init => All
  <2>. SUFFICES ASSUME Init PROVE All
    OBVIOUS
  <2>1. DOMAIN post = {} /\ Users = {} /\ \A c \in Callers : pc[c] = "idle"
    BY DEF Init, NoRows, Users
  <2>2. creating = Nobody /\ \A o \in Objects : lock[o] = Nobody
    BY DEF Init
  <2>. QED BY <2>1, <2>2 DEF Sending, Queue, Opening, Connecting, Holding, Queueing, Keeping,
                             AnsweredWriteNotRepeated
<1>2. Inv /\ All /\ [Next]_vars => All'
  BY SendingKept, QueueKept, KeepingKept, NotRepeatedKept
<1>. QED BY <1>1, <1>2, Invariance, PTL DEF Spec

\* The writes of a connection reach the site one after the other (connection.lock):
\* every call finds the same object, because none is forgotten while calls wait for it,
\* and two do not open it at once (_creating).
THEOREM OneWrite == Spec => []OneWriteAtATime
<1>1. Inv /\ Queue => OneWriteAtATime
  <2>. SUFFICES ASSUME Inv, Queue, NEW c \in Callers, NEW d \in Callers,
                       pc[c] = "asking", pc[d] = "asking"
                PROVE  c = d
    BY DEF OneWriteAtATime
  <2>1. \A e \in Callers : pc[e] = "asking" => e \in Users /\ lock[using[e]] = e
    BY UsersAre DEF Inv
  <2>. QED BY <2>1 DEF Queue, Queueing
<1>. QED BY <1>1, Invariance, QueueInvariance, PTL

\* A write whose answer the server has is not sent again under its key while the answer
\* is remembered, although the memory may be forgotten with its connection (_run_once,
\* _forget_idle).
THEOREM NotRepeated == Spec => []AnsweredWriteNotRepeated
<1>. QED BY QueueInvariance, PTL

-----------------------------------------------------------------------------
(* Statements: how many there are of something.                            *)

\* Units of a part of a bag.
LEMMA UnitsOfPart ==
  ASSUME NEW S, NEW bag
  PROVE  \A u : u \in Units(Restrict(bag, S)) <=> \E x \in S : \E n \in 1 .. bag[x] : u = <<x, n>>
<1>1. DOMAIN Restrict(bag, S) = S /\ \A x \in S : Restrict(bag, S)[x] = bag[x]
  BY DEF Restrict
<1>2. ASSUME NEW u, NEW x \in S, u \in {x} \X (1 .. bag[x])
      PROVE  \E n \in 1 .. bag[x] : u = <<x, n>>
  BY <1>2
<1>. QED BY <1>1, <1>2 DEF Units

\* How many there are of a finite set in a bag is a number.
LEMMA CountType ==
  ASSUME NEW D, NEW bag \in [D -> Nat], NEW S \in SUBSET D, IsFiniteSet(S)
  PROVE  /\ Count(bag, S) \in Nat
         /\ IsFiniteSet(Units(Restrict(bag, S)))
<1>1. Restrict(bag, S) \in [S -> Int]
  BY DEF Restrict
<1>. QED BY <1>1, UnitsFinite, FS_CardinalityType DEF Count

\* More of more is more.
LEMMA CountMonotone ==
  ASSUME NEW D, NEW b \in [D -> Nat], NEW E, NEW c \in [E -> Nat],
         NEW S \in SUBSET D, NEW T \in SUBSET E, S \subseteq T, IsFiniteSet(T),
         \A x \in S : b[x] <= c[x]
  PROVE  Count(b, S) <= Count(c, T)
<1>1. Units(Restrict(b, S)) \subseteq Units(Restrict(c, T))
  BY DEF Units, Restrict
<1>2. IsFiniteSet(Units(Restrict(c, T)))
  BY CountType
<1>. QED BY <1>1, <1>2, FS_Subset DEF Count

\* There is one of what is counted.
LEMMA CountPositive ==
  ASSUME NEW D, NEW bag \in [D -> Nat], NEW S \in SUBSET D, IsFiniteSet(S),
         Count(bag, S) > 0
  PROVE  \E x \in S : bag[x] > 0
<1> SUFFICES ASSUME \A x \in S : bag[x] = 0 PROVE FALSE
  OBVIOUS
<1>1. Units(Restrict(bag, S)) = {}
  BY DEF Units, Restrict
<1>. QED BY <1>1, FS_EmptySet DEF Count

\* Nothing is nothing.
LEMMA CountEmpty ==
  ASSUME NEW D, NEW bag \in [D -> Nat], NEW S \in SUBSET D, \A x \in S : bag[x] = 0
  PROVE  Count(bag, S) = 0
<1>1. Units(Restrict(bag, S)) = {}
  BY DEF Units, Restrict
<1>. QED BY <1>1, FS_EmptySet DEF Count

\* Two bags together.
LEMMA CountPlus ==
  ASSUME NEW D, NEW b \in [D -> Nat], NEW c \in [D -> Nat], NEW sum \in [D -> Nat],
         \A x \in D : sum[x] = b[x] + c[x],
         NEW S \in SUBSET D, IsFiniteSet(S)
  PROVE  Count(sum, S) = Count(b, S) + Count(c, S)
<1> DEFINE U == Units(Restrict(b, S))
           V == Units(Restrict(c, S))
           W == {<<v[1], v[2] + b[v[1]]>> : v \in V}
           g == [v \in V |-> <<v[1], v[2] + b[v[1]]>>]
<1>1. IsFiniteSet(U) /\ IsFiniteSet(V) /\ Cardinality(U) \in Nat /\ Cardinality(V) \in Nat
  BY CountType, FS_CardinalityType
<1>2. \A v \in V : \E x \in S : \E n \in 1 .. c[x] : v = <<x, n>>
  BY UnitsOfPart
<1>3. \A v, w \in V : g[v] = g[w] => v = w
  <2> SUFFICES ASSUME NEW v \in V, NEW w \in V, g[v] = g[w] PROVE v = w
    OBVIOUS
  <2>1. PICK x \in S, n \in Int : n \in 1 .. c[x] /\ v = <<x, n>>
    BY <1>2
  <2>2. PICK y \in S, m \in Int : m \in 1 .. c[y] /\ w = <<y, m>>
    BY <1>2
  <2>3. x = y /\ n + b[x] = m + b[y]
    BY <2>1, <2>2
  <2>. QED BY <2>1, <2>2, <2>3
<1>4. g \in Bijection(V, W)
  <2>1. g \in [V -> W] /\ \A w \in W : \E v \in V : g[v] = w
    OBVIOUS
  <2>. HIDE DEF g, V, W
  <2>. QED BY <1>3, <2>1 DEF Bijection, Injection, IsInjective, Surjection
<1>5. IsFiniteSet(W) /\ Cardinality(W) = Cardinality(V)
  BY <1>1, <1>4, FS_Bijection DEF ExistsBijection
<1>6. U \cap W = {}
  <2> SUFFICES ASSUME NEW u \in U, u \in W PROVE FALSE
    OBVIOUS
  <2>1. PICK x \in S, n \in Int : n \in 1 .. b[x] /\ u = <<x, n>>
    BY DEF Units, Restrict
  <2>2. PICK y \in S, m \in Int : m \in 1 .. c[y] /\ u = <<y, m + b[y]>>
    BY <1>2
  <2>. QED BY <2>1, <2>2
<1>7. Units(Restrict(sum, S)) = U \cup W
  <2>1. ASSUME NEW x \in S, NEW n \in 1 .. sum[x] PROVE <<x, n>> \in U \cup W
    <3>1. CASE n \in 1 .. b[x]
      BY <3>1 DEF Units, Restrict
    <3>2. CASE n \notin 1 .. b[x]
      <4>1. n - b[x] \in 1 .. c[x]
        BY <3>2
      <4>2. <<x, n - b[x]>> \in V
        BY <4>1 DEF Units, Restrict
      <4>3. <<x, n>> = <<x, (n - b[x]) + b[x]>>
        OBVIOUS
      <4>. QED BY <4>2, <4>3
    <3>. QED BY <3>1, <3>2
  <2>2. ASSUME NEW u \in U \cup W PROVE u \in Units(Restrict(sum, S))
    <3>1. CASE u \in U
      BY <3>1 DEF Units, Restrict
    <3>2. CASE u \in W
      <4>1. PICK y \in S, m \in Int : m \in 1 .. c[y] /\ u = <<y, m + b[y]>>
        BY <1>2, <3>2
      <4>2. b[y] \in Nat /\ c[y] \in Nat /\ sum[y] = b[y] + c[y]
        OBVIOUS
      <4>3. m + b[y] \in 1 .. sum[y]
        BY <4>1, <4>2
      <4>. QED BY <4>1, <4>3 DEF Units, Restrict
    <3>. QED BY <3>1, <3>2
  <2>3. \A u \in Units(Restrict(sum, S)) : \E x \in S : \E n \in 1 .. sum[x] : u = <<x, n>>
    BY UnitsOfPart
  <2>. QED BY <2>1, <2>2, <2>3
<1>8. Cardinality(U \cap W) = 0
  BY <1>6, FS_EmptySet
<1>9. Cardinality(U \cup W) = Cardinality(U) + Cardinality(W) - Cardinality(U \cap W)
  BY <1>1, <1>5, FS_Union
<1>. HIDE DEF U, V, W, g
<1>10. Count(sum, S) = Cardinality(U) + Cardinality(V)
  BY <1>1, <1>5, <1>7, <1>8, <1>9 DEF Count
<1>. QED BY <1>10 DEF Count, U, V

\* One more of something.
LEMMA CountOneMore ==
  ASSUME NEW D, NEW b \in [D -> Nat], NEW o \in D, NEW S \in SUBSET D, IsFiniteSet(S),
         NEW c \in [D -> Nat], c[o] = b[o] + 1, \A x \in D \ {o} : c[x] = b[x]
  PROVE  Count(c, S) = Count(b, S) + IF o \in S THEN 1 ELSE 0
<1> DEFINE U == Units(Restrict(b, S))
           W == Units(Restrict(c, S))
<1>1. c \in [D -> Nat] /\ c[o] = b[o] + 1 /\ b[o] \in Nat /\ \A x \in D \ {o} : c[x] = b[x]
  OBVIOUS
<1>2. IsFiniteSet(U) /\ Cardinality(U) \in Nat /\ Cardinality(U) = Count(b, S)
  BY CountType DEF Count
<1>3. /\ \A u : u \in U <=> \E x \in S : \E n \in 1 .. b[x] : u = <<x, n>>
      /\ \A u : u \in W <=> \E x \in S : \E n \in 1 .. c[x] : u = <<x, n>>
  BY UnitsOfPart
<1>. HIDE DEF U, W
<1>4. CASE o \in S
  <2>1. <<o, b[o] + 1>> \notin U
    BY <1>1, <1>3
  <2>2. ASSUME NEW u \in W
        PROVE  u \in U \cup {<<o, b[o] + 1>>}
    <3>1. PICK x \in S, n \in Int : n \in 1 .. c[x] /\ u = <<x, n>>
      BY <1>3
    <3>2. CASE x = o /\ n = b[o] + 1
      BY <3>1, <3>2
    <3>3. CASE ~(x = o /\ n = b[o] + 1)
      <4>1. n \in 1 .. b[x]
        BY <1>1, <3>1, <3>3
      <4>. QED BY <1>3, <3>1, <4>1
    <3>. QED BY <3>2, <3>3
  <2>3. ASSUME NEW u \in U
        PROVE  u \in W
    <3>1. PICK x \in S, n \in Int : n \in 1 .. b[x] /\ u = <<x, n>>
      BY <1>3
    <3>2. n \in 1 .. c[x]
      BY <1>1, <3>1
    <3>. QED BY <1>3, <3>1, <3>2
  <2>4. <<o, b[o] + 1>> \in W
    <3>1. b[o] + 1 \in 1 .. c[o]
      BY <1>1
    <3>. QED BY <1>3, <1>4, <3>1
  <2>5. W = U \cup {<<o, b[o] + 1>>}
    BY <2>2, <2>3, <2>4
  <2>6. Cardinality(W) = Cardinality(U) + 1
    BY <1>2, <2>1, <2>5, FS_AddElement
  <2>. QED BY <1>1, <1>2, <1>4, <2>6 DEF Count, W
<1>5. CASE o \notin S
  <2>1. W = U
    BY <1>1, <1>3, <1>5
  <2>. QED BY <1>1, <1>2, <1>5, <2>1 DEF Count, W
<1>. QED BY <1>4, <1>5

\* Things that are counted under another name are counted once.
LEMMA CountImage ==
  ASSUME NEW O, IsFiniteSet(O), NEW part \in [O -> Nat], NEW D, NEW name \in [O -> D],
         NEW named \in [D -> Nat],
         \A x \in D : named[x] = Count(part, {o \in O : name[o] = x}),
         NEW S \in SUBSET D
  PROVE  Count(named, S) = Count(part, {o \in O : name[o] \in S})
<1> DEFINE Of(x) == Units(Restrict(part, {o \in O : name[o] = x}))
           U == Units(Restrict(named, S))
           V == Units(Restrict(part, {o \in O : name[o] \in S}))
           h == [x \in D |-> CHOOSE f : f \in Bijection(1 .. named[x], Of(x))]
           g == [u \in U |-> h[u[1]][u[2]]]
<1>1. ASSUME NEW x \in D
      PROVE  h[x] \in Bijection(1 .. named[x], Of(x))
  <2> DEFINE T == {o \in O : name[o] = x}
  <2>1. T \in SUBSET O /\ IsFiniteSet(T)
    BY FS_Subset
  <2>2. IsFiniteSet(Of(x)) /\ Cardinality(Of(x)) = named[x]
    BY <2>1, CountType DEF Count
  <2>3. ExistsBijection(1 .. named[x], Of(x))
    BY <2>2, FS_CardinalityType
  <2>. QED BY <2>3 DEF ExistsBijection
<1>2. \A u : u \in U <=> \E x \in S : \E n \in 1 .. named[x] : u = <<x, n>>
  BY UnitsOfPart
<1>3. \A v : v \in V <=> \E o \in {o \in O : name[o] \in S} : \E n \in 1 .. part[o] : v = <<o, n>>
  BY UnitsOfPart
<1>4. \A x, v : v \in Of(x) <=> \E o \in {o \in O : name[o] = x} : \E n \in 1 .. part[o] : v = <<o, n>>
  BY UnitsOfPart
<1>. HIDE DEF Of, U, V
<1>5. \A v : v \in V <=> \E x \in S : v \in Of(x)
  BY <1>3, <1>4
<1>6. \A x, y, v : v \in Of(x) /\ v \in Of(y) => x = y
  BY <1>4
<1>7. \A u \in U : g[u] = h[u[1]][u[2]]
  OBVIOUS
<1>8. DOMAIN g = U /\ g = [u \in U |-> g[u]]
  OBVIOUS
<1>. HIDE DEF g, h
<1>9. ASSUME NEW u \in U
      PROVE  /\ u[1] \in S /\ u[2] \in 1 .. named[u[1]] /\ u = <<u[1], u[2]>>
             /\ g[u] \in Of(u[1])
  <2>1. PICK x \in S, n \in Int : n \in 1 .. named[x] /\ u = <<x, n>>
    BY <1>2
  <2>2. h[x] \in [1 .. named[x] -> Of(x)]
    BY <1>1 DEF Bijection, Injection
  <2>. QED BY <1>7, <2>1, <2>2
<1>10. g \in [U -> V]
  BY <1>5, <1>8, <1>9
<1>11. ASSUME NEW u \in U, NEW w \in U, g[u] = g[w]
       PROVE  u = w
  <2>1. u[1] = w[1]
    BY <1>6, <1>9, <1>11
  <2>2. h[u[1]][u[2]] = h[u[1]][w[2]]
    BY <1>7, <1>11, <2>1
  <2>3. u[2] = w[2]
    BY <1>1, <1>9, <2>1, <2>2 DEF Bijection, Injection, IsInjective
  <2>. QED BY <1>9, <2>1, <2>3
<1>12. ASSUME NEW v \in V
       PROVE  \E u \in U : g[u] = v
  <2>1. PICK x \in S : v \in Of(x)
    BY <1>5
  <2>2. PICK n \in 1 .. named[x] : h[x][n] = v
    BY <1>1, <2>1 DEF Bijection, Surjection
  <2>3. <<x, n>> \in U /\ g[<<x, n>>] = v
    BY <1>2, <1>7, <2>2
  <2>. QED BY <2>3
<1>13. g \in Bijection(U, V)
  BY <1>10, <1>11, <1>12 DEF Bijection, Injection, IsInjective, Surjection
<1>14. IsFiniteSet(V)
  <2>1. {o \in O : name[o] \in S} \in SUBSET O /\ IsFiniteSet({o \in O : name[o] \in S})
    BY FS_Subset
  <2>. QED BY <2>1, CountType DEF V
<1>15. IsFiniteSet(U) /\ Cardinality(U) = Cardinality(V)
  BY <1>13, <1>14, FS_Injection DEF Bijection
<1>. QED BY <1>15 DEF Count, U, V

-----------------------------------------------------------------------------
(* Operations and what recognises them.                                    *)

\* Division of a number of days and a part of a day.
LEMMA DayOf ==
  ASSUME NEW d \in Int, NEW r \in 0 .. Day - 1, Day \in Nat \ {0}
  PROVE  (d * Day + r) \div Day = d
OBVIOUS

\* The operations are finitely many, with times or without.
LEMMA ItemsType ==
  /\ IsFiniteSet(Items)
  /\ \A o \in Operations : Bare(o) \in Items /\ o \in Items
  /\ \A item \in Items : item.at \in Nat
  /\ \A S \in SUBSET Items : IsFiniteSet(S)
  /\ \A key \in RowKeys : WithKey[key] = {item \in Items : Key(item) = key}
<1> DEFINE bare == [o \in Operations |-> Bare(o)]
<1>1. bare \in Surjection(Operations, {Bare(o) : o \in Operations})
  BY DEF Surjection
<1>2. IsFiniteSet({Bare(o) : o \in Operations})
  BY <1>1, FS_Surjection, BankAssumption DEF BankAssumption
<1>3. IsFiniteSet(Items)
  BY <1>2, FS_Union, BankAssumption DEF BankAssumption, Items
<1>4. \A S \in SUBSET Items : IsFiniteSet(S)
  BY <1>3, FS_Subset
<1>. QED BY <1>3, <1>4, BankAssumption DEF BankAssumption, Items, WithKey

\* An operation without a time of day is of its owner's day in UTC too.
LEMMA BareType ==
  ASSUME NEW o \in Operations
  PROVE  /\ UtcDay(Bare(o).at) = LocalDay(o.at)
         /\ Bare(o).amount = o.amount
<1>1. /\ o = [at |-> o.at, amount |-> o.amount]
      /\ Day \in Nat \ {0} /\ Zone \in 0 .. Day \div 2
      /\ o.at \in Nat
  BY ItemsType, BankAssumption DEF BankAssumption
<1>2. /\ Bare(o).at = LocalDay(o.at) * Day + Day \div 2 - Zone
      /\ Bare(o).amount = o.amount
  BY <1>1 DEF Bare
<1>3. Day \div 2 - Zone \in 0 .. Day - 1
  BY <1>1
<1>4. LocalDay(o.at) \in Int
  BY <1>1 DEF LocalDay
<1>5. (LocalDay(o.at) * Day + (Day \div 2 - Zone)) \div Day = LocalDay(o.at)
  BY <1>1, <1>3, <1>4, DayOf
<1>6. LocalDay(o.at) * Day + Day \div 2 - Zone = LocalDay(o.at) * Day + (Day \div 2 - Zone)
  <2>. LocalDay(o.at) * Day \in Int
    BY <1>1, <1>4
  <2>. QED BY <1>1
<1>. QED BY <1>2, <1>5, <1>6 DEF UtcDay

\* The bags that the model counts.
LEMMA BagsType ==
  /\ Empty \in Bags
  /\ \A b, c \in Bags : Plus(b, c) \in Bags
  /\ \A S \in SUBSET Items, b \in Bags : Count(b, S) \in Nat
  /\ \A S \in SUBSET Items, b, c \in Bags : Count(Plus(b, c), S) = Count(b, S) + Count(c, S)
  /\ \A S \in SUBSET Items : Count(Empty, S) = 0
<1>1. Empty \in Bags /\ \A b, c \in Bags : Plus(b, c) \in Bags
  BY DEF Empty, Bags, Plus
<1>2. \A S \in SUBSET Items, b \in Bags : Count(b, S) \in Nat
  BY ItemsType, CountType DEF Bags
<1>3. ASSUME NEW S \in SUBSET Items, NEW b \in Bags, NEW c \in Bags
      PROVE  Count(Plus(b, c), S) = Count(b, S) + Count(c, S)
  <2>1. \A x \in Items : Plus(b, c)[x] = b[x] + c[x]
    BY DEF Plus
  <2>. QED BY <1>1, <2>1, ItemsType, CountPlus DEF Bags
<1>4. \A S \in SUBSET Items : Count(Empty, S) = 0
  BY <1>1, CountEmpty DEF Empty, Bags
<1>. QED BY <1>1, <1>2, <1>3, <1>4

\* The rows of a statement, where the days of the owner are days in UTC.
LEMMA WrittenType ==
  ASSUME NEW a \in Accounts, NEW part \in [Operations -> Nat],
         \A o \in Operations : part[o] <= Bank[a][o], NEW timed \in BOOLEAN
  PROVE  /\ Written(part, timed) \in Bags
         /\ \A key \in Recognisable :
              Count(Written(part, timed), WithKey[key]) <= Occurred(a, key)
<1> DEFINE rows == Written(part, timed)
           name == [o \in Operations |-> IF timed THEN o ELSE Bare(o)]
<1>1. name \in [Operations -> Items]
  BY ItemsType
<1>2. ASSUME NEW item \in Items
      PROVE  /\ rows[item] = Count(part, {o \in Operations : name[o] = item})
             /\ rows[item] \in Nat
  <2>1. {o \in Operations : item = IF timed THEN o ELSE Bare(o)}
          = {o \in Operations : name[o] = item}
    OBVIOUS
  <2>2. rows[item] = Count(part, {o \in Operations : name[o] = item})
    BY <2>1 DEF Written
  <2>3. {o \in Operations : name[o] = item} \in SUBSET Operations
    OBVIOUS
  <2>4. IsFiniteSet({o \in Operations : name[o] = item})
    BY <2>3, FS_Subset, BankAssumption DEF BankAssumption
  <2>. QED BY <2>2, <2>3, <2>4, CountType
<1>3. rows \in [Items -> Nat]
  BY <1>2 DEF Written
<1>4. ASSUME NEW key \in Recognisable
      PROVE  Count(rows, WithKey[key]) <= Occurred(a, key)
  <2> DEFINE S == {o \in Operations : name[o] \in WithKey[key]}
             T == {o \in Operations : Key(o) = key}
  <2>1. key \in RowKeys /\ WithKey[key] = {item \in Items : Key(item) = key}
    BY ItemsType DEF Recognisable
  <2>2. Count(rows, WithKey[key]) = Count(part, S)
    <3>1. IsFiniteSet(Operations) /\ WithKey[key] \in SUBSET Items
      BY <2>1, BankAssumption DEF BankAssumption
    <3>. HIDE DEF rows, name
    <3>. QED BY <1>1, <1>2, <1>3, <3>1, CountImage
  <2>3. ASSUME NEW o \in S
        PROVE  o \in T
    <3>1. CASE timed
      BY <2>1, <3>1
    <3>2. CASE ~timed
      <4>1. Key(Bare(o)) = key
        BY <2>1, <3>2
      <4>2. key.amount = o.amount /\ key.day = LocalDay(o.at)
        BY <4>1, BareType DEF Key
      <4>3. UtcDay(o.at) = LocalDay(o.at)
        BY <4>2, ItemsType DEF Recognisable
      <4>. QED BY <4>1, <4>2, <4>3, BareType DEF Key
    <3>. QED BY <3>1, <3>2
  <2>4. Count(part, S) <= Count(Bank[a], T)
    <3>1. IsFiniteSet(T) /\ T \in SUBSET Operations /\ S \in SUBSET Operations /\ S \subseteq T
      BY <2>3, FS_Subset, BankAssumption DEF BankAssumption
    <3>2. Bank[a] \in [Operations -> Nat]
      BY BankAssumption DEF BankAssumption
    <3>. HIDE DEF S, T
    <3>. QED BY <3>1, <3>2, CountMonotone
  <2>. QED BY <2>2, <2>4 DEF Occurred
<1>. QED BY <1>3, <1>4 DEF Bags

-----------------------------------------------------------------------------
(* Statements: the inductive invariant.                                    *)

\* A message waits for its turn, is in hand, or has come to an end.
MessagesCounted ==
  sent = answered + inbox + IF stage["chat"] = "idle" THEN 0 ELSE 1

\* Every list has been shown, was made by a run that failed, or is in the answer
\* that is being made; a run of the chat finds no list confirmed that it made.
ListsKnown ==
  /\ laid # {} => stage["chat"] \in {"running", "answering"}
  /\ \A a \in DOMAIN pending :
       /\ a \in shown \cup unread \cup laid
       /\ stage["chat"] = "running" /\ pending[a].confirmed => a \in shown \cup unread

\* What a list leaves out of its statement is in the site, one for one.
ListsComplete ==
  \A a \in DOMAIN pending, key \in RowKeys :
    pending[a].statement[key]
      <= Count(ledger[a], WithKey[key]) + Count(pending[a].items, WithKey[key])

\* The site does not have too many, nor would it with the list that waits.
ListsAreNew ==
  \A a \in Accounts \ doubtful, key \in Recognisable :
    /\ Count(ledger[a], WithKey[key]) <= Occurred(a, key)
    /\ a \in DOMAIN pending =>
         Count(ledger[a], WithKey[key]) + Count(pending[a].items, WithKey[key])
           <= Occurred(a, key)

\* What may still arrive is of accounts whose answer was lost.
LateIsDoubtful ==
  \A import \in flying : \A a \in Accounts \ doubtful : import.entries[a] = Empty

\* A reading began with no more than the site has now, and with what it has unless
\* the account is doubtful.
ReadingIsPast ==
  \A a \in DOMAIN reading :
    /\ \A item \in Items : reading[a][item] <= ledger[a][item]
    /\ a \notin doubtful => reading[a] = ledger[a]

ImportInv ==
  /\ ImportTypeOK
  /\ ReadingIsPast
  /\ MessagesCounted
  /\ ListsKnown
  /\ ListsComplete
  /\ ListsAreNew
  /\ LateIsDoubtful

-----------------------------------------------------------------------------
(* Lists.                                                                  *)

\* A statement, and what is taken of it.
LEMMA SelectionType ==
  ASSUME NEW selection \in Selections
  PROVE  /\ selection.account \in Accounts
         /\ selection.some \in Bags
         /\ selection.listed \in [RowKeys -> Nat]
         /\ \A key \in RowKeys : selection.left[key] = Count(selection.some, WithKey[key])
         /\ \A key \in Recognisable : selection.listed[key] <= Occurred(selection.account, key)
         /\ \E all \in Bags : /\ selection.found = Found(all)
                              /\ selection.listed = Tally(all)
<1>1. PICK statement \in Statements :
        \E some \in Among(statement.rows, Items) :
          selection = [account |-> statement.account,
                       listed |-> Tally(statement.rows), found |-> Found(statement.rows),
                       some |-> some, left |-> Tally(some)]
  BY DEF Selections
<1>2. PICK some \in Among(statement.rows, Items) :
        selection = [account |-> statement.account,
                     listed |-> Tally(statement.rows), found |-> Found(statement.rows),
                     some |-> some, left |-> Tally(some)]
  BY <1>1
<1>3. PICK a \in Accounts :
        \E part \in Among(Bank[a], Operations) : \E timed \in BOOLEAN :
          statement = [account |-> a, rows |-> Written(part, timed)]
  BY DEF Statements
<1>4. PICK part \in Among(Bank[a], Operations) : \E timed \in BOOLEAN :
        statement = [account |-> a, rows |-> Written(part, timed)]
  BY <1>3
<1>5. PICK timed \in BOOLEAN : statement = [account |-> a, rows |-> Written(part, timed)]
  BY <1>4
<1>6. part \in [Operations -> Nat] /\ \A o \in Operations : part[o] <= Bank[a][o]
  BY DEF Among
<1>7. some \in Bags
  BY DEF Among, Bags
<1> DEFINE rows == Written(part, timed)
<1>8. /\ selection.account = a /\ selection.some = some /\ selection.left = Tally(some)
      /\ selection.listed = Tally(rows) /\ selection.found = Found(rows)
  BY <1>2, <1>5
<1>9. /\ rows \in Bags
      /\ \A key \in Recognisable : Count(rows, WithKey[key]) <= Occurred(a, key)
  BY <1>6, WrittenType
<1>. HIDE DEF rows
<1>10. Tally(rows) \in [RowKeys -> Nat]
  BY <1>9, ItemsType, BagsType DEF Tally
<1>11. /\ \A key \in RowKeys : Tally(some)[key] = Count(some, WithKey[key])
       /\ \A key \in Recognisable : Tally(rows)[key] = Count(rows, WithKey[key])
  BY DEF Tally, Recognisable
<1>. QED BY <1>7, <1>8, <1>9, <1>10, <1>11

\* What the recognition finds of the rows of a key: never more than there is, and
\* where the days agree, all of it.
LEMMA ExistingType ==
  ASSUME NEW pages \in Bags, NEW rows \in Bags, NEW key \in RowKeys
  PROVE  /\ Existing(pages, Found(rows), key) \in Nat
         /\ Existing(pages, Found(rows), key) <= Count(pages, WithKey[key])
         /\ key \in Recognisable /\ Count(rows, WithKey[key]) > 0 =>
              Existing(pages, Found(rows), key) = Count(pages, WithKey[key])
<1> DEFINE S == WithKey[key]
           T == S \cap Found(rows)
<1>1. S = {item \in Items : Key(item) = key} /\ S \in SUBSET Items /\ T \in SUBSET Items
  BY ItemsType
<1>2. IsFiniteSet(S) /\ IsFiniteSet(T)
  BY <1>1, ItemsType
<1>3. pages \in [Items -> Nat] /\ rows \in [Items -> Nat]
  BY DEF Bags
<1>4. Existing(pages, Found(rows), key) = Count(pages, T)
  BY DEF Existing
<1>5. Count(pages, T) \in Nat /\ Count(pages, T) <= Count(pages, S)
  <2>1. T \subseteq S /\ \A x \in T : pages[x] <= pages[x]
    BY <1>1, <1>3
  <2>. HIDE DEF S, T
  <2>. QED BY <1>1, <1>2, <1>3, <2>1, CountType, CountMonotone
<1>6. ASSUME key \in Recognisable, Count(rows, S) > 0
      PROVE  T = S
  <2>1. PICK row \in S : rows[row] > 0
    <3>. HIDE DEF S
    <3>. QED BY <1>1, <1>2, <1>3, <1>6, CountPositive
  <2>2. row \in Items /\ UtcDay(row.at) = key.day
    BY <1>1 DEF Key
  <2>3. ASSUME NEW item \in S
        PROVE  item \in Found(rows)
    <3>1. item \in Items /\ UtcDay(item.at) = key.day /\ item.amount = key.amount
      BY <1>1 DEF Key
    <3>2. LocalDay(item.at) = key.day
      BY <1>6, <3>1 DEF Recognisable
    <3>3. key.day \in Int
      BY <3>1, ItemsType, BankAssumption DEF BankAssumption, UtcDay
    <3>. QED BY <2>1, <2>2, <3>1, <3>2, <3>3 DEF Found
  <2>. QED BY <2>3
<1>. QED BY <1>4, <1>5, <1>6

\* Rows that are passed over one for one leave what the site does not have: at
\* least that, when it has what the pages have shown or more, and just that where
\* the days agree and the pages have shown it all.
LEMMA FreshType ==
  ASSUME NEW selection \in Selections, NEW pages \in Bags, NEW now \in Bags,
         \A item \in Items : pages[item] <= now[item],
         Fresh(pages, selection), NEW key \in RowKeys
  PROVE  /\ selection.listed[key]
              <= Count(now, WithKey[key]) + Count(selection.some, WithKey[key])
         /\ key \in Recognisable /\ pages = now =>
              \A most \in Nat :
                selection.listed[key] <= most /\ Count(now, WithKey[key]) <= most =>
                  Count(now, WithKey[key]) + Count(selection.some, WithKey[key]) <= most
<1> DEFINE S == WithKey[key]
           r == selection.listed[key]
           s == Count(selection.some, S)
           k == Count(pages, S)
           l == Count(now, S)
           e == Existing(pages, selection.found, key)
<1>1. PICK rows \in Bags : selection.found = Found(rows) /\ selection.listed = Tally(rows)
  BY SelectionType
<1>2. S \in SUBSET Items /\ IsFiniteSet(S) /\ r = Count(rows, S)
  BY <1>1, ItemsType DEF Tally
<1>3. r \in Nat /\ s \in Nat /\ k \in Nat /\ l \in Nat
  BY <1>2, BagsType, SelectionType
<1>4. k <= l
  <2>1. \A x \in S : pages[x] <= now[x]
    BY <1>2
  <2>2. pages \in [Items -> Nat] /\ now \in [Items -> Nat]
    BY DEF Bags
  <2>. HIDE DEF S
  <2>. QED BY <1>2, <2>1, <2>2, CountMonotone
<1>5. s = IF r - e > 0 THEN r - e ELSE 0
  BY SelectionType DEF Fresh
<1>6. e \in Nat /\ e <= k /\ (key \in Recognisable /\ r > 0 => e = k)
  BY <1>1, <1>2, ExistingType
<1>7. pages = now => k = l
  OBVIOUS
<1>. HIDE DEF r, s, k, l, e
<1>8. r <= l + s
  BY <1>3, <1>4, <1>5, <1>6
<1>9. ASSUME key \in Recognisable, pages = now, NEW most \in Nat, r <= most, l <= most
      PROVE  l + s <= most
  BY <1>3, <1>5, <1>6, <1>7, <1>9
<1>. QED BY <1>8, <1>9 DEF r, s, l

-----------------------------------------------------------------------------
(* Steps that leave the site and the lists alone.                          *)

\* The state in which nothing is being compared.
NothingRead == DOMAIN reading = {} /\ reading \in [{} -> Bags]

\* A step that changes neither the site nor the lists, nor what is doubtful.
LEMMA ListsStay ==
  ASSUME ImportInv, UNCHANGED <<ledger, flying, pending, doubtful>>,
         ImportTypeOK', ReadingIsPast', MessagesCounted', ListsKnown'
  PROVE  ImportInv'
BY DEF ImportInv, ListsComplete, ListsAreNew, LateIsDoubtful

\* The numbers of messages and the stages of runs.
LEMMA MessagesType ==
  ASSUME ImportInv
  PROVE  /\ MaxMessages \in Nat /\ MaxMeetings \in Nat /\ MaxRestarts \in Nat /\ MaxLost \in Nat
         /\ sent \in 0 .. MaxMessages /\ answered \in 0 .. MaxMessages
         /\ inbox \in 0 .. MaxMessages
         /\ stage \in [Runners -> {"idle", "waiting", "running", "answering"}]
         /\ sent = answered + inbox + IF stage["chat"] = "idle" THEN 0 ELSE 1
BY BankAssumption DEF BankAssumption, ImportInv, ImportTypeOK, MessagesCounted

\* A message is sent.
LEMMA SendKeeps ==
  ASSUME ImportInv, Send
  PROVE  ImportInv'
<1>1. /\ sent < MaxMessages /\ sent' = sent + 1 /\ inbox' = inbox + 1
      /\ UNCHANGED <<ledger, flying, lost, doubtful, shown, unread, meetings, restarts, pending,
                     reading, stage, laid, answered>>
  BY DEF Send, site, known
<1>2. sent' \in 0 .. MaxMessages /\ inbox' \in 0 .. MaxMessages
  BY <1>1, MessagesType
<1>3. ImportTypeOK'
  BY <1>1, <1>2 DEF ImportInv, ImportTypeOK
<1>4. MessagesCounted' /\ ListsKnown'
  BY <1>1, MessagesType DEF ImportInv, MessagesCounted, ListsKnown
<1>5. ReadingIsPast'
  BY <1>1 DEF ImportInv, ReadingIsPast
<1>. QED BY <1>1, <1>3, <1>4, <1>5, ListsStay

\* A message begins.
LEMMA TakeMessageKeeps ==
  ASSUME ImportInv, TakeMessage
  PROVE  ImportInv'
<1>1. /\ stage["chat"] = "idle" /\ inbox > 0 /\ inbox' = inbox - 1
      /\ stage' = [stage EXCEPT !["chat"] = "waiting"]
      /\ UNCHANGED <<ledger, flying, lost, doubtful, meetings, restarts, sent, shown, unread,
                     pending, reading, laid, answered>>
  BY DEF TakeMessage, site, counts, known
<1>2. /\ inbox' \in 0 .. MaxMessages
      /\ stage' \in [Runners -> {"idle", "waiting", "running", "answering"}]
      /\ stage'["chat"] = "waiting" /\ stage'["meeting"] = stage["meeting"]
  BY <1>1, MessagesType DEF Runners
<1>3. ImportTypeOK'
  BY <1>1, <1>2 DEF ImportInv, ImportTypeOK
<1>4. MessagesCounted' /\ ListsKnown'
  BY <1>1, <1>2, MessagesType DEF ImportInv, MessagesCounted, ListsKnown
<1>5. ReadingIsPast'
  BY <1>1 DEF ImportInv, ReadingIsPast
<1>. QED BY <1>1, <1>3, <1>4, <1>5, ListsStay

\* A meeting begins to wait.
LEMMA CallMeetingKeeps ==
  ASSUME ImportInv, CallMeeting
  PROVE  ImportInv'
<1>1. /\ meetings < MaxMeetings /\ meetings' = meetings + 1
      /\ stage' = [stage EXCEPT !["meeting"] = "waiting"]
      /\ UNCHANGED <<ledger, flying, lost, doubtful, restarts, sent, shown, unread,
                     pending, reading, inbox, laid, answered>>
  BY DEF CallMeeting, site, known
<1>2. /\ meetings' \in 0 .. MaxMeetings
      /\ stage' \in [Runners -> {"idle", "waiting", "running", "answering"}]
      /\ stage'["meeting"] = "waiting" /\ stage'["chat"] = stage["chat"]
  BY <1>1, MessagesType DEF Runners, ImportInv, ImportTypeOK
<1>3. ImportTypeOK'
  BY <1>1, <1>2 DEF ImportInv, ImportTypeOK
<1>4. MessagesCounted' /\ ListsKnown'
  BY <1>1, <1>2 DEF ImportInv, MessagesCounted, ListsKnown
<1>5. ReadingIsPast'
  BY <1>1 DEF ImportInv, ReadingIsPast
<1>. QED BY <1>1, <1>3, <1>4, <1>5, ListsStay

\* A run ends.
LEMMA FinishKeeps ==
  ASSUME ImportInv, NEW w \in Runners, Finish(w)
  PROVE  ImportInv'
<1>1. /\ stage[w] = "running" /\ DOMAIN reading = {} /\ stage' = [stage EXCEPT ![w] = "answering"]
      /\ UNCHANGED <<ledger, flying, lost, doubtful, meetings, restarts, sent, shown, unread,
                     pending, reading, inbox, laid, answered>>
  BY DEF Finish, AtRest, site, counts, known
<1>2. /\ stage' \in [Runners -> {"idle", "waiting", "running", "answering"}]
      /\ stage'[w] = "answering" /\ \A v \in Runners \ {w} : stage'[v] = stage[v]
      /\ "chat" \in Runners /\ "meeting" \in Runners
  BY <1>1, MessagesType DEF Runners
<1>3. ImportTypeOK'
  BY <1>1, <1>2 DEF ImportInv, ImportTypeOK
<1>4. MessagesCounted'
  BY <1>1, <1>2 DEF ImportInv, MessagesCounted
<1>5. ListsKnown'
  BY <1>1, <1>2 DEF ImportInv, ListsKnown
<1>6. ReadingIsPast'
  BY <1>1 DEF ImportInv, ReadingIsPast
<1>. QED BY <1>1, <1>3, <1>4, <1>5, <1>6, ListsStay

\* A run that ends, with what its lists become known of.
LEMMA CloseKeeps ==
  ASSUME ImportInv, NEW w \in Runners, stage[w] # "idle", Close(w),
         shown' \cup unread' = IF w = "chat" THEN shown \cup unread \cup laid ELSE shown \cup unread
  PROVE  ImportInv'
<1>1. /\ stage' = [stage EXCEPT ![w] = "idle"]
      /\ IF w = "chat" THEN NothingRead' ELSE reading' = reading
      /\ laid' = IF w = "chat" THEN {} ELSE laid
      /\ answered' = IF w = "chat" THEN answered + 1 ELSE answered
      /\ UNCHANGED <<ledger, flying, lost, doubtful, meetings, restarts, sent, pending, inbox>>
  BY DEF Close, StopReading, NothingRead, site, counts
<1>2. /\ stage' \in [Runners -> {"idle", "waiting", "running", "answering"}]
      /\ stage'[w] = "idle" /\ \A v \in Runners \ {w} : stage'[v] = stage[v]
      /\ "chat" \in Runners /\ "meeting" \in Runners
  BY <1>1, MessagesType DEF Runners
<1>3. answered' \in 0 .. MaxMessages /\ MessagesCounted'
  BY <1>1, <1>2, MessagesType DEF MessagesCounted
<1>4. shown' \cup unread' \subseteq DOMAIN pending
  BY DEF ImportInv, ImportTypeOK
<1>5. {shown', unread', laid'} \subseteq SUBSET DOMAIN pending
  BY <1>1, <1>4 DEF ImportInv, ImportTypeOK
<1>9. /\ DOMAIN reading' \subseteq Accounts /\ reading' \in [DOMAIN reading' -> Bags]
      /\ DOMAIN reading' # {} => stage'["chat"] = "running"
  BY <1>1, <1>2 DEF ImportInv, ImportTypeOK, Runners, NothingRead
<1>6. ImportTypeOK'
  BY <1>1, <1>2, <1>3, <1>5, <1>9 DEF ImportInv, ImportTypeOK
<1>7. ListsKnown'
  BY <1>1, <1>2 DEF ImportInv, ListsKnown, Runners
<1>8. ReadingIsPast'
  BY <1>1 DEF ImportInv, ReadingIsPast, NothingRead
<1>. QED BY <1>1, <1>3, <1>6, <1>7, <1>8, ListsStay

\* Every list is confirmed when a run begins, but the chat has none of its own.
LEMMA StartKeeps ==
  ASSUME ImportInv, NEW w \in Runners, Start(w)
  PROVE  ImportInv'
<1>1. /\ stage[w] = "waiting" /\ \A v \in Runners : stage[v] # "running"
      /\ stage' = [stage EXCEPT ![w] = "running"]
      /\ pending' = [a \in DOMAIN pending |-> [pending[a] EXCEPT !.confirmed = TRUE]]
      /\ UNCHANGED <<ledger, flying, lost, doubtful, meetings, restarts, sent, shown, unread,
                     reading, inbox, laid, answered>>
  BY DEF Start, Busy, site, counts, known
<1>2. /\ stage' \in [Runners -> {"idle", "waiting", "running", "answering"}]
      /\ stage'[w] = "running" /\ \A v \in Runners \ {w} : stage'[v] = stage[v]
      /\ "chat" \in Runners /\ "meeting" \in Runners
      /\ ~(stage'["chat"] = "running" /\ stage'["meeting"] = "running")
  BY <1>1, MessagesType DEF Runners
<1>3. /\ DOMAIN pending' = DOMAIN pending
      /\ \A a \in DOMAIN pending :
           /\ pending'[a] \in List
           /\ pending'[a].items = pending[a].items
           /\ pending'[a].statement = pending[a].statement
  BY <1>1 DEF ImportInv, ImportTypeOK, List
<1>4. ImportTypeOK'
  BY <1>1, <1>2, <1>3 DEF ImportInv, ImportTypeOK
<1>5. MessagesCounted'
  BY <1>1, <1>2 DEF ImportInv, MessagesCounted
<1>6. ListsKnown'
  <2>1. stage'["chat"] = "running" => laid = {}
    BY <1>1, <1>2 DEF ImportInv, ListsKnown
  <2>2. laid' # {} => stage'["chat"] \in {"running", "answering"}
    BY <1>1, <1>2, <2>1 DEF ImportInv, ListsKnown
  <2>. QED BY <1>1, <1>3, <2>1, <2>2 DEF ImportInv, ListsKnown
<1>7. ListsComplete' /\ ListsAreNew' /\ LateIsDoubtful' /\ ReadingIsPast'
  BY <1>1, <1>3 DEF ImportInv, ListsComplete, ListsAreNew, LateIsDoubtful, ReadingIsPast
<1>. QED BY <1>4, <1>5, <1>6, <1>7 DEF ImportInv

-----------------------------------------------------------------------------
(* Steps that make lists.                                                  *)

\* A list as it is kept.
LEMMA PendingType ==
  ASSUME ImportTypeOK, NEW a \in DOMAIN pending
  PROVE  /\ a \in Accounts
         /\ pending[a].items \in Bags /\ pending[a].items # Empty
         /\ pending[a].statement \in [RowKeys -> Nat]
         /\ pending[a].confirmed \in BOOLEAN
BY DEF ImportTypeOK, List

\* A list is gone because nothing of it is new, or because the next statement is
\* not understood.
LEMMA LayNothingKeeps ==
  ASSUME ImportInv, NEW a \in Accounts, LayNothing(a),
         StopReading \/ UNCHANGED reading,
         UNCHANGED <<site, counts, stage, inbox, answered>>
  PROVE  ImportInv'
<1>1. /\ pending' = [b \in DOMAIN pending \ {a} |-> pending[b]]
      /\ shown' = shown \ {a} /\ unread' = unread \ {a} /\ laid' = laid \ {a}
      /\ NothingRead' \/ reading' = reading
      /\ UNCHANGED <<ledger, flying, lost, doubtful, meetings, restarts, sent, stage, inbox,
                     answered>>
  BY DEF LayNothing, StopReading, NothingRead, Drop, Restrict, Forget, site, counts
<1>2. DOMAIN pending' = DOMAIN pending \ {a} /\ \A b \in DOMAIN pending' : pending'[b] = pending[b]
  BY <1>1
<1>3. ImportTypeOK'
  <2>1. {shown', unread', laid'} \subseteq SUBSET DOMAIN pending'
    BY <1>1, <1>2 DEF ImportInv, ImportTypeOK
  <2>2. /\ DOMAIN reading' \subseteq Accounts /\ reading' \in [DOMAIN reading' -> Bags]
        /\ DOMAIN reading' # {} => stage'["chat"] = "running"
    BY <1>1 DEF ImportInv, ImportTypeOK, NothingRead
  <2>. QED BY <1>1, <1>2, <2>1, <2>2 DEF ImportInv, ImportTypeOK
<1>4. MessagesCounted'
  BY <1>1 DEF ImportInv, MessagesCounted
<1>5. ListsKnown'
  BY <1>1, <1>2 DEF ImportInv, ListsKnown
<1>6. ListsComplete' /\ ListsAreNew' /\ LateIsDoubtful' /\ ReadingIsPast'
  BY <1>1, <1>2 DEF ImportInv, ListsComplete, ListsAreNew, LateIsDoubtful, ReadingIsPast, NothingRead
<1>. QED BY <1>3, <1>4, <1>5, <1>6 DEF ImportInv

\* How often the bank has carried out the operations of a key is a number.
LEMMA OccurredType ==
  ASSUME NEW a \in Accounts, NEW key
  PROVE  Occurred(a, key) \in Nat
<1>1. {o \in Operations : Key(o) = key} \in SUBSET Operations
  OBVIOUS
<1>2. IsFiniteSet({o \in Operations : Key(o) = key}) /\ Bank[a] \in [Operations -> Nat]
  BY <1>1, FS_Subset, BankAssumption DEF BankAssumption
<1>. QED BY <1>1, <1>2, CountType DEF Occurred

\* The list of a statement: what it has beside what the site has, and confirmed
\* only if the owner knew the very same one.
LEMMA LayKeeps ==
  ASSUME ImportInv, NEW a \in Accounts, NEW selection \in Selections,
         selection.some # Empty, selection.account = a,
         NEW pages \in Bags, \A item \in Items : pages[item] <= ledger[a][item],
         a \notin doubtful => pages = ledger[a], Fresh(pages, selection),
         stage["chat"] = "running", Lay(a, selection.listed, selection.some), StopReading,
         UNCHANGED <<site, counts, stage, inbox, answered>>
  PROVE  ImportInv'
<1> DEFINE statement == selection.listed
           some == selection.some
           kept == a \in DOMAIN pending /\ pending[a].items = some
           new == [items |-> some, statement |-> statement,
                   confirmed |-> kept /\ pending[a].confirmed]
<1>1. /\ pending' = [b \in DOMAIN pending \cup {a} |-> IF b # a THEN pending[b] ELSE new]
      /\ laid' = laid \cup {a}
      /\ NothingRead'
      /\ IF kept THEN UNCHANGED known ELSE Forget({a})
      /\ UNCHANGED <<ledger, flying, lost, doubtful, meetings, restarts, sent, stage, inbox,
                     answered>>
  BY DEF Lay, SameList, StopReading, NothingRead, site, counts
<1>2. /\ DOMAIN pending' = DOMAIN pending \cup {a}
      /\ pending'[a] = new
      /\ \A b \in DOMAIN pending \ {a} : pending'[b] = pending[b]
  BY <1>1
<1>3. statement \in [RowKeys -> Nat] /\ some \in Bags /\ some # Empty
  BY SelectionType
<1>4. new \in List /\ new.items = some /\ new.statement = statement
      /\ (new.confirmed => kept /\ pending[a].confirmed)
  BY <1>3, PendingType DEF List, ImportInv
<1>. HIDE DEF new, some, statement
<1>5. /\ shown' \cup unread' \subseteq shown \cup unread
      /\ shown \cup unread \subseteq shown' \cup unread' \cup {a}
      /\ kept => shown' = shown /\ unread' = unread
  BY <1>1 DEF known, Forget
<1>6. ImportTypeOK'
  <2>1. {shown', unread', laid'} \subseteq SUBSET DOMAIN pending'
    BY <1>1, <1>2, <1>5 DEF ImportInv, ImportTypeOK
  <2>2. \A b \in DOMAIN pending' : pending'[b] \in List /\ pending'[b].items # Empty
    BY <1>2, <1>3, <1>4 DEF ImportInv, ImportTypeOK
  <2>3. /\ DOMAIN reading' \subseteq Accounts /\ reading' \in [DOMAIN reading' -> Bags]
        /\ DOMAIN reading' # {} => stage'["chat"] = "running"
    BY <1>1 DEF NothingRead
  <2>. QED BY <1>1, <1>2, <2>1, <2>2, <2>3 DEF ImportInv, ImportTypeOK
<1>7. MessagesCounted'
  BY <1>1 DEF ImportInv, MessagesCounted
<1>8. ListsKnown'
  <2>1. \A b \in DOMAIN pending' : b \in shown' \cup unread' \cup laid'
    BY <1>1, <1>2, <1>5 DEF ImportInv, ListsKnown
  <2>2. ASSUME NEW b \in DOMAIN pending', pending'[b].confirmed
        PROVE  b \in shown' \cup unread'
    <3>1. CASE b = a
      BY <1>2, <1>4, <1>5, <2>2, <3>1 DEF ImportInv, ListsKnown
    <3>2. CASE b # a
      BY <1>2, <1>5, <2>2, <3>2 DEF ImportInv, ListsKnown
    <3>. QED BY <3>1, <3>2
  <2>. QED BY <1>1, <2>1, <2>2 DEF ListsKnown
<1>9. ledger \in [Accounts -> Bags] /\ ledger' = ledger /\ doubtful' = doubtful
  BY <1>1 DEF ImportInv, ImportTypeOK
<1>10. ListsComplete'
  <2> SUFFICES ASSUME NEW b \in DOMAIN pending', NEW key \in RowKeys
               PROVE  pending'[b].statement[key]
                        <= Count(ledger[b], WithKey[key]) + Count(pending'[b].items, WithKey[key])
    BY <1>9 DEF ListsComplete
  <2>1. CASE b = a
    BY <1>2, <1>4, <1>9, <2>1, FreshType DEF some, statement
  <2>2. CASE b # a
    BY <1>2, <2>2 DEF ImportInv, ListsComplete
  <2>. QED BY <2>1, <2>2
<1>11. ListsAreNew'
  <2> SUFFICES ASSUME NEW b \in Accounts \ doubtful, NEW key \in Recognisable, b \in DOMAIN pending'
               PROVE  Count(ledger[b], WithKey[key]) + Count(pending'[b].items, WithKey[key])
                        <= Occurred(b, key)
    BY <1>9 DEF ImportInv, ListsAreNew
  <2>1. CASE b = a
    <3>1. key \in RowKeys /\ Count(ledger[a], WithKey[key]) <= Occurred(a, key)
      BY <2>1 DEF ImportInv, ListsAreNew, Recognisable
    <3>2. pages = ledger[a]
      BY <2>1
    <3>3. /\ Occurred(a, key) \in Nat /\ selection.listed[key] <= Occurred(a, key)
          /\ ledger[a] \in Bags
      BY <1>9, OccurredType, SelectionType
    <3>4. Count(ledger[a], WithKey[key]) + Count(selection.some, WithKey[key]) <= Occurred(a, key)
      BY <3>1, <3>2, <3>3, FreshType
    <3>. QED BY <1>2, <1>4, <2>1, <3>4 DEF some
  <2>2. CASE b # a
    BY <1>2, <2>2 DEF ImportInv, ListsAreNew
  <2>. QED BY <2>1, <2>2
<1>12. LateIsDoubtful' /\ ReadingIsPast'
  BY <1>1 DEF ImportInv, LateIsDoubtful, ReadingIsPast, NothingRead
<1>. QED BY <1>6, <1>7, <1>8, <1>10, <1>11, <1>12 DEF ImportInv

\* The pages show no less than at the beginning, and no more than there is.
LEMMA BetweenType ==
  ASSUME NEW before \in Bags, NEW now \in Bags, NEW pages \in Between(before, now)
  PROVE  /\ pages \in Bags
         /\ \A item \in Items : pages[item] <= now[item]
         /\ before = now => pages = now
<1> DEFINE rest == [item \in Items |-> now[item] - before[item]]
<1>1. PICK more \in Among(rest, Items) : pages = Plus(before, more)
  BY DEF Between
<1>2. more \in Bags /\ \A item \in Items : more[item] <= now[item] - before[item]
  BY <1>1 DEF Among, Bags
<1>3. \A item \in Items : before[item] \in Nat /\ now[item] \in Nat /\ more[item] \in Nat
                            /\ pages[item] = before[item] + more[item]
  BY <1>1, <1>2 DEF Plus, Bags
<1>4. pages \in Bags
  BY <1>1, <1>2, BagsType
<1>5. \A item \in Items : pages[item] <= now[item]
  BY <1>2, <1>3
<1>6. ASSUME before = now
      PROVE  pages = now
  <2>1. \A item \in Items : pages[item] = now[item]
    BY <1>2, <1>3, <1>6
  <2>. QED BY <1>4, <2>1 DEF Bags
<1>. QED BY <1>4, <1>5, <1>6

\* The first page of what the site has is asked for.
LEMMA ReadKeeps ==
  ASSUME ImportInv, NEW a \in Accounts, Read(a)
  PROVE  ImportInv'
<1>1. /\ stage["chat"] = "running" /\ DOMAIN reading' = {a} /\ reading'[a] = ledger[a]
      /\ reading' \in [DOMAIN reading' -> {ledger[a]}]
      /\ UNCHANGED <<ledger, flying, lost, doubtful, meetings, restarts, sent, shown, unread,
                     pending, stage, inbox, laid, answered>>
  BY DEF Read, site, counts, known
<1>2. ledger[a] \in Bags /\ \A item \in Items : ledger[a][item] <= ledger[a][item]
  BY DEF ImportInv, ImportTypeOK, Bags
<1>3. ImportTypeOK'
  BY <1>1, <1>2 DEF ImportInv, ImportTypeOK
<1>4. ReadingIsPast'
  BY <1>1, <1>2 DEF ReadingIsPast
<1>5. MessagesCounted' /\ ListsKnown'
  BY <1>1 DEF ImportInv, MessagesCounted, ListsKnown
<1>. QED BY <1>1, <1>3, <1>4, <1>5, ListsStay

\* A page does not come.
LEMMA ReadingFailsKeeps ==
  ASSUME ImportInv, ReadingFails
  PROVE  ImportInv'
<1>1. /\ NothingRead'
      /\ UNCHANGED <<ledger, flying, lost, doubtful, meetings, restarts, sent, shown, unread,
                     pending, stage, inbox, laid, answered>>
  BY DEF ReadingFails, StopReading, NothingRead, site, counts, known
<1>2. ImportTypeOK' /\ ReadingIsPast'
  BY <1>1 DEF ImportInv, ImportTypeOK, ReadingIsPast, NothingRead
<1>3. MessagesCounted' /\ ListsKnown'
  BY <1>1 DEF ImportInv, MessagesCounted, ListsKnown
<1>. QED BY <1>1, <1>2, <1>3, ListsStay

\* A statement is listed, by what the pages have shown.
LEMMA PreviewKeeps ==
  ASSUME ImportInv, NEW a \in Accounts, Preview(a)
  PROVE  ImportInv'
<1>1. PICK pages \in Between(reading[a], ledger[a]), selection \in Selections :
        /\ selection.account = a
        /\ Fresh(pages, selection)
        /\ IF selection.some = Empty
           THEN LayNothing(a)
           ELSE Lay(a, selection.listed, selection.some)
  BY DEF Preview
<1>2. /\ stage["chat"] = "running" /\ StopReading
      /\ UNCHANGED <<site, counts, stage, inbox, answered>>
  BY DEF Preview, ImportInv, ImportTypeOK
<1>3. /\ pages \in Bags
      /\ \A item \in Items : pages[item] <= ledger[a][item]
      /\ a \notin doubtful => pages = ledger[a]
  <2>1. reading[a] \in Bags /\ ledger[a] \in Bags
    BY DEF Preview, ImportInv, ImportTypeOK
  <2>2. a \notin doubtful => reading[a] = ledger[a]
    BY DEF Preview, ImportInv, ReadingIsPast
  <2>. QED BY <2>1, <2>2, BetweenType
<1>. QED BY <1>1, <1>2, <1>3, LayNothingKeeps, LayKeeps

-----------------------------------------------------------------------------
(* Steps that write.                                                       *)

\* The operations that are written are those of the lists that are ready.
LEMMA EntriesType ==
  ASSUME ImportTypeOK, NEW chosen \in Chosen
  PROVE  /\ Ready(chosen) \subseteq DOMAIN pending
         /\ Ready(chosen) \subseteq Accounts
         /\ \A a \in Ready(chosen) : pending[a].confirmed
         /\ Entries(Ready(chosen)) \in [Accounts -> Bags]
         /\ \A a \in Ready(chosen) : Entries(Ready(chosen))[a] = pending[a].items
         /\ \A a \in Accounts \ Ready(chosen) : Entries(Ready(chosen))[a] = Empty
<1>1. Ready(chosen) \subseteq DOMAIN pending /\ \A a \in Ready(chosen) : pending[a].confirmed
  BY DEF Ready, Chosen
<1>2. Ready(chosen) \subseteq Accounts
  BY <1>1 DEF ImportTypeOK
<1>3. Entries(Ready(chosen)) \in [Accounts -> Bags]
  BY <1>1, PendingType, BagsType DEF Entries
<1>. QED BY <1>1, <1>2, <1>3 DEF Entries

\* What the site has after an import.
LEMMA EnteredType ==
  ASSUME ImportTypeOK, NEW entries \in [Accounts -> Bags]
  PROVE  /\ Entered(entries) \in [Accounts -> Bags]
         /\ \A a \in Accounts, S \in SUBSET Items :
              Count(Entered(entries)[a], S) = Count(ledger[a], S) + Count(entries[a], S)
<1>1. ledger \in [Accounts -> Bags]
  BY DEF ImportTypeOK
<1>2. Entered(entries) \in [Accounts -> Bags]
  BY <1>1, BagsType DEF Entered
<1>3. \A a \in Accounts : Entered(entries)[a] = Plus(ledger[a], entries[a])
  BY DEF Entered
<1>. QED BY <1>1, <1>2, <1>3, BagsType

\* Lists are written and the answer arrives.
LEMMA ImportKeeps ==
  ASSUME ImportInv, NEW w \in Runners, NEW chosen \in Chosen, Import(w, chosen)
  PROVE  ImportInv'
<1> DEFINE ready == Ready(chosen)
           entries == Entries(ready)
<1>1. /\ ledger' = Entered(entries)
      /\ pending' = [b \in DOMAIN pending \ ready |-> pending[b]]
      /\ shown' = shown \ ready /\ unread' = unread \ ready /\ laid' = laid \ ready
      /\ DOMAIN reading = {}
      /\ UNCHANGED <<flying, lost, doubtful, meetings, restarts, sent, reading, stage, inbox, answered>>
  BY DEF Import, MayPost, AtRest, Drop, Restrict, Forget, counts
<1>2. /\ ready \subseteq DOMAIN pending
      /\ entries \in [Accounts -> Bags]
      /\ \A a \in ready : entries[a] = pending[a].items
      /\ \A a \in Accounts \ ready : entries[a] = Empty
  BY EntriesType DEF ImportInv
<1>. HIDE DEF ready, entries
<1>3. /\ DOMAIN pending' = DOMAIN pending \ ready
      /\ \A b \in DOMAIN pending' : pending'[b] = pending[b]
  BY <1>1
<1>4. /\ ledger' \in [Accounts -> Bags]
      /\ \A a \in Accounts, S \in SUBSET Items :
           Count(ledger'[a], S) = Count(ledger[a], S) + Count(entries[a], S)
  BY <1>1, <1>2, EnteredType DEF ImportInv
<1>5. ASSUME NEW a \in Accounts \ ready, NEW S \in SUBSET Items
      PROVE  Count(ledger'[a], S) = Count(ledger[a], S)
  <2>1. Count(entries[a], S) = 0 /\ Count(ledger[a], S) \in Nat
    BY <1>2, BagsType DEF ImportInv, ImportTypeOK
  <2>. QED BY <1>4, <2>1
<1>6. ImportTypeOK'
  <2>1. {shown', unread', laid'} \subseteq SUBSET DOMAIN pending'
    BY <1>1, <1>3 DEF ImportInv, ImportTypeOK
  <2>. QED BY <1>1, <1>3, <1>4, <2>1 DEF ImportInv, ImportTypeOK
<1>7. MessagesCounted'
  BY <1>1 DEF ImportInv, MessagesCounted
<1>8. ListsKnown'
  BY <1>1, <1>3 DEF ImportInv, ListsKnown
<1>9. \A key \in RowKeys : WithKey[key] \in SUBSET Items
  BY ItemsType
<1>10. DOMAIN pending' \subseteq Accounts \ ready
  BY <1>3 DEF ImportInv, ImportTypeOK
<1>11. ListsComplete'
  BY <1>3, <1>5, <1>9, <1>10 DEF ImportInv, ListsComplete
<1>12. ListsAreNew'
  <2> SUFFICES ASSUME NEW a \in Accounts \ doubtful, NEW key \in Recognisable
               PROVE  /\ Count(ledger'[a], WithKey[key]) <= Occurred(a, key)
                      /\ a \in DOMAIN pending' =>
                           Count(ledger'[a], WithKey[key]) + Count(pending'[a].items, WithKey[key])
                             <= Occurred(a, key)
    BY <1>1 DEF ListsAreNew
  <2>1. WithKey[key] \in SUBSET Items
    BY <1>9 DEF Recognisable
  <2>2. CASE a \in ready
    BY <1>2, <1>3, <1>4, <2>1, <2>2 DEF ImportInv, ListsAreNew
  <2>3. CASE a \notin ready
    BY <1>3, <1>5, <2>1, <2>3 DEF ImportInv, ListsAreNew
  <2>. QED BY <2>2, <2>3
<1>13. LateIsDoubtful' /\ ReadingIsPast'
  BY <1>1 DEF ImportInv, LateIsDoubtful, ReadingIsPast
<1>. QED BY <1>6, <1>7, <1>8, <1>11, <1>12, <1>13 DEF ImportInv

\* Lists are sent and the answer does not arrive.
LEMMA ImportUnansweredKeeps ==
  ASSUME ImportInv, NEW w \in Runners, NEW chosen \in Chosen, ImportUnanswered(w, chosen)
  PROVE  ImportInv'
<1> DEFINE ready == Ready(chosen)
           import == [number |-> lost, entries |-> Entries(ready)]
<1>1. /\ lost < MaxLost /\ lost' = lost + 1
      /\ flying' = flying \cup {import}
      /\ doubtful' = doubtful \cup ready
      /\ UNCHANGED <<ledger, meetings, restarts, sent, shown, unread, pending, reading, stage, inbox, laid,
                     answered>>
  BY DEF ImportUnanswered, counts, known
<1>2. /\ ready \subseteq Accounts
      /\ import.number = lost /\ import.entries \in [Accounts -> Bags]
      /\ \A a \in Accounts \ ready : import.entries[a] = Empty
  BY EntriesType DEF ImportInv
<1>. HIDE DEF ready, import
<1>3. lost \in Nat /\ MaxLost \in Nat
  BY MessagesType DEF ImportInv, ImportTypeOK
<1>4. ImportTypeOK'
  BY <1>1, <1>2, <1>3 DEF ImportInv, ImportTypeOK
<1>5. MessagesCounted' /\ ListsKnown' /\ ListsComplete'
  BY <1>1 DEF ImportInv, MessagesCounted, ListsKnown, ListsComplete
<1>6. ListsAreNew' /\ LateIsDoubtful' /\ ReadingIsPast'
  BY <1>1, <1>2 DEF ImportInv, ListsAreNew, LateIsDoubtful, ReadingIsPast
<1>. QED BY <1>4, <1>5, <1>6 DEF ImportInv

\* What arrives late has nothing for an account that is not doubtful, and it only
\* adds.
LEMMA EnterLateKeeps ==
  ASSUME ImportInv, NEW import \in flying, EnterLate(import)
  PROVE  ImportInv'
<1>1. /\ flying' = flying \ {import}
      /\ ledger' = Entered(import.entries) \/ ledger' = ledger
      /\ UNCHANGED <<lost, doubtful, meetings, restarts, sent, shown, unread, pending, reading, stage, inbox,
                     laid, answered>>
  BY DEF EnterLate, counts, known
<1>2. import.entries \in [Accounts -> Bags] /\ ledger \in [Accounts -> Bags]
  BY DEF ImportInv, ImportTypeOK
<1>3. /\ ledger' \in [Accounts -> Bags]
      /\ \A a \in Accounts, S \in SUBSET Items : Count(ledger'[a], S) >= Count(ledger[a], S)
  <2>1. \A a \in Accounts, S \in SUBSET Items :
          Count(ledger[a], S) \in Nat /\ Count(import.entries[a], S) \in Nat
    BY <1>2, BagsType
  <2>2. CASE ledger' = ledger
    BY <1>2, <2>1, <2>2
  <2>3. CASE ledger' = Entered(import.entries)
    <3>1. ASSUME NEW a \in Accounts, NEW S \in SUBSET Items
          PROVE  Count(ledger'[a], S) >= Count(ledger[a], S)
      <4>1. Count(ledger'[a], S) = Count(ledger[a], S) + Count(import.entries[a], S)
        BY <1>2, <2>3, EnteredType DEF ImportInv
      <4>. QED BY <2>1, <4>1
    <3>. QED BY <1>2, <2>3, <3>1, EnteredType DEF ImportInv
  <2>. QED BY <1>1, <2>2, <2>3
<1>4. ASSUME NEW a \in Accounts \ doubtful, NEW S \in SUBSET Items
      PROVE  Count(ledger'[a], S) = Count(ledger[a], S)
  <2>1. import.entries[a] = Empty
    BY DEF ImportInv, LateIsDoubtful
  <2>2. Count(import.entries[a], S) = 0 /\ Count(ledger[a], S) \in Nat
    BY <1>2, <2>1, BagsType
  <2>3. CASE ledger' = Entered(import.entries)
    <3>1. Count(ledger'[a], S) = Count(ledger[a], S) + Count(import.entries[a], S)
      BY <1>2, <2>3, EnteredType DEF ImportInv
    <3>. QED BY <2>2, <3>1
  <2>. QED BY <1>1, <2>3
<1>5. ImportTypeOK'
  BY <1>1, <1>3 DEF ImportInv, ImportTypeOK
<1>6. MessagesCounted' /\ ListsKnown'
  BY <1>1 DEF ImportInv, MessagesCounted, ListsKnown
<1>7. \A key \in RowKeys : WithKey[key] \in SUBSET Items
  BY ItemsType
<1>8. ListsComplete'
  <2> SUFFICES ASSUME NEW a \in DOMAIN pending, NEW key \in RowKeys
               PROVE  pending[a].statement[key]
                        <= Count(ledger'[a], WithKey[key]) + Count(pending[a].items, WithKey[key])
    BY <1>1 DEF ListsComplete
  <2> DEFINE S == WithKey[key]
             n == pending[a].statement[key]
             l == Count(ledger[a], S)
             m == Count(ledger'[a], S)
             i == Count(pending[a].items, S)
  <2>1. n \in Nat /\ l \in Nat /\ m \in Nat /\ i \in Nat
    BY <1>2, <1>3, <1>7, PendingType, BagsType DEF ImportInv
  <2>2. n <= l + i
    BY DEF ImportInv, ListsComplete
  <2>3. l <= m
    BY <1>3, <1>7, PendingType DEF ImportInv
  <2>. HIDE DEF S, n, l, m, i
  <2>4. n <= m + i
    BY <2>1, <2>2, <2>3
  <2>. QED BY <2>4 DEF S, n, m, i
<1>9. ListsAreNew'
  <2> SUFFICES ASSUME NEW a \in Accounts \ doubtful, NEW key \in Recognisable
               PROVE  /\ Count(ledger'[a], WithKey[key]) <= Occurred(a, key)
                      /\ a \in DOMAIN pending =>
                           Count(ledger'[a], WithKey[key]) + Count(pending[a].items, WithKey[key])
                             <= Occurred(a, key)
    BY <1>1 DEF ListsAreNew
  <2>1. WithKey[key] \in SUBSET Items
    BY <1>7 DEF Recognisable
  <2>. QED BY <1>4, <2>1 DEF ImportInv, ListsAreNew
<1>10. LateIsDoubtful'
  BY <1>1 DEF ImportInv, LateIsDoubtful
<1>11. ReadingIsPast'
  <2>1. ASSUME NEW a \in Accounts, NEW item \in Items
        PROVE  ledger[a][item] \in Nat /\ ledger'[a][item] \in Nat
               /\ ledger[a][item] <= ledger'[a][item]
    <3>1. ledger[a] \in [Items -> Nat] /\ import.entries[a] \in [Items -> Nat]
      BY <1>2 DEF Bags
    <3>2. Entered(import.entries)[a][item] = ledger[a][item] + import.entries[a][item]
      BY DEF Entered, Plus
    <3>. QED BY <1>1, <3>1, <3>2
  <2>2. ASSUME NEW a \in Accounts \ doubtful
        PROVE  ledger'[a] = ledger[a]
    <3>1. import.entries[a] = Empty
      BY DEF ImportInv, LateIsDoubtful
    <3>2. ledger[a] \in [Items -> Nat] /\ Entered(import.entries)[a] = Plus(ledger[a], Empty)
      BY <1>2, <3>1 DEF Entered, Bags
    <3>3. Plus(ledger[a], Empty) = ledger[a]
      BY <3>2 DEF Plus, Empty
    <3>. QED BY <1>1, <3>2, <3>3
  <2>3. \A a \in DOMAIN reading : a \in Accounts /\ reading[a] \in [Items -> Nat]
    BY DEF ImportInv, ImportTypeOK, Bags
  <2>4. \A a \in DOMAIN reading :
          /\ \A item \in Items : reading[a][item] <= ledger[a][item]
          /\ a \notin doubtful => reading[a] = ledger[a]
    BY DEF ImportInv, ReadingIsPast
  <2>5. ASSUME NEW a \in DOMAIN reading, NEW item \in Items
        PROVE  reading[a][item] <= ledger'[a][item]
    <3>1. reading[a][item] \in Nat /\ reading[a][item] <= ledger[a][item] /\ a \in Accounts
      BY <2>3, <2>4
    <3>. QED BY <2>1, <3>1
  <2>. QED BY <1>1, <2>2, <2>3, <2>4, <2>5 DEF ReadingIsPast
<1>. QED BY <1>11, <1>5, <1>6, <1>8, <1>9, <1>10 DEF ImportInv

\* What looks like an operation to the owner is what the recognition takes for it,
\* where the days agree.
LEMMA LooksLikeType ==
  ASSUME NEW operation \in Operations, Key(operation) \in Recognisable
  PROVE  LooksLike(operation) = WithKey[Key(operation)]
<1>1. operation \in Items /\ Key(operation) \in RowKeys
  BY ItemsType DEF Recognisable
<1>2. UtcDay(operation.at) = LocalDay(operation.at)
  BY <1>1 DEF Recognisable, Key
<1>3. ASSUME NEW item \in Items, item.amount = operation.amount
      PROVE  LocalDay(item.at) = LocalDay(operation.at) <=> UtcDay(item.at) = UtcDay(operation.at)
  BY <1>2, <1>3 DEF Recognisable, Key
<1>. QED BY <1>1, <1>3, ItemsType DEF LooksLike, Key

\* The owner records an operation herself.
LEMMA ByHandKeeps ==
  ASSUME ImportInv, NEW a \in Accounts, NEW operation \in Operations, ByHand(a, operation)
  PROVE  ImportInv'
<1> DEFINE bag == [ledger[a] EXCEPT ![operation] = @ + 1]
           more(S) == IF operation \in S THEN 1 ELSE 0
<1>1. /\ Count(ledger[a], LooksLike(operation))
           < Count(Bank[a], LooksLike(operation) \cap Operations)
      /\ ledger' = [ledger EXCEPT ![a] = bag]
      /\ doubtful' = IF a \in DOMAIN pending \cup DOMAIN reading THEN doubtful \cup {a} ELSE doubtful
      /\ UNCHANGED <<flying, lost, meetings, restarts, sent, shown, unread, pending, reading, stage, inbox,
                     laid, answered>>
  BY DEF ByHand, counts, known
<1>2. ledger \in [Accounts -> Bags] /\ operation \in Items /\ ledger[a] \in [Items -> Nat]
  BY ItemsType DEF ImportInv, ImportTypeOK, Bags
<1>3. bag \in Bags /\ \A S \in SUBSET Items : Count(bag, S) = Count(ledger[a], S) + more(S)
  <2>1. bag \in Bags
    BY <1>2 DEF Bags
  <2>2. ASSUME NEW S \in SUBSET Items
        PROVE  Count([ledger[a] EXCEPT ![operation] = @ + 1], S)
                 = Count(ledger[a], S) + IF operation \in S THEN 1 ELSE 0
    <3>1. IsFiniteSet(S)
      BY ItemsType
    <3>2. bag \in [Items -> Nat]
      BY <2>1 DEF Bags
    <3>3. /\ bag[operation] = ledger[a][operation] + 1
          /\ \A x \in Items \ {operation} : bag[x] = ledger[a][x]
      BY <1>2
    <3>. HIDE DEF bag
    <3>4. Count(bag, S) = Count(ledger[a], S) + IF operation \in S THEN 1 ELSE 0
      BY <1>2, <3>1, <3>2, <3>3, CountOneMore
    <3>. QED BY <3>4 DEF bag
  <2>. QED BY <2>1, <2>2
<1>. HIDE DEF bag
<1>4. /\ ledger' \in [Accounts -> Bags] /\ ledger'[a] = bag
      /\ \A b \in Accounts \ {a} : ledger'[b] = ledger[b]
  BY <1>1, <1>2, <1>3
<1>5. ASSUME NEW b \in Accounts, NEW S \in SUBSET Items
      PROVE  /\ Count(ledger[b], S) \in Nat /\ Count(ledger'[b], S) \in Nat
             /\ Count(ledger[b], S) <= Count(ledger'[b], S)
  <2>1. Count(ledger[b], S) \in Nat /\ Count(ledger'[b], S) \in Nat
    BY <1>2, <1>4, BagsType
  <2>2. CASE b = a
    <3>1. Count(ledger'[a], S) = Count(ledger[a], S) + more(S)
      BY <1>3, <1>4
    <3>. QED BY <2>1, <2>2, <3>1
  <2>3. CASE b # a
    BY <1>4, <2>1, <2>3
  <2>. QED BY <2>1, <2>2, <2>3
<1>6. ImportTypeOK'
  BY <1>1, <1>4 DEF ImportInv, ImportTypeOK
<1>7. MessagesCounted' /\ ListsKnown'
  BY <1>1 DEF ImportInv, MessagesCounted, ListsKnown
<1>8. \A key \in RowKeys : WithKey[key] \in SUBSET Items
  BY ItemsType
<1>9. ListsComplete'
  <2> SUFFICES ASSUME NEW b \in DOMAIN pending, NEW key \in RowKeys
               PROVE  pending[b].statement[key]
                        <= Count(ledger'[b], WithKey[key]) + Count(pending[b].items, WithKey[key])
    BY <1>1 DEF ListsComplete
  <2> DEFINE S == WithKey[key]
             n == pending[b].statement[key]
             l == Count(ledger[b], S)
             m == Count(ledger'[b], S)
             i == Count(pending[b].items, S)
  <2>1. n \in Nat /\ l \in Nat /\ m \in Nat /\ i \in Nat /\ l <= m
    BY <1>5, <1>8, PendingType, BagsType DEF ImportInv
  <2>2. n <= l + i
    BY DEF ImportInv, ListsComplete
  <2>. HIDE DEF S, n, l, m, i
  <2>3. n <= m + i
    BY <2>1, <2>2
  <2>. QED BY <2>3 DEF S, n, m, i
<1>10. ListsAreNew'
  <2> SUFFICES ASSUME NEW b \in Accounts \ doubtful', NEW key \in Recognisable
               PROVE  /\ Count(ledger'[b], WithKey[key]) <= Occurred(b, key)
                      /\ b \in DOMAIN pending =>
                           Count(ledger'[b], WithKey[key]) + Count(pending[b].items, WithKey[key])
                             <= Occurred(b, key)
    BY <1>1 DEF ListsAreNew
  <2>1. key \in RowKeys /\ WithKey[key] = {item \in Items : Key(item) = key} /\ b \notin doubtful
    BY <1>1, ItemsType DEF Recognisable
  <2>2. CASE b # a
    BY <1>4, <2>1, <2>2 DEF ImportInv, ListsAreNew
  <2>3. CASE b = a
    <3>1. a \notin DOMAIN pending
      BY <1>1, <2>3
    <3>2. CASE operation \notin WithKey[key]
      <4>1. Count(ledger'[a], WithKey[key]) = Count(ledger[a], WithKey[key])
        <5>1. Count(ledger'[a], WithKey[key]) = Count(ledger[a], WithKey[key]) + 0
          BY <1>3, <1>4, <2>1, <3>2
        <5>2. Count(ledger[a], WithKey[key]) \in Nat
          BY <1>5, <2>1
        <5>. QED BY <5>1, <5>2
      <4>. QED BY <2>1, <2>3, <3>1, <4>1 DEF ImportInv, ListsAreNew
    <3>3. CASE operation \in WithKey[key]
      <4>1. key = Key(operation)
        BY <2>1, <3>3
      <4>2. LooksLike(operation) = WithKey[key]
        BY <4>1, LooksLikeType
      <4>3. LooksLike(operation) \cap Operations = {o \in Operations : Key(o) = key}
        BY <2>1, <4>2, ItemsType
      <4>4. Count(ledger[a], WithKey[key]) < Occurred(a, key)
        BY <1>1, <4>2, <4>3 DEF Occurred
      <4>5. Count(ledger'[a], WithKey[key]) = Count(ledger[a], WithKey[key]) + 1
        BY <1>3, <1>4, <2>1, <3>3
      <4>6. Count(ledger[a], WithKey[key]) \in Nat /\ Occurred(a, key) \in Nat
        BY <1>5, <2>1, OccurredType
      <4>. QED BY <2>3, <3>1, <4>4, <4>5, <4>6
    <3>. QED BY <3>2, <3>3
  <2>. QED BY <2>2, <2>3
<1>11. LateIsDoubtful'
  BY <1>1 DEF ImportInv, LateIsDoubtful
<1>12. ReadingIsPast'
  <2>1. ASSUME NEW b \in Accounts, NEW item \in Items
        PROVE  ledger[b][item] \in Nat /\ ledger'[b][item] \in Nat
               /\ ledger[b][item] <= ledger'[b][item]
    <3>1. ledger[b] \in [Items -> Nat]
      BY <1>2 DEF Bags
    <3>2. bag[item] = ledger[a][item] + 1 \/ bag[item] = ledger[a][item]
      BY <1>2 DEF bag
    <3>. QED BY <1>4, <3>1, <3>2
  <2>2. \A b \in DOMAIN reading :
          /\ b \in Accounts /\ reading[b] \in [Items -> Nat]
          /\ \A item \in Items : reading[b][item] <= ledger[b][item]
          /\ b \notin doubtful => reading[b] = ledger[b]
    BY DEF ImportInv, ImportTypeOK, ReadingIsPast, Bags
  <2>3. ASSUME NEW b \in DOMAIN reading, NEW item \in Items
        PROVE  reading[b][item] <= ledger'[b][item]
    <3>1. reading[b][item] \in Nat /\ reading[b][item] <= ledger[b][item] /\ b \in Accounts
      BY <2>2
    <3>. QED BY <2>1, <3>1
  <2>4. ASSUME NEW b \in DOMAIN reading, b \notin doubtful'
        PROVE  reading[b] = ledger'[b]
    <3>1. b # a /\ b \notin doubtful
      BY <1>1, <2>4
    <3>. QED BY <1>4, <2>2, <3>1
  <2>. QED BY <1>1, <2>3, <2>4 DEF ReadingIsPast
<1>. QED BY <1>12, <1>6, <1>7, <1>9, <1>10, <1>11 DEF ImportInv

\* The bot begins again.
LEMMA RestartKeeps ==
  ASSUME ImportInv, RestartBot
  PROVE  ImportInv'
<1>1. /\ restarts < MaxRestarts /\ restarts' = restarts + 1
      /\ DOMAIN pending' = DOMAIN pending \ Accounts
      /\ stage' = [w \in Runners |-> "idle"]
      /\ NothingRead'
      /\ laid' = {} /\ inbox' = 0 /\ shown' = {} /\ unread' = {} /\ answered' = sent
      /\ UNCHANGED <<ledger, flying, lost, doubtful, meetings, sent>>
  BY DEF RestartBot, StopReading, NothingRead, Drop, Restrict, site
<1>2. DOMAIN pending' = {}
  BY <1>1 DEF ImportInv, ImportTypeOK
<1>3. ImportTypeOK'
  <2>1. DOMAIN reading' = {} /\ reading' \in [DOMAIN reading' -> Bags]
    BY <1>1 DEF NothingRead
  <2>2. /\ stage' \in [Runners -> {"idle", "waiting", "running", "answering"}]
        /\ ~(stage'["chat"] = "running" /\ stage'["meeting"] = "running")
    BY <1>1 DEF Runners
  <2>3. restarts' \in 0 .. MaxRestarts /\ inbox' \in 0 .. MaxMessages
        /\ answered' \in 0 .. MaxMessages
    BY <1>1, MessagesType DEF ImportInv, ImportTypeOK
  <2>. QED BY <1>1, <1>2, <2>1, <2>2, <2>3 DEF ImportInv, ImportTypeOK
<1>4. MessagesCounted'
  BY <1>1, MessagesType DEF MessagesCounted, Runners
<1>5. ListsKnown' /\ ListsComplete' /\ ListsAreNew' /\ LateIsDoubtful' /\ ReadingIsPast'
  BY <1>1, <1>2 DEF ImportInv, ListsKnown, ListsComplete, ListsAreNew, LateIsDoubtful, ReadingIsPast, NothingRead
<1>. QED BY <1>3, <1>4, <1>5 DEF ImportInv

\* Every step keeps the invariant.
LEMMA NextKeeps ==
  ASSUME ImportInv, [ImportNext]_importVars
  PROVE  ImportInv'
<1>1. CASE UNCHANGED importVars
  <2>1. UNCHANGED <<ledger, flying, lost, doubtful, meetings, restarts, sent, shown, unread, pending,
                    reading, stage, inbox, laid, answered>>
    BY <1>1 DEF importVars, site, counts, known
  <2>2. ImportTypeOK' /\ ReadingIsPast' /\ MessagesCounted' /\ ListsKnown'
    BY <2>1 DEF ImportInv, ImportTypeOK, ReadingIsPast, MessagesCounted, ListsKnown
  <2>. QED BY <2>1, <2>2, ListsStay
<1>2. CASE Send \/ TakeMessage \/ CallMeeting \/ RestartBot \/ ReadingFails
  BY <1>2, ReadingFailsKeeps, SendKeeps, TakeMessageKeeps, CallMeetingKeeps, RestartKeeps
<1>3. ASSUME NEW w \in Runners, Start(w) \/ Finish(w)
      PROVE  ImportInv'
  BY <1>3, StartKeeps, FinishKeeps
<1>4. ASSUME NEW w \in Runners, Answer(w) \/ GiveUp(w)
      PROVE  ImportInv'
  <2>1. stage[w] # "idle" /\ Close(w)
    BY <1>4 DEF Answer, GiveUp
  <2>2. shown' \cup unread'
          = IF w = "chat" THEN shown \cup unread \cup laid ELSE shown \cup unread
    BY <1>4 DEF Answer, GiveUp
  <2>. QED BY <2>1, <2>2, CloseKeeps
<1>5. ASSUME NEW w \in Runners, NEW chosen \in Chosen,
             Import(w, chosen) \/ ImportUnanswered(w, chosen)
      PROVE  ImportInv'
  BY <1>5, ImportKeeps, ImportUnansweredKeeps
<1>6. ASSUME NEW a \in Accounts, Read(a) \/ Preview(a) \/ PreviewRefused(a)
      PROVE  ImportInv'
  BY <1>6, ReadKeeps, PreviewKeeps, LayNothingKeeps DEF PreviewRefused
<1>7. ASSUME NEW import \in flying, EnterLate(import)
      PROVE  ImportInv'
  BY <1>7, EnterLateKeeps
<1>8. ASSUME NEW a \in Accounts, NEW operation \in Operations, ByHand(a, operation)
      PROVE  ImportInv'
  BY <1>8, ByHandKeeps
<1>. QED BY <1>1, <1>2, <1>3, <1>4, <1>5, <1>6, <1>7, <1>8 DEF ImportNext

\* The invariant holds.
LEMMA ImportInvariance == ImportSpec => []ImportInv
<1>1. ImportInit => ImportInv
  <2> SUFFICES ASSUME ImportInit PROVE ImportInv
    OBVIOUS
  <2>1. /\ ledger = [a \in Accounts |-> Empty] /\ flying = {} /\ DOMAIN pending = {}
        /\ DOMAIN reading = {} /\ reading \in [DOMAIN reading -> Bags]
        /\ stage = [w \in Runners |-> "idle"] /\ "chat" \in Runners /\ "meeting" \in Runners
        /\ inbox = 0 /\ laid = {} /\ shown = {} /\ unread = {} /\ sent = 0 /\ answered = 0
        /\ meetings = 0 /\ restarts = 0 /\ lost = 0 /\ doubtful = {}
    BY DEF ImportInit, Runners
  <2>2. ImportTypeOK
    BY <2>1, BagsType, BankAssumption DEF BankAssumption, ImportTypeOK
  <2>3. MessagesCounted /\ ListsKnown /\ ListsComplete /\ LateIsDoubtful /\ ReadingIsPast
    BY <2>1 DEF MessagesCounted, ListsKnown, ListsComplete, LateIsDoubtful, ReadingIsPast
  <2>4. ASSUME NEW a \in Accounts, NEW key \in Recognisable
        PROVE  Count(ledger[a], WithKey[key]) <= Occurred(a, key)
    <3>1. WithKey[key] \in SUBSET Items
      BY ItemsType DEF Recognisable
    <3>2. Count(ledger[a], WithKey[key]) = 0 /\ Occurred(a, key) \in Nat
      BY <2>1, <3>1, BagsType, OccurredType
    <3>. QED BY <3>2
  <2>. QED BY <2>1, <2>2, <2>3, <2>4 DEF ImportInv, ListsAreNew
<1>. QED BY <1>1, NextKeeps, PTL DEF ImportSpec

-----------------------------------------------------------------------------
(* Statements: the theorems.                                               *)

\* The types hold, at most one run uses the tools, and nothing is known of a list
\* that is not pending: for any statements, messages, meetings and restarts.
THEOREM ImportTypeCorrect == ImportSpec => []ImportTypeOK
<1>1. ImportInv => ImportTypeOK
  BY DEF ImportInv
<1>. QED BY <1>1, ImportInvariance, PTL

\* A run of the chat writes no list that the owner could not have read, whatever
\* runs, meetings, failures and restarts came between the list and the import.
THEOREM ReadFirst == ImportSpec => ShownBeforeWritten
<1>1. ASSUME ImportInv, [ImportNext]_importVars, stage["chat"] = "running",
             NEW a \in Accounts, IsPosted(a)
      PROVE  a \in shown \cup unread
  <2>1. PICK w \in Runners, chosen \in Chosen :
          /\ Import(w, chosen) \/ ImportUnanswered(w, chosen)
          /\ a \in Ready(chosen)
    <3>1. CASE \E w \in Runners, chosen \in Chosen : Import(w, chosen)
      <4>1. PICK w \in Runners, chosen \in Chosen : Import(w, chosen)
        BY <3>1
      <4>2. flying' = flying /\ DOMAIN pending' = DOMAIN pending \ Ready(chosen)
        BY <4>1 DEF Import, Drop, Restrict
      <4>. QED BY <1>1, <4>1, <4>2 DEF IsPosted
    <3>2. CASE \E w \in Runners, chosen \in Chosen : ImportUnanswered(w, chosen)
      <4>1. PICK w \in Runners, chosen \in Chosen : ImportUnanswered(w, chosen)
        BY <3>2
      <4>2. /\ pending' = pending
            /\ flying' = flying \cup {[number |-> lost, entries |-> Entries(Ready(chosen))]}
        BY <4>1 DEF ImportUnanswered
      <4>3. Entries(Ready(chosen))[a] # Empty
        BY <1>1, <4>2 DEF IsPosted
      <4>. QED BY <1>1, <4>1, <4>3, EntriesType DEF ImportInv
    <3>3. CASE UNCHANGED <<ledger, flying>>
      BY <1>1, <3>3 DEF IsPosted
    <3>4. CASE flying' \subseteq flying /\ pending' = pending
      BY <1>1, <3>4 DEF IsPosted
    <3>. QED BY <1>1, <3>1, <3>2, <3>3, <3>4
         DEF ImportNext, importVars, site, Send, TakeMessage, CallMeeting, Start, Finish, Answer, GiveUp, Close,
             Read, Preview, ReadingFails, PreviewRefused, EnterLate, ByHand, RestartBot
  <2>2. w = "chat"
    BY <1>1, <2>1 DEF Import, ImportUnanswered, MayPost, ImportInv, ImportTypeOK, Runners
  <2>3. a \in DOMAIN pending /\ pending[a].confirmed
    BY <1>1, <2>1, EntriesType DEF ImportInv
  <2>. QED BY <1>1, <2>3 DEF ImportInv, ListsKnown
<1>2. ImportInv /\ [ImportNext]_importVars =>
        (stage["chat"] = "running" =>
           \A a \in Accounts : IsPosted(a) => a \in shown \cup unread)
  BY <1>1
<1>. QED BY <1>2, ImportInvariance, PTL DEF ShownBeforeWritten, ImportSpec

\* No operation is entered more often than the bank has carried it out, of those
\* that the recognition can tell and the accounts that are not in doubt: for any
\* statements that overlap, with any number of operations that look alike.
THEOREM EnteredOnce == ImportSpec => []NothingEnteredTwice
<1>1. ImportInv => NothingEnteredTwice
  BY DEF ImportInv, ListsAreNew, NothingEnteredTwice
<1>. QED BY <1>1, ImportInvariance, PTL

\* After an import the site has as many operations of each key as the statement,
\* or more, whatever was recorded between the list and the import.
THEOREM AllRowsEntered == ImportSpec => NoRowLost
<1>1. ASSUME ImportInv, [ImportNext]_importVars, NEW a \in DOMAIN pending \ DOMAIN pending',
             ledger'[a] # ledger[a], NEW key \in RowKeys
      PROVE  Count(ledger'[a], WithKey[key]) >= pending[a].statement[key]
  <2>1. PICK w \in Runners, chosen \in Chosen : Import(w, chosen)
    BY <1>1
    DEF ImportNext, importVars, site, Send, TakeMessage, CallMeeting, Start, Finish, Answer, GiveUp, Close,
        Read, Preview, ReadingFails, PreviewRefused, EnterLate, ByHand, RestartBot, ImportUnanswered
  <2>2. a \in Ready(chosen) /\ ledger' = Entered(Entries(Ready(chosen)))
    BY <2>1 DEF Import, Drop, Restrict
  <2>3. /\ Entries(Ready(chosen)) \in [Accounts -> Bags]
        /\ Entries(Ready(chosen))[a] = pending[a].items /\ a \in Accounts
    BY <1>1, <2>2, EntriesType DEF ImportInv
  <2>4. WithKey[key] \in SUBSET Items
    BY ItemsType
  <2>5. Count(ledger'[a], WithKey[key])
          = Count(ledger[a], WithKey[key]) + Count(pending[a].items, WithKey[key])
    BY <1>1, <2>2, <2>3, <2>4, EnteredType DEF ImportInv
  <2>6. Count(ledger'[a], WithKey[key]) \in Nat /\ pending[a].statement[key] \in Nat
    <3>1. ledger[a] \in Bags /\ pending[a].items \in Bags /\ pending[a].statement \in [RowKeys -> Nat]
      BY <1>1, <2>3, PendingType DEF ImportInv, ImportTypeOK
    <3>2. Count(ledger[a], WithKey[key]) \in Nat /\ Count(pending[a].items, WithKey[key]) \in Nat
      BY <2>4, <3>1, BagsType
    <3>. QED BY <2>5, <3>1, <3>2
  <2>. QED BY <1>1, <2>5, <2>6 DEF ImportInv, ListsComplete
<1>2. ImportInv /\ [ImportNext]_importVars =>
        \A a \in DOMAIN pending \ DOMAIN pending' : ledger'[a] # ledger[a] =>
          \A key \in RowKeys : Count(ledger'[a], WithKey[key]) >= pending[a].statement[key]
  BY <1>1
<1>. QED BY <1>2, ImportInvariance, PTL DEF NoRowLost, ImportSpec
=============================================================================
