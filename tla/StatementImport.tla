--------------------------- MODULE StatementImport ---------------------------
(***************************************************************************)
(* Bank statements in the bot.  A run of the agent lists the operations of *)
(* a statement that the site does not have (preview_statement), the owner  *)
(* reads the list and answers, and a later run writes it (import_statement)*)
(*                                                                         *)
(* Runs are of two kinds: the answer to a message of the chat, one message *)
(* at a time under the lock of its session, with a limit on its time; and  *)
(* the budget meeting of the proactive loop, without one.  A lock of Deps  *)
(* lets one run at a time use the tools.  What a run makes of its message  *)
(* is the language model's choice: any tool, any number of times, one      *)
(* after the other; but a meeting is given no statement and has none to    *)
(* list.                                                                   *)
(*                                                                         *)
(* A bank statement shows some of the operations the bank has carried out, *)
(* with the time of day or without.  Time is in ticks of UTC, Day of them  *)
(* to a day; the owner lives Zone ticks ahead.  Of the fields of a row the *)
(* moment and the signed amount are kept: the recognition of what is       *)
(* recorded looks at no other, and a moment that differs is enough to make *)
(* another list.                                                           *)
(***************************************************************************)
EXTENDS Sums, Functions

CONSTANTS
  Accounts,
  Operations,   \* what the bank has carried out: records of a moment and an amount
  Bank,         \* for each account, how many times each operation occurred
  Day,
  Zone,
  MaxMessages,  \* bound on the messages of the owner
  MaxMeetings,  \* bound on the meetings
  MaxRestarts,  \* bound on the restarts of the bot
  MaxLost       \* bound on the imports whose answer is lost

LocalDay(at) == (at + Zone) \div Day

UtcDay(at) == at \div Day

\* _strict_moment: a date without a time becomes noon of the owner's day.
Bare(operation) ==
  [operation EXCEPT !.at = LocalDay(operation.at) * Day + Day \div 2 - Zone]

Items == Operations \cup {Bare(operation) : operation \in Operations}

Bags == [Items -> Nat]

ASSUME BankAssumption ==
  /\ IsFiniteSet(Operations)
  /\ \A o \in Operations : o = [at |-> o.at, amount |-> o.amount]
  /\ Day \in Nat \ {0}
  /\ Zone \in 0 .. Day \div 2
  /\ Bank \in [Accounts -> [Operations -> Nat]]
  /\ \A item \in Items : item.at \in Nat
  /\ {MaxMessages, MaxMeetings, MaxRestarts, MaxLost} \subseteq Nat

Runners == {"chat", "meeting"}

VARIABLES
  ledger,    \* the operations the site has, by account
  flying,    \* imports sent whose answer nobody waits for any more
  pending,   \* pending_imports
  reading,   \* for the account whose statement is being compared with the site,
             \* what the site had when that began
  stage,     \* how far each kind of run has got
  inbox,     \* how many messages wait for the lock of the session
  laid,      \* the accounts whose present list the run of the chat has made or
             \* made again
  shown,     \* the accounts whose present list the owner has been shown
  unread,    \* those whose list was made by a run whose answer did not reach her
  sent,      \* messages sent
  answered,  \* messages that have come to an end
  meetings,
  restarts,
  lost,      \* imports whose answer was lost
  doubtful   \* accounts whose answer was lost, or whose list was overtaken by hand,
             \* while it waited or was being made

site == <<ledger, flying, lost, doubtful>>
counts == <<meetings, restarts, sent>>
known == <<shown, unread>>
importVars == <<site, counts, known, pending, reading, stage, inbox, laid, answered>>

-----------------------------------------------------------------------------
Count(bag, S) == Cardinality(Units(Restrict(bag, S)))

Empty == [item \in Items |-> 0]

Plus(b, c) == [item \in Items |-> b[item] + c[item]]

\* What a statement of an account may show: each operation at most as often as
\* the bank has carried it out, with times or with dates alone.
Written(part, timed) ==
  [item \in Items |->
     Count(part, {o \in Operations : item = IF timed THEN o ELSE Bare(o)})]

Most == Count([a \in Accounts |-> Count(Bank[a], Operations)], Accounts)

Among(bag, S) == {part \in [S -> 0 .. Most] : \A x \in S : part[x] <= bag[x]}

Statements ==
  UNION {{[account |-> a, rows |-> Written(part, timed)] :
            part \in Among(Bank[a], Operations), timed \in BOOLEAN} : a \in Accounts}

\* The recognition of what is recorded: the day in UTC and the signed amount.
Key(item) == [day |-> UtcDay(item.at), amount |-> item.amount]

RowKeys == {Key(item) : item \in Items}

WithKey == [key \in RowKeys |-> {item \in Items : Key(item) = key}]

\* How many rows there are of each key.
Tally(bag) == [key \in RowKeys |-> Count(bag, WithKey[key])]

\* _existing_keys: the site gives the owner's days between the first and the last
\* day of the rows in UTC.
Found(rows) ==
  LET days == {UtcDay(item.at) : item \in {item \in Items : rows[item] > 0}}
  IN  {item \in Items : /\ \E first \in days : first <= LocalDay(item.at)
                        /\ \E last \in days : LocalDay(item.at) <= last}

\* What pages show that are read one after the other, while operations are added.
Between(before, now) ==
  {Plus(before, more) : more \in Among([item \in Items |-> now[item] - before[item]], Items)}

\* The statements, each with some of its rows: what is compared of them.
Selections ==
  UNION {{[account |-> statement.account,
           listed |-> Tally(statement.rows), found |-> Found(statement.rows),
           some |-> some, left |-> Tally(some)] : some \in Among(statement.rows, Items)} :
         statement \in {statement \in Statements : statement.rows # Empty}}

Existing(pages, found, key) == Count(pages, WithKey[key] \cap found)

\* A fault for the runs: all rows with the key of a recorded one are passed over.
FreshOfNewKeys(pages, selection) ==
  \A key \in RowKeys :
    selection.left[key] =
      IF Existing(pages, selection.found, key) > 0 THEN 0 ELSE selection.listed[key]

\* Rows are passed over one for one, the first ones of each key.  Which come
\* first is the order of the statement.
Fresh(pages, selection) ==
  \A key \in RowKeys :
    LET left == selection.listed[key] - Existing(pages, selection.found, key)
    IN  selection.left[key] = IF left > 0 THEN left ELSE 0

List == [items : Bags, statement : [RowKeys -> Nat], confirmed : BOOLEAN]

\* What was known of a list is said of the one that took its place.
ForgetNothing(S) == UNCHANGED known

\* The list of each account of S is gone, or another one has taken its place.
Forget(S) ==
  /\ shown' = shown \ S
  /\ unread' = unread \ S

\* The lists stay after they were written.
DropNothing(S) == UNCHANGED pending

Drop(S) == pending' = Restrict(pending, DOMAIN pending \ S)

Busy == \E w \in Runners : stage[w] = "running"

-----------------------------------------------------------------------------
ImportInit ==
  /\ ledger = [a \in Accounts |-> Empty]
  /\ flying = {}
  /\ pending = [a \in {} |-> Empty]
  /\ reading = [a \in {} |-> Empty]
  /\ stage = [w \in Runners |-> "idle"]
  /\ inbox = 0
  /\ laid = {}
  /\ shown = {}
  /\ unread = {}
  /\ sent = 0
  /\ answered = 0
  /\ meetings = 0
  /\ restarts = 0
  /\ lost = 0
  /\ doubtful = {}

\* The owner sends a message, whatever the bot is doing.
Send ==
  /\ sent < MaxMessages
  /\ sent' = sent + 1
  /\ inbox' = inbox + 1
  /\ UNCHANGED <<site, known, meetings, restarts, pending, reading, stage, laid, answered>>

\* The next message gets the lock of the session (_run).
TakeMessage ==
  /\ stage["chat"] = "idle"
  /\ inbox > 0
  /\ inbox' = inbox - 1
  /\ stage' = [stage EXCEPT !["chat"] = "waiting"]
  /\ UNCHANGED <<site, counts, known, pending, reading, laid, answered>>

\* The proactive loop finds that it is time for a meeting.
CallMeeting ==
  /\ stage["meeting"] = "idle"
  /\ meetings < MaxMeetings
  /\ meetings' = meetings + 1
  /\ stage' = [stage EXCEPT !["meeting"] = "waiting"]
  /\ UNCHANGED <<site, known, restarts, sent, pending, reading, inbox, laid, answered>>

\* resolve gets the lock of Deps and the run begins: what is pending is confirmed.
Start(w) ==
  /\ stage[w] = "waiting"
  /\ ~Busy
  /\ stage' = [stage EXCEPT ![w] = "running"]
  /\ pending' = [a \in DOMAIN pending |-> [pending[a] EXCEPT !.confirmed = TRUE]]
  /\ UNCHANGED <<site, counts, known, reading, inbox, laid, answered>>

\* A list is confirmed whatever it was laid over.
ListedBefore(a, rows) == a \in DOMAIN pending

\* The rows of the list are the ones of the list that is pending.
SameList(a, rows) == a \in DOMAIN pending /\ pending[a].items = rows

\* The model lists a statement whose rows are all understood.
Lay(a, listed, fresh) ==
  /\ pending' = [b \in DOMAIN pending \cup {a} |->
                   IF b # a THEN pending[b]
                   ELSE [items |-> fresh,
                         statement |-> listed,
                         confirmed |-> SameList(a, fresh) /\ pending[a].confirmed]]
  /\ laid' = laid \cup {a}
  /\ IF a \in DOMAIN pending /\ pending[a].items = fresh
     THEN UNCHANGED known
     ELSE Forget({a})

LayNothing(a) == Drop({a}) /\ Forget({a}) /\ laid' = laid \ {a}

\* No tool is at work: a run waits for one to end before it calls the next.
AtRest == DOMAIN reading = {}

\* The model lists a statement: the first page is asked for ...
Read(a) ==
  /\ stage["chat"] = "running"
  /\ AtRest
  /\ reading' = [b \in {a} |-> ledger[b]]
  /\ UNCHANGED <<site, counts, known, pending, stage, inbox, laid, answered>>

StopReading == reading' = [a \in {} |-> Empty]

\* ... the last one has come, and the list is laid.
Preview(a) ==
  /\ a \in DOMAIN reading
  /\ \E pages \in Between(reading[a], ledger[a]), selection \in Selections :
       /\ selection.account = a
       /\ Fresh(pages, selection)
       /\ IF selection.some = Empty
          THEN LayNothing(a)
          ELSE Lay(a, selection.listed, selection.some)
  /\ StopReading
  /\ UNCHANGED <<site, counts, stage, inbox, answered>>

\* The site did not give a page: the tool fails, and the run goes on.
ReadingFails ==
  /\ ~AtRest
  /\ StopReading
  /\ UNCHANGED <<site, counts, known, pending, stage, inbox, laid, answered>>

\* The model lists a statement with a date or a category that is not understood.
PreviewRefused(a) ==
  /\ stage["chat"] = "running"
  /\ AtRest
  /\ a \in DOMAIN pending
  /\ LayNothing(a)
  /\ UNCHANGED <<site, counts, reading, stage, inbox, answered>>

\* The model asks to write all the lists, or one; the confirmed ones are written.
Chosen == {DOMAIN pending} \cup {{a} : a \in DOMAIN pending}

Ready(chosen) == {a \in chosen : pending[a].confirmed}

Entries(ready) == [a \in Accounts |-> IF a \in ready THEN pending[a].items ELSE Empty]

Entered(entries) == [a \in Accounts |-> Plus(ledger[a], entries[a])]

MayPost(w, ready) == stage[w] = "running" /\ AtRest /\ ready # {}

\* The site writes the operations and the answer arrives.
Import(w, chosen) ==
  LET ready == Ready(chosen)
  IN  /\ MayPost(w, ready)
      /\ ledger' = Entered(Entries(ready))
      /\ Drop(ready)
      /\ Forget(ready)
      /\ laid' = laid \ ready
      /\ UNCHANGED <<flying, lost, doubtful, counts, reading, stage, inbox, answered>>

\* The answer does not arrive: the request fails on the way, or the run is
\* cancelled while it waits.
ImportUnanswered(w, chosen) ==
  LET ready == Ready(chosen)
  IN  /\ MayPost(w, ready)
      /\ lost < MaxLost
      /\ lost' = lost + 1
      /\ flying' = flying \cup {[number |-> lost, entries |-> Entries(ready)]}
      /\ doubtful' = doubtful \cup ready
      /\ UNCHANGED <<ledger, counts, known, pending, reading, stage, inbox, laid, answered>>

\* The site carries out an import nobody waits for, or never gets it.
EnterLate(import) ==
  /\ flying' = flying \ {import}
  /\ ledger' \in {Entered(import.entries), ledger}
  /\ UNCHANGED <<lost, doubtful, counts, known, pending, reading, stage, inbox, laid, answered>>

\* Operations of one day of hers and of one amount look alike to the owner.
LooksLike(operation) ==
  {item \in Items : /\ LocalDay(item.at) = LocalDay(operation.at)
                    /\ item.amount = operation.amount}

\* The owner records an operation by hand, if the site has fewer that look like it
\* than the bank has carried out.
ByHand(a, operation) ==
  /\ Count(ledger[a], LooksLike(operation))
       < Count(Bank[a], LooksLike(operation) \cap Operations)
  /\ ledger' = [ledger EXCEPT ![a][operation] = @ + 1]
  /\ doubtful' = IF a \in DOMAIN pending \cup DOMAIN reading
                  THEN doubtful \cup {a} ELSE doubtful
  /\ UNCHANGED <<flying, lost, counts, known, pending, reading, stage, inbox, laid, answered>>

\* The model has said its last word, and resolve returns.
Finish(w) ==
  /\ stage[w] = "running"
  /\ AtRest
  /\ stage' = [stage EXCEPT ![w] = "answering"]
  /\ UNCHANGED <<site, counts, known, pending, reading, inbox, laid, answered>>

Close(w) ==
  /\ stage' = [stage EXCEPT ![w] = "idle"]
  /\ IF w = "chat" THEN StopReading ELSE UNCHANGED reading
  /\ laid' = IF w = "chat" THEN {} ELSE laid
  /\ answered' = IF w = "chat" THEN answered + 1 ELSE answered
  /\ UNCHANGED <<site, counts, pending, inbox>>

\* The answer is in the chat, with the lists that the run has made.
Answer(w) ==
  /\ stage[w] = "answering"
  /\ Close(w)
  /\ shown' = IF w = "chat" THEN shown \cup laid ELSE shown
  /\ UNCHANGED unread

\* The limit is on the run, and not on the wait for its turn.
GiveUpRunning(w) ==
  /\ stage[w] \in {"running", "answering"}
  /\ Close(w)
  /\ unread' = IF w = "chat" THEN unread \cup laid ELSE unread
  /\ UNCHANGED shown

\* The run ends in an error, before it began, in the middle of it or with its
\* answer: the time of the message is up; the site, the model or the chat fails.
\* The owner is told of the error, if of anything, and of no list.
GiveUp(w) ==
  /\ stage[w] # "idle"
  /\ Close(w)
  /\ unread' = IF w = "chat" THEN unread \cup laid ELSE unread
  /\ UNCHANGED shown

\* The process of the bot ends and begins again: the site alone remembers, and
\* nobody waits for the messages of before.
RestartBot ==
  /\ restarts < MaxRestarts
  /\ restarts' = restarts + 1
  /\ Drop(Accounts)
  /\ StopReading
  /\ stage' = [w \in Runners |-> "idle"]
  /\ laid' = {}
  /\ inbox' = 0
  /\ shown' = {}
  /\ unread' = {}
  /\ answered' = sent
  /\ UNCHANGED <<site, meetings, sent>>

ImportNext ==
  \/ Send
  \/ TakeMessage
  \/ CallMeeting
  \/ \E w \in Runners :
       \/ Start(w) \/ Finish(w) \/ Answer(w) \/ GiveUp(w)
       \/ \E chosen \in Chosen : Import(w, chosen) \/ ImportUnanswered(w, chosen)
  \/ \E a \in Accounts : Read(a) \/ Preview(a) \/ PreviewRefused(a)
  \/ ReadingFails
  \/ \E import \in flying : EnterLate(import)
  \/ \E a \in Accounts, operation \in Operations : ByHand(a, operation)
  \/ RestartBot

\* The limit on the time of a message ends its run, whatever holds it up.
Fairness ==
  /\ WF_importVars(TakeMessage)
  /\ WF_importVars(GiveUp("chat") \/ Finish("chat"))

ImportSpec == ImportInit /\ [][ImportNext]_importVars /\ Fairness

-----------------------------------------------------------------------------
\* The types of the variables; at most one run uses the tools, and what is known
\* of lists is known of lists that are pending.
ImportTypeOK ==
  /\ ledger \in [Accounts -> Bags]
  /\ \A import \in flying :
       import.number \in 0 .. MaxLost - 1 /\ import.entries \in [Accounts -> Bags]
  /\ DOMAIN pending \subseteq Accounts
  /\ \A a \in DOMAIN pending : pending[a] \in List /\ pending[a].items # Empty
  /\ DOMAIN reading \subseteq Accounts /\ reading \in [DOMAIN reading -> Bags]
  /\ DOMAIN reading # {} => stage["chat"] = "running"
  /\ stage \in [Runners -> {"idle", "waiting", "running", "answering"}]
  /\ ~(stage["chat"] = "running" /\ stage["meeting"] = "running")
  /\ inbox \in 0 .. MaxMessages
  /\ {shown, unread, laid} \subseteq SUBSET DOMAIN pending
  /\ sent \in 0 .. MaxMessages
  /\ answered \in 0 .. MaxMessages
  /\ meetings \in 0 .. MaxMeetings
  /\ restarts \in 0 .. MaxRestarts
  /\ lost \in 0 .. MaxLost
  /\ doubtful \subseteq Accounts

\* The list of the account is written, or sent to be written.
IsPosted(a) ==
  \/ a \in DOMAIN pending \ DOMAIN pending' /\ ledger'[a] # ledger[a]
  \/ \E import \in flying' \ flying : import.entries[a] # Empty

\* What a run of the chat writes, the owner has been shown in those very rows: the
\* lock of the session keeps the next message until the answer to the one before
\* is out, a run does not write what it lists, and a statement that is listed
\* again with a change waits for another message.  Not so what a meeting writes,
\* nor a list whose answer did not reach her.
ShownBeforeWritten ==
  [][stage["chat"] = "running" =>
       \A a \in Accounts : IsPosted(a) => a \in shown \cup unread]_importVars

\* The recognition compares days in UTC, and asks the site for days of the
\* owner: it is right for the amounts that occur only where the two agree.
Recognisable ==
  {key \in RowKeys : \A item \in Items :
     (item.amount = key.amount /\ key.day \in {UtcDay(item.at), LocalDay(item.at)})
       => UtcDay(item.at) = LocalDay(item.at)}

Occurred(a, key) == Count(Bank[a], {o \in Operations : Key(o) = key})

\* However often statements that overlap are listed, in whatever order, and mixed
\* with what the owner records herself, restarts and runs given up, an operation
\* is not in the site more often than the bank has carried it out.  The code does
\* enter some twice, and those accounts are left out (doubtful): an import whose
\* answer was lost, and an operation that is recorded by hand after the site was
\* asked for the first page of what it has, and before the list is written.
NothingEnteredTwice ==
  \A a \in Accounts \ doubtful, key \in Recognisable :
    Count(ledger[a], WithKey[key]) <= Occurred(a, key)

\* An import leaves no row of the statement out: those that were passed over are
\* in the site, one for one (the Counter of preview_statement).
NoRowLost ==
  [][\A a \in DOMAIN pending \ DOMAIN pending' : ledger'[a] # ledger[a] =>
       \A key \in RowKeys :
         Count(ledger'[a], WithKey[key]) >= pending[a].statement[key]]_importVars

\* Every message comes to an end, with an answer, an error or a restart: a run
\* that does not end keeps neither the lock of the session from the next message
\* nor, when a meeting holds the lock of Deps for as long as it likes, the chat
\* waiting for ever.
EveryMessageEnds == \A n \in 1 .. MaxMessages : sent >= n ~> answered >= n
=============================================================================
