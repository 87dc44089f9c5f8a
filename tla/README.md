# Verification of anfinances

TLA+ modules, TLC configurations and TLAPS proofs about the code of this
repository. Everything is translated from the source; `PROJECT.json` names, for
each definition, the lines it stands for.

## The system

A personal-finance site (FastAPI and SQLAlchemy on PostgreSQL), a React front
end, a Telegram bot whose agent calls the site, and an MCP server through which
AI assistants call it.

Three facts of the code shape every module.

* A request has a database session of its own (`get_db`), at READ COMMITTED. The
  route commits after the service has returned; any exception closes the session
  and PostgreSQL rolls back.
* `autoflush=False, expire_on_commit=False`: a row is what the session loaded
  first, and a flush writes the columns whose values changed, as values.
* Only `lock_account`, `get_refresh_token`, `get_code` and `get_token` take a
  lock (`FOR UPDATE`). Everything else is checked against a reading that may have
  become stale.

| Component | State | Operations | What is hard | What makes it correct |
|---|---|---|---|---|
| transactions | rows with a signed amount, an account, a date, a reconciled stamp | create, update, delete | rows loaded before and written after another request | balances follow from rows |
| transfers | a node, two legs, a fee | create, update, delete | updates that each win some columns | the legs stay a pair; the last request holds |
| reconciliation | `reconciliations`, stamps on rows | preview, reconcile | the ledger changes while the balance is compared | the balance agreed on is the one counted; stamps say what was checked |
| credits | credit with its debt, payments, their operations | create, update, pay, delete a payment, archive | debt is written back as a value, without a lock | the debt is the sum taken less the principal paid |
| auth | refresh tokens | login, refresh, logout, purge | races on one token, locks in a ring, revocation rolled back | one good token per login; a reuse ends the sessions |
| ai (OAuth) | codes, connections, tokens | approve, exchange, refresh, revoke, purge | races and replays of one secret | one connection per code, one good token per connection, a replay ends it |
| mcp server | connection objects, locks, remembered answers | call, repeat, forget, restart | lost and late answers, objects opened twice | a repeated write is written once |
| mcp gate | memory of whoami answers, requests in work; the site's hits per connection | identify, call a tool, forget; the guard and the policy | late answers, a token revoked while one is remembered | a revoked token is let in for a bounded time only; a good one is not called invalid |
| budgets, goals | a plan per month and category, a goal per category | create, update, import, move, delete | two moves at once; what is carried over | a move keeps the sum of the plans; an envelope is what was planned less what was spent |
| accounts, categories, payees, recurring | registers with unique names, a tree of two levels | create, rename, archive, merge, generate | checks before writes, no locks | no live child of an archived parent, no two of a name, no overlapping obligations |
| summary | - | daily allowance, cash flow, dashboard | the same money counted by several queries | figures agree and follow what the owner does |
| credit projections | - | schedule of a credit, plan of all credits | two algorithms over one debt; days, rounding, a limit | the plan never costs more than paying as before |
| export, import | a file | build a backup, restore it into an empty account | references, forgotten columns | the account shows what it showed |
| bot | chats with a queue, pending statement imports, reminder marks | message, button, preview, import, tick | overlapping runs, timeouts | nothing imported unseen, nothing imported twice |
| currencies, users, core, frontend | - | input, output, views | - | - |

The components meet in the database: reconciliation, credits, recurring expenses
and the bot's imports all write `transactions`; the summary and the envelopes read
what all the registers write; the MCP server and the bot call the API over HTTP
and can lose its answers.

## Modules

| Module | Models | Composed with |
|---|---|---|
| `Sums` | the SUM over rows, as a cardinality, so that it can be proved about | used by `Reconciliation`, `Credits`, `Payoff`, `StatementImport`, `Tables` |
| `Reconciliation` | reconcile and the writers of the ledger | `Sums` |
| `Credits` | credits, payments and their operations | `Sums` |
| `Transfers` | transfers with their legs and fees | - |
| `AuthSessions` | refresh tokens of the web application | - |
| `Grants` | what the OAuth server promises: connections, and which pair of each can be renewed | implemented by `AiOAuth`, used by `AiAccess` |
| `AiOAuth` | codes, connections and refresh tokens of AI assistants, with rows, locks and expiry | `Grants`, through a refinement mapping |
| `AiAccess` | how a token gets in: the site's checks, the limit per connection, and the gate of the MCP server | extends `Grants` |
| `McpReplay` | repeated writes of one MCP connection | - |
| `StatementImport` | bank statements in the bot: list, agreement, import | `Sums` |
| `Tables` | the tables of the registers and the unit of work of a request | `Sums` |
| `Accounts`, `Categories`, `Payees`, `Recurring`, `Budgets` | a register each: its requests and its figures | extend `Tables` (`Recurring` and `Budgets` through `Categories`) |
| `Summary` | the daily allowance, the dashboard, the goals | extends the registers |
| `Backup` | a backup and its restoration | extends `Summary` |
| `Registers` | all of them: requests of any register in any order | extends `Payees`, `Backup` |
| `Calendar` | days of payment | used by `Payoff` |
| `Payoff` | the schedule of each credit and the plan of all | `Calendar`, `Sums` |
| `SumsProofs`, `ReconciliationProofs`, `TransfersProofs`, `AiOAuthProofs`, `RegistersProofs` | the proofs about the module they are named for | extend it |
| `CreditsProofs` | the proofs about `Credits` and `Payoff` | extends both |
| `AuthProofs` | the proofs about `AuthSessions` and `AiAccess` | extends both |
| `AgentProofs` | the proofs about `McpReplay` and `StatementImport` | extends both |
| `MC...` | the module on a small instance: symmetry, values of constants | extend the module they instantiate |

Unless its section says otherwise, a step of a module is one SQL statement with
the locks it takes, or several that no other session can tell apart, or, in
`McpReplay`, what the event loop runs between two awaits. `pc` is how far the
request of a session has got; a request may fail at any point, which is
`Rollback` (`Fail`).

### Reconciliation

`tx` is the committed table, `own` what a session has flushed, `seen` what it has
loaded (for a reconciliation: what `balance_at` counted), `marks` the rows that
`mark_reconciled` selected. `LockAccount` is `SELECT ... FOR UPDATE`. `KeyShare`
and `MayReference` are the lock that the foreign key `transactions.account_id`
makes PostgreSQL take on the account: inserting into a locked account, or moving
a row to it, waits; changing an amount or a date, and deleting, do not. `touched`,
`vouched` and `raced` are history: the rows that edits have changed under a count, what
the reconciliation that set a stamp had counted, and whether an edit of the row raced it.

An edit that commits between `balance_at` and `mark_reconciled` is stamped though it was
not counted, and one that was loaded before a reconciliation keeps the stamp on the row
it moves. `StampsHold` leaves out those rows (`raced`) and no others.

### Credits

A request reads the credit (`LoadCredit`), checks, and commits what it computed
from that reading. `Column` is how SQLAlchemy writes only changed columns.
`stale` and `raced` are history: a credit is raced once a request has written it
from a reading that another commit had made stale. Two payments of the whole debt at
once are both taken and leave a debt of nothing: `DebtNeverNegative` bounds the debt,
`DebtMatchesUnlessRaced` says when it is right.

### AuthSessions

Each statement of `login`, `refresh` and `logout` is a step; `Needs` gives the
rows it locks, and a statement whose rows are held waits. `AbortDeadlock` is
PostgreSQL aborting a member of a ring. `login`, a field of a row, is history: the
login a token goes back to by rotation.

### AiOAuth and Grants

`ReadCode` and `ReadToken` lock their row until the session ends; the connection
is read without a lock. The commit includes `delete_expired`, which waits for
rows that other sessions hold (`CanPurge`). The route commits a replay's
revocation and answers with the error (`CommitReplay`).

`Grants` is what others may rely on: a code opens one connection, a connection has
at most one pair that can be renewed, renewing puts another in its place, and an
ended connection stays ended. `GivesWhatIsPromised` is the refinement: `Opened`,
`Good`, `Given` and `Ended` read the variables of `Grants` off the rows. A token
that nobody renewed in time goes when a later commit purges its row, which is why
`Current` in `Grants` lets others lapse.

### AiAccess

The connections are those of `Grants`, with personal tokens beside them. A request
of the site is one step: `PassesGuard` (`ai_token_guard`, which does not know whose
the token is), `Authentic` (`authenticate`), `WithinLimit` (`ConnectionRateLimiter`), and
`Admission`, the scopes and then the user, who may have closed her account
(`CloseAccount`). `Routes` are the kinds of routes that ask who the user is. The others
are public (health, config, currencies, the protocol of OAuth) or closed by the guard
(the rest of auth), and touch nothing here. A request to the MCP server is several steps:
`Identify` (from memory, or it sets out to ask), `SiteSaysWho`, `Remember`, or
`Unanswered`; `_issued_for_us` is in `Understood`, for connections `Elsewhere`, and
`Unreadable` is a 200 that does not say who it is;
then `CallTool`, which forgets the token if the site does not take it. Other
requests, revocations and the clock come between any two of them.

Three things are as the code has them. The answer to whoami counts against the
limit of its connection, and a 429 is taken for a refusal, remembered for
`CACHE_SECONDS` and given to the client as `invalid_token`, though `BearerGuard`
takes care that an outage does not make a client throw its token away;
`RefusedForACause` leaves room for it, and for the two other refusals that are not for
the token's sake. The request to the site may take longer than an answer is remembered
(`httpx` waits 60 seconds for each phase of it), so that a revoked token is let in for
as long as that (`Staleness`), not for half a minute as `auth.py` says. And a late answer may
replace a newer one or undo a `forget`.

### McpReplay

`Arrive` is `call_tool` up to its first await, with `_forget_idle`; `Open`,
`Opened` and `FindOpened` are the double-checked creation behind `_creating`;
`Ask`, `ReplayAnswer`, `Answered` and `Unanswered` are `_run_once` and `_run`
behind the connection's lock. The site carries a request out (`Write`) before or
after the server stops waiting. A tool may also return a text without having
written: it knows no such category, or must ask for the account
(`tools.py:297,342,1742,1756`). Such a text is not an error, and is remembered and
given again like that of a write (`server.py:322`); `Answered` is both, and `outcome`
says which. Writes without a key only wait for the lock and are left out.
`Restart` loses all memory. Time passes only when
every call waits for the site, at most `Patience` at a turn. One lock, `_creating`,
is behind the opening of all connections; the module has one connection, and in
it what waits for that lock is its own calls.

Two things the module says with care. `AnsweredWriteNotRepeated` allows for the
wait of one request: a call that finds a connection which was opened while it waited
sets the time of its last use back to when the call came (`found.seen = now`, with
the `now` of before the await), so that the connection can be forgotten that much
sooner than an answer in it. And `QueueAssumption` says that calls which wait behind
one another are through before their connection is forgotten, a day against the few
requests of each call; without it the lock of a forgotten connection is held while another is opened.

### Transfers

`transfer`, `leg` and `fee` are the committed rows, `read` the legs and fees that a
session has loaded. `LoadTransfer` and `LoadLegs` are the two statements of
`get_transfer`; what a request writes at its end and its commit are one step,
`CommitUpdate` or `CommitDelete`, because those statements read nothing and the
rows they write stay locked. `Flushed` is the UPDATE that writes only the
columns that differ from what was loaded. An UPDATE of a row that is gone raises
(the mapping's `eager_defaults` makes it return its row, one statement a row); a
DELETE only warns. `Unreferred` and a guard of `AddFee` are the foreign key.
`asked`, `stale`, `mixed` and `doubled` are history.

A leg knows the other account by its name at the time (`to_account_name_snapshot`) and
by nothing else. Accounts may be renamed at any moment, so a request turns out to ask
for any two names, as it does for the rate of the day. `LegsMirror` is about names: an
update that keeps an account which has been renamed writes the name on both legs and the
account on neither, and if it has been overtaken by one that moved the leg, the leg has
the account of one and the name of the other until the next update.

`AsAsked` has its exceptions where the code has them. Two updates at once can
leave a transfer that is part one and part the other. From card to cash, one
moving it to (card, deposit) and one to (deposit, cash), it goes from deposit to
deposit, which `TransferCreate` refuses to anybody who asks for it. The next
update repairs that. Two updates that each add a fee leave two fees, of which every
later update changes or takes away one.

`models.py` says that a fee has no `transfer_id`; the code gives it one, and
`_split_legs` finds it by it. The module follows the code.

### StatementImport

`pending` is `pending_imports`, `ledger` the operations the site has. A message
waits in `inbox` for the lock of its session (`TakeMessage`), then for the lock of
`Deps`, under which `resolve` runs (`Start`, `Busy`); a budget meeting waits for
the second lock only and has no limit on its time. Inside a run the language
model chooses, one tool after the other (`AtRest`): `Read`, `Preview`, `ReadingFails`
and `PreviewRefused` are `preview_statement`, `Import` and `ImportUnanswered`
`import_statement`. `Start` confirms what is pending, as
`resolve` does; `Lay` keeps the confirmation of a list whose rows are the same.

A statement is a bag of rows, some of the account's operations with times or
with bare dates, at most as often as the bank has carried them out. `Fresh` is
the recognition: rows of one key (day in UTC, signed amount) are passed over one
for one, the site being asked for the owner's days. It is asked page by page, and others
write meanwhile: `Read` keeps what the site had at the beginning (`reading`), and
`Preview` lays the list by anything between that and what the site has by then
(`Between`; the pages go by a cursor, so that no row comes twice). `inbox` counts the messages
that wait. `shown`, `unread`, `laid` and `doubtful` are history: which
lists the owner has been shown, and what an import relied on.

The recognition is modelled as it is, and so `NothingEnteredTwice` and `NoRowLost`
say exactly where it is right: for amounts whose operations fall on one day
in UTC and for the owner (`Recognisable`). An operation shortly after the owner's
midnight is looked for on the wrong days and can be entered twice. `doubtful`
leaves out what the code does not promise either: an import whose answer was lost,
and an operation recorded by hand while a list of its account is being made or waits.
The site only gains operations in this module: none is deleted. `NoRowLost` speaks of
all amounts: what is passed over is passed over for a row of the same key.

The owner who records by hand (`ByHand`) is outside of the code. She goes by what she
sees: she adds an operation if the site has fewer that look like it, of that day of
hers and that amount, than the bank has carried out. She cannot go by the row itself,
for which of two rows that look alike is passed over is the order of the statement:
were she to add the one that is not there under its own minute, the two would be three.

### Tables and the registers

A handler of the registers reads and checks first and writes last, and takes no
lock. A request is therefore two steps: it looks (`Look`), with all of its
checks on what is committed, and holds the changes it has made; and it commits
(`Commit`) or is rolled back. `Update` names the columns that differ from what
was loaded, as SQLAlchemy does, with the values the handler has computed. The
database has its say at the commit (`Accepts`): unique indexes, foreign keys,
rows that are gone; it also lets go of payees and takes goals away with their
category. `stale` and `raced` are history: which session's reading another
commit has overtaken, and whether such a session has committed.

`Accounts` to `Budgets` have one operator for each handler, of which a disjunct of
`Ask` makes a request. Envelopes, proposals of recurring expenses, the daily
allowance, the dashboard and goals are functions of the tables they are counted from
(`Envelope`, `Proposals`, `SafeToSpend`, `StillToAdd`), so that a property can put them
side by side, before and after a step, and in the account a backup was made of.

What the model shows of the code, and the properties therefore say carefully:

* Requests that overtake each other can leave two live roots of one name (the unique
  index takes no NULL parent for equal to another), a live child of an archived
  parent, a payee of varied categories that remembers one, and an initial balance
  changed under an operation; two moves between plans lose money or make it up.
  `KeptOneByOne` and `ChecksStillHold` hold for requests that were not overtaken, and
  `RowsAgree` says what no race can break.
* What a unique index refuses is answered with an error of the server: no handler
  catches `IntegrityError`.
* Envelopes count the live children of a category, the daily allowance archived ones
  too (`EnvelopesAgree` has the condition). An expense is taken off each
  recurring item of its category, so that two items of one category both count as
  paid (`OneItemFor`); an item on a parent is not paid by spending on its children.
* An operation is of any of the seven kinds. A request to record or label one is
  refused the legs of a transfer and the payments of a credit (`OrdinaryKinds`), which
  come with a backup; like loans and adjustments they change balances and are neither
  income nor expense.
* The capital of the dashboard is less by the debt of the owner's credits, a constant
  here (`Debt`). The sum that is safe to spend is not. Spending in the summaries also
  takes in interest and fees of credits, which are in `Credits`.
* What `Look` lays out for a restoration is compared with the very backup it was asked to
  restore (`WillRestore`), so that a column or a table left behind is found; a backup
  with an archived recurring expense is the exception that `restore` shows.

### Calendar and Payoff

`Check...` are the rounds of the loop in which `payoff_plan` works out each
credit's own schedule (`project_credit`) and sorts out those it cannot plan;
`Begin`, `PayMonth`, `Finish` and `GiveUp` are `simulate_payoff`. Sums are
kopecks, interest is by days over 365, rounded half up, and dates are dates,
with months cut to their length and leap years. `Paying`, `Obligatory`,
`LeftFor` and `Early` are what one month does: payments that are due first, and
what is left of the sum of the month to the targets in the order of the
strategy. The columns of a credit have four decimals; the module has whole kopecks, to
which both algorithms round interest.

`Reserved` is the daily allowance's own walk over the days of payment
(`_credit_dues`). It begins after today, so a payment of today counts as made, and goes
on to the end of the horizon, past the last payment and whatever is left of the debt.
`DuesAgree` therefore compares the two between the first payment of a schedule and its
last, on the dates after today. It does not say that money is set aside for debts only,
for a repaid credit is archived by nobody.

The loop of `simulate_payoff` ends by a `break` at the beginning of a round: a plan
whose last debt closes in the last of `MAX_PAYMENTS` rounds raises, and so may one with
a credit that starts later than another, though `project_credit` accepts 600 payments
of each. `FailsOnlyAtTheLimit` says that nothing else makes it raise. `payoff_plan`
measures a credit from the UTC day of its last payment, and today is the owner's day;
any such pair of dates is an input of the model.

## Runs

| Run | Shows |
|---|---|
| `reconcile` | row by row, the count a reconciliation goes by stands until its commit but for rows that were edited or deleted (`CountStillHolds`); the adjustment closes the counted difference; as long as a row has its stamp, it is what was counted, but for edits that raced a reconciliation (`StampsHold`); nothing is adjusted behind the latest reconciliation |
| `auth` | one good token per login, rotation consumes its token, every request is answered |
| `auth_reuse` | violated: the revocation that answers a reuse is rolled back |
| `credits` | a debt that no stale request wrote is right (`DebtMatchesUnlessRaced`), no debt becomes negative by any race, payments and operations match |
| `oauth` | the server implements `Grants`; a connection whose secret came back is ended for good |
| `access` | a token that was revoked, has expired or whose owner has closed her account is let in for a bounded time; a good one is never refused for its own sake, however late an answer is |
| `mcp_replay` | writes are serial, answered writes are not repeated, answers belong to their calls |
| `transfers` | the legs mirror each other in names, date and roubles whatever updates race and whatever is renamed, nothing outlives a transfer, and it is what was asked for last unless its last update was overtaken |
| `import` | what the chat writes was shown before; overlapping statements enter nothing twice and leave no row out; every message ends |
| `registers` | rows fit each other whatever races (`RowsAgree`), names and tree stay in order and checks hold for requests that were not overtaken, figures of different queries agree, and they follow what the owner does; a restoration shows those of the backup it restores |
| `restore` | violated: an archived recurring expense comes back from a backup as a live one |
| `payoff` | no credit falls behind its own schedule, the plan costs no more than paying as before, the allowance finds the dates of each schedule that lie after today, every month takes one sum, and a plan fails only at the limit |

The two violated properties state what a comment and a test say; `findings` in
`PROJECT.json` has the quotations.

Seven more places where the code does other than it says were met while modelling.
No run is spent on them; the properties of the passing runs leave them out by name.

* `transactions/service.py:88-92` (`_unreconcile_if_moved`) says that the stamp on an
  operation that was moved would lie. A row edited while the balance is compared is
  stamped all the same (`mark_reconciled` selects the window a second time), and an edit
  that was loaded before a reconciliation leaves the stamp on the row it moves.
* `credits/service.py:390-393` says that a deletion must put the principal back, or the
  debt parts from the bank. It is put back on the debt that was read (line 400), and a
  payment that commits in between is lost.
* `mcp_server/auth.py:9-10` says that a revoked token works for up to thirty seconds. An
  answer that comes late lets it in for as long as the request may last.
* `summary/repository.py:107` calls active credits those that are not paid off, and asks
  for `is_archived` alone: the daily allowance sets money aside for a credit that
  `payoff_plan` passes over as repaid.
* `mcp_server/server.py:99-100` and 299 say that a repeated write is not done
  twice. If the answer of the site was lost, nothing is remembered (line 322),
  and it is.
* `agent/tools.py:756-762` says that it allows the lists shown on the turn
  before, after the owner's message. `arm_pending_import` (line 764) confirms
  what is pending at the start of any run, also for a message that was sent
  before the list was shown.
* `summary/service.py:4-6` says that the capital is the sum of the balances of active
  accounts; `dashboard` takes the debt off it (lines 102-115), as the comment there says.

Bounds. Two sessions (calls) each: every property relates at most two requests
that race, and a third adds no step that one of the two could not take later.
Two accounts, so that rows move between them; two or three rows, so that a count
has a row, an edit and an adjustment; amounts of both signs. Two codes and three
pairs of tokens, so that two rotations follow one exchange. Clocks pass every
expiry (`MaxTime` and `LastMoment` are above the lifetimes). In `mcp_replay` the lifetimes are 3,
above the wait of two calls behind one another (in the code 24 hours against
minutes), and the clock goes on to 4: an answer and a connection can both be
forgotten. In `transfers` one transfer is enough, as nothing passes between two;
its five requests differ from one another in every column, the name of the card among them, and three ids of fees
let two sessions add theirs while another is remembered. In `import` a day has
four ticks and the owner is one ahead: two coffees are bought at one moment, which only
their number tells from one, and the ticket falls between the owner's midnight and that of UTC. Two messages are the least with which one confirms
what the other listed, and one can be sent before the other is answered; one
meeting, one restart and one lost answer can each fall anywhere among them. In
`access` one connection is opened by a code and one by a personal token, which is for
another server; both ask for reading; two pairs let a renewal follow, the
memory and the limit hold one entry, so that both are full at once, and the
clock passes the expiry of a token, the window of the limit and the life of an
answer. In `registers` three requests of two sessions are the least with which
one looks, is overtaken, and another follows on what they left; the owner starts
with a branch of two categories, an operation and a plan on them, or with
nothing, which is when a backup can be restored. What is recorded is an expense, a
refund or a loan, and a backup has a payment of a credit. Every table has an id to spare.
Two months let a plan carry over. In `payoff` each of three credits takes its
terms from seven: days of payment that short months cut, due in this month and
in the next, no interest, a credit last paid in September of the year before,
and some that cannot be planned; `MaxPayments` is 5, so that plans do reach it.
`MaxDebt`, `MaxReconciliations`, `MaxTokens`, `MaxConnections`, `MaxObjects`,
`MaxPosts`, `MaxRequests`, `MaxMessages`, `MaxMeetings`, `MaxRestarts` and
`MaxLost` cap what grows without end. Symmetry is used on ids and sessions in
the runs without liveness properties. Deadlock is not checked where the bounds
stop a run.

Fairness. `AuthSessions`: a session whose statement can run again and again runs
it (strong fairness on its steps, since others may take a row between two of its
tries), which is the event loop and PostgreSQL serving each connection and handing a
row to those who wait for it, and a ring of waiting sessions is broken, which is
`deadlock_timeout`. No client has to send anything. `StatementImport`: a message
whose turn it is gets the lock of its session, which is asyncio's, and a run of
the chat ends: by `RUN_LIMIT` while it waits or works, which is all that limit covers
(`handlers.py:327-330`), and by the time limit of `aiogram` while it answers.
Nothing is assumed of meetings, of
the site or of the model.

## Proofs

The theorems hold for every value of the constants that the named assumptions of
a module allow: any number of sessions, accounts, rows, users and tokens.

* `SumsProofs`: `SumOf` of an integer-valued function on a finite set;
  inserting, deleting and replacing a row change it by the row's value. On these rest
  the lemmas that split a sum in two, put together the sums of disjoint sets of rows,
  group rows by a key, and name rows anew one for one. What the lemmas need of induction
  is stated for finite sets of sets: a family of subsets that has the empty one and is
  closed under one more row has the whole.
* `ReconciliationProofs`: `TypeCorrect`, `CountHolds`, `DifferenceClosed`,
  `StampsAlwaysHold`, `NotBackdated`. The invariant says who holds the account's
  lock while counting, that no session has an uncommitted row in a locked
  account, that `seen` is what the request's window holds but for the rows an edit
  `touched`, and that the rows to stamp are those counted, the adjustment and those
  touched; the action properties follow from it at the commit.
* `CreditsProofs`: `TypeCorrect`, `DebtMatches`, `NoNegativeDebt`, `PaymentsMatch`.
  The invariant relates what each session has read to the committed rows unless
  the session is stale, and gives each payment its operation.
* `TransfersProofs`: `TypeCorrect`, `Complete`, `Mirror`, `LastRequest`. The
  invariant says that what a session has loaded are rows of its transfer that
  mirror each other, and, unless it was overtaken, the rows there are: of each
  pair of columns it then writes both or neither (`FlushedMirrored`).
* `AuthProofs`: of `AuthSessions`, `TypeCorrect`, `OneLiveToken`, `RotationsConsume`. The
  invariant says that a session which rotates holds the row it rotates, that the
  row is its login's only good one, and that what it adds is not yet committed.
* `AiOAuthProofs`: `TypeCorrect`, `OneConnection`, `OneLiveToken`, `ReplayEnds`,
  and `Implements`, the refinement of `Grants`. The invariant says that a
  session which found its code or token good still holds that row, unchanged,
  and that of a connection's code only a used row can be left. A commit of an
  exchange is then an `Open`, that of a rotation a `Renew`, a revocation an
  `End`, and everything else leaves the variables of `Grants` as they are.
* `AgentProofs`: of `McpReplay`, `TypeCorrect`, `Answers`, `OneWrite`, `NotRepeated`. The
  invariant follows an answer from the request that came to it, with a write or
  without, to the memory under its key and to the call that takes it, with the arguments at each
  place. `OneWrite` and `NotRepeated` go by time (`Queue`): of the calls that use a
  connection, each request is sent no later than after one turn of `Patience` for every
  call that has already had its turn (`Due`), so that the connection is not forgotten
  while it is used (`QueueAssumption`); `Keeping` says that an answer that is kept is in
  the memory of the current connection until its time is over.
* `CreditsProofs`, second part: `PayoffTypeCorrect`, `PayoffFailsOnlyAtTheLimit`,
  `PayoffKeepsToSchedules`, `PayoffSameSumEveryMonth`. The invariant is the comparison itself: after as
  many payments, the plan owes no more and has paid no more interest than the
  schedule, and its dates are the schedule's. `DuesAgree` is about the schedule alone: its
dates are one walk over the days of payment, and the allowance's is another that
meets it (`WalksMeet`). That interest grows with what it
  is counted from, and that rounding keeps that order, are lemmas of their own. For the sum of a month, the debts that are
  paid form a queue (`AheadIsQueue`: both strategies are strict total orders), and
  `AllIsTaken` says of any sum that is shared out along a queue that either all of it is
  taken or all that is lacking, from one member of the queue to the next; the invariant
  needs that a debt that is paid off has begun (`PaidOffBegun`). `PayoffAssumption` asks only for
  finitely many credits, dates that exist and sums that are natural numbers.
* `AuthProofs`: of `AiAccess`, `Refusals` and `Revocations`. The
  invariant (`AccessInv`) says of each answer that is remembered or on its way, by the
  time it was asked for, that the token had not ended then if the answer lets it read
  (`LastedUntil`), and that what an answer has against a token is so for good
  (`Stands`); a memory counts from the moment the site was asked, and a request lasts
  `Patience`, whence `Staleness`.
* `AgentProofs`: of `StatementImport`, `ImportTypeCorrect`, `ReadFirst`,
  `EnteredOnce` and `AllRowsEntered`. `ReadingIsPast`: what a reading of the site began
  with, the site still has. `ListsComplete`: the site and a pending list have
  between them all the rows of its statement, key by key. `ListsAreNew`: the site and a
  list have between them no more of a recognisable key than the bank carried out,
  unless the account is doubtful; so a list can be laid, written, laid again
  and overtaken by other lists in any order. `LateIsDoubtful`: what an unanswered
  import may still write is of accounts that are doubtful. `ListsKnown`: a list
  that is confirmed, and was not laid by this run, the owner has been shown, or its
  run's answer failed. Beneath are lemmas about `Count`: it grows with the bag, is the
  sum over two bags, and is kept when rows are written without their times, or
  with them (`CountImage`). `BankAssumption` asks for finitely many operations.
* `RegistersProofs`: `RegistersTypeCorrect`, `RowsAlwaysAgree`, `OrderKept` and
  `ChecksKept`, for any number of rows, sessions and months. None of these properties is
  inductive, as a request looks in one step and commits in another, and what it has
  looked at may change between the two. The invariant (`RowsInv`) therefore speaks of the
  changes that each busy session holds, and must stay true of them when another commits:
  they fit the columns and the categories there are (`Fit`), a category that one session
  adds is known to no other (`Apart`), and, for sessions that were not overtaken, the
  tables they would leave (`Result`) are in order (`OrderInv`). That a commit leaves no
  reference to a row that is gone (`Whole`) is of the invariant too: it is what the
  foreign keys give. `Fit` lasts because no handler changes the parent or the kind of a
  category; a restoration deletes the default ones, and `Fit` speaks of a category only
  while it is there. `ChecksInv` says the same of the checks of three
  handlers: two sessions that were not overtaken have looked at the same tables. A move
  adds to one plan what it takes from another (`SumsProofs`); the categories for which
  items are generated are told apart by their ids, and in a tree of two levels no two of
  them are on one branch. A restoration maps the ids of a file one to one to new ones.
  `FiguresAlwaysAgree` needs no more of the state than the types of its rows: the two
  figures of each pair are sums over the same rows, whatever their kinds, split by account
  or by category, and `SumsProofs` has the lemmas that split a sum and put it together.
  `FiguresAlwaysFollow` is about a step, and compares sums before and after it:
  `ChecksInv` also says that a session that records or plans holds one row and touches
  no table of the figures but its own (`Deed`), and a restoration lays out, at its look,
  the rows of its file, each under a new id (`Recalled`). So a payment adds one operation to sums that are otherwise the same, a plan one row, and
  the sums over a file's rows are those over the restored ones, which are named anew one
  for one.
  `RegistersAssumption` asks for finitely many ids, `InputsAssumption` for what the
  schemas let in (an operation that is no adjustment has an amount above zero, without
  which a payment would add to what is safe to spend), `StartsAssumption` for rows to begin with that agree, and
  `BackupsAssumption` for files made of such rows, or with references that lead
  nowhere, which are refused.

Each is `Init => Inv`, `Inv /\ [Next]_vars => Inv'` by one step per action, and a
temporal step.

Every safety and action property of a passing run is stated by a theorem. Only
model-checked: the liveness properties `Answered` and `EveryMessageEnds`, which rest
on fairness and are out of the prover's reach. The type invariants of `AiOAuth` and
`McpReplay`, and the two invariants that `Grants` contains, are proved and have no run
of their own.

Of the 40 hazards that `PROJECT.json` lists, 32 have a property. The others have a note.
Two are of a composition that is not modelled, or promised by nobody: two requests that
lock each other's accounts, and a logout that races a refresh. In the other six the code
is exposed as it is, and no property could hold: a stamp kept by an edit that was loaded
before it, a write or an import whose answer was lost, operations shortly after the
owner's midnight, an initial balance changed under an operation, and the remembered text
of a tool that wrote nothing.

## Not modelled

* Of `transactions`: a change of kind, other currencies than roubles, the lists.
* Of `summary`: the age of money (one pass over payments in memory, which keeps
  no state) and the texts of upcoming payments.
* Of the backup: transfers, credits, reconciliations and the profile, which are
  restored the way of the registers; CSV and XLSX files.
* `expense_projection.py`, one pass that makes rows of a report.
* Of the bot: the agent's other tools, each of which is one request to the site;
  buttons, albums, reminders and the marks on the disk.
* Of the MCP server: descriptions and argument handling. Of `ai`: the cache of
  clients' metadata documents, which is filled from the network.
* The composition of a transfer and a reconciliation that lock each other's
  accounts: PostgreSQL aborts one, which is a rollback in both modules.

The front end, the rate limiter of logins, providers of rates and speech, texts and
formatting, password hashing, logging and deployment keep no state that requests share,
or are input and output.
