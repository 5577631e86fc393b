# Corporate KPI Bot in TLA+

Models of the Telegram bot in `src/app` (aiogram 3, SQLAlchemy, APScheduler), checked with TLC
on small instances, and theorems about them proved with TLAPS for every instance.
Every definition is translated from the source; `PROJECT.json` maps each one to its lines.

## The system

The bot serves one company of barbershops. The **main office** (admins) adds YCLIENTS branches,
connects employees, invites **franchisees** (managers of their own branches, with rights the admin
grants on others), edits KPI and grade rules and sends broadcasts. **Employees** read their
statistics, KPI, grade and the goods of their branch. Jobs synchronise the branches and send reports.

Everything runs in one process and one event loop. aiogram starts a task for each update, so that
handlers of several chats, and of one chat, interleave at every `await`; APScheduler jobs and the
internal API run beside them. `DatabaseSessionMiddleware` gives each update a session, commits at
the handler's end and rolls back if anything raised. PostgreSQL runs at READ COMMITTED, and no query
locks what it reads. Outside the transaction are the dialogue state (Redis or memory), the developer
mode and the caches (dictionaries of the process), and every message sent.

| Component | State | Operations | Hard behaviour | What makes it correct |
|---|---|---|---|---|
| Access (`services/admin.py`, `handlers/*.py`, `developer_mode.py`) | `telegram_users.role/is_active`, `franchisees`, `franchise_invites`, dialogue state, developer dictionaries | first registration, password, invite, employee code, block, delete, reset, developer mode | partial rollback, restarts, long sequences of role changes, order of the routers | nobody manages who was never admitted; developer mode is undone; invites are one-time |
| Connection codes (`services/connection.py`) | `connection_codes`, `employees.telegram_user_id/is_active` | generate, bind, disconnect, deactivate, return | two handlers with one code, lost updates, row locks held over Telegram calls | a code is redeemed once; a link has a used code behind it |
| Branch rights (`services/admin.py`, `repositories/branch.py`) | `branches.owner_telegram_user_id`, `franchise_branch_accesses`, global flags | add, delete, toggle | three implementations of one rule, buttons drawn earlier | the list and the check agree; rights end with the branch |
| Broadcasts (`handlers/admin.py`) | dialogue data, screens in the chat | choose, type, confirm, send | several screens, handlers in flight, rights that change | only permitted staff hear; what was confirmed is sent |
| Synchronisation (`services/sync.py`, `services/catalog.py`) | employees, services, branch status, `_SERVICES_REFRESH_CACHE` | list, upsert, deactivate, mark an error | failure half way, sessions beside each other, stale sessions | a session shows what was answered; only the missing leave; a status tells what was written |
| Statistics (`services/statistics.py`) | `daily_statistics`, `_REFRESH_CACHE` | refresh of an employee or branch | mark before commit, overtaking refreshes | figures never fall behind; fresh means fetched |
| KPI and the monthly report (`services/kpi.py`, `scheduler/jobs.py`) | rules, monthly rows, schedules, notification switches | calculate, edit rules, report | boundaries of thresholds, one failure in a loop, stale figures | percentage of the highest threshold reached; every enabled employee is told |
| Periods (`services/statistics.py`) | none | bounds, kinds, shifts, months | turn of a month or year, leap years, midnight between two queries | a screen speaks of one span; arrows lead through the calendar |
| Goods (`yclients/client.py`, `services/catalog.py`) | `_PRODUCTS_CACHE` | paging, endpoints, parts of a message | pages that fail, come twice or are limited | nothing is missing without a cause |
| Grade Up (`services/grade.py`, the editor in `services/admin.py`) | `grade_rules` | replace the rules, find a place, progress | rules that change between two readings, titles, aliases and prices | the ladder is the one last written; the bar tells how far it is |
| Screens (`handlers/loading.py`, `handlers/employee.py`) | messages of a chat | frame, animate, deliver, fall back | refused messages, double presses, handlers that raise | nobody is left before a frame, nothing is left out |
| Others | | internal API, bootstrap, polling, encryption | | see `PROJECT.json`, components |

Components meet in the database, in the dialogue data and in the process's dictionaries: a code
binds an account (Connection) whose role decides what it may do (Access); a franchisee's rights
(Visibility) decide whom his broadcast reaches (Broadcast); synchronisation (Sync) unlinks employees
whom a handler is binding (Connection); the screens (Menu) start the refreshes (Refresh) and
calculations (Reports).

## Modules

| Module | Models | Granularity |
|---|---|---|
| `Access` | roles, invites, codes, dialogues, developer mode | one action per update; a rollback is an alternative outcome of the action |
| `Connection` | binding, disconnecting, leaving and returning employees | one action per step of a transaction: read, flush (row lock), notify, commit or rollback |
| `OneTimeCode` | what the codes promise, when handlers overlap and when they do not | one atomic action per operation; `Connection` implements it |
| `Visibility` | owners of branches, rights of franchisees | one action per update |
| `Broadcast` | the broadcast dialogue; EXTENDS `Visibility` | one action per update, and per message while sending |
| `Refresh` | the refresh of daily statistics by employee or by branch, its cache, row locks | one action per step of a transaction: ask YCLIENTS, receive, select, flush, mark, commit or rollback |
| `Reports` | KPI rules, the KPI of a closed month, the job that tells of it, the KPI screen beside it | one action per query and flush of the calculation, and per message; one action per edit, restart or switch |
| `Sync` | the sessions that bring staff and services over: the job, a company, a branch, a catalogue | one action per request, row read, flush, sweep, commit or abort |
| `Calendar` | days, months and periods | operators; a day is its ordinal |
| `Lists` | what an `ORDER BY`, `sorted()` or a comprehension lists | operators |
| `Goods` | pages of goods, what is taken of them, parts of a message | operators |
| `Ladder` | rules of Grade Up, their editor, places and progress | operators |
| `Menu` | the statistics, KPI, goods and grade screens; EXTENDS `Goods` and `Ladder` | one action per press, query that reads the clock, batch of pages and message |
| `MC*` | instances for TLC | |
| `*_proofs` | theorems about the module they extend; those about `Visibility` are in `Broadcast_proofs`, those about `Calendar`, `Goods` and `Ladder` in `Menu_proofs`, those about folds and flattened sequences in `Lists_proofs` | |

How state and actions correspond to the code:

- **Access.** `role`, `active`, `franchisee`, `invite`, `linked`, `codes`, `configured` are columns;
  `session`, `previous`, `target` the dictionaries of `developer_mode.py`; `fsm` the state of the
  private chat. `Route` is the order in which routers are asked (`handlers/router.py`): it decides
  which handler a text reaches. A handler that changes the dialogue and then fails has the disjunct
  `RolledBack`. `Restart` clears memory, and the dialogues or not (`fsm_storage`). `admitted` and
  `rooted` are history variables: who was ever let in at all; who registered first, knew the password,
  or was left with a role because a restart or a failed commit cut his developer mode short. Counting
  codes is enough here, since `Connection` has their transactions.
- **Connection.** A task is a handler or job in flight. `seen` is what its session loaded, since
  SQLAlchemy writes only attributes that differ from it. `lock` are PostgreSQL row locks. The code
  is read without a lock and updated by primary key, so that the second committer overwrites.
  `alone` is chosen once for a behaviour: whether its handlers come one after the other.
- **Visibility.** Branches are numbered by name, as `list_branches` orders them; `card` is the list
  the admin's card was drawn from, whose buttons carry positions.
- **Broadcast.** `branch`, `text`, `waiting` are the dialogue's data; `screens` the messages whose
  buttons are still there; `press` the handlers of a confirmation. The handler reads the text when
  it starts, the branch after it redrew the message, and clears the dialogue at its end.
- **Refresh.** `remote` is what YCLIENTS would answer, `stat` the committed rows; `task[t].seen` the
  row a session loaded, of which only changed columns are written; `pending` its writes and `lock`
  its row locks until the commit; `cache` is `_REFRESH_CACHE`, marked when the rows are flushed. The
  value of a column is how often it changed in YCLIENTS, so that older figures are smaller ones.
  `settled`, `alone`, `owed`, `late` are history variables: what was known at the last moment without
  a refresh, whether a refresh ran by itself, which columns a mark answers for, who asked again.
- **Reports.** `rule` is `kpi_rules` by threshold: rows are switched off, never deleted. `figure` is
  what `daily_statistics` sum to for the month, `monthly` and `kpi` the committed rows; a task has its
  pending rows, and row locks last to its commit. One employee is calculated twice in a report, for
  the rich message and for the text. `Restart` is the bootstrap, which replaces the rules, and the
  end of the process, which ends a running report and forgets a missed one. `written` is the text the
  rules were last taken from; `report` says whom the job invited and told, and why it ended.
- **Sync.** A unit of work is one list (staff or services) of one branch. `row` is `is_active` of an
  employee or service, or no row; `fresh` the marks of `_SERVICES_REFRESH_CACHE`; a session has what
  it holds (`held`, with the columns as loaded in `seen` and `tied`), what it has flushed (`put`,
  `cut`) and the locks of those rows until its end. The company's session holds all staff there was
  at its beginning (`Branch.employees`), so that it compares with old columns; the others load a row
  when they need it. A clash of two insertions and a deadlock abort the whole session: the flush of
  `mark_sync_error` raises too. The row of the branch itself, and its lock, are abstracted to the
  verdict a session carries to its commit; `last_sync_error` is left out.
- **Calendar.** A day is `date.toordinal() - 1`; a month is the number `_add_months` counts with.
  `MonthOf` looks for the month next to where equal months would put the day; 4800 months are
  exactly 146097 days, so the same window serves every date.
- **Lists.** A list made of a set is given by the place of each member, the number of those before it.
  Its users are the KPI rules and grade rules as listed, and the goods that are visible.
- **Goods.** A good carries what the code tells goods apart by, and how many lines it takes. `TakePage`
  is the body of the loop over pages, `TakeBatch` the order in which the answers of a `gather` are
  looked at.
- **Ladder.** A title or category is a name and the price it carries; which names are contained in
  which, and which are aliases, are constants.
- **Menu.** A handler is at `frame`, at a step that produces (`refresh`, `sum`, `label`, `look`,
  `ask`, `place`, `progress`, `again`), or delivers (`send`, `delete`, `fall`, `rest`). `Animate` is
  the loop that edits the frame every second. Each query that calls `date.today()` is a step, so that
  `Midnight` may fall between any two. `lists` are the two calls for the goods, `rules` what the first
  reading of the ladder left in the session. A behaviour stays in one `section`: sections share
  nothing but the chat, whose rules are the same.

## Runs

| Run | Instance | Shows |
|---|---|---|
| `access` | 2 accounts, 1 employee, 1 invite, restarts and rollbacks | nobody manages who was never admitted; no row refers to an account that is gone; developer mode leaves no admin but where a fault cut it short; the set-up is had by the admitted; invites pay for access |
| `connection` | 3 accounts, 2 codes of one employee, 2 handlers, overlapping or not | links rest on used codes; a code is redeemed at most once per handler in flight, and who left is unlinked when they do not overlap; handlers end; the transactions implement `OneTimeCode` |
| `visibility` | 2 franchisees, 2 branches | list = check; rights die with the branch; no seizure |
| `broadcast` | 1 franchisee, 2 branches, 2 texts, 2 handlers, 4 screens, 2 changes | only the permitted hear; the prudent send what they confirmed |
| `refresh` | 2 employees of one branch, reports of both and of one, 2 handlers, 2 changes | stored figures never fall behind a quiet moment; a mark answers for what was fetched; YCLIENTS is asked again only by those already in flight |
| `refresh_ends` | 3 employees in 2 branches, two reports in opposite lock orders | every handler ends, by a deadlock abort if need be |
| `reports` | 2 employees, 1 screen, 3 thresholds, 3 texts, 2 edits or restarts, 1 change | amounts earn what the last text says, at the boundaries; figures told were due; a finished job forgot nobody, a failed one had a cause |
| `sync` | the job and one more session, 2 branches, 2 employees, 1 service, 3 events | a session alone shows what was answered; only the missing leave; a verdict tells what was written; when changes and failures cease, the job brings everything to what YCLIENTS lists |
| `menu` | 2 handlers, 2 messages, 2 first days, 2 midnights, 4 stocks, 5 texts of rules | a screen speaks of one span; arrows lead through the calendar; nobody stays before a frame and nothing is left out; goods miss only for a cause; the ladder is the one last written and its bar tells the truth |
| `connection_one_time` | violation | two handlers redeem one code |
| `access_password` | violation | a first password of eight letters and digits is taken for a code |
| `access_reset` | violation | the reset deletes the manager who asked for it |

Bounds. Two accounts are an actor and a victim; every property of Access speaks of one or two. Two
handlers are the least that race; a third account makes a second redemption distinguishable from a
third. Two branches suffice for a position to point to the wrong one. Four screens hold a whole
dialogue beside an older one; two changes give a right and take it. Two changes in YCLIENTS make an
older, a newer and a newest figure. Three texts switch a threshold off and on again, repeat a line and
leave out the line for zero; one employee already told, one being told and a screen of either make
every lock order of a report. Three events of `Sync` are a change, a failure and a person's session
between two runs of the job.

The first days of `menu` are the Sundays 31 December 2028 and 29 February 2032: one or two midnights
turn the day, the week, the month and, for one of them, the year, and the arrow back crosses a leap
February. `MaxShifts` bounds presses of that arrow in a row. `Quiet` is the bound that a handler only
starts when none runs, but for a second press of the same button (`PressTwice`), which is how two
handlers come to one message; handlers of different messages share nothing that is modelled here.
Pages of two goods, batches of two and three pages at most let a list end on a full page, a short
page, in the middle of a batch and behind the last page asked for; the stocks have a good twice, one
without a number, one sold and one that is a certificate, and change while pages are fetched. The five
texts of rules repeat a title, name one by an alias of another, put a price into a title, insert a
title twice and leave out a price. Messages that scroll away are `Nothing`, as are frames that
Telegram does not let the bot touch. The proofs have no bounds.

Fairness. `Connection!LiveSpec`: a coroutine is resumed when what it awaits is there (weak fairness of
notify and commit, since calls to Telegram time out), and PostgreSQL serves the waiters for a row lock
in order (strong fairness of the flush). `Refresh!FairSpec` is the same for its steps, with the
deadlock abort of PostgreSQL, which it guarantees. In `MCSync` the schedule starts the job again and
again (weak fairness of `SyncAllBranches`), the job's session is resumed, and another session, which
may wait for the locks of the job, is served in the end (strong fairness of its steps); `Converges`
speaks of the time when the bounded events have ceased. Nothing is assumed of users or of YCLIENTS
beyond the time-out of its client. `Reports` and `Menu` have no fairness and no liveness property:
`FailsForCause` says what a report can fail for, `Delivered` what a handler leaves behind.

## Findings

The three violation runs are divergences between the code and what it says of itself; each is in
`PROJECT.json` with the line quoted. Others met while modelling, without a run:

Accounts and connections

- `/devexit` after a restart does not give back the role (`developer.py:137` promises a full exit):
  the role to restore was in memory. `TemporaryDeveloper` speaks of those whom no fault cut short.
- The manager reads "Telegram успешно подключён" before the connection is committed
  (`common.py:114`).
- Deleting a franchisee promises that access ends (`handlers/admin.py:766`); an employee link of the
  same account survives.
- The branch button of a franchisee's card carries a position; after a branch was added or deleted
  it shares another branch (`handlers/admin.py:718`).
- "Действие не отправлено сотрудникам." (`handlers/admin.py:1068`) is answered while a confirmed
  broadcast goes on sending. A screen drawn for one branch sends to the branch chosen later on another
  screen, when several are pressed (`ConfirmedScope` holds only for `prudent` managers).

Figures and reports

- The bootstrap replaces the KPI rules by the defaults at every start (`services/bootstrap.py:68`), so
  that rules an admin edited are lost with a restart, while `README.md:67` of the repository says that
  saved "сотрудники, филиалы, KPI и статистика" stay. Grade rules survive a restart, and a full reset.
- One refused message, or an insertion that collides with an employee's KPI screen, ends the monthly
  loop: who comes later gets no report and the rows are rolled back, while messages sent stay sent.
  A report missed while the process was down is not caught up.
- The KPI of a closed month is calculated again with the rules of now at every look at it.
- The weekly report goes out on Monday and covers the week that begins that day.
- A refresh that is rolled back leaves its mark in the cache: nobody refreshes until it expires. The
  mark of a branch does not say for whom it was refreshed, so that a refresh of some of its employees
  makes all look fresh. Employees without records in an answer that has some for others are skipped,
  and figures of cancelled visits stay.
- Two refreshes that fetch in one order and write in the other leave the older figures, or one
  column of each; two reports over the same branches in opposite orders deadlock, and one is aborted.

Synchronisation

- A malformed answer is read as an empty list, which deactivates and unlinks everybody of the branch.
- Two sessions beside each other may leave a branch `SYNCED` whose rows differ from what was listed, a
  status that is older than the rows, and an account on an employee who left.
- The mark of the catalogue is set before the request and survives its failure; a catalogue whose
  second list failed still calls the branch synchronised.
- A branch of a blocked franchisee is synchronised with his token. `README.md:113` of the repository
  says that products are pulled when a branch is added; the synchronisation does not ask for them.

Screens

- `date.today()` is read again for every employee, label, text and keyboard: a screen asked for by a
  word ("today", "week", "month") while midnight passes mixes two spans. `OneSpan` allows exactly
  that, and no more.
- The rich parts sent before one is refused stay, and all of the text follows; a second press of a
  button may draw its frame over the result of the first, or the first delete the frame of the second.
- A page that fails after the first goods were found ends the list, which is cached as if it were
  whole; an error of YCLIENTS is shown as an empty stock; where every endpoint is absent, the empty
  list is cached. A server that puts fewer than 25 goods on a page loses all behind the first
  (`WholeList` speaks of the others). The rich and the plain list may be of two different stocks.
- Of two rules that fit a category, Grade Up takes the first, even if a later one has the exact title,
  while the price list takes the exact title; an employee without a category gets the prices of the
  rule with the longest title, where Grade Up shows no place. The bar rounds, so that 99.5 % is full.
- Two lines of one new title violate a constraint, and the whole text is refused.
- No button leads to the KPI of a branch (`branch:kpi`), and `stats_period_keyboard` is unused.

## Proofs

| Theorem | Argument |
|---|---|
| `Access!OnlyAdmitted` | inductive with `AdmittedInv`: a manager's role, in the row or set aside, and a session are only had by the admitted |
| `Access!RowsBelongToUsers` | inductive together with the type invariant |
| `Access!SetupByAdmitted`, `TemporaryDeveloper` | `DeveloperInv` couples the session with the role set aside; whom a fault cuts short becomes `rooted`, so no assumption on faults is needed |
| `Access!InvitePays` | action by action |
| `Connection!LinkHasUsedCode`, `RedeemedInFlight` | `ConnectionInv`: binders hold a code of their employee; redemptions and holders of a used code together never exceed the handlers (a cardinality argument over the finite set of tasks) |
| `Connection!GoneIsUnlinked` | in behaviours whose handlers do not overlap, what a handler has seen is still what is stored |
| `Connection!KeepsPromise` | the refinement of `OneTimeCode`: initial states map to initial states, a commit maps to the operation of the handler, every other step to a stutter, overlapping or not |
| `Connection!OneTime` with one handler | corollary of `RedeemedInFlight` (in `OneTimeSerially`) |
| `Visibility!ListedIffOpens`, `RightsDieWithBranch`, `NoSeizure` | inductive with the type |
| `Broadcast!OnlyPermitted` | the targets of a handler in flight lie in branches ever granted |
| `Broadcast!ConfirmedScope` | `PrudentInv`: the screen of the last answer shows the dialogue's data; at most one handler is at work, does what its screen showed, and once it sends no screen of the last answer is left to press. The list of branches offers none that is refused, which is `ListedIffOpens` again |
| `Refresh!NeverBehindQuiet` | inductive with `TInv` (types, the work left, a row once stored is not removed) and `QuietOK`: figures fetched and not yet stored are at least those of the last quiet moment |
| `Refresh!FetchedInFlight` | `FetchOK`: those who may still ask for a marked key and those who asked late together are the other handlers, by cardinality |
| `Refresh!CacheHonest` | `CacheOK`: once somebody runs beside it nothing is owed to a key; alone, the handler in flight keeps of each row at least what is owed to every marked key, and an answer not yet stored is at least what is owed |
| `Reports!EarnedAsWritten` | `RulesOK`: the active rows are the table of the last text; then `ParsedPaysText`: the row of the greatest threshold reached is the last line of the highest threshold in the text |
| `Reports!ToldWasDue` | `DueOK`: the base lies between the one calculated first and the employee's, and the percentage is that of a text in force since, by the lemma of `EarnedAsWritten` |
| `Reports!TypeOK` | with `WorkOK`: a task on its way has an employee, and a row it read is still there when it writes |
| `Reports!LocksHaveOwner` | inductive with the type, by what a step does to locks: kept, taken or released |
| `Reports!NobodyForgotten` | `JobOK`: the invited are those told and those queued, and everyone told has a pending row; that the queue holds all the invited is an argument on injections between finite sets |
| `Reports!FailsForCause` | with `ScreensOK` (a screen writes rows of one employee) and `AloneOK`: uncrossed, the job finds the rows it expects and waits for no lock |
| `Sync!VerdictTells` | `Sound`, of each session by itself: the verdicts it carries follow from the lists it has done and those left |
| `Sync!OnlyMissingLeave` | from the same invariant: what a session has to switch off, or to unlink, was missing from an answered list |
| `Sync!AloneShowsAnswer` | `AllShow`: what a session alone holds of a row is what its queries show, and the list in work goes through three stages (answered rows active, one selected, the rest switched off) to a list that shows its answer, which no later list touches |
| `Reports!GoalIsNext` | `RulesOK` again: the active thresholds ascend, and those of the text that ask for something are exactly them |
| `Menu!Delivered` | `DeliveryInv`: behind every frame is a handler at a step that will change it, who deletes has sent all parts, and parts of a period are screens |
| `Menu!OneSpan` | `PeriodInv`: a period with a code never lies ahead of the day, and whatever a handler used so far is a first day its period had since the press, for which midnight only adds days |
| `Menu!Navigable` | the same invariant keeps of a screen its kind, its first day and the day it was drawn on, and that its arrows are those of the day it was drawn. That they still lead there on any later day is the calendar (below) |
| `Menu!LadderTells` | `RowsOK`: the active rows are the last lines of their titles, so that they are listed in the order of these lines; `GradeInv`: what a handler has read, and has told, is by rules with a goal and figures |
| `Menu!WholeList` | `Reading`: the numbers of the goods taken so far are those on the pages answered, each once, and a short or empty page leaves none behind; `GoodsInv` keeps it over batches, endpoints, tokens and the cache. Parts joined give back the list, and each part fits, by what `FoldLeft` takes at each good |
| `Menu!MTypeOK` | from the four invariants of `Menu` and the constant day the behaviour began on |

`TypeOK` is proved for `Access`, `Connection`, `Visibility`, `Broadcast` (`BTypeOK`), `Refresh`,
`Reports`, `Sync` and `Menu` (`MTypeOK`). The assumptions are the named ASSUMEs of the modules, which
TLC evaluates on each instance: distinct model constants, finite tasks, numbered branches; sizes of
pages, batches and parts above zero (`GoodsAssumption`); catalogues that are lists of goods, texts of
rules as the editor parses them, and figures without revenue where there is no day with any
(`MenuAssumption`; `services/grade.py:178-183` counts every day with a haircut or revenue).

The calendar is proved for every day of every year, before and after the first. `FirstOf` ascends from
month to month by 28 to 31 days; 4800 months have 146097 days, so that a day's month is the one at an
equal share of them or next to it, and `MonthOf` finds it: its CHOOSE is over three months, of which
exactly one has the day. On this rest the starts of kinds (`KindStartIs`, `StartBelow`), the bounds
(`BoundsAre`), and the arrows (`ArrowsAre`): a step back and forth leads to the same first day.

What `FoldLeft` computes is induction over data, which the library states for an operator as a
parameter, out of the provers' reach. `Lists_proofs` gets around it with functions in place of
operators: `FoldExists` gives, for an operation on sets of values, the function `Folding` with the
fold's value on every set of places of the list, and what holds of it for the first places is proved by
`Induct`, on the set of numbers it holds for. Each fold of the model (`TakeBatch`, `TakeItems`,
`GradePeriodBounds`, the parts of a message and their lines) is such a function, and `FlattenIs` does
the same for `FlattenSeq`. This covers each operator by itself; there is no theorem for all of them.

Only model-checked: liveness (`EveryTaskEnds` of `Connection` and of `Refresh`, `Converges`), which is
out of the prover's reach. Every other property of a passing run is a theorem.

## Not modelled

- The weekly report repeats the daily one with another period; the daily one is a refresh (`Refresh`)
  and a message. The KPI and statistics of a whole team refresh and sum up like those of one.
- How a visit is counted: parsing of records, the share of a visit in the figures of a day. `Refresh`
  has a number per column.
- How services are grouped and which of their prices is shown: pure functions of strings.
- Two first registrations at once (`services/admin.py:123`): both see no admin. `Access` has one update
  at a time, and only the first minutes of an installation can meet it.
- The polling loop (`main.py`), whose only state is a delay; the shutdown.
- The months of service in `grade.py`, since nothing in the source sets `employment_started_at`.
- Layout and wording, encryption and hashing (library calls without state), HTTP and JSON, migrations,
  tables without behaviour, logging.
