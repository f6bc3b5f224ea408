# A verification project for restic-ui

restic-ui is a web front end for the backup program restic: a Go server that
stores repositories and backup plans in SQLite, runs restic as child processes
(backup, forget, prune, check, restore, copy) by request or on a cron schedule,
streams their progress to browsers over a WebSocket, keeps a size history and
notifies people. This directory holds TLA+ models of its concurrent core and of
the pages of its web UI, TLC configurations that check them on small instances,
and TLAPS proofs for all instances. Paths below are relative to the repository; `OpsRunner`,
`Scheduler` and so on are modules here.

Run a check with `tlc -config runner_faults.cfg MCOpsRunner.tla`, a proof with
`tlapm OpsRunnerProofs.tla`. The last section lists every file.

## 1. Inventory

| component | state it keeps | operations | what is hard | what makes it right |
|---|---|---|---|---|
| **Operation runner** `internal/ops/runner.go`, `commands.go` | rows of `operations` (status), `repoLock` (one mutex per repository), `cancels` (operation id to cancel function), one goroutine and at most one restic child per operation | EnqueueBackup, the Enqueue… commands, Cancel, ResumeInterrupted; runBackup, runCommand, captureRepoStats, notifyDone | goroutines compete for mutexes, cancel races every step, crash leaves live rows, rows and clients change under it | one restic per repository; every row reaches one terminal status that tells how restic ended; cancel reaches the right process; retention runs once after a good backup |
| **Event hub, stream handler** `internal/ops/events.go`, `internal/api/ops_handlers.go` | subscribers, each a channel of 256 events | Publish (drops when full), Subscribe, the WebSocket loop, list and get queries | events are dropped; a snapshot is read while events flow; reconnects | a browser that stays connected shows the final status, or was not told for a known reason; what it shows was once true |
| **Scheduler** `internal/schedule/scheduler.go`, two instances (plans, repository checks) | `entries` and the cron entries behind them | Reload, Start, Stop, NextRuns; firing | Reload reads before it locks, and its mutex does not stop cron; handlers may end between write and Reload; crash | cron runs what the table holds |
| **HTTP API handlers** `internal/api/*.go` | none of their own | one per route: they write a table and call Reload, or enqueue an operation | each is several statements under the request's context | write and Reload belong together |
| **Plan service** `internal/plan/plan.go` | rows of `plans` | Create, Update, SetEnabled, Delete, ListScheduled | plans disappear with their repository | the runner and cron see a row as one statement left it |
| **Repository service** `internal/repo/repo.go` | rows of `repos`, encrypted secrets, credential files | Create, Update, Delete, SetCheckSchedule, BuildRepoConfig | read, merge, write in three statements (no page calls Update); files rewritten while restic reads them | a name is given once; a deletion takes plans and schedules along |
| **Store** `internal/store` | one SQLite connection, foreign keys, migrations | Open, statements | ON DELETE CASCADE and SET NULL act on other components' rows | a statement is atomic, an id is given out once |
| **Authentication** `internal/auth`, `internal/api/auth_handlers.go` | `users`, `sessions` | setup, login, logout, the middleware | the check for a first user and its creation are two statements; sessions expire; the tabs of a browser share the cookie and not the CSRF token | a tab knows whether it is signed in, and carries the token of its session |
| **Notifier** `internal/notify/notify.go` | `settings` | OperationDone, Send | reads the plan's mute after the operation ended | sent once, not when muted |
| **restic driver** `internal/restic/restic.go` | the child process | Command, parsers | killed children, exit codes 1 and 3 | an exit code becomes the right status |
| **Web UI state** `web/src/hooks`, `web/src/lib/toastStore.ts` | query cache, live log and progress, toasts | useEventStream, mutations | snapshots and events in any order; an invalidation meets a fetch; a mutation ends with a refetch | converges to the server's state |
| **Web UI views** `web/src/components`, `web/src/pages` | controls of forms, what was picked, chosen and asked, one line of feedback | forms of plans and repositories, cards, snapshot browser, history with filters, sign-in | forms stay open while rows change under them and while they are saved; requests are lost or overtake each other; components without a key keep their state | what is saved is what the user set; what is shown is right or wrong for a known reason |
| **Configuration, encryption, folder picker, start-up** | a key file | sequential code | none | |

Interactions. A handler or a cron job calls `Enqueue…`, which inserts a row and
starts a goroutine; the goroutine takes the repository's mutex, builds restic's
configuration from the repository row, runs the child, writes the status,
samples the size history, releases the mutex, tells the notifier, and may
enqueue the retention of the plan. Every status, log line and progress report
is published to the hub, from there to each browser, and into its query cache.
Handlers that change plans or check schedules call the scheduler's `Reload`,
whose `load` callback reads the tables. All of them share one SQLite connection.
A crash ends the goroutines, the hub, cron and the children; the rows stay.

`PROJECT.json` lists the components with what is modelled of each, and under
`hazards` the behaviours of this code that a test would hardly reach, each at its
line, with the properties that cover it.

## 2. Plan

Modules, the most important behaviour first, with what is done:

1. `OpsRunner`: the operation runner. `SerialOps`: what it promises, a queue that
   serves one operation of a repository at a time. `OpsRunnerProofs`: every safety
   property of the runner, and that it implements SerialOps.
2. `Scheduler`, `SchedulerProofs`: cron against its tables.
3. `EventStream`: the hub with its bounded subscribers, the stream handler and the
   browser's cache, for events of type op. It takes the statuses in the order that
   OpsRunner's StatusMovesForward gives. `EventStreamProofs`.
4. `PlansPage`, `PlansPageProofs`: the page of plans with its form.
5. `RepoCard`, `RepoForm`, `HistoryPage`, `Session`: a repository's card, the form of
   a new one, the history, and who is signed in; `Pages` puts them side by side.
   `RepoCardProofs`, `HistoryPageProofs`, `SessionProofs`, `PagesProofs`.

Left, in this order:

1. An abstract specification of `EventStream` (what a browser learns of an operation
   is a subsequence of its statuses) and the proof that EventStream implements it.
2. Log lines and progress reports in `EventStream`.

Not planned: a module for `repo.Update` (no page calls it), for the notifier (it
keeps no state), and for the dashboard (a conversion of times to text).

## 3. OpsRunner: the operation runner

Constants: repositories, plans, the number of operations, which kinds of
operation are enqueued and which `Events` happen around them: "edit" (plans and
repositories are changed or deleted), "cancel", "crash", "disconnect" (a
request's context ends between the insert and the read-back), "db" (SQLite
refuses a status update).

State and code:

| variable | code |
|---|---|
| `status`, `nextOp`, `stats` | the `operations` table (status column, AUTOINCREMENT) and the operation ids in `repo_stats_history` |
| `planRows`, `repoRows` | those tables as far as the runner reads them: repository and retention of a plan, existence |
| `pc`, `job`, `result` | the goroutine of an operation: where it stands (one value per stretch between two effects others can see), what it captured, its final status |
| `holder` | `repoLocks`: each mutex and the operation that holds it |
| `cancels`, `cancelReq` | the keys of `cancels`, and calls of Cancel between their lookup and their call of the function |
| `restic` | the child process of each operation and how it ended |
| `notified` | the status the notifier was handed |
| `lost` | history: operations one of whose status writes SQLite refused |

Each step of `runBackup` and `runCommand` is an action, in the code's order:
`Spawn`/`Drop` (the end of Enqueue…), `AcquireLock`, `Register`, `SetRunning`,
`FailBefore` and `BuildConfig` (the early returns), `StartRestic`, `Decide`
(Wait and the status switch), `CaptureStats`, `Record`, `Finish`, `Leave`
(deferred cancel and delete), `Unlock`, `Report` (notifyDone), `Chain`. The two
functions differ in the order of stats and terminal status, and in what follows
the mutex; the actions contain both. Cancel is two steps, `CancelFind` under
`mu` and `CancelFire` after it. `Crash` drops goroutines, mutexes, contexts and
children; `Restart` is ResumeInterrupted.

Properties: `OneResticPerRepo`; `RunningRowHoldsLock` (a row is running only
while its goroutine is inside the mutex, refused writes aside);
`LiveRowsAreServed` (a queued or running row has a goroutine, or its client
left it an orphan); `CancelReachesRunning`; `StatusTellsOutcome`;
`NotifiedOfFinalStatus`; `StatusMovesForward` (queued, running, terminal, never
back, a restart turns live rows into errors and nothing else);
`RetentionFollowsBackup`; `StatsAreOwn`; `ImplementsSerialOps` (each step is one
of SerialOps or changes nothing there); `StartedOperationsEnd` and
`CancelFreesRepository` (liveness).

Fairness. Goroutines run (WF of their steps). A mutex is granted fairly (SF of
AcquireLock): Go's sync.Mutex hands over in FIFO order once a waiter has starved
for a millisecond. The process is restarted (WF of Restart): `docker-compose.yml`
says `restart: unless-stopped`. That restic ends by itself is *not*
assumed; it is an antecedent of StartedOperationsEnd, and CancelFreesRepository
shows that a cancel is enough when it does not.

Runs:

| run | instance | distinct states | what it shows |
|---|---|---|---|
| `runner_faults` | 1 repository, 1 plan, 2 operations (backup, prune), cancel, crash, disconnect, refused writes | 2.27 million | safety with every fault |
| `runner_repos` | 2 repositories, 1 plan, 2 operations (backup, copy, forget), edits; symmetry | 386 thousand | refinement of SerialOps, retention, size history |
| `runner_live` | 1 repository, 2 operations (backup, forget, check), cancel, crash | 130 thousand | liveness |

Two operations are enough for every pair of steps to meet: the code's only
interactions are pairwise (a mutex, a row, a cancel entry), and the theorems
hold for any number. Two repositories are the smallest number with a wrong lock
key or a copy. `runner_repos` and `runner_orphan` do not check for deadlock: the
system rests once all operations have ended.

## 4. Scheduler: cron against its tables

Both schedulers in one module, indexed by kind ("plan", "check"), because
deleting a repository changes both tables. A request slot stands for a handler:
it writes (`SavePlan`, `SetEnabled`, `DeletePlan`, `SaveRepo`,
`SetCheckSchedule`, `DeleteRepo`, one action per handler), may read its row
again (`Reread`, the Get that ends Create and Update), then calls Reload:
`Load` without the mutex, then `Lock`, a `Remove` for each old entry, `Clear` (the
map is made anew), an `Add` for each item, `Unlock`. The mutex holds off other
Reloads, not cron, whose goroutine may `Fire` between any two of these steps. So
there are two lists: `cron`, what cron fires, and `entries`, the map from which the
next Reload removes. `rows` are the two tables, `jobs` the goroutines cron has
started. `Events` are "disconnect" (the context ends, or a read fails: the handler gives up or
logs the error), "cascade" and "crash". Write versions and the three reasons
below are history.

Properties: `CronHoldsOneList` (also in the middle of a Reload cron never has
entries of two loads, nor two of one id, nor one that the map has forgotten, and it
lacks an item only while a Reload holds the mutex: that the mutex is taken, and that
the map is emptied after the loop over it, is what this rests on);
`OutOfSyncForAReason` (if cron's list is not the present one, a Reload is at work, a
request is about to reload, or a request or a cascade skipped the reload, or an older
Reload installed last: the list is complete); `FiresWhatIsScheduled` (half a list
fires nothing that should not run); `CatchesUp` (liveness: cron agrees again and
again, or one of the failures happened for good). `SchedulerInv` is the inductive
invariant. A minute that passes while its entry is out of cron is missed, which the
code accepts and the last part of CronHoldsOneList confines to the mutex.

Run `scheduler`: 2 plans, 1 repository, two cron expressions, 2 requests, 3
writes, all events; 760 thousand distinct states. Two requests are needed for an
older Reload to come last or to meet another at the mutex, two plans for a list that
can be half there, three writes for a plan to be created, changed and deleted.
Fairness: handlers and jobs are goroutines, the process is restarted.

## 5. EventStream: what a browser tab learns

One tab, since tabs do not influence each other. The server's half: `row` (the
status column), `unsent` (written and not yet published: setStatus writes, reads
again, publishes), `orphans` (rows whose Enqueue returned before its goroutine
began), `channel` and `connected` (the tab's entry in `Hub.subs` and
its WebSocket). The tab's half: two cached lists, "recent" (`useOperations`, the
page of plans) and "history" (`useFilteredOperations`, the page of operations),
each with its data (`shown`, `loaded`) and its fetch (`fetch`, `answer`), the
page that is mounted, and `seen` and `toasts` of `useEventStream`.

Actions: `WriteRow`, `Publish` (drops for a full channel), `SkipPublish` (the row
could not be read again: nothing is published, and an Enqueue leaves an orphan, as in
`runner_orphan`), `Interrupt` (the server restarts; ResumeInterrupted ends the live
rows without an event), `Connect`, `Disconnect`, `Receive` (the whole of `onmessage` for an operation: toast, update
or extend "recent", replace the row of "history" or fetch it again), `Visit`,
`RunNow`, and a fetch in three steps: `Answer` (the server reads the table),
`Load` or `Fail`. The rules of TanStack Query that these rest on are external and
part of the model: a query that mounts is fetched, an invalidation restarts the
fetch of the mounted query unless it has no data yet, an answer replaces the
data. `missed` and `overtaken` are history and feed no guard.

Properties: `ViewIsWrongForAReason` (once everything has arrived, the page that is
shown is right, except for a change after the list was read that the tab was never
told of, or an answer older than an event: the list of reasons is complete. A change
is not told when the channel is full, the WebSocket is down, its row could not be
read again, or the server restarts); `NothingIsInvented`;
`ToastsAreLive` (the comment in useOperations.ts:119-122: no toast for what ended
before the tab was opened, none twice, across reconnects); `EventsMoveForward`;
`OperationsEnd` (liveness: a tab that hangs stops no operation). The last section of
the module, "Why it holds", has the invariant that the proofs rest on.

Run `stream`: one operation with two outcomes, a channel of two events, the
Events "slow" (the tab lets its channel fill), "disconnect" (WebSockets and
requests fail), "unread" (SkipPublish) and "crash" (Interrupt); 305 thousand distinct
states. An operation publishes three
events, so a channel of two fills; operations meet only in the channel, where
"slow" lets any event be dropped. Fairness: the server's goroutines, and that
restic ends (OpsRunner looks at that); the tab is never assumed to do anything.

## 6. PlansPage: a form over rows that change

One tab with the page of plans. The server's table, the query cache and React are
external, modelled by how the page uses them.

| variable | code |
|---|---|
| `table`, `used` | the rows of `plans` and the ids given out |
| `list`, `loaded`, `fetch`, `fetched` | the query ["plans"]: its data, whether it has any, its fetch, what the server has answered |
| `open`, `target` | the forms that are mounted ("add", "edit") and the id in their prop `existing` |
| `draft` | the `useState` of a form: its controls |
| `phase`, `input` | its mutation, and what it sends to which id |
| `asking`, `preview` | the previews of retention and of a dry run, under way and on the screen |
| `confirm`, `calls` | a card's question before a deletion, and the mutations of the cards |
| `base`, `touched`, `wanted`, `born`, `unsure`, `missed`, `since` | history; they feed no guard |

The user's actions are the controls: `ClickAdd`, `ClickEdit`, the five `Edit...`,
`ClickPreview`, `Cancel`, `Submit`, `ClickEnabled`, `AskDelete`, `ClickDelete`. The
two conversions between a row and a form are modelled by what they do: `FormOf`
(lines 52-68 of PlanForm: a schedule outside the menu becomes "custom" and a text,
a prune that is false is lost, because the server's JSON leaves it out) and
`InputOf` (the submission: a policy without a count is sent empty). `Handle` is the
server, which may refuse anything; `Saved`, `Refused` and `SaveLost` are the ends
of a mutation. The page begins with its first load under way: no card is there, but
"Add plan" is (PlansPage.tsx:148). Three rules of TanStack Query matter: an
invalidation starts the fetch of the mounted query again (`Refetch`), but not a first
load (`Restarts`); and a mutation whose `onSuccess` returns the invalidation ends only
with that fetch, so a form closes in `Settle`. One rule of React does: a form that is
there already only gets another prop (`ClickEdit`).

Properties: `UpdateChangesForAReason` (a save changes a field of a row only because
the user set it, or for three named reasons: another row was opened, the row
changed since, or its prune was false); `ClosedFormIsSaved`; `CreatedOnce`;
`PreviewAnswersLastClick`; `CardsAreStaleForAReason` (cards that differ from the table
have a fetch or an answer under way, or one of the `Reasons`: nobody told this tab of
the change, a request failed, or the change was announced after the first load had
been answered and before it arrived).

Run `plans`: one row, or two with different policies and schedules, of three ids;
three names, one typed schedule, four clicks and two events (lost answers, changes
from elsewhere, operations that end); 2.19 million distinct states. Four clicks are a
form opened, filled in, saved, and one more that meets it; the second row is what a
pencil or a taken name needs; two free ids, and two events, are what a second creation
needs (an answer is lost, the row is deleted, the user tries again). The theorems below
have no such bounds. Only safety is stated, so no fairness is; the
user may stop, so deadlock is not checked.

## 7. Pages: a card, a form, the history, the sign-in

A tab shows one page at a time, and a page that is left forgets its state. `Pages`
instantiates four modules and runs one of them (`on`), each with its own bounds
on clicks and events. The pages meet only through the server and the stream, which
stand in each module as free choices.

* `RepoCard` (RepoCard.tsx, SnapshotBrowser.tsx, useRepos.ts). Every button is an
  action, every request its answer: `stage` are the flags that keep buttons off. The
  menu of the check schedule saves by choosing and waits for nothing: `menu`, `text`,
  `saves`, `saving`. The list of snapshots follows events (`news`, `fetch`). The
  browser of one snapshot keeps `picked`, `request`, `notice`.
  `ScheduleShownForAReason`: the menu shows what the server has, but for four
  reasons. `SnapshotsAreStaleForAReason`: the list is the repository's, but for three.
  A delete is a click, the server's half and an answer (`ClickDelete`,
  `HandleDelete`, `AnswerDelete`), any number at a time: no flag keeps the button off,
  a refusal or a loss is told nowhere (line 179), and after a success the card stays
  until the list of repositories is fetched (`CardLeaves`), with all its controls,
  whose requests the server then refuses. `AnswersStayApart`: of many requests beside
  each other each answer is told in the line of text as it comes, but for that of a
  delete and a failed copy, which nothing catches; and an answer closes no question
  but its own. The exception is part of the property: the answer to a forget closes
  the question of whatever row asks then (line 453), and it closes another's only if
  that row put its question meanwhile.
* `RepoForm` (RepoForm.tsx): one submission is two requests, create and init, with a
  refetch between, while all controls stay live. `FormClosesInitialised`: a form that
  closes by itself has done what it was asked at the submission.
* `HistoryPage` (OperationsPage.tsx, useFilteredOperations): a list in pages for each
  filter, read with a cursor. `HistoryHasNoHoles`: pages neither skip nor repeat a row,
  whatever starts or ends while they are read. `HistoryIsWrongForAReason`: five
  reasons. The server's answer is stated by what it has, not how it is found: `Below`
  is the WHERE clause, `Latest` the ORDER BY and the LIMIT.
* `Session` (useAuth.ts, AuthPage.tsx, App.tsx, auth_handlers.go, auth.go): the tabs of
  one browser, which share the cookie. `SignedInForAReason`: a tab shows the
  application exactly if the cookie is a session, and carries its token, but for four
  reasons. Two first visits may both pass the setup and create two administrators:
  the model has that step (CheckSetup, CreateUser), and no line of the code promises
  otherwise. A failed request for /api/auth/me in the background replaces the page by
  an error (App.tsx:26). A setup may create its user and fail in the login that
  follows (`CreateUser`). A logout drops the request for /api/auth/me that is under
  way, but the function that reads its answer still keeps the token (`dropped`,
  `DroppedArrives`): for a later login in the same tab that is the reason "overtaken".

Run `pages`: 1.21 million distinct states. Card: three snapshots of which two exist,
one typed schedule, four clicks, one event. Form: two names, five clicks (add, name,
fields, submit, and one while it is under way), one event. History: four operations,
pages of two (a list of three needs a second page and a fourth row moves it), three
filters, two clicks, two events. Session: two tabs, three sessions, three clicks, one
event. A race needs two requests and what falls between them, and these bounds give
each page at least that. Again safety only, without fairness or deadlock.

## 8. What is proved

For all values of the constants:

* `OpsRunnerProofs!Inductive`: `TypeOK /\ RunnerInv` is an invariant. It is proved in
  two layers. MutexInv (`Mutexes`) is what mutual exclusion rests on: a goroutine
  between AcquireLock and Unlock is the one `holder` names (LockInv), the cancel table
  holds exactly the goroutines between Register and Leave, and a child exists only at
  the step that waits for it (JobInv). OneResticPerRepo alone is not inductive: it says
  nothing of the mutex, so a second AcquireLock could not be excluded. HistoryInv is
  what the tables and the notifier were told: who holds a mutex is inside it
  (HolderInv), where the code stands as seen from the row (RowInv), what `result` and
  the child say of each other between Decide and Finish (OutcomeInv), and which backup
  has chained a retention already (ParentInv). StatusTellsOutcome alone survives
  neither Decide, which writes no row, nor Finish, which looks at no child.

  From it follow `TypeCorrect`, `OneAtATime` (OneResticPerRepo), `CancelReach`,
  `RunningHoldsLock`, `NoRowForgotten` (LiveRowsAreServed), `StatusIsTrue`
  (StatusTellsOutcome), `NotificationIsFinal`, `RetentionIsChained` (that no backup
  has two retentions needs a third operation, which no run has), and the action
  properties `StatusIsMonotonic` and `StatsAreTheirOwn`: every safety property of the
  runs.

  `Refinement`: as long as SQLite refuses no status write (`lost` stays empty), every
  step of the runner is one of SerialOps or leaves the history as it is. Without a
  refusal the row of an operation inside its mutex follows its code, so at SetRunning
  no other row of the repository is "running". `ImplementsQueue` is the same for
  instances without the event "db", as in the run `runner_repos`. The condition is
  not to be had cheaper: a refused terminal write leaves a row "running" while the next
  operation starts.
* `SchedulerProofs!Inductive`: `TypeOK /\ SchedulerInv`. Recorded versions are true
  (VersionsAreTrue: loaded items are what the table held at their version, and a table
  is unchanged since its last write). One Reload of a kind is in the mutex
  (OneReloads), and ListStands says how far it is: what is left of the old list, or
  what is added of the new one and what is still to come make up one version. A list
  older than the last write has a reason (BehindForAReason). CronHoldsOneList alone
  survives no Add: that the map has nothing of the list before, and that nobody else
  adds, must be known. From these follow `OneList` (CronHoldsOneList), `Reasons`
  (OutOfSyncForAReason) and `Fires` (FiresWhatIsScheduled), as does `TypeCorrect`. All
  seven writing handlers go through one lemma, WriteKeeps.
* `EventStreamProofs!Inductive`: `TypeOK /\ StreamInv`. ChannelInv: the events of one
  operation wait in the order in which they happened and each is news to the tab.
  QueryInv: who has missed no change of an operation since the server read the data will
  receive its present status, has received it, or has read it (`Informed`), said of
  the data on the screen and, beforehand, of every answer under way. The properties
  speak of a tab to which everything has arrived; what makes them true is what was on
  its way before. From it follow `NoInvention`, `WrongForAReason`, `Forward`
  (EventsMoveForward) and `LiveToasts`: every safety property of the run `stream`.
* `PlansPageProofs!PageInductive`: `TypeOK /\ PageInv`. PageInv says what a form shows:
  what it was opened on, but for what the user has set (ControlsInv), and where
  submissions and previews stand (RequestsInv). That a form shows its row survives
  nothing by itself: the row may change, the prop may change, so the invariant speaks
  of `base`, the row as it was. Lemma RoundTrip (a row becomes a form and again a row
  without loss, prune aside) then gives `UpdateIsIntended`
  (UpdateChangesForAReason). `ClosedFormWasSaved`, `FormCreatesOnce`,
  `PreviewIsCurrent` follow too, and with ListInv (the list, or what is on its way to
  it, is the table, unless a reason is already written down; of an answer to the first
  load too, which no invalidation replaces) `CardsAreCurrent`: every property of the run `plans`.
* `RepoCardProofs`: `TypeCorrect`, `SnapshotsAreCurrent` from SnapsInv, `ScheduleIsShown`
  from SchedInv, and `AnswersAreApart` (AnswersStayApart) from RowInv (the row that asks
  while a forget is under way is its own, or none, or has put its question since).
  TypeOK is inductive with ForgetInv (a
  request to forget names a snapshot); it also says that of Test, Init and Unlock one is
  busy at most, and that the comparison's menus show snapshots, which lemma Largest
  gives. SchedInv needs that the newest save is one and carries
  what the controls show: without it the handling of an older save could not be told
  from that of the newest.
* `SessionProofs`: `SignedInIsTrue` (SignedInForAReason) from SessionInv, which says
  what the server promises of users and cookies (ServerInv), what an answer under way
  will tell (AnswerInv), and what a screen at rest rests on (ScreenInv).
* `HistoryPageProofs`: `NoHoles` and `WrongForAReason` from HistoryInv. Pages that fit
  together (`Fit`) stay so when one is appended below their last row, and when events
  change rows in place, as ids are given out in order (TableInv). That a list is the
  table's (`Agrees`) is said of pages that are still being read, with the events that
  are on their way as the exception: once the hub is empty, nothing is left of it.
* `PagesProofs`: `ClosedFormIsComplete` (FormClosesInitialised) from FormInv, which says
  what each phase of a submission has achieved; and what is proved of the card, the
  form, the history and the sign-in by themselves is carried over to the tab: while a
  page is shown the tab behaves as that page (CardBehaves, FormBehaves, HistoryBehaves,
  SessionBehaves), and a page that is not shown rests. `TypeCorrect` is TypeOK of
  whichever page is shown. For this `Pages` instantiates the modules of proofs, which
  extend those of the pages.

The proofs assume only the named assumptions on the constants
(ConstantsAssumption, SchedulerAssumption, StreamAssumption, PageAssumption,
PagesAssumption; the last contains CardConstants, FormConstants, HistoryConstants and
SessionConstants, which the theorems about the pages have as hypotheses). TLC
evaluates them in every run. HistoryConstants asks that a table from which the page
starts has its ids in order, which AUTOINCREMENT gives (Change keeps it). Every
inductive invariant was model-checked before it was proved; RunnerInv and SchedulerInv
are invariants of the runs.

Every invariant and every action property of the passing runs is proved, and the
refinement. Only model-checked is liveness: StartedOperationsEnd, CancelFreesRepository,
CatchesUp, OperationsEnd (fairness and ENABLED are beyond the prover). The properties
that TLC refutes (section 9) are false, and stay runs.

## 9. Where code and its description differ

Each is a run that TLC must find violated:

* `runner_orphan`: a client that leaves between the insert and the read-back of
  its operation leaves a queued row that nobody starts, until the next restart.
* `scheduler_race`: of two concurrent Reloads the older may install last; cron
  keeps a schedule that was switched off.
* `stream_view`: an answer to GET that the server gave before an event and that
  arrives after it replaces the newer status; the page of plans stays behind
  until it is fetched again.
* `plan_switch`: the pencil of another card, clicked while a form is open, makes the
  form save the first plan's fields over the second plan.
* `restore_switch`: "Restore entire snapshot", picked before another snapshot was
  opened, restores that one and reports the first.

Two more are stated in OpsRunner and have no run of their own; added to the
PROPERTIES of runner_repos.cfg each is refuted at once: a backup's terminal status
is visible before its point in the size history exists
(StatsBeforeTerminalStatus; a test in runner_test.go counts on the opposite), and
a cancel after restic saved its snapshot makes the backup "canceled" and skips its
retention (SnapshotIsFollowedByRetention).

The cascade of a repository's deletion, which leaves its plans in cron until the
next Reload, is one of the reasons of OutOfSyncForAReason.

## 10. Not modelled

Parsing of restic's JSON and of cron expressions (data conversions without
state), cryptography, file-system browsing, migrations as a process (they run
before anything else). The dashboard, the settings, the folder picker and the detail
of an operation (its logs, its progress, its cancel button, whose server half is in
OpsRunner), and what is only drawn. The notifier, which keeps no state. Signing in
without a login (AUTH_DISABLED, TRUSTED_PROXY_HEADER) and the check of the token in
RequireAuth. restic's own locks and repository contents are outside this code: a
child process starts, ends with a code, or is killed. Log lines and progress reports
are left out of EventStream. Time is not modelled: cron may fire an entry whenever it
has it, restic may take for ever. Hazards outside the models: an operation on the source
repository of a copy, which takes only the destination's mutex (commands.go:109;
restic's own locks decide); a line of restic's output longer than 4 MiB, after which
nobody reads the pipe (runner.go:264); two concurrent calls of repo.Update; the
comparison of times as text on the dashboard (settings_handlers.go:145); a plan that
is deleted while its backup runs, whose mute is forgotten (notify.go:144). A WebSocket that a timer
opens again after a logout (useOperations.ts:204) is left out: EventStream's tab stays
on its page. HistoryPage has changes of a row that come with no event under its reason
"lost". One simplification of the models: a statement of SQLite is atomic, because the store
allows one connection.

## 11. Files

| file | |
|---|---|
| `OpsRunner.tla`, `SerialOps.tla`, `MCOpsRunner.tla`, `OpsRunnerProofs.tla` | runner, its abstract specification, instances, proofs |
| `Scheduler.tla`, `MCScheduler.tla`, `SchedulerProofs.tla` | scheduler, instances, proofs |
| `EventStream.tla`, `MCEventStream.tla`, `EventStreamProofs.tla` | hub, WebSocket and browser tab, instances, proofs |
| `PlansPage.tla`, `MCPlansPage.tla`, `PlansPageProofs.tla` | page of plans, instances, proofs |
| `RepoCard.tla`, `RepoForm.tla`, `HistoryPage.tla`, `Session.tla` | a repository's card, the form of a new one, the history, the sign-in |
| `Pages.tla`, `MCPages.tla`, `RepoCardProofs.tla`, `HistoryPageProofs.tla`, `SessionProofs.tla`, `PagesProofs.tla` | their composition, instances, proofs |
| `runner_*.cfg`, `scheduler*.cfg`, `stream*.cfg`, `plan*.cfg`, `pages.cfg`, `restore_switch.cfg` | the runs |
| `PROJECT.json` | components, runs, map from definitions to lines, hazards, findings, theorems |

A definition whose comment starts with "Broken:" is a mutant: the plausible bug
that the property named in `PROJECT.json` must catch.
