# A TLA+ model of the CRM's agent platform

The repository is a CRM whose records are kept by agents. A NestJS API
(`apps/api`) serves the app and ingests mail, calendars and website visits. A
second process (`apps/agent`, built on the eve framework) drains a task queue,
researches contacts and companies in model-driven sessions, builds and runs
custom team agents, and writes what it learned back. The two share one Postgres
database (`packages/db`). They talk over HTTP pokes that may be lost, and over
rows that either of them, and several instances of the agent process, may change
at any moment. The hard part of the program is there: work that is claimed under
leases, handed to sessions nobody controls, retried, given up, cancelled, and
reported on a record in the meantime. That part is modelled first, then what comes
in by mail, calendars and forms, and what an install keeps for everybody.

Below, `lib/`, `hooks/`, `channels/` and `schedules/` are directories of
`apps/agent/agent`, `test/` is `apps/agent/test`, and a bare `*.service.ts` lies
under `apps/api/src`. Other paths start at the repository root.

## 1. Inventory

### 1.1 Task queue: `apps/agent/agent/lib/tasks.ts`, `packages/db/src/agent-tasks.ts`

- *State.* Rows of `agentTask`: kind, subject (a contact, a company, or none),
  `dueAt`, `leasedUntil`, `attempts`, `finishedAt`, `sessionId`.
- *Operations.* `claimDue` leases due rows and counts the attempt;
  `retireExhausted` finishes rows whose attempts are used up; `completeTask`
  finishes a row once; `scheduleTask` moves an open recheck or creates one;
  `enqueue`, `createEventTask`, `backfill` and `fieldBackfill` of the API queue.
- *Hard.* An attempt may outlive its lease by any amount and still finish the
  row. Handlers and sessions may hang for ever. Backfills look and insert without
  the lock `enqueue` takes. `scheduleTask` acts on a row it read earlier.
- *Correct when* one caller only is told it finished a row; a row leased to an
  attempt is not claimed or retired; a finished row never changes; every row is
  finished in the end although no handler answers.

### 1.2 Enrichment status: `lib/enrichment.ts`, `lib/brand.ts`, `contacts.service.ts`, `companies.service.ts`

- *State.* `enrichmentStatus` and `updatedAt` of a contact or company.
- *Operations.* A rep's request for a fresh look writes PENDING and queues tasks;
  `markRunning` and `settle` report on the task; `runBrand` writes an answer of
  its own; every other write moves `updatedAt`.
- *Hard.* `settle` reads the row's end, then whether another row is open, then
  writes under a guard computed from both, while reps and other tasks write.
- *Correct when* a late settlement never fails a fresh request, and COMPLETE
  means that the work was done.

### 1.3 Sweep dispatcher: `lib/dispatch.ts`, `lib/pool.ts`, `schedules/dispatch.ts`, `dispatch-heartbeat.service.ts`

- *State.* In memory, per process: the sweep under way, a call folded into the
  next one (`collapsing`), the set `unsettledSweeps` of abandoned sweeps.
- *Operations.* `drainAll`, called every minute by cron and at any time by
  pokes and the API's heartbeat; a race against a timeout of four minutes; a
  timer that forgets an abandoned sweep after fifteen.
- *Hard.* A sweep that never settles must neither stop the queue nor let sweeps
  pile up; a call during a sweep must not be answered by that sweep.
- *Correct when* at most `maxAbandoned` sweeps it knows of exist, no call is
  dropped, queued work is swept.

### 1.4 Agent runs: `lib/custom-agent-dispatch.ts`, `hooks/audit.ts`, `channels/crm.ts`, `run-state.ts`, `agent-runs.service.ts`

- *State.* Rows of `agentRun` (status, `sessionId`, `startedAt`,
  `nextEventSequence`) and `agentRunEvent`; the agent's own status.
- *Operations.* Queue by hand, schedule or CRM event; claim; send to eve; link
  the session; recover, time out, fail for a missing dependency; the events a
  session sends back; stop, pause, resume, archive, restore, delete.
- *Hard.* The send's answer may be late, lost, or come after the session spoke.
  Two sessions may execute one run. Sweeps act on lists read earlier.
- *Correct when* a run ends once, with a whole log; one claimed run of an agent is
  RUNNING; no run reads RUNNING for ever.

### 1.5 Run actions: `lib/run-runtime.ts`, `lib/agent-actions.ts`

- *State.* Rows of `agentAction` (status, `startedAt` as claim, `externalId`).
- *Operations.* `createRunActivity`, `postRunSlackMessage`, `stageRunResult`,
  `finishRun`, with the claim, hold, receipt and failure of an action.
- *Hard.* eve replays a tool call; a lease ends under a slow post; the run is
  cancelled or queued again between any two statements.
- *Correct when* a call that reports its action done tells the truth, a receipt
  from Slack is not lost, and SUCCEEDED means that the actions were performed.

### 1.6 Builder conversations: `conversations.service.ts`, `lib/builder-*.ts`, half of `lib/custom-agent-dispatch.ts`

- *State.* `agentConversation` (`sessionId`, `continuationToken`,
  `pendingInputRequest`) and its submissions (status, `attemptCount`).
- *Operations.* Submit and answer; claim, send, record, recover; the hooks and
  channel events of the session; remove.
- *Hard.* Whatever ends a turn puts the token back in a transaction of its own. A
  send may end in failure although the session heard it, and late. The session may
  ask before the send has returned.
- *Correct when* messages are heard in the order they were written, a question stays
  answerable, no conversation shows that it works for ever while its session does not.

### 1.7 Agent definitions and versions: `agent-definitions.service.ts`, `lib/builder-runtime.ts`

- *State.* The agent's status and current version, versions with their approval,
  triggers with the version they belong to and the next date.
- *Operations.* Drafts of the builder, edits, deployment (of old versions too),
  pause, resume, archive, restore, remove; sweeps and event tasks that queue runs.
- *Hard.* The sweep reads triggers without a lock and queues later.
- *Correct when* a run executes a version that somebody approved, and each slot is
  taken once.

### 1.8 Facts: `lib/facts.ts`, `lib/blank-facts.ts`, `contacts.service.ts`

- *State.* A field's facts with their status, and the column they fill.
- *Operations.* `recordFact`, the sweep of blank fields, a rep's accept, dismiss and
  edit.
- *Hard.* Whether a person owns the field is asked outside the transaction that
  writes it; the sweep decides on values it read for every contact.
- *Correct when* a person's value is not overwritten and a blank that can be filled is.

### 1.9 Mail, threads, meetings: `mailbox/`, `sync/`, `google/`, `microsoft/` of `apps/api/src`

- *State.* The row of a mailbox with lease and cursor; threads with their count,
  messages and one activity each; `calendarEvent` rows.
- *Operations.* Passes that claim, read, store and settle; disconnection, purge,
  reconnection; the deletion of a contact.
- *Hard.* A pass may outlive its lease; a history has pages; several reps' passes write one thread or
  meeting; a purge interleaves with both.
- *Correct when* no cursor passes mail that was not read, mail and meetings arrive,
  and a thread counts what it has and shows on a timeline.

### 1.10 Visit tracking: `tracking/` of `apps/api/src`

- *State.* Submissions, the counter of the hour, the compiled configuration and its
  copies, events and daily counts.
- *Hard.* One form is delivered several times at once; a slot is taken before and given
  back after; a cache is written after the change that empties it; the nightly job
  dies between batches, or runs twice.
- *Correct when* a form is filed once, the slots add up, a stale configuration goes
  away, and a day is counted whole.

### 1.11 Deals, fields, workspace, Slack, desktop

| component | state and hard behaviour | correct when |
|---|---|---|
| currency (`currency/`, `deals.service.ts`) | a deal's figure, converted at what was read earlier, by edits, re-ratings and a daily fill | a figure is that of the deal's own amount; deals that can be converted are counted |
| deals and timelines (`deals.service.ts`, `activity-stamp.service.ts`) | stage, activities, and `lastActivityAt`, written after the transaction | the history of stages is a chain; the column is not behind |
| custom fields (`fields.service.ts`, `packages/db/src/fields.ts`) | definition, options, a value column for each type; read, then written | a stored value fits its field |
| workspace (`workspace.service.ts`, `organization.ts`) | roles, the website, the profile written of it by a session | an owner remains; a new website is read |
| channels of Slack (`lib/slack-*.ts`, `slack/`, `slack-grant.ts`) | rows copied from Slack by inventories, joins and creations, each from what it read earlier, under two throttles; the connection they came by may be gone | a removed connection's channels stay away; the rows come to show Slack |
| desktop runtime (`apps/desktop`, a Tauri window and a Node supervisor) | a password file, a Postgres cluster, migrations, and five kinds of processes that end at any moment | the password is kept; a window that is reopened comes up |

Vendor lookups and portraits, lists and search,
sign-in and settings, telemetry and the Next.js app are plain I/O, single
statements, libraries or presentation. They are listed in `PROJECT.json` with the
reason.

### 1.12 How they interact

```
  rep, browser       mail, calendars, visits        cron, once a minute
      |                      |                              |
      |    MailboxSync, MailThreads, CalendarSync,          |
      |    VisitFiling (TrackingConfig, -Retention)         |
      |                      |                              |
     API --- rows ----> agentTask <----- drainAll (SweepDispatcher)
      |                      |            claimDue, retireExhausted (TaskQueue)
      |                      v
      |          handler or eve session --- settle --> enrichmentStatus
      |                      |                        (EnrichmentStatus)
      |                      +--- recordFact --> contactFact (FactLedger)
      |                      +--- profile -----> workspaceProfile (Workspace)
      |
      +-- submissions -> builder session (BuilderConversation)
      |                      | drafts
      |                      v
      +-- deploy -----> versions, triggers (AgentVersions)
      |                      | sweeps, agent-event tasks
      |                      v
      +-- rows -------> agentRun <--- dispatchAgentRun, recoverAgentRuns
      |                   |   ^       (AgentRun)
      |                   v   |
      |               eve session --- tool calls --> agentAction --> Slack, CRM
      |                                              (RunActions)
      +-- deals, fields, members (DealMoney, DealTimeline, CustomFields, Workspace)
```

`TaskQueue` takes as fairness that sweeps keep coming; `SweepDispatcher` shows
that they do. `EnrichmentStatus` is `TaskQueue` composed with the record its
tasks are about. `AgentVersions` says which runs are queued, `AgentRun` what
becomes of them, and `RunActions` looks inside one RUNNING run and lets the run
change under it in the ways `AgentRun` shows. `MailboxSync` says which messages are
stored and `MailThreads` what storing one does. Everything on the desktop runs
behind `DesktopRuntime`.

`PROJECT.json` lists the hazards of this code at their lines, with the properties
that cover them or the reason none does.

## 2. Plan

In order of how much of the system rests on a component.

| # | modules | checked | proved | composes / refines |
|---|---|---|---|---|
| 1 | `TaskQueue`, `TaskDelivery` | yes | yes | the queue implements the abstract delivery |
| 2 | `EnrichmentStatus` | yes | yes | `TaskQueue` with the record its rows are about, and implements it |
| 3 | `AgentRun`, `RunLedger` | yes | yes | runs implement the abstract ledger |
| 4 | `RunActions` | yes | yes | one run of `AgentRun` from inside |
| 5 | `SweepDispatcher` | yes | yes | discharges the fairness of `TaskQueue` |
| 6 | `BuilderConversation` | yes | yes | |
| 7 | `AgentVersions` | yes | yes | queues the runs of `AgentRun` |
| 8 | `FactLedger` | yes | yes | |
| 9 | `MailboxSync`, `MailThreads`, `CalendarSync` | yes | yes; of meetings the types | one store of a message is one step of a pass |
| 10 | `VisitFiling`, `TrackingConfig`, `TrackingRetention` | yes | yes; of the configuration the types | |
| 11 | `DealMoney`, `DealTimeline`, `CustomFields` | yes | yes | |
| 12 | `Workspace`, `DesktopRuntime` | yes | yes | |
| 13 | `SlackInventory` | yes | yes | its inventory and its joins are direct tasks of `TaskQueue` |

"Proved" is said of safety: types, invariants and what a step may never do. No
liveness is proved (see 6).

`MCSchedules`, `MCAgents`, `MCIntake`, `MCRecords` and `MCOffice` each run several
components side by side: a variable `part`, chosen at the start, says which one moves,
and the others stay as they began. Components that share no state would only
multiply each other's states; a property of one is not disturbed by another's
steps.

Worth proving next: the safety each liveness property rests on, such as that a run that
is not ended is always one that recovery or the timeout finds, or that a cached
configuration older than the settings has an expiry before it; that the history of
`RunActions` is one `AgentRun` allows; that a pass of `MailboxSync` stores as
`MailThreads` does.

Worth modelling after that: the cancellations the API redelivers
(`agent-trigger.service.ts:295`), the contacts of a deal.

## 3. Modules

Each module names its simplifications at its head; these hold throughout:

- A database transaction that locks what it reads is one action, and so is a
  single SQL statement. Everything between two of them is a place where every
  other action may happen: a read whose result is used later is an action that
  stores what was read (`BookLook`, `BackfillLook`, `ReadEnded`,
  `ReadOpenRequest`, `EventLook`, `FindBlocked`, `SessionCompletes`).
- Time is not a number. A date that is compared with the clock is a small state
  (`due`, `lease`, `age`, `leased`) which an action advances at any moment. Every
  interleaving of real clocks is included, and more.
- A process that dies loses its memory and none of its rows: `Abandon`, `Drop`,
  `SettleLost`, `SenderDies`, `AttemptDies`, `ProcessRestarts`.

### 3.1 `TaskQueue`: rows and leases

`st`, `outcome`, `due`, `lease` and `attempts` are columns of the row; `phase` is
where each attempt stands, on its own once it was claimed; `target` is the row
`scheduleTask` found before it writes, `creating` what a backfill found free.
`overran`, `finisher` and `booked` are history.

| action | code |
|---|---|
| `Enqueue` | `AgentTriggerService.enqueue`, search and insert under one advisory lock |
| `EnqueueEvent` | `createEventTask` |
| `BackfillLook`, `BackfillCreate` | `backfill`, `fieldBackfill`: the search and the later insert |
| `ClaimDue` | `claimDue`; a batch is a sequence of claims because other sweeps lock rows |
| `RetireExhausted` | `retireExhausted`, all rows in one statement |
| `Start` | the lane calls the handler, or `markRunning` has committed and the send is out |
| `Complete` | `completeTask`, from the handler or from `session.waiting` |
| `Abandon` | every way in which an attempt ends with its row open |
| `BookLook`, `BookMove`, `BookCreate` | `scheduleTask` |
| `DueDateComes`, `LeaseExpires` | the clock |

`TaskDelivery` is what a queuer may rely on, without leases or sweeps: a task is
handed out at most `Limit` times, closed once, "ran" only if it was handed out and
"retired" only if no handout was left. `DeliversTasks` states that the queue
implements it under the mapping `state <- st`, `given <- attempts`,
`answer <- outcome`.

### 3.2 `EnrichmentStatus`: what the record shows

Each action is one of `TaskQueue` together with its effect on the record, or a step on
the record alone. A `settle` call in flight is a record with the guard it has
computed so far: `ReadEnded` (`taskEndedAt`), `ReadOpenRequest`
(`hasOpenRequest`), `SettleWrite` (the guarded update), `SettleLost`.
`updatedAt` and `finishedAt` are compared only with each other, so
`endedAfter[s]`, the rows that ended after the record was last written, stands
for both. `RequestLook` and `RequestEnqueue` are `enrich`; `BrandNowhere`,
`BrandLook` and `BrandAnswer` are `runBrand`, whose own `settle` has no guard;
`WriteOther` is every other writer of the record.

### 3.3 `SweepDispatcher`: when sweeps run

`active` and `trailing` are the closure of `collapsing`, `unsettled` the size of
`unsettledSweeps`, `forgotten` the sweeps that left it unsettled. JavaScript runs a
callback and the promise reactions it triggers together, so the end of a sweep and
the start of the one folded into it are one action (`CatchUp` inside `SweepEnds`
and `SweepTimesOut`). `Begin` is `drainAll` up to its first await: refuse, or
start a sweep that will see every row queued so far. `QueueWork` queues a row
whose poke may be lost.

### 3.4 `AgentRun`: runs, deliveries, sessions

`status`, `session`, `age` and `seq` are columns of `agentRun`, `log` its events.
`answer[r][k]` is the send of the k-th delivery and `sess[r][k]` the session it opened:
they are separate, since a send that threw may have opened a session.

| actions | code |
|---|---|
| `QueueByPerson`, `QueueDue`, `EventLook`/`EventInsert` | `runNow` and `retryRun`, `queueDueAgentRuns`, `queueEventAgentRuns` |
| `Claim`, `Linked`, `SendFails`, `SenderDies` | `dispatchAgentRun` and the channel that sends |
| `FindBlocked`, `FailBlocked` | `pendingAgentRunIds` |
| `Recover`, `TimeOut`, `Ages` | `recoverAgentRuns`, `timeOutOverrunningRuns`, the clock |
| `HookStarted`, `HookStep` | `persistRunEvent` of `hooks/audit.ts`, which drops an event it has |
| `SessionCompletes`, `FinishRun`, `SessionFails`, `TurnCancelled` | the handlers of `channels/crm.ts` |
| `Stop`, `ChangeStatus`, `Remove` | `cancelRun`; `pause`, `resume`, `archive`, `restore`; `remove` |

`Settle` is the rule all endings share: the first terminal status wins and brings the
last event. `RunLedger` is what the history promises its readers: opened once,
one entry at a time, closed once by its last entry. `KeepsLedger` states
the implementation.

### 3.5 `RunActions`: what a run does to the world

`row`, `holder`, `leased` and `external` are the `agentAction` row of each tool call,
`pc[c][k]` where attempt `k` at it stands, `posted` and `noted` what Slack and the
CRM hold. `Begin`, `Plan` and `ClaimAction` are `findRunAction` and
`claimRunAction`; `WriteActivity` the transaction of `createRunActivity`, an
upsert under an id derived from the row, which may fail; `Prepare`, `Hold`,
`SlackAccepts`, `SlackRejects`, `KeepReceipt`, `RecordOutside` and `FailAction` the
statements of `postRunSlackMessage` in their order. `StageResult`, `SessionCompletes`
and `FinishRun` end the run; `FailRun`, `CancelRun`, `CancelRunOnly`, `Requeue` and
`Restart` are what `AgentRun` may do to it meanwhile. Slack is external: it drops a
repeated `client_msg_id`, and its answer may be lost after it accepted.

### 3.6 `BuilderConversation`: one conversation with the builder

`free` is the token of the row, the turnstile of the conversation; `pc[m][k]` is
where the k-th delivery of a message stands; `inbox`, `turn`, `asked` and
`underway` are the session and its events on their way.

| actions | code |
|---|---|
| `CreateBuilder`, `SubmitBuilder`, `AnswerQuestion`, `Remove` | `createBuilder`, `submitBuilder`, `answerBuilderQuestion`, `remove`; a repeated request id changes nothing |
| `Claim`, `Send`, `RecordAccepted`, `RecordFailed`, `Recover` | `dispatchBuilderSubmission` in its statements, `recoverBuilderSubmissions` |
| `BeginTurn`, `MessageReceived`, `SessionCompleted`, `TurnFailed`, `SessionWaiting` | `persistBuilderLifecycle` and the handlers of `channels/crm.ts`; a hook's write may be lost, since it catches its errors |
| `Ask`, `InputRequested` | `input.requested` and `persistBuilderInputRequest` |

### 3.7 `AgentVersions`: drafts, deployment, triggers

`standing` and `current` are columns of the agent, `moved`, `enabled` and `due` of its
triggers, `sweep[w]` and `listener[w]` a trigger as it was read. `SaveDraft` is
`saveBuilderDraft`, `Edit` is `saveFile` and `revise`, then `Deploy`, `Pause`,
`Resume`, `Archive`, `Restore`, `RemoveAgent`. `ReadDue` and `QueueDue` are the
read and the transaction of `queueDueAgentRuns`, `ReadEvent`, `CheckEvent` and
`QueueEvent` those of `queueEventAgentRuns`. Runs are a set under their
idempotency key.

### 3.8 `FactLedger`: who fills a field

A transaction of two statements under READ COMMITTED is two actions: `Displace`
(the standing facts are superseded, their rows locked), then `Apply`. `ReadContact`
and `ReadFacts` are `recordFact` before it, `Offer` its suggestion; `SweepReads`,
`SweepDecides` and `SweepSettles` are `sweepBlankFacts`, whose `fill` ends in the
same two; `Decide` and `Dismiss` are `decideFact`, `Edit` is `update`. Two
transactions that wait for each other's rows are a `Deadlocked` one, which
Postgres aborts. `typed` and `unseen` are history: a person's value, and the
writers that read the contact before it.

### 3.9 `TrackingConfig`, `TrackingRetention`: the cache and the nightly job

`Miss`, `Compile`, `Compare` and `Store` are `compiled`, `Validate` and `Current` what a
tracker is told; `Change`, `Bump`, `Delete`, `Read` and `WriteHash` are a change of
the settings and `invalidate`; `Expire` is the TTL. `View` is an event, dated by the
browser up to a day back; `BeginSweep`, `Roll`, `DeleteBatch`, `End` and
`SweepDies` are the nightly `run`, which may be called twice at once.

### 3.10 `MailboxSync`: claims and cursors

`lease` and `cursor` are columns of the row; `fresh` are the passes whose
`updatedAt` is still the row's, which is what every guarded write compares.
`List` and `ClaimRow` take a mailbox, `ReadRow` and `SyncNow` look at it, `ListMail`
asks the provider, `ReadMail` and `SkipMail` go through the batch, `Settle` writes
the cursor (`Reached` is Outlook's furthest message), `Fails` and `Throws` are
`handleFailure` and the catch of `runDue`. Of Gmail's history `ListMail` gets one page, of
at most `HistoryPage` changes, and the head is the newest history id all the same:
what is on later pages is `beyond` that pass, and `overlooked` once it settled. `Ungrant`, `Disconnect` and `Ensure` are
`revoke`, `remove` and `reconcileAll`.

### 3.11 `MailThreads`: storing one message

`TakeUp`, `Match` (with `MakeContact`), `Look` and `Store` are `store`: whom the letter
is matched to, whether it is known, and the transaction that holds the thread's
lock, with the repair of a thread that lost its activity. `PurgeMine`, `FindEmpty`,
`DropThread`, `ReadRest`, `WriteRest`, `CommitPurge` and `PurgeFails` are
`purgeSyncedData` in its statements; `DeletePerson` is `delete` of the contact.

### 3.12 `CalendarSync`: one row written by many passes

`Begin`, `ReadPage`, `Apply`, `Project`, `Through`, `BudgetReached` and `Fail` are `sync`
of one rep, page by page; `Organize` and `TakeOff` are the world, where a meeting
changes, is cancelled or leaves one calendar.

### 3.13 `VisitFiling`: forms and the hourly cap

`Deliver`, `LookSuppressed`, `FindContact`, `Take`, `Create`, `CreateFails`, `Release`,
`Raced`, `Claim`, `WriteNote`, `QueueResearch` and `Skip` are the statements of
`submission` and `file`, in their order, for each delivery; `HourEnds`,
`DeleteContact` and `Die` happen in between. The counter swallows what its statements
throw: a `Take` that failed is a refusal, whether it charged or not, and a `Release`
that failed leaves the slot charged, which `lost` counts.

### 3.14 `DealMoney`: what a deal is worth

`figure[d]` says of which amount and currency the stored figure was converted, and into
what. `CreateDeal`, `UpdateDeal`, `EditAsksBase`, `EditAsksRate`, `EditWrites` are
`create` and `update` with `dealFields` in between, `DeleteDeal` is `delete`;
`SetReportingCurrency`, `SetManualRate`, `RemoveManualRate` and `PressRefresh`
the settings; `RunDaily` the cron job. All of them go on in `AskProvider`,
`ProviderAnswers` or `ProviderFails`, then `BeginRating`, `Group`, `FindRate`,
`WriteRate` or `ClearRate` for each currency: `rerate`, which reads the reporting
currency once and writes by what a deal is by then (`Taken`).

### 3.15 `DealTimeline`: stages and stamps

`LockDeal` and `CommitStage` are the transaction of `setStage`, which holds the row from
its read on; `WriteNote` is `activities.create` or a stored mail, `DeleteDeal` and
`PurgeMail` remove activities. What follows the transaction is `Touch`, one record
at a time in any order, or `BeginRestamp` and `Restamp`, a snapshot and its
update; `Die` ends a request before it.

### 3.16 `CustomFields`: definitions and values

`CreateField`, `ReadForUpdate`, `CountValues`, `WriteUpdate`, `UpdateFails`, `Archive`
and `DeleteField` are `fields.service.ts`, `UpdateBrief` the agent's own tool.
`LookForBackfill` and `QueueBackfill` are `fieldBackfill`, which has no lock
between them. `ReadForWrite`, `WriteValue` and `WriteFails` are a write of the value:
the definition and its live options, then the column of the type that was read.

### 3.17 `Workspace`: members, website, profile

`SetMemberRole`, `ReadTarget`, `CountOwners` (FOR UPDATE) and `WriteRole` are
`setMemberRole`; `UpdateWorkspace`, `WriteWebsite` and `WorkspaceChanged` are
`update`, of which the last is another transaction; `SweepLooks` and `SweepQueues` the
backfill of a sign-in; `OpenSession`, `WriteProfile`, `EndSession` and `SessionDies`
the task. A profile is the website it is filed for and the website the session was
told to read, which may differ.

### 3.18 `DesktopRuntime`: starting, stopping, dying

`stage[w]` is where the supervisor of a window stands; `secrets` and `cluster` are
what a program finds on disk: nothing, a part, or a password, which is a number;
`initdb` and `starting` are programs that outlive their caller; `server` is the port a
Postgres listens on. The supervisor goes through `ReadSecrets`, `TearSecrets`,
`WriteSecrets`, `InitialiseCluster`, `StartCluster`, `Connect`, `Migrate`, `Record`
and `Wait`; `OpenWindow`, `CloseWindow` and `StopCluster` are the window's
process. `ChildDies`, `SupervisorDies`, `ServerDies`, `InitdbDies`, `WindowDies` and
`PowerCut` happen at any moment.

What a power cut leaves is an assumption: a finished cluster and committed
migrations stay, since initdb and Postgres sync what they write; a cluster in part may
be gone; the secrets file, which `secrets.ts:47` writes without fsync, may be gone, in
part or whole until the system has written it out (`unsynced`, `Flush`). A read of it
that fails is taken for no file (`Misread`, `secrets.ts:30`). `mishaps` is history: the
ways in which a password was lost that the code leaves open.

### 3.19 `SlackInventory`: the channels of Slack

`slack[c]` is what a channel is in Slack, which `ChangeInSlack` changes unseen;
`cached[c]` is its row; `accounts` and `grant` are the connection. `LinkSlack`,
`Replace` and `QueueAfter` are a sign-in and the hook that follows it, `Disconnect` the
transaction of `disconnect`. `RequestSync`, `RequestStale` and `QueueSync` file an
inventory, unless one is open or was filed of late. `BeginInventory`,
`ListChannels` and `Persist` are `runSlackPeopleMatch`; `LookAt`, `Correct`, `Enter`
and `Note` are `joinSlackChannel`; `MakeChannel` and `NoteMade` are `createSlackChannel`,
which may go on in a join. Between any two of them Slack or the connection may change.

Each module states its type invariant (`BTypeOK`, `VTypeOK` and so on) and each MC
module their conjunction (`SchedulesTypeOK`, `AgentsTypeOK`, ...). Add it to the
`INVARIANTS` of a cfg to check it after a change; each is proved (see 6).

## 4. Runs

| run | instance | states | shows |
|---|---|---|---|
| `schedules` | what cron and clocks drive: a task and its recheck with two attempts each; two dispatcher processes; one field with two facts; two replicas with a cached configuration; two nightly sweeps over four days | 235,272 | `RetireWaitsForLease`, `EveryTaskFinishes`, implements `TaskDelivery`; `NotStacked`, `CallIsFolded`, `QueuedWorkIsSwept`; `PersonKeepsField`, `BlanksAreFilled`; `StaleGoesAway`; `DaysAreWhole` |
| `records` | a company's brand and research task with two settlements at once; a field with two options, changed and written twice at once; a deal moved twice at once; a run with a message and an activity, one of them attempted twice | 2,095,048 | `RequestIsQueued`, `SettledByItsOwn`; `TypeFitsValues`; `StageHistoryIsAChain`, `StampIsNotBehind`; `AnswerIsTrue`, `SucceededMeansActed`, `ReceiptKept` |
| `agent_run` | two runs of one agent, or one that is delivered twice | 933,286 | `OneDispatched`, `LogIsWhole`, `NoRunHangs`; implements `RunLedger` |
| `agents` | a conversation of two messages and a question; an agent of three versions, two sweeps and an event task; two workspaces of Slack with a channel each, two inventories at once | 1,043,708 | `OvertakenWhenExhausted`, `ComesToRest`; `RunsAreApproved`, `SlotsAreTakenInOrder`; `NotResurrected`, `InventoryConverges` |
| `intake` | a mailbox of two messages, two passes; a thread of two letters, two reps; two meetings, two guests; two forms, two deliveries | 1,442,367 | `OnlyLaterPagesAreLost`, `MailArrives`; `CountIsExact`, `StoredIsShown`; `MeetingsConverge`; `FilingIsExact` |
| `office` | a deal in two currencies, two editors, an admin and the daily job; two members and two websites; two windows and two migrations | 560,472 | `FigureIsOwn`, `DealsAreCounted`; `DemotionsLeaveAnOwner`, `WebsiteIsRead`; `PasswordIsKept`, `ComesUp` |
| `queue_booking` | two rechecks of a contact | violation | `BookingIsKept` fails, see 7 |
| `agent_run_one_running` | two scheduled runs | violation | `OneRunning` fails, see 7 |
| `builder_question` | one message and one question | violation | `QuestionIsDurable` fails, see 7 |
| `facts_human` | one field | violation | `HumanNeverOverwritten` fails, see 7 |
| `mail_pages` | two messages, a history page of one | violation | `NoMailIsLost` fails, see 7 |
| `calendar_budget` | two meetings, one page a pass | violation | `BudgetContinues` fails, see 7 |

Every property of a passing run has a mutant in `PROJECT.json`: an operator beside
the definition it replaces, with the bug that the property catches.

*Bounds.* They are constants of the modules and named in their comments.

- `MaxAttempts` is 3 in the code. Two attempts are the smallest number at which
  attempts overlap and the last one differs from the others; the proofs cover 3.
  `records` takes one: it asks what late settlements do, and there retirement and a
  turn that parks already race for the row.
- `MaxSettling` 2: two settlements overtaking each other; a third adds no new
  comparison, since a settlement reads rows and the record, never another one.
- `MaxSends` bounds deliveries, which the code does not: 2 gives two sessions
  of one run and a recovery between them. `Stepping` bounds the runs whose
  sessions report steps.
- `MaxTries` of `RunActions` 2: an attempt and the replay that takes its claim. Either
  call may be the one that is replayed, not both in one behaviour (`Acts`): attempts
  at two calls meet only in the run's row, which they read and do not write. The proofs
  have no such bound.
- `MaxAbandoned` is 1 in the code and here. `MaxForgotten` 1 is a counter that
  saturates: nothing but `ForgottenSettles` reads it.
- Builder: with `MaxAttempts` 2 a message is claimed at most three times, once more
  for a late failure, so `MaxTries` 4 never binds. `MaxInbox` 1 and `MaxQuestion` 1:
  a second message waits for the first, and an answer is told from a stale one.
- Versions: `MaxVersion` 3 is a draft, its edit and an old version to deploy again;
  `MaxSlot` 2 a slot that is taken and the next.
- Slack: of `MaxEvent` 2 events any two meet: the connection ends or is replaced, Slack
  changes, a join or a creation is asked for, a call fails, an inventory outlives its
  lease. The first sign-in is at the start as far as its account; `MaxLink` 2.
- Facts: `MaxFact` 2 is a fact that stands and one that displaces it, `MaxDecide` 2 a
  decision that meets the one before.
- Tracking: `MaxChange` 2 changes of a configuration overtake each other; `Keep` 2
  days, one more than a browser may date an event back; `MaxDay` 4 lets a day be
  rolled up while it still gets events, and twice after.
- Mail: `MaxMail` 2 with a `Batch` of 1 leaves mail for a second pass, and the page of
  Gmail's history may hold one change or both (one in `mail_pages`); `MaxFault`,
  `MaxUpset`, `MaxOutage`, `MaxDeath`, `MaxMissed` and `MaxLost` of 1 place one failure at
  every point, after which the system must recover.
- Meetings: `Budget` 1 page and two meetings exceed the budget; `MaxEdit` 2 is a version
  that overtakes an older one.
- Forms: `Cap` 1 makes the second form meet the cap, `MaxWindow` 2 gives a slot back in
  the hour after, `MaxMade` 2 makes a contact that was deleted again.
- Deals: one amount and two currencies tell all figures apart that the property
  tells apart; `MaxCall` 2 requests of people beside the daily job. `MaxWrite` 3
  activities or deletions, `MaxChange` 2 changes of a field: make it, and change it.
- Workspace: `MaxRequest` 3 is two demotions and a promotion, or a website, another and
  the first again. Desktop: two windows and `MaxWhim` 2 give a second window and one
  that is closed for no reason, `MaxFault` a program killed, a failed read or a power cut
  at any point; of two `Migrations` one is in `Own`.
- Two rows, runs or calls are the pairs the properties relate: rows meet only
  through an equal kind or subject, runs only through their agent, calls only
  through the type the manifest declares.

*Deadlock* is not checked: the systems come to rest with every row finished, every run
ended, every bound used up, and a part that has come to rest cannot hand over to
another. What must not get stuck is said by the liveness properties.

## 5. Fairness

- `Fairness` of `TaskQueue`: `RetireExhausted` and the claim of a due row, since
  cron sweeps every minute and a sweep takes both; due dates and leases, since
  clocks advance. Nothing of `Start`, `Complete` or `Abandon`: a handler may
  hang, a session may never answer. `ClaimDue` takes rows by priority in batches of
  60 and 12; weak fairness of each row says that the backlog ahead of it is worked
  off, which the attempt cap and leases bound.
- `SweepDispatcher`, in `AllSpec` of `MCSchedules`: cron calls an idle dispatcher,
  and the two
  timers of a sweep fire. No sweep settles and no poke lands by assumption. That
  queued work is swept then follows (`QueuedWorkIsSwept`): it is the ground on
  which the fairness of `TaskQueue` stands.
- `RFairness` of `AgentRun`: recovery, timeout and the clock. Runs are swept by
  the cron job after `drainAll`, and independently of it by the API's heartbeat
  through `drainAgentRuns` where a bridge secret is set. A minute whose `drainAll`
  throws skips the runs; a refused sweep returns normally and does not. Sessions,
  senders and people promise nothing.
- `AllSpec` also says: cron runs the sweep of blank fields,
  and a transaction that was begun ends; a cached configuration expires and a
  request that was begun goes on.
- `AllSpec` of `MCAgents`: cron sweeps messages and triggers, and a sweep of triggers
  ends. Deliveries of messages and the builder's sessions owe nothing: either may hang or
  die, with the token of the conversation. `ComesToRest` says what holds all the
  same, and excuses what no sweep looks at: a session that has not ended its turn
  (`SessionOwes`), and a message that is accepted while its last delivery is still out
  (`AcceptedUnderWay`). Of Slack's channels: somebody talks to the
  builder now and then, which files an inventory when the rows are old; cron takes it
  up; quarters of an hour pass; an inventory, a sign-in or a join that is under way
  goes on or fails. No person is assumed to press a button.
- `AllSpec` of `MCIntake`: cron lists the mailboxes that are due, leases run out, and a
  pass goes on unless it fails or dies, which it does `MaxFault` times. Calendars are
  walked likewise. Threads and forms promise nothing: what they owe is an invariant
  or a property of steps.
- `OfficeSpec` of `MCOffice`: the daily job runs and its steps do not stop half way,
  and the provider answers now and then (strong fairness: it is asked again and
  again). Somebody signs in now and then, a week passes, a queued session is opened
  and ends. initdb and pg_ctl end (pg_ctl has a timeout), a supervisor goes on,
  and a person closes a window that does not work and opens one again.
- `records` is about safety and assumes no fairness.

## 6. Proofs

TLAPS proves every safety invariant and every property of steps that the passing runs
check, the type invariant of each component, and three implementations of abstract
specifications, for every value of the constants: any number of rows, attempts,
runs, versions, windows or messages. What is assumed of the constants is named in the
module that declares them (`QueueAssumption`, `RunAssumption`, `MoneyAssumption` and so
on), and TLC evaluates it in every run: the bounds are numbers, at least 1 where
the code counts from one; a value that stands for none is not one of the values; the
sets that are counted (members, options, letters, deliveries) are finite; the tables
that say of which kind a row is have their types. TLC checked each inductive
invariant before it was proved. A component moves alone in its MC module, by its own
initial states and steps, so a theorem about its specification covers what the run
explores.

### 6.1 The queue, its runs and its sweeps

- `TaskQueueProofs`. `TypeOK` and `OneFinisher` are inductive together. The lease
  properties are not: `QInv` adds `AttemptsInOrder` (attempt `k` has begun exactly
  when `k <= attempts`) and `UncoveredOverran` (an attempt in progress which the
  current lease does not cover was there when a lease ran out). From it follow
  `OneFinisherHolds`, `OverlapOnlyAfterLeaseHolds`, `FinishedIsFinalHolds`,
  `RetireWaitsForLeaseHolds`, and `ImplementsDelivery`, step by step: an action is a
  `Post`, `HandOut`, `CloseRan`, `GiveUp` or a stutter.
- `AgentRunProofs`. `RInv` is `RTypeOK` with `Delivered`: a session exists only for
  a send, a send only for a run that exists. No handler checks it, and without it
  a settlement could open a run that never was. From it `RunTypeCorrect`,
  `OneDispatchedHolds` and `ImplementsLedger`. `LogWhole` needs `LogInv` as well:
  each log numbered without a gap and ended when the run is (`Whole`), and `RecoveredOnce`,
  which says that a recovery is of a delivery that was made and, once noted, is not
  made again. Each action does nothing to a
  log, begins it or appends to it, and these three keep it whole.
- `RunActionsProofs`. `AInv` adds `RowIsTrue` (a row that SUCCEEDED has its receipt
  and its effect) and `AcceptedIsPosted` (an attempt beyond acceptance has its
  message in Slack). From it `AnswersAreTrue`, `SuccessMeansAction`,
  `SettledActionsStay` and `ReceiptsKept`.
- `SchedulesProofs`. *Sweeps*: `WInv`, the type with `NotStacked` and `CallIsFolded`, is
  inductive as it stands. *Facts*: `PersonKeepsTheField` rests on what each writer knows
  by then: one that read the contact after the person wrote has seen the words
  (`AwareHasRead`), and then applies nothing to a field that is not the agent's
  (`AwareSpares`). *Retention*: `DaysWhole` rests on time: a sweep deletes only what is
  before its cutoff, and no browser dates an event that far back, so what it counted
  there is all there ever will be (`CutoffsArePast`, `DeletedIsPast`, `RolledIsWhole`). *Configuration*: its type alone says that no
  replica counts more changes than were made, which takes the changes that are still to
  be counted into account (`GenerationsAreOfChanges`).

### 6.2 Agents and what they are made of

- `AgentsProofs`. *Versions*: `RunsApproved`. No worker holds a lock when it queues a
  run, so the version must have been approved when its trigger was read: enabled
  triggers are of approved versions (`EnabledAreApproved`), what a worker took along
  stays approved (`WorkersHoldApproved`), and a new draft has a number nobody used
  (`MadeInOrder`). `SlotsInOrder` is proved action by action. *Slack*:
  `NothingResurrected`; an errand knows its channel from its first step on
  (`ErrandsKnow`). *Builder*: `OvertakenOnlyWhenExhausted`. A message is passed only when
  the session heard it or it was tried as often as the dispatcher tries
  (`SentInOrder`); that a late failure cannot make room for ever is
  `ClaimsArePaidFor`, which bounds the claims of a message by 2 * MaxAttempts - 1 and
  with it discharges the bound `MaxTries` of the model.

### 6.3 What comes in

- `IntakeProofs`. *Forms*: `FilingExact`. A delivery holds a slot in three places and no
  others (`SlotsAreHeld`), and one delivery of a submission writes its note
  (`OneNotes`); the slots of an hour are then a sum over deliveries. *Mailbox*:
  `CursorLosesOnlyLaterPages`. All up to where a pass started is in the CRM
  (`StartIsCovered`), and all from there to its head, or still in its batch, or on a later
  page of Gmail's history (`BatchReachesHead`), whoever else moves the row. What it
  excuses is lost for good, see 7. *Threads*: `ThreadCountExact` and
  `PassedMailIsShown`. Unless it was raced, a purge is alone at its thread and what it
  found is still so when it commits (`PurgeIsTrue`). *Meetings*: `CalTypeOK` is inductive
  by itself.

### 6.4 Records and the install

- `RecordsProofs`. *Status*: the records take nothing from the queue and add nothing to
  it, so `EnrichmentStatus` implements `TaskQueue` (`StatusRunsTheQueue`) and all of
  6.1 holds of it (`StatusDeliversTasks`). `RequestQueued` needs `EveryKindIsAhead`: each
  kind asked for is still to be queued, or has a row no attempt at which has touched the
  record. `SettledByTheirOwn` needs `StaleIsOver` (what ended before a request has not
  ended after it) and `CompletionsAreTrue`. *Fields*: `TypeFitsItsValues`; a change of
  type that found no value still finds none, unless it collided (`NoValueFound`).
  *Timeline*: `StageChain` from the lock (`MoverHoldsTheRow`: who moves a deal knows its
  stage) and `StampNotBehind` from `RestampsKnow`.
- `OfficeProofs`. *Desktop*: `PasswordKept`. The password goes from the file to a
  supervisor, to initdb and to the cluster; the invariant follows it from place to place
  (`KeptUnlessMishap`), as long as no two supervisors made the file at once, no read of
  it failed and no power cut took it from beside the cluster. It rests on what 3.18 assumes
  of the disk. *Members*: `OwnerLeft`; a demotion goes on only while it holds more
  than one owner locked (`LockedAreOwners`, `CountedMoreThanOne`). *Money*:
  `FigureOfItsOwn`; an edit converts what the deal will have once it wrote
  (`ConvertsWhatItWrites`), which two overlapping edits break and nothing else does
  (`OverlapsAreNoted`).

`TypeCorrect`, `OneFinisherHolds`, `OverlapOnlyAfterLeaseHolds`, `FinishedIsFinalHolds`,
`SettledActionsStay` and the type theorems are proved and not repeated among the runs'
properties.

### 6.5 Only model-checked

The liveness properties: `EveryTaskFinishes`, `QueuedWorkIsSwept`, `NoRunHangs`,
`BlanksAreFilled`, `StaleGoesAway`, `ComesToRest`, `InventoryConverges`, `MailArrives`,
`MeetingsConverge`, `DealsAreCounted`, `WebsiteIsRead` and `ComesUp`. The provers do
not reason about fairness through ENABLED. Of `TrackingConfig` and `CalendarSync`, whose
only properties are of this kind, the types are proved. No module declares a RECURSIVE
operator.

## 7. Where the code and its documentation disagree

Each of the six has a run whose counterexample shows it.

1. `BookingIsKept`. `schedule_recheck` called by a recheck turn finds the turn's own open
   row, moves its date and answers `scheduled: true`; the turn then finishes the
   row and the booking with it (`lib/tasks.ts:149`).
2. `OneRunning`. `session.started` moves a queued run to RUNNING without a look at the
   agent's other runs (`hooks/audit.ts:111`).
3. `QuestionIsDurable`. The acceptance of a message clears `pendingInputRequest` after a
   send that returned late: a question the session has asked by then can no longer
   be answered (`custom-agent-dispatch.ts:170`; `docs/agent.md:284-286`).
4. `HumanNeverOverwritten`. Once the agent has filled a field, what a person types over
   it is not known to be theirs, and stronger evidence overwrites it
   (`lib/facts.ts:325`; `docs/agent.md:157-158`).
5. `BudgetContinues`. A calendar with more changes than a pass has pages for begins anew
   each time (`calendar-sync.service.ts:177-188`;
   `docs/plan/gmail-calendar-plan.md:742`).
6. `NoMailIsLost`. A pass asks Gmail's history for its first page of 500 entries, has no
   use for `nextPageToken`, and settles on the mailbox's newest history id: mail on a
   later page is behind the cursor and never read (`gmail-sync.service.ts:131, 164-170`,
   `gmail.client.ts:70-80`; `docs/plan/gmail-calendar-plan.md:745`).
   `OnlyLaterPagesAreLost` says that this is the only way to lose any.

These formulas are stated in the modules beside the property that holds; TLC refutes
each when it is added to the run of its module:

- `OwnerRemains` (`docs/api.md:53`). The target's role is read before the owners are
  locked: three requests, of which one promotes the target in between, leave no
  owner (`workspace.service.ts:215`). `DemotionsLeaveAnOwner` is what holds.
- `ProfileDiesWithItsWebsite` (`docs/agent.md:244`). A session that was told to read the
  old website files what it found under the new one (`write_workspace_profile.ts:61`),
  and the task for the new one was folded into the running one.
- `SelectHasOptions` (`fields.service.ts:165`). An update goes by the options of an
  earlier read, so a select may be left without a live one.
- `PasswordIsAlwaysKept` (`secrets.ts:37`). Any read error of the secrets file counts as
  no file, and a new password is written over the old one (`secrets.ts:30`); the file is
  written without fsync, so a power cut may take it from beside the cluster that `initdb`
  synced (`:47`); two first starts may each make a password. `PasswordIsKept` is what holds
  when none of the three happened.
- `AlwaysComesToRest`. Recovery looks for SENDING messages only
  (`custom-agent-dispatch.ts:661-664`): an accepted message whose session is dead or
  never ends its turn, or whose last delivery dies with the token, leaves the conversation
  working for ever.
- `FillLeavesConverted` (`docs/currency.md:28`). A fill that began under one reporting
  currency writes over a deal that was converted to the next.
- `NoneCachedWhilePaused` (`docs/tracking.md:219-229`). A configuration that was compiled
  before a pause may be cached after it, for one TTL (`tracking-config.service.ts:44-49`).

Seen while modelling, with no formula of their own. Where a model has the behaviour, it
is named.

- *Records.* A fresh look asked for while the same research runs is refused by
  `enqueue`, and the settlement of that row finds PENDING and writes nothing: the
  record waits with nothing queued (`contacts.service.ts:592`). `RequestIsQueued`
  therefore promises an open task of each kind asked for only where the request met no
  task under way, and none was retired.
- `docs/environment.md:179-182` and `test/keyless-brand.integration.spec.ts` say
  that a brand task without a key leaves the company PENDING, because `settle` only
  overwrites RUNNING. The test calls `settle` of `lib/enrichment.ts`; `runBrand`
  calls its own (`lib/brand.ts:160`), which has no guard, so the company turns
  SKIPPED and no later sweep takes it up (`BrandNowhere`).
- *Sweeps.* `docs/agent.md:80-84` says that an abandoned sweep leaves
  `unsettledSweeps` only when it truly settles. The timer at `lib/dispatch.ts:358-364`
  takes it out after fifteen minutes (`Forget`); `QueuedWorkIsSwept` fails without it.
  Health reports `running: false` for a folded sweep that starts in the
  millisecond the one before it finished (`lib/dispatch.ts:300`).
- *Runs.* An event run may be inserted after its agent was deleted
  (`custom-agent-dispatch.ts:322`; `agent-delete.spec.ts:183`). The last look at the
  run and the post to Slack are two steps (`run-runtime.ts:570`);
  `docs/agent.md:322-324` says otherwise. Recovery queues a run again without
  counting (`custom-agent-dispatch.ts:779`).
- *Builder.* A message may be tried five times where the setting says three. The window's polling of events
  stops on a list that looks settled while the live stream falls back to it
  (`agent-builder-chat.tsx:165-176, 360-364`).
- *Versions.* Deploying an old version whose triggers were moved to a newer one leaves
  the agent LIVE with no enabled trigger (`docs/agent.md:304-306`). `saveFile` of
  `agent/manifest.json` changes the artifact and not the version's manifest.
- *Facts.* The sweep's fill and a rep's accept apply a fact by its id whatever its
  status is by now; a settlement turns DISMISSED and APPLIED ones into SUPERSEDED; two
  calls may each leave one APPLIED. A field that was cleared keeps its APPLIED fact and
  stays blank. One pass sees 2000 facts (`blank-facts.ts:54-61`).
- *Mailbox.* A Gmail mailbox with a
  batch of messages that are not kept never gets past them (`MailArrives` excepts
  such a mailbox, `Crowded`). A message the provider fails to return is passed
  over (`SkipMail`; `docs/plan/gmail-calendar-plan.md:745`). "Check now" takes no
  claim, and what it settles clears the lease of a pass under way, so two cron passes
  may overlap. A revocation during a pass makes `markFailed` in the catch throw as
  well, which ends the tick for the mailboxes after it.
- *Threads.* A purge deletes another rep's message that was stored during it, with the
  thread it found empty (`mailbox-purge.spec.ts:224`), or writes a count that is
  stale until the next letter (`raced`). A contact that is deleted during a pass is
  made again by the next message, because the deleted addresses are read once
  (`thread-writer.service.ts:44`; `record-delete.spec.ts:160`).
- *Calendar.* A rep who takes a meeting off the own calendar removes the event that
  others still have; attendees are never removed.
- *Tracking.* `skip` writes its reason over a row that another delivery filed. A death
  between the claim and the note loses the note. A slot whose release fails stays taken
  for the hour (`tracking-counter.service.ts:37-50`). Two changes at once may leave an old
  hash. A deleted address is made again by a delivery under way
  (`docs/tracking.md:141-145`).
- *Currency.* Two edits of one deal, one of its amount and one of its currency, leave a
  figure that is of neither, for good (`deals.service.ts:316-335`; `overlapped`). The desktop
  build has no cron, so the daily fill that `DealsAreCounted` relies on does not run
  there.
- *Workspace.* The website and its task are not one transaction; what is lost is
  queued by a sign-in seven days later (`CallFails`, `SweepLooks`). `WebsiteIsRead` takes
  a profile that is filed for the new website for a reading of it, also if the session
  read the old one.
- *Fields.* A type may change between the count of values and the write
  (`fields.service.ts:141`; `collided`), and an update that gives the type it read
  writes it back. `fieldBackfill` may queue two tasks
  (`docs/plan/dynamic-fields-build.md:120`). The agent may write a value after its
  field was made manual.
- *Timeline.* A request that dies after its transaction leaves `lastActivityAt` behind
  (`docs/crm-plan.md:553-560`: "written by the same service method that writes the
  activity"); so does a recomputation from a
  snapshot taken before (`crossed`).
- *Desktop.* A death between a migration with a transaction of its own and its record
  makes every later start fail (`migrate.ts:160`). The API may die before its exit is
  listened for, and "ready" is shown. A server left running by another start is
  taken to be this one's (`postgres.ts:158`). A window that is closed stops the
  database of the other (`main.rs:194`).

## 8. Not modelled

- Most lines of the repository are presentation: the Next.js app, the component
  library, seeds, tests and documentation. Most lines of the services are queries and
  single statements, whose model would restate them. The components with neither
  are listed in `PROJECT.json` with the reason.
- Vendors (Slack, Google, Microsoft, people and company lookups): their answers are
  choices of the environment.
- Within modelled components: the counters of late starts and items in health, the
  retries of `linkSession`, session ids of tasks (no action reads them), the wording of
  outcomes, priorities of rows, the redelivery of cancellations
  (`agent-trigger.service.ts:295`), which records a backfill picks, attachments and
  titles of conversations, companies of threads, attendees, touches and page views
  beyond their count, rates as numbers, which members match a Slack account, and what each module names as left out.
- Deadlocks of Postgres row locks, except in `FactLedger`: transactions are atomic
  where they lock first, and Postgres aborts one of two that wait for each other,
  which the caller sees as a failed step the models have.
- Content: what a session concludes, what a vendor answers, what a person writes.

## 9. Running the checks

    tlc -workers 2 -config Schedules.cfg MCSchedules      # one per run, see PROJECT.json
    tlapm TaskQueueProofs.tla                             # one per *Proofs module

With two workers the passing runs take between one and a half and four minutes each; the
proofs take about five together.
