# Backranq in TLA+

Backranq imports a player's games from Lichess and Chess.com, analyses them with Stockfish in the browser or on the
server, and turns the mistakes into positions to practise. This directory models the parts of it in which several
actors change the same state. TLC checks every module on small instances; TLAPS proves the main safety properties of
twenty-one components for every value of the constants.
Paths are relative to `src/src` of the checkout unless they begin with another directory.

## 1. Inventory and plan

| Component | State it keeps | Operations | Module |
|---|---|---|---|
| Server analysis (`lib/services/analysisJobs.ts`, `serverAnalysis.ts`, `analysisRuns.ts`, `analysisScheduler.ts`, `analysisQueueCancellation.ts`, `analysisOps.ts`, `gameDeletion.ts`, `gameImport.ts`) | an `AnalysisJob` per game with its lease, `AnalysisRun` rows, ledger entries, checkpoints | enqueue, claim, start, yield, retry, settle, recover, cancel, reconcile, delete | `AnalysisJobs` |
| Credits (`billingAccounts.ts`, `creditLedger.ts`) | `BillingAccount` balance and period, `CreditLedgerEntry` rows | reserve, consume, release, refund, reconcile the account with its entitlements | `BillingAccounts` |
| Outbox and transport (`analysisOutbox.ts`, `lib/queues/backranq.ts`) | `AnalysisOutbox` rows with lease and attempts | stage, claim, publish, reschedule, cancel | `AnalysisOutbox` |
| Batches (`analysisBatches.ts`) | `AnalysisBatch`, its items with planning leases | create, plan a page, refresh, restage, reconcile, cancel | `AnalysisBatches` |
| Synchronisation (`syncJobs.ts`, `autoSync.ts`) | `SyncJob` with lease token, `ProviderSyncState` with cursor and watermark | plan, claim, import a batch, retry, recover; relink, change of rules | `ProviderSync` |
| Extraction and verification (`lib/analysis/extractTrainingMoments.ts`, `continuationVerifier.ts`, ...) | a slice with receipts and its checkpoint; a tree of positions | scan, confirm, look ahead, yield; search, confirm, expand | `TrainingExtraction`, `ContinuationVerifier` |
| Practice (`lib/training/*`) | the session of a position, the feed and its cursor, the outbox of results, attempts, the review schedule | solve, reveal, page, flush, record, reschedule | `PracticeSession`, `PracticeFeed`, `PracticeRecords` |
| Notifications (`lib/notifications/*`, `practiceDueSweep.ts`) | deliveries, e-mail reservations, budget; sweeps and totals | dispatch, hand over, provider events; sweep, continue | `EmailReservations`, `PracticeDueSweep` |
| Stripe (`stripeBilling.ts`, webhook route) | reservation of a checkout, contracts, event rows | check out, claim and apply an event | `StripeBilling` |
| History import (`historyImport.ts`, `SyncGamesModal.tsx`) | fetch lease, allowance, dialog of each device | fetch a page, select, import in chunks | `HistoryImport` |
| Automatic backlog (`autoAnalysisBacklog.ts`, `analysisMaintenance.ts`) | eligible games, messages, allowance | sweep players, claim games, renew | `AutoAnalysisBacklog` |
| Premium (`lib/premium/*`) | invitations, send attempts, grants | invite, resend, revoke, deliver, accept | `PremiumInvitations` |
| Weekly master (`lib/master/*`) | pipeline runs, candidates, slot | run, analyse, choose, publish, moderate | `WeeklyMaster` |
| Engines (`stockfishClient.ts`, `backranq-engine.worker.js`, `serverStockfish*.ts`) | jobs, start-ups, the process or engine | search, stop, watch, replace | `EngineBridge`, `ServerEngine` |
| Browser analysis (`backgroundAnalysisManager.ts`, `serverAnalysisCoordinator.ts`) | runs of a tab; tracked requests in the storage of all tabs | run, cancel, change owner; ask, poll, repeat | `BackgroundAnalysis`, `ServerRequests` |
| Coach (`components/coach/*`, `lib/coach/*`) | the game, its checkpoint on the device, the session; Maia's model and runtime | move, take back, resume, save, sign out; prepare, remove | `CoachGame`, `CoachSignOut`, `MaiaOpponent` |
| Pages (`TrainingAnalysisWorkspace.tsx`, `SyncGamesWidget.tsx`, settings cards) | tree and draft; monitor and status; sections of one document | edit, restore; ask, poll; save a section | `AnalysisWorkspace`, `SyncMonitor`, `Preferences` |
| Message routing, read models, provider clients, rendering, authentication, scripts | none of their own, or a library's | – | not modelled (section 13) |

**How they interact.** A request or the daily cron stages work in the database; the outbox hands it to the queue; an
invocation of a worker takes a message, works under a lease, and stages the next step. Credits are reserved when a
job is enqueued and settled by whoever finds out first how it ended. Billing follows Stripe's events and the grants.
The browser analyses with an engine of its own and uploads, keeps results and drafts until the server has them, and
shares its storage among tabs.

**What is hard.** Every handler, cron tick and delivery is an invocation of its own, with no lock between two
statements but the database's. It can be killed at its maximum duration, stall past its lease, or be delivered
twice. In the browser every `await` is a moment at which the account, the page or the game may have changed.
`PROJECT.json` lists the hazards line by line with the properties that would catch them.

**What makes each part correct.** A job makes progress under one invocation at a time and always ends; a reservation
is settled once and none is left over; a balance is what the ledger says; every staged message is sent or given back;
a batch pays once for a game; a synchronisation skips no game; a receipt is true; a result is recorded once and none
is lost; an e-mail is sent once; a paid plan follows its contract; an answer of an engine belongs to the search that
asked; nothing of one account reaches another.

| Plan | Modules | State |
|---|---|---|
| Work and money | `AnalysisJobs` (implements `CreditReservations`), `BillingAccounts`, `AnalysisOutbox` (implements `Mailbox`), `AnalysisBatches` (over `Mailbox`), `ProviderSync` | checked and proved |
| Training | `TrainingExtraction`, `PracticeSession` (`TrainingMC`), `PracticeDueSweep` (`ServicesMC`) | checked and proved |
| | `ContinuationVerifier` with `AcceptanceFrontier` and `TrainingMoments`, `PracticeFeed`, `PracticeRecords` | checked (`TrainingMC`) |
| Services | `EmailReservations`, `PremiumInvitations`, `StripeBilling`, `HistoryImport`, `WeeklyMaster`, `AutoAnalysisBacklog` | checked (`ServicesMC`) and proved |
| Browser | `BackgroundAnalysis`, `ServerRequests`, `CoachSignOut`, `SyncMonitor`, `Preferences`, `ServerEngine`, `MaiaOpponent` | checked (`BrowserMC`) and proved |
| | `EngineBridge`, `CoachGame`, `AnalysisWorkspace` | checked (`BrowserMC`) |
| Next | proofs of the feed, the verifier and the engine client of the browser | open |

Conventions. A step of a model is one database transaction, or one statement outside of any, or the synchronous code
between two awaits: whatever the code does in one `$transaction` is one action with all its writes, and two statements
that are not in one transaction can be interleaved with anything. Parameters are `CONSTANTS` with named
assumptions, and there is no recursive operator in a module that is proved about. A helper whose lines lie inside those
of another definition has no entry of its own in the `map` of `PROJECT.json`. Where a run has several related things to
say of one component, one definition conjoins them under a name (`AccountsHold`, `SyncHolds`, ...); its conjuncts are the definitions just above
it. An `MC` module that extends several components lets a behaviour choose one of them (`part`), so that one run
checks independent state machines, each on its own state space; second instances (`INSTANCE ... WITH`) of a
module give it other bounds.

## 2. Server analysis: `AnalysisJobs`

One user, with the games `Games`.

| Variable | Stands for |
|---|---|
| `game[g]` | the `AnalyzedGame`: present, PGN version, analysed, `currentAnalysisRunId` |
| `job[g]` | the `AnalysisJob` of the game (one per game); `ABSENT` without a row |
| `run[r]` | `AnalysisRun`; one for each life cycle of a job; `wrote`: its result was written to the game |
| `ledger[r]` | the idempotency keys of the run's credit entries: `reserve` and the settlements |
| `checkpoint[r]` | version of the `AnalysisRunCheckpoint` |
| `messages` | dispatch tokens `<<game, dispatchedCount>>` staged or in the transport; delivering one does not remove it |
| `worker[w]` | an invocation of `analyzeGameJob` (or of the recovery, from its settlement on): program counter and the values it read |
| `settler` | the reconciliation between the row it selected and what it does with it |
| `faults` | faults so far, up to `MaxFaults` |

Actions, by the groups of `Next`: *request* (`Enqueue`, `EditPgn`, `AnalyzeLocally`, `DisableAutomation`,
`DeleteGame`); *dispatch* (`Claim`, under the user's advisory lock, with the outbox row staged in the same
transaction); *time* (`LeaseExpires` when nobody uses the lease, `LeaseOverrun`, a fault, when somebody does,
`BackoffElapses`); *work* (`Start`, the compare-and-swap of `markAnalysisJobRunning`, `Load`, `EnterRunning`,
`ReadCheckpoint`, `Yield`, `YieldRejected`, `Complete`, `CompleteWithoutWrite`, `Fail`, `Settle`, `SettleFails`,
`MarkSettled`, `RecordPending`, `RecordFails`, `Crash`); *recovery* (`Recover`, `RecoverExhausted`,
`CancelUnexecutable`); *reconciliation* (`Scan`, `Reconcile`, `ReconcileMark`, `ReconcileFails`).

Abstractions: all runs cost the same, so that a run's entries are a set of keys; the fence (`lockedAt`,
`dispatchedCount`) is the count alone, since a claim writes both and each count is issued once; clocks are the
states `live` and `expired` of a lease and `due` of a job. The engine's work between two checkpoints is one step.
The configuration hash, the manifest of completion and the moments are not in this module.

| Run | Instance | Shows |
|---|---|---|
| `settlement` | 1 game, 2 runs, 2 invocations, 2 attempts, 1 checkpoint, 1 fault | `HoldersSafe` (types, one invocation for each dispatch, an attempt left), `ReservationsSafe` (settled once at most, never under present work, always under cancelled work), `UnchargedIsMarked`; the action properties `StaleLeavesJob`, `CheckpointKept`; the refinement `ReservationsSettleOnce` of `CreditReservations` |
| `games` | 2 games, 2 runs, 2 invocations, 1 change of a PGN, a manual and an automatic reason, no faults | `OneLiveLease`, `PublishedFromCurrentPgn` |
| `liveness` | 1 game, 2 runs, 1 invocation, 1 fault, hard stop | `JobsSettle`: every job ends and every finished run settles, under `FairSpec` |

Bounds. Two runs of one game are the least with which a late step of an earlier run meets a later one, two
invocations the least for a stale and a current holder; one checkpoint separates a fresh slice from a resumed
one; two attempts separate a retry from the last. A fault (crash, failing call, lost message, overrun lease) can
strike at any statement, once per behaviour. `HardStop = FALSE` in the safety runs lets a stalled invocation outlive
its lease and the next backoff too, which the platform's `maxDuration` normally prevents. Two games interact through
the user's lease alone, so only `games` has two; it has no faults, and both of its properties are proved with faults
and for any number of games.

Fairness (`FairSpec`): weak fairness of dispatch, delivery, each invocation's next statement, expiry, backoff,
recovery and reconciliation. Dispatch, recovery and reconciliation are run by the maintenance cycle
(`analysisMaintenance.ts`), which schedules its successor through the queue a minute later; a daily cron
(`vercel.json`) starts the chain again if it broke, and every processed message dispatches too
(`backranqQueueProcessor.ts`). The queue redelivers what is not acknowledged, and an invocation goes on until it
ends or is killed (a fault, and faults are finitely many). Nothing is assumed of the user, of faults, or of the
cancellation of an unavailable queue.

**Proved** (`AnalysisJobsProofs`), from `ConstantsAssumption` only: all safety properties of
`settlement` and `games`. None of these is inductive as stated: whether a settlement can hit a queued job depends on
what the invocations and the reconciliation remember. The inductive invariant `Inv` is `TypeOK` with `RowsOK` (the
run of a job belongs to its game; the run of an active job is active and has written nothing; a queued job has an
attempt left; a run that was not created has no entries), `WorkersOK` and `SettlerOK` (what is about to settle a run
finds no active job on it). The proofs go through the relations that a step keeps for one row (`JobStep`, `RunStep`,
`LedgerStep`, `GameStep`), each shown for every action once. `Serialised` adds `DispatchStep`, `UniqueHolder` adds
`HoldersOK` (an unfinished invocation's dispatch was issued, and no other has started under it), `StaleIsHarmless`
goes through `LeavesJob`, `PublishedIsCurrent` adds `PublishedOK`. `ReservationRefinement` maps a run's keys to a state
of `CreditReservations`; the `LedgerStep` of each action is a step of that machine or a stutter.
`ChargeIsMarked` needs `ChargesOK`: a published run that has not been charged is held by an invocation or by the
reconciler that keeps the run (`KeepsRun`), nobody releases what was not written (`ReleasesUnwritten`), and only
settled runs lose their mark (`MarksSettled`). `CheckpointIsKept` is an action property that needs the same holders.

## 3. Credits: `BillingAccounts`

One user's `BillingAccount` and the ledger behind it. Every operation of `billingAccounts.ts` and `stripeBilling.ts`
that moves credits is one serializable transaction, which first reconciles the account with its entitlements; so
each is one action that starts from `Current`, the reconciled account.

| Variable | Stands for |
|---|---|
| `account` | plan, `currentBalance`, `monthlyServerCreditsUsed`, period start and renewal |
| `stripe` | the plan that the subscription gives access to, and the stored period |
| `grant` | the best of administrator role and plan grants |
| `reservation[r]` | what the ledger says of run `r`: reserved, consumed, released or refunded, its credits, and the period it was reserved in |
| `now` | time |

`Reserve`, `Consume`, `Release` and `Refund` are the four credit operations; `Read` is any use of the account;
`ChangeGrant` and `GrantDate` are grants with and without reconciliation in the same transaction; `ApplyStripe`
and `StripeDeleted` are the updates that the fence of `stripeBilling.ts` lets through. `Reconciled` restarts the
period when Stripe's differs or the clock passes it, and otherwise moves the balance with a change of plan.

Abstractions: Stripe's plan and status are one plan with access (`FREE` without); caps on automatic analysis, the
notification of low credit and `ALLOWANCE` entries (a log) are left out; a refusal rolls its transaction back, so it
is no step. `refundServerAnalysisCredits` has no caller in the application, but it is exported and tested. Two
assumptions on Stripe: it reports periods that have begun (`Reported`), told apart by their starts and distinct from
those that the application opened (`OwnOrNew`).

Run `periods`: 3 plans with limits 1 to 3, 2 runs of 1 or 2 credits, 3 moments, a month of 1. `AccountsHold` is
`TypeOK`, `BalanceExact`, `UsedMatchesLedger`, `PeriodWithinAllowance` and the action property `NewPeriodIsUnused`. A
run may cost as much as most of an allowance, so that refusals and restorations up to a limit occur; three moments
allow a period to end twice, and a reservation to be settled two periods late.

**Proved** (`BillingAccountsProofs`): all of `AccountsHold`, for any plans, limits, prices, runs and lengths, from
`IInv`. The code computes the balance in steps from counters, while `BalanceExact` speaks of sums over the ledger; the
invariant joins them: the account's counters are `Sound` (they equal the sums of its own period) and every period
keeps `Within` the largest limit. A sum is the cardinality of the set of single credits in a state, so that the lemmas
of finite sets give what a settlement adds and takes (`SumChanges`, `SettledSums`). `ReconciledSound` shows that
reconciliation keeps a sound account sound, whatever entitlement it meets.

## 4. Dispatch: `AnalysisOutbox` and `Mailbox`

`Mailbox` is the promise: a staged message is handed to the queue at least once and closed, or dropped; the queue
takes each key once. `AnalysisOutbox` is `analysisOutbox.ts` with any number of concurrent flushes.

| Variable | Stands for |
|---|---|
| `outbox[k]` | the row of an idempotency key: status, whether its payload parses, `availableAt` and `lockedUntil` as `due` and `live`, `attempts` |
| `flusher[f]` | one `flushAnalysisOutbox`: its place, the rows it claimed, and their attempts at that time |
| `queue[k]`, `queueOn` | the transport (`lib/queues/backranq.ts`), which a deployment may switch off |
| `work[k]` | what the row announces: open, taken up by a worker, or cancelled |

The lease token is the number of attempts, which every claim of a row increases. A flush is `Recover`, `Claim`
(one transaction), and for each row `Publish` or `PublishDisabled` or `PublishFails`, then `Mark`, `Reschedule`,
`CancelWork` and `MarkFailed` under the fence `Held`; each may fail, and `Crash` is possible at any statement.

Run `outbox`: 2 rows, 2 flushes, 3 claims of a row, 2 faults. Two flushes are the least with a stale one, and three
attempts leave a retry after both faults. `OutboxHolds`: types; closed rows stay closed (`ClosedStaysClosed`); a
row with a usable payload is given up only when its work was cancelled before, or taken up because an earlier
attempt had reached the queue (`FailedIsSettled`). `MailboxKept`: the outbox implements the mailbox with its
fairness, so whatever is staged is closed or dropped. Assumed fair: the next statement of a flush,
expiry and backoff, delivery; flushes run in the maintenance cycle and after every processed message.

**Proved** (`AnalysisOutboxProofs`): `OutboxKept` is the run's `OutboxHolds`, `MailboxRefinement` the safety half of `MailboxKept`: every step of any number of flushes over any rows maps to
a step of `Mailbox` or a stutter. `Inv` is `TypeOK`, `RowsOK` (what status, lease and attempts of a row say of the
queue and of its work) and `FlusherOK` (what a flush that still has the fence of a row knows of it; of one that has
lost it nothing is needed, which is the point of the fence).

## 5. Batches: `AnalysisBatches`

One batch of `analysisBatches.ts`, over the `Mailbox` that section 4 implements.

| Variable | Stands for |
|---|---|
| `status`, `item[i]` | the `AnalysisBatch` and its items: status, `planningToken`, `planningLeaseUntil` as `live`, the linked run |
| `runs[i]` | the analysis runs of the game, the last one its job's; `ours`: created for the batch, `same`: with its configuration; `left`, which is history: how a run came to be active without its job |
| `job[i]` | the job of the game: its status; `ahead`: the invocation that claimed it has not moved the run yet; `behind`: invocations that lost it before that |
| `page[p]` | one `processAnalysisBatchPage`: place, message, items still to enqueue |
| `canceller` | `cancelUnavailableAnalysisBatch` between its transactions |
| `mail`, `queue` | plan rows and plan messages |

`Create` is the request; `Deliver` to `ContinuePlan` are the page with its failures; `RecoverPlan` and `Reconcile`
are maintenance; `CancelItems` to `CancelDrop` the cancellation without a queue; `JobStarts` to `JobCancelled`,
`OtherRequest` and `DeleteGame` are what happens to the games meanwhile. The token of a killed page becomes `gone`.

A job and its run are two records. Enqueueing decides on the job (`HasActive`), the aggregate of the batch on the run.
`markAnalysisJobRunning` moves the job, and a later statement, not fenced, the run (`RunStarts`); an invocation that
lost the job in between still makes that step, on whatever run is the job's when it looks, finished or not
(`LateRunStarts`). A last attempt that fails fails the run only where that is `RUNNING` (`JobFails`), while recovery
fails it in both states (`JobExhausted`). So a run can be active without a job that will move it, in these two ways and
in no other (`RunsEndWithJobs`), and a batch waits for it without end: `EndIsTrue` and `BatchEnds` except such a run by
name, and TLC refutes both without the exception.

| Run | Instance | Shows |
|---|---|---|
| `batch_pages` | 1 item, 2 concurrent pages, 2 runs, 2 requests of others, 1 fault, leases that may end early | `BatchHolds`: types, `RunsMatchItems`, `DecidedOnce`, `EndIsTrue`, `RunsEndWithJobs` |
| `batch_ends` | 2 items in 2 pages, 2 faults, a queue that may go away, leases that outlive their page | `GivenUpIsTold`, `BatchEnds` |

One item suffices for what two pages do to it; the chain from page to page needs two. `HardStop` in `batch_ends` is the
platform's: an invocation lasts at most 300 s (`maxDuration`), and a planning lease of 5 minutes starts after it.
`Patient` lets maintenance restage only when no message is on its way, which keeps the number of plan rows within
`MaxPlans` (4: the first row, the continuation, and a recovery for each of the two faults); without it the code
restages more often, to the same effect. `MessageExpires` is the retention of 24 hours. A queue that is switched off, an
overrun lease and an invocation left behind count as faults. Assumed fair: pages, deliveries, the flush, maintenance,
expiry, and the claim of a job; strong fairness of `JobEnds`, since a job that is retried has attempts left only so often
(proved as `AttemptsBounded`). `JobFails` is one of its ways, so no run's transition is assumed to happen.

**Proved** (`AnalysisBatchesProofs`), for any batch, page size, pages and bounds (so also two items under leases that
end early, which is beyond TLC here): `BatchKept` and `GivenUpAfterTold`. `RunsEnd` needs `GameOK`: an active job has an
active run, and a queued one a queued run unless the run was moved late; each action of a job is shown to keep it
(`GamesStep`), beside what it does to the items (`ItemsStep`). `Inv` adds to the properties `PageOK` (what a
page knows of the item it works on while it has the planning token, and what it has done when it has lost it),
`CancellerOK`, `LinksOK` (a linked item names a run that exists) and `AbsentOK` (before the batch exists nothing of it
does). `RunsMatchItems` is not inductive without `PageOK`: a page that has created a run and not yet linked it still
holds its token, or the transaction that links it fails.

## 6. Synchronisation: `ProviderSync`

One user and one provider. A sync job is claimed under a lease, imports one batch of games, newest first, and in
the same transaction moves a cursor (the window has more) or the watermark `lastSyncedPlayedAt` (it is complete).

| Variable | Stands for |
|---|---|
| `now`, `visible` | time, and the games that the provider shows: each within `Delay` of being played |
| `saved` | imported games |
| `conn`, `policy` | the linked account and the import rules (`importPolicyHash`) |
| `state` | `ProviderSyncState`: identity, rules, watermark, cursor |
| `job` | the newest `SyncJob`; a unique index allows one active job, and every update of an older one is fenced off by its token |
| `worker[w]` | an invocation of `processSyncJob`; `holder` in the job is its lease token |

`Relink` and `SetPolicy` are the two requests that reset the state, at any moment; `PlanNew` and `RecoverExpired`
are planning; `Claim`, `Load`, `Prepare`, `AssertLinked`, `Reset`, `Fetch`, `Commit`, `CommitPartly`,
`CommitRejected` and `Finish` are an invocation, with one action for each transaction or request; `LeaseOverrun`
and `Heartbeat` are a lease that lapses under a running invocation and comes back. A batch stands for the pages
that one fetch collects; the window is Lichess's (Chess.com's reaches further back). The lookback and the cap of
the first synchronisation are larger than the model. The last error, counters, notifications and ETags are left
out; so is `syncLinkedAccounts`, which nothing calls.

Run `sync`: 3 games of 2 accounts, of which the rules import one and, after a change, all; batches of 2, an overlap
of 1, 3 moments, 2 invocations, 2 attempts, 1 change, 1 fault. Three games and batches of 2 make a window of two
batches; three moments are the least in which a game lies behind the overlap; two invocations are a stale and a
current one. `SyncHolds`: types; the watermark hides no wanted game (`WatermarkIsTrue`); no game of another account is
imported after a relink (`ImportsAreLinked`; the link and the state are both compared, and either would do); a watermark
never goes back (`WatermarkAdvances`). `CatchesUp` and `JobsEnd` are liveness. Fairness: planning (the daily cron,
which covers accounts whose rules import something), claims (the queue's wakeup, or the cron's pass over due jobs),
every statement of an invocation, expiry and backoff. The heartbeat, the user, time and the provider are not assumed
fair.

**Proved** (`ProviderSyncProofs`): `SyncKept`, for any accounts, rules, games, workers and bounds. `SyncAssumption` has
the one hypothesis that matters, `Delay <= Overlap` (`LICHESS_CURSOR_OVERLAP_MS`): a provider that shows a game more
than 24 hours late would have it skipped. The invariant says what a window has brought by `Covered`, of an account,
rules and bounds alone: each game that the window's end obliges (`Due`) is saved or still inside of what is left of it.
So it stays true of an invocation while the account, the rules, the state and the lease change under it, and
`StateOK` can take it over when the window is committed. `FenceOK` is what the lease adds: the window of its holder
ends at the watermark or later, because only a holder moves it (`Advances`). `AttemptsOK` bounds the attempts: those
beyond the limit are claims of expired leases, each after a fault (`IdleHolder`: a holder that goes idle with its job
running has crashed).

## 7. From games to positions: extraction and verification

`TrainingExtraction` is the pass of `extractTrainingMoments.ts` over the plies of one game. `slice` is what the
running extraction holds (next ply, receipts, moments, decisions that a lookahead has taken (`owned`), errors),
`checkpoint` what the last invocation that yielded saved, `manifest` the outcome. `Start`, `Yield` and `Crash` are the
slices of the server; `NotComparable`, `NoMistake`, `UserMistake`, `Punished`, `Missed` and `ReplayStops` are what can
happen at a ply, each with the receipts it leaves; `Finish` rebuilds the receipts from the moments. The engine
answers anything: a confirmation ends with one of `Evidence`, computed by the code's own rules (`ConfirmAdaptively`) from
any sequence of passes, and a position has one of `Verdict`. In the run: 4 plies, of which the user has two, 2 passes
and 4 losses on both sides of every threshold.

`GameIsDecided` conjoins: a decision is confirmed once, whichever ply finds it, across checkpoints (`DecidedOnce`); a
manifest that says complete leaves no decision open (`CompleteIsDecided`); receipts pass their own schema, and say
`SAVED` of exactly the decisions with a trainable moment, never of a forced one (`ReceiptsAreTrue`); the moments of a
finished game pass the upload's validation, with one moment for each decision and its sources, and every moment matches
its source (`UploadIsValid`: `ValidUpload`, `MatchesSource`).

**Proved** (`TrainingExtractionProofs`): `GameDecided`, for games of any length, any losses and thresholds, and any
answers of the engine. The properties are of the last slice, and none is inductive: a checkpoint that forgot a
lookahead's decision would break the first one invocation later. `Inv` therefore says of the running slice and of
the checkpoint, ply by ply (`PlyOK`): ahead of the pass nothing is confirmed unless a lookahead owns it; behind it every
receipt is settled or its ply is an error; a receipt passes its schema, and a moment has a confirmed one. A handler
passes a ply with at most one receipt replaced (`Reached`, `Passed`) or with one confirmation (`Decided`,
`PassedDecided`); `EvidenceTrue` says what an adaptive confirmation can end with, and `RebuiltTrue` takes `PlyOK` to the
receipts of the finished game. `StoreValid` keeps one moment for each decision when a second source finds it.

`ContinuationVerifier` is `continuationVerifier.ts`: the breadth-first search below a position. `pending` holds the
positions still to build, `at` the one under analysis, `nodes` the tree. Rules, depth, budget and tablebase end a
branch; the engine's lines are expanded and confirmed until the frontier of accepted moves is closed
(`AcceptanceFrontier`, the pure rules of a frontier; `TrainingMoments`, what becomes of a tree: the moment, and the checks
its upload and its storage make of it). `MomentsAreSound`: a verified tree has no node that a budget cut, that failed or that left
alternatives open (`VerifiedIsClosed`); every moment of a settled root passes the assertions of its storage
(`MomentsPersist`; a root that the rules have ended does not, section 12), and a trainable one the validation of an
upload, which reads the tree and not the extractor's conclusions (`TrainableUploads`). In the run: 2 plies, 2 positions, up to 3
legal moves and 3 losses around the thresholds; that is the least with an accepted, a rejected and an undecided move.

## 8. Practice

`PracticeSession` is the hook that lets a user solve a position (`lib/training/usePracticeSession.ts` and the grading
beside it): a `generation` for each activation, and `tasks` that were awaited and go on later, for this activation or a
former one. `SessionHolds`: a position is completed at most once and an attempt id names one
line (`CompletesOnce`), and the service records every line of a closed tree with the grade that was shown, but for
those of section 12 (`ShownIsRecorded`). `PracticeFeed` is the feed: pages of the service under a cursor (`ServePage`), and the
browser's buffer with requests that are given up and answered late. `FeedHolds`: a feed shows only positions of its
focus, none twice (`FeedIsPure`); one that ends has come to every position that was due or new when it started and has
not changed since (`FeedIsComplete`); an empty page moves the cursor, so that asking on ends (`EmptyPagesMove`). `PracticeRecords` is the outbox of results in the storage of all
tabs, the service that records them idempotently, and the review schedule under re-analyses. `RecordsHold`: a graded result is being written, in the outbox or at the
service, unless the user dismissed it, was told that the outbox is full, or left the page during its first write
(`NoResultLost`); every recorded attempt is counted once (`ReviewsCountAttempts`), and against the revision that is
current when it commits (`RecordedAgainstCurrent`).

**Proved** (`TrainingExtractionProofs`): `SessionKept` is `SessionHolds` for lines of any length, any number of
positions and any overlap of searches and presentations, from no assumption on the constants. What went on during an
`await` belongs to this activation or to a former one, and a generation only grows: the open position has one task while
a move is submitted and none otherwise (`TasksKept`), and what was completed belongs to earlier positions or to one that
is over (`CompletedKept`). In a closed tree the recorded steps are, at every `await`, a line that the opponent has
answered, or one that has ended (`LineKept`); `LineAppended` and `LineAnswered` say what one more move makes of it.

Run `training` checks sections 7 and 8. Two tabs and a queue of one entry show the limit of the queue and two flushes
of one entry; one tab and a queue of two (`Alone`) the order inside of a queue. Run `lines` is a disagreement (section
12).

## 9. Services

| Module | State | What its property says |
|---|---|---|
| `EmailReservations` | rows of deliveries with their tokens, invocations, reservations in order, the day's budget, what the provider accepted | `MailHolds`: an e-mail is accepted once, and one practice e-mail of a day, although the provider knows no idempotency key (`MailedOnce`); the day's counters are the reservations that hold a slot (`BudgetIsTrue`); what the provider told is not overwritten by a late invocation or event (`StatusNeverBack`) |
| `PracticeDueSweep` | sweep of each day with its cursor, totals, published keys, handlers | `DueIsTold`: a complete sweep has told each learner of every position that stayed due, and of none twice, through messages that are repeated, concurrent or cut short |
| `StripeBilling` | contracts, sessions and events at Stripe, event rows, account, checkout requests, handlers | `StripeHolds`: when every event was handled the account is what the contract says (`AccountConverges`, with the two exceptions of section 12), and a request opens no second checkout page beside one that is open, but where an event has dropped the reservation of that one (`OnePageOpen`) |
| `HistoryImport` | library, allowance, fetch lease, a dialog for each device | `HistoryHolds`: the allowance counts the games that the import created (`AllowanceIsTrue`); a traversal that came to the end passed no game: each is in the library, on the page, or was left by a user who was asked (`HistoryIsComplete`) |
| `AutoAnalysisBacklog` | rules, allowance, jobs, messages, invocations | `BacklogHolds`: what was turned off is not started by a wake-up that read the old policy (`OffIsOff`); while nothing is lost, no game that can be paid for waits for the next day's cron (`NoneForgotten`) |
| `PremiumInvitations` | invitations with generations, send attempts, receipts of commands, grants | `InvitationsHold`: `SENT` is true of the present generation and attempt (`SentIsTrue`), no attempt mails twice (`InvitedOnce`), a link that may be under way is not made worthless (`LinksHold`), access follows from the acceptance of the one open invitation alone (`GrantsFollow`) |
| `WeeklyMaster` | runs with leases, workers, candidates, publications, the slot | `PuzzleHolds`: a receipt proves that the snapshot's candidates were stored (`AnalysedIsKept`), the slot names what is current and what was before (`SlotIsTrue`), and the landing page shows the last publication while that is good (has its source, is not withdrawn, not too old) and no editor has pinned another or forced the fallback, and some puzzle while the one before is good, unless what is preferred is only too old (`LandingHolds`) |

Run `services` checks them, most of them in a second instance: days of a delivery that is dispatched again (`LongMail`),
two e-mails of one worker (`PaidMail`), a learner who reviews meanwhile (`Reviewing`), a sweep that the next cron resumes
(`Resumed`), two events of one contract (`TwoEvents`), a page that an event leaves open (`LeftOpen`), an import that fails (`Broken`), a sweep over two players (`Swept`),
two requests that deliver one invitation (`TwoPostmen`), two workers of one run (`TwoMasters`), editors meanwhile
(`Edited`). Their bounds are the least with two actors at every race: two workers or handlers, two attempts, one repeated
message. Where two dimensions at once are beyond TLC, each has an instance of its own. Nothing here is liveness and no
fairness is assumed.

**Proved** (`ServicesProofs`): `MailKept`, that is `MailHolds` for any deliveries, workers, days and limits. Neither
part is inductive by itself. For `MailedOnce`, `MailsBacked` says that every mail the provider accepted has a
reservation in state `HANDOFF`, `SENT` or `AMBIGUOUS`, and that no invocation is left which could still release it;
`AttemptsOK` that an invocation between its claim and its answer owns the row it named, alone; `HeldOnce` that two
reservations that are not released differ in their delivery and their practice window, which is what a claim looks at
under its lock. A lease that runs out releases only `RESERVED` rows, so evidence of a hand-over outlives its owner. For
`BudgetIsTrue` a slot is taken with its row (`AddedSlot`) and given back only with a row that is still held
(`FreedSlots`). A status is kept because an invocation writes only a row it still owns, which no event has touched
since (`EndRank`), and an event writes only upwards (`WebhookRow`).

`InvitationsKept` is `InvitationsHold` for any number of invitations, requests and repeated commands. `PremiumInv` adds
to `InvitedOnce` and `GrantsFollow` that an attempt belongs to one invitation (`OneInvitation`); that an attempt which has
mailed is `HANDOFF`, `SENT` or `AMBIGUOUS`, and the request that is about to send holds one, alone, that has not mailed
(`SendsTrue`, without which `InvitedOnce` is not inductive); and that a generation is replaced or shown as sent only when
its delivery is known to have succeeded (`GenerationsKnown`, from which `SentIsTrue` and `LinksHold` follow).

`HistoryKept` is `HistoryHolds` for any history, devices, page and chunk sizes. `HistoryInv` says for every dialog that
the games its cursor has behind it (`PassedBy`) are in the library, on its page, or were left by a user who was asked
(`DialogOK`), and the proof follows one page: what a source shows first is what was played last (`ForemostOf`), the next
cursor begins where the page ended even when several games share an instant (`PageBehind`), and a page without a next
cursor that was not cut is the rest of the history (`PageComplete`).

`StripeKept` is `StripeHolds` for any tabs, handlers, contracts and events. For `AccountConverges` the invariant
compares what a handler has read with what has happened since: a status that is no longer the contract's belongs to an
event that a later one of the same contract follows (`HookKept`, and `AccountKept` for the account), and an event is
marked done only when the account has taken it last, or one of the same or a later second, or it is a deletion
(`Handled`). Events carry the second that Stripe dates them with, and the account compares seconds, strictly
(`StaleEvent`). For `OnePageOpen` a
session is attached to its own reservation and offered then, and a reservation that is over has no open page
(`ReservationKept`, `TabKept`); so no request forgets an open page, and an applied event at most one (`OneForgotten`; `writes` counts them).
The first form of `OnePageOpen`, that there is never more than one open page, was true within the bounds of the run
and is false of the code: the search for the invariant showed the page that an event leaves behind (section 12).

`DueTold` (in `TrainingExtractionProofs`) is `DueIsTold` for any users, review states, handlers and days, and slices and
pages of any size. `SweepInv` says what a sweep knows while it is under way. What stays due is owed and, once the sweep
has scanned, lies behind its cursor (`OwedKept`); a total lies between the owed positions behind the cursor that nobody
has reviewed and all of them (`TotalsKept`), because a slice lies behind the cursor and skips nothing that is due
(`SliceOf`, `SliceCounts`) whatever message it was sent for; what a user has been told is the total, and totals only move
before anybody is told (`ToldKept`); and a message that continues behind a user, in the queue, published or in a
handler's hands, says that everybody before was told (`MessageKept`, `PageTold`). That is stable, since nothing a step
does is taken back (`Steady`): so a message may be repeated, handled twice at the same time or given up.

`PuzzleKept` is `PuzzleHolds` for any candidates, workers, runs, weeks and editors. Who writes a receipt has stored the
candidate before, in the same shift (`ShiftOK`), and a candidate that was stored stays so (`CandidatesGrow`). The slot is
the last publication and the one before (`SlotKept`), because the transaction that publishes moves both; `LandingHolds`
follows from it, and from the order in which pins, the forced fallback and the age limit are looked at (`Preferred`,
`Selected`, `ShownPuzzle`).

`BacklogKept` (in `BillingAccountsProofs`) is `BacklogHolds` for any players, games, classes, scans, pages of the sweep,
plans and orders of messages. `NoneForgotten` says that some message or job will wake the player; that is not inductive,
since a wake-up may belong to a scan that is already behind the game. `PromisesKept` is: a game that is on automatic,
could be paid for and has no job is *ahead* of what is under way. A scan starts before it, or a handler has picked a
game to queue (`Scans`); or a sweep has yet to come to its player (`Sweeps`); or a job of the player is not over, or is
over and its delivery has still to announce it (`EndComes`). Each step passes that on: a scan that finds nothing goes on
behind the last game it saw, which is before the first it did not see (`LowestKept`, `BehindScanIs`), unless a job of the
player is under way, whose end will wake the player; what changes the policy, the plan or the library, and what gives a
credit back, starts the scan over (`StartedOver`). The promise is void once something was lost, as the property says.

## 10. The browser's engines and its analysis

| Module | State | What its property says |
|---|---|---|
| `EngineBridge` | the client's calls, messages, the worker with its job, queue, watchdog and engines | `EngineHolds`: a best move answers the search it belongs to, although UCI does not name it (`AnswersAreOwn`), unless an engine whose start-up ended after the watchdog had given it up is still heard; and when nothing moves any more every call has been answered without the client's own timeouts, but for an engine that fails to start or crashes, and a stream that stopped itself and was dropped (`AllAnswered`) |
| `ServerEngine` | the chain of searches, the one under way, watchdog, child processes | `AnalysesAreOwn`: an analysis is of the position that was asked for, though a stopped search may still end after the next one was asked for |
| `BackgroundAnalysis` | cookie, manager, runs, what was saved | `TabHolds`: a run saves for the account it was started for, whoever is signed in (`SavedAnalysesAreOwn`), a stored completion accounts for every game of its run (`CompletionIsTrue`), a run that is given up leaves no engine, unless it was reading a game then (`EnginesEnd`) |
| `ServerRequests` | the tracked requests that tabs share, batches, calls under way | `RequestsHold`: the user hears of every batch that the service made (`NoneUntold`), and asking again makes no second one (`AskedOnce`) |

`EngineBridge` keeps three facts as history, which say when the code does not keep its promise (section 12): `late`, a
start-up ended after it had been given up; `strayed`, a job heard a line of an engine that is not the worker's any more;
`dropped`, the jobs that had stopped themselves and were stopped by force. `AnswersAreOwn` is that answers are right
without stray lines, and that lines stray only where a start-up came late.

## 11. The coach and the pages

| Module | State | What its property says |
|---|---|---|
| `CoachGame` | phase, game, generation, asynchronous steps, store operations, the stored snapshot | `CoachHolds`: the game is on the device until it is accepted or discarded, but for one begun while the game before was still being saved (`KeptOnDevice`), what the coach knows is of the position on the board (`DecisionsAreOwn`), in a phase that the player cannot leave a step is under way (`SomeoneWorks`), `assertCoachPhaseTransition` never throws (`LegalPhases`) |
| `CoachSignOut` | session, tabs, events on their way, operations, checkpoint, tombstone | `SignedOutIsCleared`: after a finished sign-out no checkpoint comes back before the next sign-in, whatever other tabs save, unless a tab that was told of the ended session mounts its game only then (`stale`) |
| `MaiaOpponent` | clients with their workers, model, runtime cache, removal | `MaiaIsSound`: what was stored before a removal is not found after it (`RemovedStaysRemoved`), nobody waits for a worker that is not there (`WaitersAreServed`), no worker outlives its client (`NoOrphanWorker`), moves come from a verified model and what is called ready is stored (`ReadinessIsTrue`) |
| `AnalysisWorkspace` | tree, drafts, live engine | `WorkspaceHolds`: the draft of a tree is accepted and is the tree (`TreeIsSound`), *saved* means saved (`SavedIsTrue`), a restored tree is as it was left (`RestoredAsLeft`), live lines are of the position shown (`LiveIsTrue`) |
| `SyncMonitor` | jobs, requests, monitor, feedback, status reads | `SyncIsTold`: a page that says it is synchronising has something that will end it, unless its owner has left meanwhile (`NoneStuck`), what it says of the end is so of every job (`FeedbackIsTrue`), and no older status replaces a newer one (`StatusIsNewest`) |
| `Preferences` | sessions, cards, saves, the stored document, games | `PreferencesHold`: what is stored for an account was chosen on a page of that account (`OwnsWrites`), a save of one section never undoes another (`SectionsKept`), no game that came while the automation was off is paid for (`BoundaryIsFresh`), and the boundary is there when needed (`BoundaryIsSet`) |

Run `browser` checks sections 10 and 11, with second instances for crashes (`Crashing`), engines that are replaced while
they start (`Replacing`), a choice of moves (`Choosing`),
longer games and a lost answer (`LongGame`), two tabs that share a model (`TwoTabs`), drafts of two positions
(`TwoDrafts`), the live engine (`Calling`), a workspace opened again (`Reopened`), failures and two owners in turn of the
sync page (`Failing`, `Succeeding`), and one account with games or edits (`WithGames`, `WithEdits`). Two tabs, two accounts or
two games are the least with a stale actor; one fault strikes anywhere. No fairness is assumed: what must eventually
happen is stated as what is not lost (`SomeoneWorks`, `AllAnswered`, `NoneUntold`, `NoneStuck`).

**Proved** (`BrowserProofs`), for any pages, accounts, games, requests, providers and analyses, and without the bounds:

- `TabKept` is `TabHolds`. `CompletionIsTrue` compares counters of a run with the set of saved results, neither of which
  determines the other: `RunOK` says of the active run that each of its games is done with, in hand or in the queue
  (`Counts`), and of every run that it has saved at least what it counted and the answer it has not counted yet
  (`Uncounted`), and saved nothing beyond the attempts it made. Games that are asked for while a run works are appended
  to its queue, so the proof adds lengths of sequences and cardinalities of sets (`TakenIs`, `OneMoreSaved`).
- `RequestsKept` is `RequestsHold`. `NoneUntold` follows from `AskedKept`: what was asked for is tracked, told or
  refused, and nobody knows of a request that was not asked for.
- `CoachCleared` is `SignedOutIsCleared`, from no hypothesis. The operations of all tabs are served in the order of their
  sign-outs (`OrderOK`); when a sign-out has been served, what waits was asked for while the block stood, and none of it
  lifts the block (`ClearedOK`) but what a tab asked for on a stale answer, which `stale` remembers. A request of a closed tab stays in the order as `gone` and does nothing.
- `ImportsTold` is `SyncIsTold`. Jobs only advance (`JobsAdvance`), so what is said of the end of jobs stays so; what an
  answer names are jobs of the account that asked (`ResultOK`), and what a status read was served is not older than what
  is shown (`StatusOK`). An owner may leave and return: what was said before is then marked `left`.
- `PreferencesKept` is `PreferencesHold`. A save keeps the document that it read and the number of the row's last
  write (`SaveOK`): only while nobody else has written is what it merges its section into the stored document. With the
  scope *new* the boundary is set, and behind it no game came while the automation was off (`StoredOK`).
- `AnalysesOwn` is `AnalysesAreOwn`, for any analyses, processes and deaths. A line of the process does not say which
  search it ends, so the invariant says where the only search is: its command is on the way, it is under way, or its
  best move is on the way back, in the process of `enginePromise` and in no other (`RowKept`, `ProcessKept`). Who waits
  for *readyok* has waited for the search before (`TurnKept`): a search goes to a process without one. A process that
  does not answer a stop is replaced together with its search; without that (`KeepProcess`) the next search would be
  ended by the best move of the last.
- `MaiaKept` is `MaiaIsSound`, for any tabs, removals, faults and corruptions, from no assumption. A removal is of all
  clients of its tab, and each of them is terminated (`RemovalOK`): none has a worker, so none stores a model, and one
  that is still putting the worker's file puts it into a cache that the removal deletes (`cache # cacheNumber`): the
  proof does not use that the removal waits for the last client's preparation, and it does not wait for earlier ones. A client that is ready is idle and has verified its
  model (`ClientOK`), and what it knows of the store is so until something is deleted (`KnowsTrue`).

## 12. What the code does not keep

One disagreement is a run: `lines`. The browser ends a line when the opponent's reply leads to a terminal node, and
sends the user's move as the last step; `canonicalizeRecordedLine` (`attemptService.ts:557`) stands on the opponent's
node in front of that reply and refuses the record, against `docs/personal-mistake-trainer-v2.md:226`. With the default
`verificationMaxPlies` every accepted move that does not end the game is such a line.

Others are definitions that TLC refutes, kept in their modules without a run:

- `FailedJobFailsRun` (`AnalysisJobsMC`): `markAnalysisJobFailed` (`analysisJobs.ts:516`) moves a run only where it
  is `RUNNING`; a last attempt that fails before `transitionAnalysisRunForJob` leaves the run `QUEUED` under a
  `FAILED` job, and reconciliation, which looks at finished runs, never settles its reservation if the release is lost
  (doc line 190). Such a run also keeps its batch open (`analysisBatches.ts:448`), and so does one that a lost
  invocation has put back to `RUNNING` (next item): these are the exceptions of `BatchEnds` and `EndIsTrue`.
- `FinishedRunStays`: `transitionAnalysisRunForJob` (`analysisJobs.ts:932`) is not fenced; an invocation that lost its
  lease sets a finished run back to `RUNNING` (doc line 186).
- `DeletionSettles`: a deletion (`gameDeletion.ts:97`) settles the sum of what all runs of the job hold under the key
  of the current run; when that key exists the older reservation remains, and its rows are gone.
- `ChargedOnSuccess`: if the release of an already analysed game and its record both fail, the outer handler
  (`serverAnalysis.ts:282`) records `consume`, and reconciliation charges a run that wrote nothing. `SuccessIsCharged`: a
  late record of an earlier run (`serverAnalysis.ts:485`) makes a deletion release a run that succeeded.
- `UsageWithinLimit` (`BillingAccounts`): a smaller plan in the middle of a period lowers the limit below what was used,
  and the account is right; `scripts/reconcile-credit-ledger.mjs` reports it as an anomaly.
- `EveryMomentPersists` (`ContinuationVerifier`): a root that the rules have ended gives a verified moment with an empty
  frontier; `persistence.ts` refuses it and with it the whole analysis, and so does the browser's upload
  (`games/[id]/analysis/route.ts:303`).
- `FinishedIsKept` (`CoachGame`): a rematch begun while the finished game is being saved loses that game
  (`CoachGame.tsx:1560`, against the text at `:2103`).
- `ExcludedStaysOut`, `WeeklyPuzzle` (`WeeklyMaster`): a repeated analysis makes an excluded candidate eligible again;
  two active runs can publish in one week.

Some are exceptions that a checked property names, each of which TLC needs:

- `AccountConverges` (`StripeBilling`): of two events of one second both are applied, in the order in which they are
  handled (`stripeBilling.ts:599`), so the older read may be the last; and a deletion that is handled before the first
  event of its contract can be overwritten by a handler that read `active`.
- `LandingHolds` (`WeeklyMaster`): what is preferred and fit, but too old, is not replaced by the fallback
  (`publication.ts:403`); a forced fallback that is unfit hides the good current puzzle (`:371`).
- `AnswersAreOwn` (`EngineBridge`): the watchdog does not terminate an engine that still starts. Its start-up ends late
  and replaces the newer engine; the job hears both, and a late best move may finish the next one, against the comment
  at `backranq-engine.worker.js:297`. `AllAnswered`: a stream that stopped itself (`:536`) and is then stopped by force
  (`:306`) gets no answer but the client's timeout.
- `EnginesEnd` (`BackgroundAnalysis`): a run given up while it reads a game makes its engine after the only cleanup
  (`backgroundAnalysisManager.ts:571`, `:582`, `:524`).
- `KeptOnDevice` (`CoachGame`): the end of a save clears the checkpoint of whatever game is played by then
  (`CoachGame.tsx:1558`), and marks it *saved*, until its next turn is stored.
- `SignedOutIsCleared` (`CoachSignOut`): a tab that mounts its game on an answer about a session that has ended removes
  the tombstone (`CoachOnlineShell.tsx:20`, `sessionStore.ts:193`), and may save again.
- `NoneStuck` (`SyncMonitor`): *Syncing* stays, and hides *Sync now*, when an owner returns whose monitor was aborted
  (`SyncGamesWidget.tsx:397`, `:421`). After a failed read the status kept of another account is shown under the new
  owner's name until it is read again (`:275`).

Seen while modelling, and left to the reader of the code:

- *Analysis.* Re-analysis with other scores fails the identity check of stored moments (`personal-mistake-trainer-v2.md:118`
  says otherwise). `enqueueAnalysisJob` re-checks only `rules.enabled` in its transaction. A scheduled continuation of a
  sweep that is not published waits for the daily cron. A period that Stripe extends without moving its start is not seen
  (`billingAccounts.ts:528`).
- *Practice.* A write in flight when the owner changes is aborted and not queued; a flush that meets a 5xx leaves
  entries pending until the next trigger; a retried feed ends no exposure.
- *Notifications.* The key of the next sweep repeats when the head of a channel stays unclaimed.
- *Stripe.* A session paid at the end of its reservation lets a second one be paid; and an event of the one contract
  drops the reservation of the other page without closing it (`stripeBilling.ts:555`), after which a third can be
  opened beside it (`LeftOpen`).
- *History.* A chunk that throws loses the identifiers of the chunks before it (`SyncGamesModal.tsx`, `saveStep`). A page
  that is asked for with a spent allowance is answered as if the source had no more (`historyImport.ts:1059`); the model
  marks it as cut, since nothing was looked at.
- *Premium and master.* Under READ COMMITTED an account with access can be invited again; a run left `RUNNING` when its
  message expires stops the pipeline; a requeued run has the idempotency key of the first; an exclusion is not
  re-checked at publication.
- *Engines and requests.* A failed start-up of the next job is swallowed. A failed post can be created by
  another tab's poll; a refused request stays *confirming* for up to 24 hours.
- *Coach.* The error path of a resume checks no generation; a resumed turn uses an older list of mistakes; a saved game
  whose answer was lost is not analysed from there. A tab closed between revocation and cleanup leaves the checkpoint.
  Maia: a blocked deletion reported as failed is carried out later; a second worker removes a good model; tabs of two
  releases remove each other's.
- *Pages.* A restored draft keeps the earlier seeds; *Saving locally…* stays after a step that changes nothing; edits
  of the last 400 ms before an unmount are not saved; an unreadable draft is overwritten; the last of two tabs wins.
  After a worker error *Run again* may start on a dead client. A refresh of the status cancels a request that is not
  repeated.

## 13. Proved, checked, and not modelled

What is proved is listed under `theorems` of `PROJECT.json`; every proof is checked to its last leaf, from the named
assumptions of the constants alone:

| Assumption | Says |
|---|---|
| `ConstantsAssumption`, `ReasonsAssumption` (`AnalysisJobs`) | finitely many games; `None` is no run and no game; a job has an attempt; the reasons are the application's |
| `BillingAssumption` | finitely many runs; `FREE` is a plan and every plan has a limit; a month passes; `NoPeriod` is no period |
| `OutboxAssumption` | finitely many rows and flushes; a row has an attempt; `NoRow` is no row |
| `BatchAssumption` | finitely many pages; `None` and `gone` are no pages; a batch has an item and a page room for one |
| `SyncAssumption` | finitely many games and workers; a job has an attempt; every game has an owner and a date, every policy what it wants; the provider shows a game with a delay within `Overlap` |
| `PeopleAssumption` (`Preferences`) | the page is first opened by a person; `NoAccount` is nobody |
| `AnalysesAssumption` (`ServerEngine`) | `NoAnalysis` is no analysis |
| `SelectionsAssumption` (`ServerRequests`) | `NotAsked` is no selection of games |
| `GamesAssumption` (`BackgroundAnalysis`) | finitely many games, each of an account |
| `ProvidersAssumption`, `OwnersAssumption` (`SyncMonitor`) | finitely many providers, some of which are synchronised automatically; the accounts of the page are numbered |
| `MailAssumption` (`EmailReservations`) | the day's limit is positive and the reserved part within it (`emailReservations.ts:528`); there is a day |
| `HistoryAssumption` (`HistoryImport`) | games are listed from the newest to the oldest; a page has room for one; `NoCursorLeft` is no cursor |
| `StripeAssumption` (`StripeBilling`) | the bound on reservations is a number |
| `BacklogAssumption` (`AutoAnalysisBacklog`) | players and games are finitely many and numbered, and a game is of one player; a scan and a page of the sweep have room for one |
| `MasterAssumption` (`WeeklyMaster`) | the candidates are finitely many and numbered |
| `SweepAssumption` (`PracticeDueSweep`) | users and review states are finitely many and numbered; a page has room for one; `NoMessage` is no message |
| `ExtractionAssumption`, `EvidenceAssumption` (`TrainingExtraction`) | plies, losses and thresholds are numbers; `NoEvidence` is no result of a confirmation |

Only `Delay <= Overlap` is about the world rather than about types: it is what the start of a window relies on
(`autoSync.ts:119`), and `WatermarkIsTrue` is false without it. No theorem has a hypothesis besides.

Only model-checked: everything under fairness (`JobsSettle`, `BatchEnds`, `CatchesUp`, `JobsEnd`, the fairness half of
`MailboxKept`), which is beyond the prover; and, for which there is no proof yet, the verifier (`MomentsAreSound`), the
feed and the records of practice (`FeedHolds`, `RecordsHold`), `EngineHolds`, `CoachHolds` and `WorkspaceHolds`.

Not modelled:

- *Chess*: the search of Stockfish and Maia, rules, PGN, positions; what the engines answer is any answer.
- *Read models* (`lib/progress`, activity lists, summaries): sums over stored rows without state.
- *Other services*: HTTP, parsing of their answers, authentication, rendering, configuration, development scripts.
- The isolation of the database is taken at its word: a serializable transaction is one step, and so is a transaction
  under an advisory lock or with a compare-and-swap as its only condition.
- A browser without storage for the outbox of results, of which the user is told (`usePracticeFeed.ts:856`).
- Numbers of bytes, retention by age, wording, and the limits named in the notes of `PROJECT.json`.
