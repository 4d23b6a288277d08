# zmodel: verification of leases, tasks, charges and clients

zmodel is a gateway in front of many AI providers: it relays requests, meters them and
charges a user's wallet or subscription and the token the request came with. Several
gateway processes ("nodes") run against one database. This directory holds TLA+ modules
for the parts of it where correctness depends on what several processes do between two
database statements, and for the two clients in the repository whose correctness depends on
the order of callbacks (the desktop application and the chat playground); TLC configurations
that check them on small instances; and TLAPS proofs of what holds for any number of nodes,
workers, tasks and requests.

Paths below are relative to `src/`.

Contents

1. The system and its parts
2. Modules and how they correspond to the code
3. What the runs check
4. Bounds, symmetry, fairness
5. Proofs
6. Disagreements between code and documentation
7. What is not modelled, and the plan

## 1. The system and its parts

The database is the only thing nodes share for certain (Redis is an optional cache).
Most state changes are single SQL statements with a `WHERE` that says what the writer
expects (a compare-and-swap), or short transactions. Nothing holds a lock across an
upstream call. So the questions to ask of almost every component are the same: what was
read before the call, is it checked again when it is written, who bills, and what is left
when the process dies in between.

| Part | State | Operations | Talks to | What is hard | What makes it correct |
|---|---|---|---|---|---|
| System tasks (`model/system_task.go`, `service/system_task.go`) | `system_tasks`, `system_task_locks`; per node a loop and handler goroutines | enqueue, stale-lock pass, claim (select, insert or take over a lease, fail the old row, update), heartbeat, fenced writes, finish, release, shutdown | every background job below is a handler of it | leases that expire under a stalled node; clock readings used late; claims that die half-way | one handler per row; jobs of a type one at a time; final writes fenced by the lease; every job ends |
| Asynchronous images (`model/async_image.go`, `controller/async_image_worker.go`, `service/async_image_billing.go`) | `async_image_tasks` (status, output, billing, lease, attempts), user quota, subscription use, token quota; per worker the copy of a row | create with reservation, claim, mark running, call with channel retries, settle, refund, archive and retry, reset, expire | user, token and subscription tables in its transactions; storage; upstream | two workers on one row; worker dies between answer and settlement; quota that no longer covers the cost | billed once, quota conserved, no call for a finished row by whoever holds its lease, archiving ends |
| Asynchronous image administration (`controller/async_image_admin.go`) | storage objects, staged files | bulk retry, reset, cleanup | the rows above | reset racing the worker | a reset never damages an available output |
| Task polling (`service/task_polling.go`, `service/task_billing.go`, `model/task.go`, `relay/relay_task.go`) | `tasks` (status, progress, quota), charges; per pass the copy of each row | submit, timeout sweep, preparation, poll video, poll Suno, fail in bulk, refund, settle, look up | runs as a system task; requests look tasks up concurrently | whole rows written back seconds after they were read; billing after the row is final | one finisher per task, who bills it once; every task finishes |
| Midjourney polling (`controller/midjourney.go`, `model/midjourney.go`) | `midjourneys` | poll, fail, refund | system task | as task polling | as task polling |
| Billing session of a request (`service/billing_session.go`, `service/funding_source.go`, `service/billing.go`) | the request's pre-consumed amount, funding source, token | pre-consume with fall-back and rollback, settle, refund in a goroutine | batch updater, subscriptions | balances checked long before they are decreased; any statement may fail; refund after the request is gone | settled or refunded once, from one source and the token alike; nothing lost on the way |
| User and token quota (`model/utils.go`, `model/user.go`, `model/token.go`, caches) | balances in database and Redis; deltas in memory | increase, decrease, batch flush | all billing | deltas move between maps and database while more arrive; lost with the process; caches behind the database | balances equal the sum of what was applied |
| Subscriptions (`model/subscription.go`, `service/subscription_reset_task.go`) | plans, `amount_used`, pre-consume records by request id | pre-consume, refund, reset, expire, buy | billing session, asynchronous images | retries with one request id; a period that ends meanwhile | idempotent per request; use within the total |
| Video archive (`model/video_storage.go`, `controller/video_storage.go`, `service/video_staging.go`) | upload operations with lease and operation id, staged files | archive, retry, cleanup, delete | task polling (success), system task | an upload that outlives its lease | a stale operation writes nothing |
| Top-ups and redemption (`model/topup.go`, `model/redemption.go`) | orders, codes | complete, redeem | quota | callbacks delivered twice | credited once |
| Channel selection (`service/channel_select.go`, `model/channel_cache.go`, `service/channel_affinity.go`) | cached channels per group and model, affinity cache | pick by priority and weight, fall back across groups on retry | relay | cache reload while in use | a retry moves on to the next priority; only enabled channels are picked |
| Rate limiting (`middleware/model-rate-limit.go`, `common/limiter`) | windows and buckets in Redis or memory | check, count | relay | counting at the limit | never more than the limit per window |
| Instance heartbeat (`model/system_instance.go`) | a row per node | upsert | none | none | a row is its node's |
| Desktop shell (`electron/main.js`) | child process, windows, tray, dialogs, attempts to connect | start, check the port, show, hide, quit, report a crash | the gateway as a child process | callbacks in any order; a gateway that ignores SIGTERM, crashes or finds its port taken; a timeout that reports twice | takes its gateway down; exits when told; stays reachable |
| Playground (`web/default/src/features/playground`) | messages, requests, a buffer of chunks, localStorage | send, stream, stop, regenerate, edit, delete, save, load | the gateway's chat endpoint | late chunks and answers; timers; a page left half-way | answers are whole and their own; nothing stays pending |
| System settings forms (`web/default/src/features/system-settings`) | form values and baseline | edit, save, refetch | settings endpoint | values that arrive while the user types | input is not overwritten |
| Adaptors, billing expressions, other pages, routing, settings | none shared | translation, evaluation, presentation | all | none of a protocol kind | out of scope |

How they interact: a node's system-task loop claims a row (one per kind of job) and runs
its handler under a heartbeat. The handlers for asynchronous images and for task polling
are the *workers* and *passes* of the modules here. A lease keeps two of them from
running together only as long as it lasts: `runWithLeaseHeartbeat` cancels the context
of a handler that lost it, and much of the handler's code does not look at the context
between two statements. That is why `AsyncImage` and `TaskPolling` have several workers
and passes at once; `SystemTask` has the handlers whose lease went to another claim as
`superseded`. A relayed request is charged by a billing session inside its own goroutine,
without a lease; image tasks carry their charge on their row. Both meet in the subscription
and in the user's and token's balances. The desktop shell runs a gateway as its child and shows
its web front end, of which the playground is a page.

PROJECT.json lists these parts with their status, and under `hazards` each place where
such an interleaving, crash, stale copy or limit bites, with the properties that cover it.

## 2. Modules and how they correspond to the code

| Module | What it is |
|---|---|
| `SystemTask` | leased background jobs, one action per SQL statement |
| `AsyncImage` | asynchronous image tasks: row, lease, funds, workers |
| `ChargeLedger` | abstract: what billing promises, whoever does it |
| `TaskPolling` | video and music tasks: passes, billing, lookups |
| `BillingSession` | the charge of a relayed request, its refund, subscription records, the batch updater |
| `DesktopShell` | the desktop application: start-up, windows, dialogs, quitting, the child process |
| `Playground` | the chat page: requests, buffered chunks, conversation, storage |
| `MCSystemTask`, `MCAsyncImage`, `MCTaskPolling`, `MCBillingSession`, `MCDesktopShell`, `MCPlayground` | model values and symmetry for TLC; no definition of the system |
| `SystemTaskProofs`, `SystemTaskLeaseProofs`, `AsyncImageProofs`, `TaskPollingProofs`, `BillingSessionProofs`, `DesktopShellProofs`, `PlaygroundProofs` | theorems and their proofs |
| `SumTheorems` | lemmas on sums over finite sets, for the two conservation theorems |

`PROJECT.json` maps each definition that models code to its lines. Some properties are
about mutations of the code: operators such as `MayRunAnyway` before `MayRun` are what the
definition would be with a plausible mistake in it. They are used by nothing in the
specifications; replacing the definition by them makes TLC report the property violated.

### SystemTask

A row has `status`, `key` (the active key it was created with), `active` (whether
`active_key` is still set) and `rowOwner` (`locked_by`). A lease has `lockTask`,
`lockOwner` and `left`, the time until `locked_until`; there is one per type. A node's
loop has a program counter `pc` and the local variables of the functions it is in:
`todo` (pending rows it found), `stale` (expired leases it found), `cur`, `old`
(`existing.TaskID` of `acquireSystemTaskLock`). `handler[r][t]` is the goroutine of node r
for row t.

- `Enqueue` is the four ways to create a row; the unique index on `active_key` decides.
- `StaleRead`, `StaleMark`, `StaleDelete`, `StaleError`, `StaleDone` are
  `ExpireStaleSystemTaskLocks`: a `SELECT`, then per lease an `UPDATE` and a `DELETE`.
- `PickPending`, `ClaimSelect`, `LockInsert`, `LockInspect`, `LockSteal`, `ClaimMark`,
  `ClaimUpdate`, `ClaimUpdateMiss`, `ClaimRelease`, `ClaimPassDone` are
  `runSystemTaskClaimPass` with `ClaimSystemTask` and `acquireSystemTaskLock`.
- `RenewSystemTaskLock`, `HeartbeatLost`, `HandlerWriteLost`, `FinishSystemTask`,
  `HandlerRelease` are a handler under `runWithLeaseHeartbeat`.
- `LoopStops` (shutdown), `Crash` and `Tick` are the environment.

Time is relative. `left` goes down with `Tick`; `age` is how long ago the loop took the
clock reading it compares leases with, because the code reads the clock once and uses the
value in several statements. Nodes' clocks are taken to agree: the code compares readings
of different nodes without correction, and a skew would need a bound the code does not
state.

Two history variables carry properties: `superseded`, the handlers whose type's lease was
acquired again, and `lostClaim`, the types with a claim that outlived its lease (see the
run `system_task_abandoned`).

### AsyncImage and ChargeLedger

The variables are the columns of `async_image_tasks` that decide anything, the three
balances, and per worker what its goroutine for a row holds: `cand` (candidates selected
and not claimed yet), `pc`, `seen` (`archive_attempts` as read), `tries` (channel
retries). Time is two flags: `expired` for the lease and `due` for `next_attempt_at`.

- `CreateAsyncImageTaskWithReservation` with `Pays`: the transaction that reserves under a
  billing preference.
- `ClaimSelect`, `ClaimUpdate`, `ClaimRead`: `ClaimRunnableAsyncImageTasks`. The
  `UPDATE` checks the lease and the due time and not whether the row is still runnable.
- `ScheduleAsyncImageGenerationRetry`, `MarkAsyncImageTaskRunning`,
  `UpdateAsyncImageTaskWithLease` (the fenced write of the channel), `CallUpstream`, `CannotCall`, `RetryUpstream`, `UpstreamReturns`, `CompleteAsyncImageGeneration`,
  `CompleteWithArchiveFailure`, `RefundAsyncImageBilling`: `generateAsyncImageTask` and its
  transactions. A refused adjustment (`CanAdjust`) rolls the transaction back.
- `ReadSettled`, `MarkAsyncImageOutputAvailable`, `ScheduleAsyncImageArchiveRetry`,
  `FailAsyncImageArchive`: `archiveAsyncImageTask` reduced to the outcome of an attempt.
- `HandlerReturns`, `LeaseRunsOut`, the worker's death, `ResetAsyncImageArchiveForRetry`,
  `MarkExpiredAsyncImageTask`, `ResetSubscription`: the end of a run, a stall, an
  administrator, expiry, and a subscription period that ends meanwhile.

`ChargeLedger` says what is promised: a charge is reserved once, then settled once for the
actual cost or refunded once in full, no account goes below zero, and no other step moves
quota. `AsyncImage` maps onto it with `billing` as the stage, what each task has taken
from wallet, subscription and token as the holds, and what they have left as balances. A
quota period that ends sets `amount_used` to 0 outside of any charge: that is the ledger's
`Renew`, which only a renewable account has.

### TaskPolling

A row is its status, whether progress is "100%" and its quota. `paid` and `tokenPaid` are
what the funding source and the token have paid for the task so far. The history variables
`owed` and `tokenOwed` are what the row says beyond that since its submission, when the
settlement there failed; `booked` and `tokenBooked` are the sums. A pass has a stage,
and per task a program counter, the row as read (`snap`) and its copy (`copy`) with what
it is about to write.

- `RelayTask`: the task is charged what its first attempt was priced at, the charge is adjusted
  to the price of the attempt that succeeded (`SettledAt`), and the row is inserted with that
  price (`PREPARING` when a video input has to be prepared). Both errors are only logged: a
  settlement that fails leaves the charge, or the token's part, as it was; an insert that fails
  leaves a charge without a row.
- `sweepTimedOutTasks`, `ListUnfinished`, `PassEnds`: the parts of `RunTaskPollingOnce`.
- `updatePreparingVideoTask`, `FetchVideo`, `FetchSuno`: up to the write, with any answer
  the upstream may give. `ChannelGone`: the bulk update when the channel was deleted.
- `UpdateWithStatus` (video; `WHERE status = old`) and `Update` (Suno; no condition).
- `RefundTaskQuota`, `RefundToken`, `settleTaskBillingOnComplete`, `SettleToken`,
  `UpdateQuotaAndPrivateData`: billing, a statement each. For Suno the refund comes before
  the write.
- `StatementFails`, `Crash`: an error that is logged and passed over, and a node that dies.
- `videoFetchByID`, `tryRealtimeFetch`: a request that looks a Gemini or Vertex task up and
  writes the answer.

The constants `Suno`, `Realtime` and `Orphan` say which paths exist for a task. The paths
differ in what they guarantee, and the runs keep them apart to say which one breaks what.

What `TaskPolling` leaves out: `SUBMITTED` is treated like `QUEUED` everywhere and is not a
status of its own; rows from before the legacy cutoff, which the sweep handles apart, and
the limits of the three list queries are left out; a status the upstream of a Suno task names
freely is one of the listed ones; rows without an upstream id, which the
current submission never creates, are too. The video archive that runs inside a success
belongs to the video archive. A row's quota and status are what the billing reads.

### BillingSession

The balances are those of one user, token and subscription. `batch` says whether wallet and
token changes are written at once or kept as deltas in memory (`memWallet`, `memToken`), which
the updater takes out (`flushWallet`, `flushToken`) and applies. Per request there is a program
counter and the session's fields. `paid` is a history variable: what each account has given for
the request, wherever that is booked by now; `lost` says that a statement that corrects the
books failed for good or a pre-consumption was committed and not answered, `dropWallet` and `dropToken` what the updater could not apply.

- `PreConsumeBilling`, `tryWallet`, `trySubscription`, `shouldTrust`: the choice of a source by
  preference, and whether a rich user is trusted without a reservation.
- `CheckToken`, `TakeToken`, `FundWallet`, `FundSubscription`, `Rollback`, `FallsBack`,
  `Opened`: `preConsume`, a statement each, with the fall-back from one source to the other.
- `Settle`, `SettleToken`: `SettleBilling`. `Refund` decides (`needsRefundLocked`), then
  `RefundWallet` or `RefundSubscription` and `RefundToken` run in the goroutine, the
  subscription with up to three attempts (`AfterAttempt`). `RefundUnmarked` is an attempt whose
  delta was committed and whose record was not marked.
- `Panic`: a handler that panics; the deferred refund does not see an error.
- `TakeStores`, `ApplyToken`, `ApplyUser`: `batchUpdate`. `ResetSubscription`: a period ends.

Balances are checked and decreased without a condition, so they may become negative; the
properties do not say otherwise. Redis is taken to be off.

### DesktopShell

An action is a callback of the main process with the promise reactions that follow at once. What
Electron and Node do is in the header of the module. `dev` is development mode, in which the
shell starts no gateway; `other` says that another program answers on the port. `mainWindow`
is a window, `Null` or `Undefined`: the tray compares it with `null` only, so the two differ.

- `startServer`, `SpawnError`, `tryConnect`, `Connected`, `ConnectFails`, `ConnectTimesOut`,
  `Retry`: start-up, with `asking` and `waiting` counting requests and scheduled retries, because
  a timeout produces two of them. `Resolve` and `Reject` are the two ends of the promise.
- `UserCloses`, `TrayShows`, `TrayQuits`, `Activate`, `SystemQuits`, `StartDialogAnswered`,
  `CrashDialogAnswered`: the user. `Quit` is `before-quit`, `KillTimer` its five seconds.
- `ServerListens`, `ServerDies`, `OtherStarts`: the gateway and the port; `ServerCloses` is the
  close event, with the crash dialog.

### Playground

The page's state and refs under their names. A text is a sequence of letters, each of which
stands for a stretch of text such as a line; letters repeat, within an answer and between
answers, and those of `Heading` are numbered section headings. `Kind` says how a request's
upstream cuts its text: what is new, or the text so far, both of which the page accepts without
being told; `said` is all it has said. The page tells the two apart by comparing beginnings
(`mergePendingStreamChunk`, `getAppendableChunk`), so something new may be taken for the text so
far: the history variable `mistaken` has the requests this happened to. `stage` is the request as
the network sees it.

- `handleSendMessage`, `handleRegenerateMessage`, `handleEditMessage`, `SaveEdit`,
  `SaveEditAndSubmit`, `handleDeleteMessage`, `handleClearMessages`, `stopGeneration`: the user.
- `handleStreamUpdate`, `FlushTimer`, `StreamEnds`, `StreamDropped`, `PlainReturns`: chunks go to
  a buffer and from there to the last answer when a timer or the end of the stream says so.
- `SaveTimer`, `Leave`, `Reload`, with `loadMessages`, `collapseRepeatedSectionSnapshots` and
  `trimMessages`: the copy in localStorage.
- `LateChunk`, `LateReport`: a request of a page that was left. The code ends no request when a page is left,
  and saves from within a state updater. React documents an update of a removed component as
  without effect and may still run its first updater, so the action has both outcomes.

## 3. What the runs check

Runs that pass:

| Run | Instance | States | Properties |
|---|---|---|---|
| `system_task` | 2 nodes, 2 keys of one type, 2 rows, late clock readings, crashes, shutdown, any one database statement fails | 1.29 M | `TypeOK`, `SerialisedByType`, `DispatchedOnce`, `KeyHeldWhileActive`, `FinishFenced`, `LiveLeaseKept` |
| `system_task_live` | 2 nodes, 1 key, 2 rows, fairness | 143,778 | `EveryTaskEnds` |
| `async_image` | 1 task, 2 workers, all preferences, 2 stalls, 1 crash, 1 channel retry, 2 archive attempts, 1 reset, 1 period change | 309,186 | `TypeOK`, `StatusMatchesBilling`, `GeneratesAlone`, `FundsConserved`, `ImplementsLedger`, `NoCallAfterFinal`, `AttemptsCounted` |
| `async_image_live` | 1 task, 2 workers, sufficient quota, fairness | 11,831 | `EveryTaskIsBilled`, `ArchivingEnds` |
| `task_polling` | 1 video task, settlement or insert at submission may fail, 3 overlapping passes, 2 faults | 3.02 M | `TypeOK`, `NeverOverRefunded`, `OpenIsCharged`, `FinishedIsBilled`, `FinalStays` |
| `task_polling_live` | a video and a Suno task, channels may go, 1 pass, 1 lookup that writes, fairness | 378,267 | `EveryTaskFinishes` |
| `billing_session` | 2 requests, one of the playground and forced, estimates below, at and above the balances, updater on or off, 3 faults, 1 period change, fairness | 460,642 | `TypeOK`, `OutcomeCharged`, `NeverOverRefunded`, `Conserved`, `EveryChargeBooked` |
| `desktop_shell` | 3 windows, 3 attempts, development or not, port free or not, fairness | 65,921 | `TypeOK`, `NoOrphanServer`, `HideHasWindow`, `Reachable`, `QuitExits`, `StartupEnds` |
| `playground` | 2 requests and an earlier question, texts of up to 3 letters with repeated headings, 1 stored message, 2 times leaving or reloading, fairness | 712,367 | `TypeOK`, `IdleIsFinal`, `WholeAnswer`, `BusyWhileAwaiting`, `LeaveKeeps`, `GenerationEnds` |

What they show of the code:

- **System tasks.** At most one row of a type is running, whatever leases expire, except
  after a claim that outlived its own lease (`SerialisedByType`); a handler whose type's
  lease was acquired again may still be busy but writes no final status (`FinishFenced`).
  No statement takes away a lease that still stands, even though lease ends are compared
  with clock readings several statements old (`LiveLeaseKept`). A row is dispatched once, ever:
  rows are never put back to pending, so a job that dies is failed and not repeated. A failing statement does not change this. A row
  that was dispatched ends, and so does one that waits, apart from the rows of
  `system_task_abandoned`.
- **Asynchronous images.** The conditions inside the billing transactions
  (`billing_status = reserved`) do what leases do not: workers do overlap, and still each
  reservation is settled or refunded once. `FundsConserved` relates all accounts with all
  rows. `ImplementsLedger` says the same without mentioning workers, leases or columns.
  `GeneratesAlone` says that as long as no lease ran out under a worker, at most one
  generates for a task. A worker records its channel only for an open reservation, and between
  that write and the call it is fenced by nothing: `NoCallAfterFinal` says that the only calls for
  a task that was settled or refunded are those of workers that stalled there and lost the lease.
  `AttemptsCounted` says that archive attempts are counted one by one
  although each worker counts from its own copy.
- **Task polling.** The swap on the old status is enough for video tasks: with any overlap,
  crash or failing statement, one pass finishes a task, it alone bills it, and it moves the
  charge from what the row says to what the task finally costs, or back (lost statements aside).
  Whether the row says what was paid is decided before, at submission, where a failed settlement
  is only logged: the properties compare with the row (`booked`), and section 6 says what follows
  for the user. The swap is enough because a pass only ever works from a copy that was open;
  lookups do not (`task_polling_reopened`), nor do the Suno pass and the bulk update ask for
  anything (section 6).
- **Billing session.** Whatever a request falls back from, whichever statement fails and
  whenever the goroutine of its refund runs, a request that is over has cost what its outcome
  says, from one funding source and the same from the token (`OutcomeCharged`); what breaks this
  is a correcting statement that failed, which the code logs and leaves, or a pre-consumption that
  was committed and not answered. The outcomes include two
  in which the user pays for nothing delivered: a settlement the subscription refuses, and a
  handler that panicked. `Conserved` ties the accounts to all requests with the deltas in memory,
  in flight and dropped. No delta stays in memory: each reaches the database or is dropped with
  its failed statement (`EveryChargeBooked`).
- **Desktop shell.** The gateway never outlives the application, including a gateway that ignores
  SIGTERM, one still starting and one that crashed before (`NoOrphanServer`, `QuitExits`). Each
  timeout of the availability check starts two further attempts; the shared counter still ends
  start-up (`StartupEnds`), and attempts that answer late change nothing that was decided.
- **Playground.** Chunks that wait for a repaint when the stream ends, fails or is stopped are
  not written into a finished answer (`IdleIsFinal`), and an answer is what its upstream said
  (`WholeAnswer`): all of it on the first visit, its beginning after a reload, or a part of it if
  sections repeat, because loading cuts a text that has one heading three times down to the last
  run. This holds for upstreams that send what is new and upstreams that repeat the text so far,
  as long as nothing new begins with what is pending or shown; where it does, the page takes it
  for the text so far and loses it, and the property leaves that answer out. A stopped request that returns
  late does not end its successor's state (`BusyWhileAwaiting`). Leaving the page within the half
  second of the debounce loses nothing (`LeaveKeeps`).

Runs in which TLC finds what a document, comment or test of the repository says violated are
described in section 6.

## 4. Bounds, symmetry, fairness

*Two actors* are enough for the protocols here: they are interactions of one that lost its
lease, or read early, with one that did not. `task_polling` has three passes, so that a third
can come between the swap of one and the billing of another. `async_image` has one task: tasks
meet in the balances only, and that the ledger is implemented with any number of them is proved.
Two requests are enough for `BillingSession`, where one is the interference of the other. In
`DesktopShell` no more than two windows ever exist (the second through `activate` before start-up
ended), so the third is never needed. Two requests overlap in `Playground` because the instance
starts with an earlier question that can be edited and submitted while another request runs.

*Time.* `TTL = 1` and `MaxLate = 1` let a reading be taken before a lease ends and used
after it, which is all a comparison of two times can tell apart. The other modules have
time as flags or timers that may change or fire at any moment.

*Amounts.* Reserved and actual costs of 1, 2 and 3 against balances of 1 to 3 give each of
less, equal and more, at and beyond a balance; in `task_polling` the prices at submission are 1
and 3 and the final cost 2, so that a settlement adds or gives back at either point; 0 is an actual cost in `TaskPolling` and
`AsyncImage` and an estimate (a free model, or nothing to reserve) in `BillingSession`. There a
`TrustQuota` of 1 against a wallet of 3 and a token of 2 makes requests trusted at first and no
longer once another has reserved.

*Texts.* An upstream adds a heading (`<<1>>`) or a line and a heading (`<<2, 1>>`). So what it
adds may repeat what is pending, begin with it or not, and the heading may come a third time.
Three letters, the bound on all streams together (`MaxText`), are enough for that and for two
chunks in the buffer or one there and one on the page; in the last visit, which is there to load
what was stored, nothing is added. `MinCollapse = 3` (a length in characters in the program) lets
exactly the texts with three headings be cut. Editors are opened in the first visit (`EditMounts`)
and not for the messages of the second request (`Editable`), which keeps edits from multiplying
with all the rest; an editor that stays open across a request, and a second request from it while
the first runs, are among what is left.
`MaxStored = 1` (100 in the program) makes every conversation exceed the limit.

*Counters.* `MaxTask`, `MaxDbErrors`, `RetryTimes`, `MaxAttempts`, `MaxStalls`, `MaxFaults`,
`MaxResets`, `MaxPeriods`, `MaxReads`, `MaxRequests`, `MaxText`, `MaxMounts`, `EditMounts`
and `Editable` bound what would otherwise repeat for ever. `RetryTimes`, `MaxAttempts`, `MaxRetries` and
`MaxStored` are settings of the program, the others bound the environment. Faults are 1 to 3:
each path that follows a fault is then taken, a fault during the recovery from another, and in
`BillingSession` all three attempts of a refund fail.

*Symmetry* is in nodes, keys of one type, workers, passes and image tasks, which nothing orders, in
invariant and step properties only; no run with a liveness property uses it.

*Deadlock* is checked for `SystemTask`, whose clock goes on. In the other modules a state in
which every task or request is finished and every bound used up, or the application has exited,
has no successor, so they do not.

*Constraint.* `system_task_live` explores behaviours in which no claim outlived its lease
(`NoLostClaim`). `lostClaim` never shrinks, so the states left out are not passed through by a
behaviour that stays inside. Rows of such a claim are what `system_task_abandoned` is about.

*Fairness.*
- `SystemTask`: weak fairness of the loop (a ticker wakes it, every statement returns), of
  handlers coming to an end, and of time; strong fairness of the stale-lock pass, which a
  loop may skip because it is throttled to once in `systemTaskStaleLockInterval`, again and
  again but not for ever. A crashed node comes back or not; nothing assumes that heartbeats
  are in time.
- `AsyncImage`: weak fairness of the worker's steps, of lease ends and of due times; strong
  fairness of `MarkAsyncImageTaskRunning`, since the staging check before it may fail
  repeatedly but has to succeed at some time. Stalls and crashes are bounded.
- `TaskPolling`: weak fairness of a pass's steps and of the timeout. This assumes that
  `TaskTimeoutMinutes` is positive and `UpdateTask` on, their defaults; with the timeout at 0
  the sweep does nothing and a task lasts as long as the upstream says so. `task_polling_live`
  assumes that no upstream reports 100% before the end: such a row leaves every list.
  Nothing else is assumed of the upstream.
- `BillingSession`: a request that started goes on (upstream calls return or time out,
  goroutines run), and the updater wakes up. No request has to start.
- `DesktopShell`: timers fire, requests end because they have a timeout, events are delivered.
  Nothing of the user, and nothing of the gateway: it may never listen and never end.
- `Playground`: a request is answered, fails or is cut off. Nothing of the user.

## 5. Proofs

For any nodes, types, keys, workers, passes, tasks, requests and amounts and any bounds, from the
named assumptions at the head of each module. `Task` of `AsyncImage` and `Request` of
`BillingSession` are finite, for the sums over them; nothing else has to be. Every invariant and
every action property of the passing runs is a theorem; four, those on the charges of
`TaskPolling`, have hypotheses, given below, which their run satisfies.

**SystemTaskProofs**: `TypeCorrect`, `DispatchedOnceTheorem`, `KeyHeldTheorem`. The invariant is
`IInv == TypeOK /\ Refs /\ HandlerRefs /\ KeyHeldWhileActive`. `DispatchedOnce` is not inductive
by itself. `HandlerRefs` strengthens it: a row with a handler on node r has `rowOwner` r, a row
not claimed yet has no handler, and a loop has no handler for the row it is claiming, so the
guarded `UPDATE` that sets the owner starts the only handler. `Refs` (a conjunct per reference)
says that `cur`, `old`, the lists and the leases refer to rows that exist, with a type that no
longer changes. The step lemma is proved per conjunct, with a step per action.

**SystemTaskLeaseProofs**: `LiveLeaseTheorem`, `FinishFencedTheorem`, `SerialisedTheorem`. First
the actions are sorted by what they do to the lease row of a type (`LockMove`): nothing but its
end, acquire it, or free it; each freeing and each steal rests on a condition in its own
statement. `FinishFenced` needs `SupersededLost`: a superseded handler does not hold the lease,
and will not again, since a lease is acquired for a row that has no handler on that node.
`SerialisedByType` needs `Serial`, about types without a lost claim: a running row is the one its
type's lease names, or the one a takeover is about to fail (`RunningHeld`); the row a loop holds a
lease for is not running before its `UPDATE` (`HolderNotRunning`); and a loop that judges the
lease of a row with a clock reading from before the row ran does not find it ended
(`LateReading`).

**AsyncImageProofs**: `TypeCorrect`, `StatusCorrect`, `CallsAreOpen`, `LedgerRefined`. `TypeOK`
includes that no balance leaves its range, so it is where overdrafts and double refunds would
show; it needs that what a settlement adds was checked in the same transaction (`AdjustType`).
`IInv` adds `StatusMatchesBilling`, `AbsentUnbilled` and `OwnedReserved`: a worker that generates
and owns the lease works on a reservation that is still open. `LedgerRefined` shows the
refinement: each of the three transactions is the ledger's step of that name (`Reserved`,
`Settled`, `Refunded`), the end of a period is `Renew`, every other action leaves all holds and
balances alone (`LedgerStutters`).

In the same module: `FundsTheorem`, `GeneratesAloneTheorem`, `AttemptsTheorem`. `FundsConserved`
follows from the refinement: a step of the ledger changes what one task holds and moves each
balance by as much (`Rebalanced`), and **SumTheorems** turns that into a statement on the sum.
`GeneratesAlone` needs `LeaseHeld`: while no lease has run out under its worker, whoever is at
work on a reservation owns the lease. That is not obvious, because the claiming `UPDATE` gives a
lease to whatever row the stale candidate names, settled ones included. `AttemptsCounted` needs
`SeenIsCurrent` (the owner archives with the row's count), and both need `TakenUpExists`.

`CallsAreOpen` rests on the same two facts. The fenced write asks for the lease, so by
`OwnedReserved` the reservation is open when the channel is recorded; and a worker about to call
for a reservation that is closed by then does not own the lease (`OwnedReserved`), which by
`LeaseHeld` takes a stall.

**TaskPollingProofs**: `TypeCorrect` on every path; `NoDoubleRefund` and `OpenCharged` for tasks
that are written by compare-and-swap (`SwapsOnly`: no Suno tasks, no lookups that write), and
`FinalStaysTheorem` when channels stay in place too. With the paths that are left out TLC finds
the properties violated, so the hypotheses are the boundary of what holds. All three compare with
what the row says (`booked`): `RelayBooks` shows that this is so from the submission on, whichever
of its statements fail. `NeverOverRefunded` is far from inductive. `IInv` adds `WorksOnOpen` (what a pass works on was open when read, and as
long as the row still is, copies agree with its quota), `OneBills` (only a finished row is billed,
by one pass), `BooksMatch` (what the accounts have paid at each point of billing) and
`OpenIsCharged`. The swap succeeds only on an open row; then nobody bills, by `OneBills`, and the
books are those of the row, by `OpenIsCharged`; so the winner starts with the right books, and
nobody starts after it because the row is no longer open.

`FinishedBilled` (`SwapsOnly`, and channels in place, `Orphan = {}`) adds `NothingLost`: until a
call fails, a finished row is billed or a pass is billing it, and that pass has the amounts the
books say; and `IdleIsNowhere`, because a pass that starts must not abandon a row it is billing.

**BillingSessionProofs**: `TypeCorrect`, `OutcomeTheorem`, `NoOverRefund`, for any requests,
amounts, balances, preferences and any number of faults. `OutcomeCharged` speaks of closed
requests only. `IInv` adds `Books(r)`, what each account has paid at every point of a request:
nothing before the token is taken (`AtStart`), the token only while the source is asked
(`AtFund`), the reservation while the request is relayed (`AtOpen`), then the settlement or the
refund with one side done and the other not (`AtSettleToken`, `AtRefund`, `AtRefundToken`), and
`Due` at the end (`AtEnd`). A step of one request changes nothing in the books of another, so the
step lemma looks at the request that moves. `TypeOK` holds that `amount_used` stays within the
total, which rests on the check inside the transaction (`WithinTotal`) and on the reset.

`ConservedTheorem` is about all requests at once: each balance, with the deltas on the two maps of
the batch updater, is the initial one less the sum of what requests paid. Every statement moves an
account and one entry of `paid` by the same amount, and the updater moves amounts between maps and
database only, so it follows from `SumChanges`; that `PostConsume` stops at 0 never hides part of
a refund follows from `SumAtLeast` and `NoOverRefund`.

**SumTheorems** has lemmas only: what `SumFunctionOnSet` of the community modules computes over a finite set: the
order in which elements are taken does not matter (`SumChanges`), and no entry exceeds a sum of
natural numbers (`SumAtLeast`). The provers cannot instantiate an induction theorem with a
predicate, so the induction is by the smallest counterexample: the set of subsets for which the
claim fails would have a member of least cardinality, which well-foundedness of `<` gives as a
first-order fact.

**DesktopShellProofs**: `TypeCorrect`, `NoOrphan`, `HideTheorem`, `ReachableTheorem`, for any set
of windows and any number of attempts. `IInv` adds `Bookkeeping`, which ties the variables of the
shell to the process and to each other: a process that is alive is one the variable holds, so
`before-quit` never lets the application go without it, and the tray, which asks for `null` only,
comes into being with a window.

**PlaygroundProofs**: `TypeCorrect`, `IdleTheorem`, `BusyTheorem`, `LeaveTheorem`, `WholeTheorem`,
for any number of requests, stored messages and visits, any texts, headings and ways to cut them
into chunks. `IInv` says that only the last message of a
conversation, shown, stored or left, may be pending (`Tails`); that the references to streams and
requests name what they should (`StreamRefs`, `PlainRefs`); that nothing is pending or buffered
when idle (`Idle`); that an open request is one the page awaits (`Awaiting`); and that what is
stored is what is shown unless a save is due or a left page wrote (`SavedIsShown`).

`WholeTheorem` has no hypotheses. Its invariant `Texts` speaks, while requests have not overlapped,
of the one answer under way (`UnderWay`). `Progress` relates its text, the buffer and what was
said: for an upstream that sends what is new, text and buffer together are what was said; for one
that sends the text so far, the text is its beginning, and the buffer is empty (then the text is
all of it) or what was said. From that, `mergePendingStreamChunk` and the flush, at whatever
moment the timer fires, make the text all that was said (`ReadBuffer`, `FlushedText`), or the
request is entered in `mistaken`. A finished answer `Follows` what was said: it is a part of it,
and its beginning unless a heading is repeated; this survives what is said later
(`FollowsGrows`, with `RepeatedGrows`) and what loading cuts off, any number of times
(`FollowsLoaded`, `CollapseFacts`). `AllFit` keeps it for every conversation, shown, stored or
left; `AllWhole` the equality on the first visit; `LeftWhole` carries `Progress` on for pages that
were left; `EditsOld` says that an open editor is never that of the answer under way. The step
lemmas first reduce every action to what becomes of single messages (`ElementsStep`: kept,
finished, written or edited).

Only model-checked: liveness under fairness (`EveryTaskEnds`, `EveryTaskIsBilled`,
`ArchivingEnds`, `EveryTaskFinishes`, `EveryChargeBooked`, `QuitExits`, `StartupEnds`,
`GenerationEnds`), which the prover does not do. The violated properties of section 6 have a trace
and no theorem.

## 6. Disagreements between code and documentation

Each is a run in which TLC finds a behaviour of the code that contradicts the quoted text;
PROJECT.json has the text and the lines.

| Run | What the trace shows |
|---|---|
| `system_task_abandoned` | A claim whose lease ended before its `UPDATE`, or a takeover that died before it failed the old row, leaves a running row to which no lease points. Both cleanups find rows through leases, so it stays running and keeps its active key: no job with that key is created again. |
| `task_polling_reopened` | A lookup opens a task again that the sweep failed and refunded; the next sweep refunds it a second time. |
| `billing_refund_twice` | The refund of a subscription commits its delta in a transaction of its own; when marking the record fails afterwards, the retry gives the amount back again. The use of the subscription stops at 0 (`model/subscription.go:1500`), which swallows the second refund in the shortest trace; with other use of the subscription the row ends too low. |

The same instances, with other constants or another property, show variants that have no run
of their own:

- `ResponseIsSettled` of `AsyncImage` in the instance of `async_image_live` with `WalletQuota = 1`
  and an actual cost of 3: the actual cost exceeds what wallet or token has left, the settlement is refused, the
  response dropped, and the task generated again at every lease end.
- `FailedIsRefunded` of `TaskPolling` with `Orphan = {v}`: a deleted channel's tasks are failed in
  bulk without a refund.
- `FailedIsRefunded` with `Orphan = {}` and a lookup (`Realtime = {v}`, one `Reader`): a lookup
  of a Gemini or Vertex task writes `FAILURE`, and nobody refunds it.
- `NeverOverRefunded` with a Suno task and two passes: both refund it, because the refund
  comes before the save and the save asks for nothing.
- `NeverOverRefunded` with a Suno task, one pass and `MaxFaults = 1`: the task is refunded, the save
  that follows fails, and the sweep or the next pass refunds it again. With a deleted channel and
  two passes, the bulk update turns a task to `FAILURE` that another pass settled meanwhile.
- `paid[t] >= 0` in the instance of `task_polling`: a task is priced at 1, then at 3; the settlement
  fails and is logged (`controller/relay.go:587`), the row says 3 (`:631`), and when the task fails
  3 are given back. When the insert fails instead (`:641`) the charge stays without a row, and
  nothing ever gives it back.
- `EveryTaskFinishes` with a Suno task: an answer with a fail reason and a status that is not
  final sets the progress to 100%, and the row leaves every list.
- In `SystemTask` with three nodes, `ExpireStaleSystemTaskLocks` fails the row of a lease it
  selected although the lease was acquired again since, under a handler that heartbeats; the
  `DELETE` after it asks for the lease end again, the `UPDATE` does not.
- In `AsyncImage`, a worker that lost its lease refunds the task of its successor, since
  `RefundAsyncImageBilling` does not ask for the lease owner; and the claiming `UPDATE` gives a
  lease to a row that was settled after it was selected. Both leave billing correct
  (`FundsConserved`), though the design's section 13.2 says otherwise. Such a refund, or the
  settlement of a successor, may come between a stalled worker's fenced write
  (`controller/async_image_worker.go:182`) and its upstream call (`:200`): the provider is then
  called for a task that is over, which `NoCallAfterFinal` without its exception would exclude.
- `WholeAnswer` of `Playground` without its condition `~overlapped`: Save & Submit of an open
  editor does not ask whether a request runs, so two requests write into the last answer, and the
  answer to one is shown under the other. `use-message-action-guard.ts` guards the other actions.
- `WholeAnswer` without its condition on `mistaken`: what an upstream adds begins with what is
  pending in the buffer or with all that is shown (two line breaks in a row, "-" and then "--") and
  is taken for the text so far, so the part they share is lost (`use-chat-handler.ts:54-63`,
  `message-streaming-utils.ts:73-79`). The first can happen anywhere in an answer.
- `WholeAnswer` with "a beginning" for "a part" after a reload: `collapseRepeatedSectionSnapshots`
  (`storage.ts:182`) keeps the end of a text in which a heading comes three times, whether or not
  the sections are repetitions, and what it leaves may be cut again at the next load.
- `LeaveKeeps` without its condition on `late`: a request whose page was left returns, the left
  page's conversation is saved over what the open page saved, and leaving the open page shows the
  old one. This needs React to run the updater of a removed component.
- `GenerationEnds` without `Dropped`: a stream closed with status 200 and without `[DONE]` leaves
  the page generating until the user stops it.
- In `DesktopShell`, `activate` before start-up ended creates a window that start-up then
  replaces in `mainWindow`; closing the first one hides the second. `Reachable` is about
  installed applications: in development mode such a window prevents the quit after a failed
  start-up, is hidden, and no tray icon brings it back.
  With the port taken, the shell shows whatever answers there. After a crash `serverProcess` is
  still set, so quitting waits for the five seconds of `KillTimer`.

## 7. What is not modelled, and the plan

Not modelled for good: adaptors and format conversion, billing expressions, the other pages of
the front ends (tables, forms and charts, one request per action), routing, authentication and
settings (data or I/O without a protocol), and the instance heartbeat (each node writes its own
row). Clock skew between nodes is left out because the code states no bound for it. SQL
statements and transactions are atomic and isolated as the database promises under row locks;
replication is not considered.

Left out of modelled parts:

- `BillingSession`: `Reserve`, which nothing calls; the turn-by-turn charges of realtime sessions
  and the violation fee, which are booked outside of a session; Redis caches; subscriptions
  without a limit (`amount_total` 0) and several per user; statements on the wallet or the token
  that are carried out and not answered (those on the subscription may be); a process that dies, with which
  deltas in memory and open reservations are lost, as is plain from the code.
- `AsyncImage`: storage objects, staged files and notifications; subscriptions without a limit
  (`amount_total` 0, `model/async_image.go:255` and `:1435`).
- `DesktopShell`: the log file and its analysis; `createTray` or `createWindow` throwing into the
  `catch` of start-up (`electron/main.js:478`).
- `Playground`: reasoning text (buffered and merged like the content, and cut out of it between
  `<think>` tags), attachments; the limits in bytes and characters of what is stored and loaded
  (`MAX_STORED_MESSAGES_BYTES`, `trimMessagesByContentSize`, `truncateText`), so that `LeaveKeeps`
  and `WholeAnswer` are about conversations within them; loading is one step with mounting the page, which shows no conversation until
  it is loaded.

Next, in this order:

1. `AsyncImageArchive`: storage objects and staged files behind an archive attempt; the late
   worker and the administrator's reset named under `hazards`; notifications.
2. `VideoArchive`: upload operations with operation id and lease; a stale operation writes
   nothing.
3. Settings forms: the baseline a form compares with, against values refetched while the user
   types.
4. Midjourney polling: as `TaskPolling`, with its own writes.
5. Channel selection: priority and group fallback as operators against a reference definition;
   rate limit windows; top-ups and redemption.

Proofs to add: the safety properties of these modules as they come; in what exists, `WholeAnswer`
with overlapping requests, once the editor is guarded as the other actions are.
