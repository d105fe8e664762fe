# Verification of the subtitle-erasure service and its channel helper

The repository holds two programs. A **Next.js service** (`src/app`, `src/lib`, `src/components`) erases subtitles
from videos for points: it freezes points, hands the video to a provider (MediaKit) and settles when the provider is
done; points are bought through Alipay; it also keeps the licences of the helper. The **channel helper**
(`src/tools/jingmu-channel-helper`, Go) captures videos of WeChat Channels and downloads them, one by one or in
batches, from a web console, from the captured page or on a command from the cloud.

This directory models the parts that move money, licences or shared state: TLA+ modules, TLC configurations, and
proofs checked by TLAPS. `PROJECT.json` maps every definition to the lines it models, and lists the runs, the mutants
(a plausible bug for each property, which TLC finds under the property's own run), the hazards and the theorems.
Paths below are relative to `src/`; `helper/` stands for `tools/jingmu-channel-helper/`.

    tlc -workers 2 -config MCPayments.cfg MCPayments.tla        # one run; deadlock is checked unless the cfg says not to
    tlapm PointsServiceProofs.tla                               # the proofs of one module

## 1. Inventory

### The service

| Component | State | Operations | Hard behaviour | What makes it correct |
|---|---|---|---|---|
| Erase jobs and points (`app/api/jobs/**`, `lib/volcengine.ts`) | `users.points_balance`, `point_transactions`, `jobs`; the provider's tasks | POST freezes, inserts, submits, refunds; GET polls and settles | handlers interleave at their awaits; concurrent polls; lost answers; crashes between two transactions | no overdraft; a ledger row for every movement; a hold closed once, and in the end |
| Price list (`lib/pricing.ts`) | none | `usagePoints`, `reservePoints`, packages | rounding | a settlement never costs more than the hold |
| Recharge orders (`lib/payments/**`, `app/api/checkout`, `app/api/payments/**`) | `orders`, the same balances and ledger; Alipay's trades | checkout, notification, mock completion | repeated, late and wrong notifications, lost answers, crashes | credited once, for money that was taken, and never acknowledged uncredited |
| Licences (`lib/helper-license.ts`, `app/api/helper-license/**`) | `helper_trial_usage`, `helper_memberships`, `helper_download_events` | consume, status, activate | consume is called by two clients with two device ids; answers get lost | the trial's limit; usage equals its log; no download without an event |
| Accounts and sessions (`lib/auth.ts`) | `users`, `sessions` | register, log in and out | none: single statements | a new account has its welcome points |
| Video resolution (`lib/video-resolver.ts`, ...) | token maps in memory | resolve, preview | expiry | a token serves its user and its URL only; a lost one is probed again |
| Dashboard (`components/dashboard-studio.tsx`) | React state | polling, resolving, submitting | the only thing that polls running jobs | see fairness |

### The helper

| Component | State | Operations | Hard behaviour | What makes it correct |
|---|---|---|---|---|
| Batch downloads (`internal/handlers/batch.go`, `services/gopeed_service.go`) | `tasks`, `running`, `cancelFunc` under one lock; the run's channel, workers and context; Gopeed's tasks | start, cancel, resume, clear; dispatcher; workers with retries | all of it concurrent; the tail of a cancelled run; clear's deadline; pointers into a dropped array | one run at a time; a video saved once; nothing left "downloading"; a run ends |
| Licence clients (`cloud/license_client.go`, `web/js/helper-license.js`) | device ids, token | consume before a download | time-outs after the site has consumed; two clients that ask for one download | strict mode: no answer, no download; each client asks once, in order |
| Single downloads (`handlers/upload.go`) | `activeDownloads`, download records, files | download, cancel; Gopeed, decryption, rename | check-then-store, deferred deletes, failures at any step | a running download can be found; what is saved is whole and its own; nothing is left over |
| Chunk uploads (`handlers/upload.go`) | sessions' parts, two semaphores, merged files | init, chunk, merge | parts sent twice, merges that fail half-way or overlap | a merge is whole; a failed one costs no part; no slot leaks |
| Page hub (`internal/websocket`) | clients, pending calls, answer queue | register, leave, CallAPI, answer | a page that leaves between lookup and send; late answers | a call gets its own answer or none; the tables follow the calls; dead pages leave |
| Cloud connector (`cloud/connector.go`) | connection, retry count | connect, back-off, command, Stop | arithmetic of the back-off; licence before mapping; Stop during a dial | no download is admitted that the site has not deducted, a command answered at most once; a lost connection is replaced; Stop is final |
| Sync pusher (`cloud/sync_pusher.go`) | last push times | push | overlapping pushes | no row is skipped |
| Radar and download queue (`services/radar_service.go`, `queue_service.go`) | SQLite tables | scan, enqueue, pause, resume | read-then-insert | no duplicate in the queue |
| Capture proxy, certificates, console API, exports, settings, logs, statistics, search | files, traffic | I/O | — | — |

### How they interact

* A job handler and an order handler share one SQLite database and one Node process. better-sqlite3 is synchronous,
  so what runs between two awaits is atomic against every other handler; only a crash can fall between two statements
  that no transaction joins.
* The browser drives the service: it polls jobs (`dashboard-studio.tsx:95-101`), opens Alipay's form, and in the
  helper's console consumes a licence before it posts `batch_start` (`helper/web/js/core.js:376-382`).
* Alipay calls back (`app/api/payments/alipay/notify/route.ts`) until it is answered `success`.
* The helper asks the site for every download (`helper/internal/handlers/batch.go:284-297`), and Gopeed, an embedded
  download engine, for the file.
* A command from the cloud reaches the connector, which asks the site for a `download_video`, and becomes a call of the
  hub, which a page answers over its WebSocket. A page that is called to download posts `download_video` to the helper's
  own handler (`helper/internal/assets/inject/api_client.js:739-756`), which asks the site again.

## 2. Modules

| Module | Models | State and actions |
|---|---|---|
| `Pricing` | `lib/pricing.ts` | pure operators, whole seconds; the 6 h limit of a submission |
| `Wallet` | `users`, `point_transactions` | `balance`, `ledger` (the rows of each job or order, in order); `Transfer` is a balance UPDATE with its INSERT |
| `PointsAccount` | *abstract*: the promise | a hold, a closing that returns what it does not charge, a top-up; nothing else moves a balance |
| `JobLedger` | POST and GET of jobs | `post[j]` the handler and its locals, `jobs[j]` the row, `provider[j]` the task, `poll[j][s]` concurrent polls; one action per stretch between awaits |
| `Payments` | checkout, notification, mock completion | `checkout[o]`, `orders[o]`, and of Alipay `trade[o]` (cents it took) and `acked[o]` |
| `PointsService` | both in one process | `JobLedger` extended, `Payments` instantiated over the same wallet; a restart ends the handlers of both |
| `BatchDownload` | `batch.go`, the part of `gopeed_service.go` it waits in | arrays of tasks on a `heap` (workers keep pointers when `h.tasks` changes), the handler's three fields, `run`, `worker`, `request`, `gopeed` |
| `HelperLicense` | `consume`, its callers | `used`, `months`, `events` of the site; `op` the downloads, `call` their consume calls at each `Stage` that asks: the console, the connector, the handler that downloads |
| `SingleDownload` | `HandleDownloadVideo`, `HandleCancelDownload` | `req[r]` a handler and the goroutine it leaves behind, `active` and `cancels` (`activeDownloads` and how many cancellations are half done), `files` with who wrote them and how far, `records` of saved videos |
| `ChunkUpload` | `init_upload`, `upload_chunk`, `complete_upload` | `part` files of every session, `chunk` and `merge` requests, the two semaphores, the merged `file`s |
| `Hub` | `internal/websocket` | `call[c]` a goroutine in `CallAPI`, `chan[c]` its channel, `requests` and `clients` of the hub, `page[p]` a connection with its buffers, `answering[p][g]` what a worker or ReadPump has looked up |
| `CloudConnector` | `cloud/connector.go` | `loop`, `retryCount`, `current` and `link` of the connections, `stopped`, `command[c]` the goroutine of a command, `page[c]` a page's work on the download it was called for |
| `*Proofs` | | theorems; nothing is modelled there. `PointsServiceProofs` holds those of `Wallet`, `JobLedger` and the service, `PaymentsProofs` those of `Payments`, the others those of the module they are named for |
| `MC*` | | model values and symmetry for TLC |

`PointsService` composes `JobLedger`, `Payments` and `Wallet`. `JobLedger` and `Payments` each show `PointsAccount`
under a refinement mapping (`accountOf`). `JobLedger` leaves recharges to an environment (`Credit`), and
`JobsSeeCredits` shows that the payment handlers are such an environment. `CloudConnector` sees the licence and the hub
as their results: allowed or refused, answered or failed. `SingleDownload`, `ChunkUpload`, `Hub` and `BatchDownload`
have no locks, tables or channels in common; the download directory and the download records they share are modelled
in each for its own files only.

Atomicity. In the service an action is what a handler does between two awaits, split where a crash could separate
two statements outside a transaction *and* another handler could tell: the reservation and the INSERT of the job
(`Reserve`, `InsertJob`), the order's INSERT and its UPDATE (`createPendingOrder`, `PaymentCreated`).
In the helper's modules an action is a section under a lock, one operation on a channel, a map or a file, or the code
between two of them that no other goroutine can tell apart.

Choices a reader should know:

* A refused request (401, 400, 422, 402) changes nothing and is not a step. Whoever asks for a job is its owner.
* `SubmitFails` may come after `ProviderAccepts`: the provider took the task and its answer was lost.
* `PollAnswered` takes the provider's state of that moment; `PollApplies` may use it much later.
* Alipay's `createPayment` signs a form and makes no network call, so its await is a microtask; but the order is
  in the table before it, so a crash between is modelled. The order id leaves the server only with the form:
  nobody pays or mock-completes an order by its id before the checkout answered, except development's mock completion
  of an order whose checkout died.
* A notification's signature and trade status are checked before anything else (`lib/payments/alipay.ts:109-123`); the
  model starts after them. Its amount is free (`OtherAmounts`), as only `orders.ts` compares it. The unique index that
  would stop a second recharge row is folded into "not payable": no order reaches it.
* A `download_video` from the cloud consumes twice, for the same machine device: in the connector
  (`helper/internal/cloud/connector.go:559`) and in the handler the called page posts to
  (`helper/internal/handlers/upload.go:1264`). An `api_call` that carries the key of a download (`connector.go:574,608`)
  passes the connector unasked, although the comment at 552 says cloud downloads are checked there, and consumes once,
  in the handler. So no download goes unlicensed, but a download costs one or two videos depending on how the command is
  spelt, where `license_client.go:81` says a single video passes 1. `CloudConnector` has both commands; in
  `HelperLicense` the first is the flow `cloud`, the second the flow `page`.
* In `BatchDownload`, `GopeedTaskID` is written without the lock; a reader sees the old or the new value (a torn
  string is not modelled). `len(h.tasks)` is read once without the lock. A run with nothing queued returns without
  waiting for its workers. Progress figures, file names, decryption and the two read-only requests are left out.
  A task failed with "下载已取消", which resume would re-queue, is never produced, so that branch is dead.
* A panic in a goroutine of a run stops the process (`panicked`), as nothing recovers it.
* In `Hub` the browser answers each id once, on whatever connection it has by then (`api_client.js` sends on its
  current socket). A call is not told that its page has left; it times out. That ids rise with `reqSeq` is modelled,
  their wrap-around after 2^64 calls is not. Broadcasts of progress are left out: their failures are ignored, and what
  they share with calls, the send buffer that may be full, is there.
* In `SingleDownload` every video has the same title and is encrypted, so that names collide and a file's state shows
  how far it got. A file another goroutine has open may or may not be removed: that differs between systems. The
  licence, which comes first (`upload.go:1264`), is left out, so that a skipped or refused download that was paid for is
  not seen.
* `raced` in `SingleDownload` and `sound` in `ChunkUpload` are history variables. They name the requests nothing is
  promised about: two downloads of one video side by side (`activeDownloads` is read and stored in two steps,
  `upload.go:1382,1438`), a final name two goroutines choose at once, a part sent again during its merge.
* A cancellation is two steps (`upload.go:364,369`), so that its delete may meet a newer entry, and several of one video
  may be half done together; `MaxCancels` bounds them.
* A merge creates its file before it looks at the parts (`upload.go:783`), so a missing part leaves an empty file
  behind, and the licence consumed. That there is a free name is a bound of the model: the code tries the name and 999
  numbered ones (`upload.go:771-780`), and when all exist overwrites the name itself. With `MergeConcurrency`
  above its default 1 two merges may choose one name.

## 3. Runs

Every passing run visits every disjunct of its next-state relation that its constants allow; `/\ ~panicked` before
the disjunction makes TLC report `BatchDownload!Next` as one action, but all 33 of its actions are reached under
`MCBatchDownload.cfg`.

| Run | Question | Bounds, and why they are enough |
|---|---|---|
| `points_service` | Do balances, ledger, jobs and orders agree under every interleaving and crash? | 2 users, 2 jobs, 1 order with mock completion, 2 concurrent polls a job; lengths 1 s and 9 s: a 9 s pro job costs 39 > the 20 welcome points, so a refusal, a recharge before a job, and a settlement below and at the hold all occur (the provider reports 4 s: more than the 1 s verified and capped, less than the 9 s); 2.2 million states |
| `job_liveness` | Is every hold closed, and do the handlers implement `PointsAccount`? | 1 user, 2 jobs, 1 poll slot, crashes at any time; 127 thousand states |
| `job_crash` | Is failed work refunded? **No** | 1 user, 1 job, a crash |
| `payments` | Are orders credited once and only for money taken, and does money taken become points? | 2 customers, 2 orders, 2 packages, a wrong amount below and one equal to the other package's price, mock completion enabled, notifications repeated |
| `batch` | One run, one save, nothing stuck, and does every run end? | 2 requests in flight, 1 worker to a run, 2 batches of 1 video, 2 runs (a cancelled one and its resume, or the next batch after a clear), 2 attempts, 1 Gopeed task: the tail of one run and its worker meet the next run; clears may come early or outwait a run; 495 thousand states. Larger batches and more workers are the theorems' (section 5) |
| `batch_clear` | May a list that a run works on be cleared? **No** | 1 request, 1 worker, 1 batch of 1 video, 1 run: the shortest counterexample has 8 states |
| `license` | Trial, log, charges and strict mode with lost calls | 1 user, 3 downloads of 1 to 3 videos from the console, the cloud or a page, `MaxVideoCount` 2 (so a too large one occurs), trial 3, memberships of up to 3 months; 817 thousand states |
| `hub` | Does a call get its own answer, do the tables follow the calls, does everything end? | 2 calls, 2 pages (one may stand for the other's reconnection), 1 worker and ReadPump, a send buffer and an answer queue of 1, so that both are full and the synchronous fallback runs; 483 thousand states |
| `connector` | Licensed, answered at most once, reconnected, stopped? | 2 commands of 7 kinds (one of them an `api_call` that downloads), 2 failed dials in a row, 2 connections: one breaks and is replaced while commands run; 243 thousand states |
| `connector_backoff` | Is the dial retried without limit? **No** | TLC's integers have 32 bits: a Duration of 12 bits with base 4 and maximum 480 leaves its word at the 10th failed dial, as base 1 s does in 64 bits at the 35th |
| `downloads` | Found, saved whole, nothing left over, ended? | 3 requests: two of one video, one of them forced, and one of another video with the same title; 3 final names, as many as requests; one cancellation of a video half done at a time (`MaxCancels` 1: the theorems are for every number); 464 thousand states |
| `uploads` | Whole merges, parts kept, no slot lost? | a session of 2 parts, one of them sent twice, and one of 1 part; 2 parts and 1 merge at a time (its default), so that requests wait for slots |

Runs with SYMMETRY check safety only (and action properties, which symmetric permutations preserve); the liveness
runs use no symmetry. `CHECK_DEADLOCK FALSE` stands where the instance really stops: every job settled, every run used
up, every order paid, every download, call, command or upload answered.

Type invariants are proved for every module with actions; `downloads` and `uploads` also check theirs.

Two constants are assumptions about what users do, and the properties hold exactly under them:

* `Overlap = FALSE` (the batch runs): no two starts are in flight together. `busy` is read in one lock section and
  `running` set in another (`batch.go:299-313`), so with `TRUE` two starts launch two runs and `OneRun` and `SavedOnce`
  fail.
* `MergeConcurrency = 1` (`uploads`), its default: with 2, `MergedIsWhole` fails, as the free name is chosen before the
  file is created.

### What the properties say

* Points: `LedgerExplainsJobs`: the rows of a job are its reservation and the single closing row its state calls for.
  Two polls that both read "running", a refund after a lost answer, a crash: none gives a hold back twice or closes a
  job without its row. `DoubleEntry`: every step that moves a balance appends the one row that explains it.
  `SettledForGood`: nothing reopens a closed job. `NoOverdraft`. `HoldsClose`: every hold is closed in the end, over
  any number of restarts, unless a restart fell in the midst of its own submission (that is `job_crash`).
* Orders: `CreditedOnce`; `CreditWasPaidFor` (a credited order whose form went out was credited for exactly what Alipay
  took, also where mock completion is enabled); `AckedIsCredited`; `PaidForGood`; `PaymentIsCredited`.
* Both: `KeepsAccounts`, that the handlers implement `PointsAccount`; `JobsSeeCredits`.
* Batches: `OneRun`, `SavedOnce`, `NothingStuck` (with no run, no task is left "downloading"), `RunsEnd`.
  `IndicesAreChecked`, that no run indexes a list a clear has dropped, does not hold (section 4); `OnlyClearsPanic` says
  that nothing but a clear makes it fail.
* Licences: `TrialLimit`; `UsageIsLogged`; `DownloadsAreLicensed` (strict mode); `ChargedInOrder`: no
  lost answer or late call makes a stage charge a download twice, none is charged before the stage its flow asks first,
  and a device is charged twice for a download from the cloud only. That the console charges the browser's device and
  the helper the machine's (`helper/web/js/helper-license.js:132`, then `batch.go:293`), and the connector and the
  handler both the machine's (`connector.go:559`, then `upload.go:1264`), is how the code works.
* Single downloads: `Findable`: a download that runs has its cancel function in `activeDownloads`, so that a
  cancellation finds it and a second request is refused. `SavedIsWhole`, `NothingLeft`: whatever Gopeed, the decryption
  or the rename did, what has a final name is whole and of that download, and no temporary file stays. `DownloadsEnd`.
* Uploads: `MergedIsWhole`, `SavedPartsStay` (a merge that fails can be asked for again), `RequestsEnd`.
* Hub: `AnswersMatch`: a call never returns another request's answer, however late and on whatever connection that
  comes. `TablesAreCalls`: the pending table, the pages' loads and the channels are those of the calls in flight, so
  nothing leaks when sends fail or pages leave. `CallsEnd`, `DeadPagesLeave`.
* Connector: `DownloadsAreLicensed`: the handler admits a cloud download only when the site has deducted it at each check
  on its way, an `api_call`'s too, and nothing is deducted beyond those checks. `AnsweredOnce`, `CommandsEnd`,
  `Reconnects`; `StopsForGood`: after Stop the loop
  ends and leaves no connection, even if a dial succeeded meanwhile.

### Fairness

* `JobLedger`: the event loop runs handlers and a fetch ends, if only by an error (weak fairness of `InsertJob`,
  `SubmitReturns`/`SubmitFails`); the provider finishes its tasks; the dashboard's timer keeps polling an open job every
  5 s (`PollStart`), provided that the job is among the 30 that `/api/me` lists; and of the polls not every one fails or
  is cut off by a restart (strong fairness of `PollAnswered` and `PollApplies`). Users and crashes are not fair.
* `Payments`: Alipay repeats a notification until it is answered. Customers need not pay.
* `BatchDownload`: Go schedules a goroutine that can run. Gopeed need not make progress: `WaitTask` has a deadline.
  Requests are not fair.
* `SingleDownload`: the same; the deadline of a download passes (`FetchFails`), but Gopeed need not finish and a page
  need not ask or cancel.
* `ChunkUpload`: a request that can go on does; the copies of a part and of a merge end, by success or an error.
* `Hub`: goroutines run and time passes for a call that waits. No browser is obliged to come, to answer or to stay.
* `CloudConnector`: the loop runs and the goroutines of commands do. A dial that fails `MaxFailures` times in a row
  succeeds next (the bound), so that `Reconnects` says the loop gets to dial again and again, not that the network is good.

## 4. Findings

1. `job_crash`: a crash after the provider took the task and before `app/api/jobs/route.ts:168` leaves the row
   `submitting` without `provider_task_id`. No poll queries it, so its points stay frozen even if the work fails,
   against `PRICING.md:36`.
2. `batch_clear`: `HandleBatchClear` drops `h.tasks` (`helper/internal/handlers/batch.go:1308`) while a run may still
   work on it. A clear that comes before the launched goroutine has set `cancelFunc` (391) finds nothing to cancel and
   does not wait; any other waits five seconds (1293) and goes on. The dispatcher (474) or a worker (436) then indexes the
   list that is gone, in a goroutine nothing recovers, and the helper dies, against the comment at 39 that `cancelFunc`
   interrupts the downloads at once and the answer (1318) that the tasks are cleared.
   `BatchDownloadProofs!PanicsFollowClears` shows that nothing else causes it.
3. `connector_backoff`: `calculateBackoff` multiplies before it caps (`helper/internal/cloud/connector.go:246`). At the
   35th failed dial in a row, about an hour without network, the product leaves the 64-bit Duration and is negative,
   the cap does not apply, and `rand.Int63n` of a negative number (254) panics in a goroutine nothing recovers, against
   the comment at 68 that the dial is retried without limit.

Each is quoted with its lines in `PROJECT.json`.

## 5. Proofs

All theorems hold for every set of users, jobs, orders, polls, requests, workers, videos, sessions, parts, runs, calls,
pages and commands, and every buffer size, under the named assumptions of the constants only (lengths and prices are
naturals, jobs and orders are different, bounds are positive, switches are Boolean; in `SingleDownload` there are
finitely many requests and at least as many names a file could get). A theorem with a hypothesis names a switch of
section 3. Every safety invariant and action property that a passing run checks is stated by a theorem.

| Theorem | Statement | Argument |
|---|---|---|
| `PointsServiceProofs!TypeCorrect`, `NeverOverdrawn`, `LedgerAlwaysExplains` | `Spec => []TypeOK`, `[]NoOverdraft`, `[]LedgerExplainsJobs` of `JobLedger` | `IInv` below is inductive |
| `PointsServiceProofs!StaysSettled`, `AlwaysDoubleEntry` | `SettledForGood`, `DoubleEntry` | from `IInv`, action by action |
| `PointsServiceProofs!JobsKeepAccounts` | `Spec => PA!Spec` | every action is a hold, a closing, a top-up or a stutter |
| `PointsServiceProofs!PaymentsAreCredits` | `ServiceSpec => JobsSeeCredits` | `MarkPaid` is a `Credit`; no other handler of `Payments` moves the wallet |
| `PointsServiceProofs!ServiceKeepsPromises` | the five theorems above, for `ServiceSpec` | the service is an instance of `JobLedger`'s environment |
| `PointsServiceProofs!ServiceKeepsOrderPromises` | the four of `Payments` below, for `ServiceSpec` | `PaymentsProofs` instantiated; job handlers leave orders and their ledgers alone |
| `PaymentsProofs!AlwaysCreditedOnce`, `AcknowledgedIsCredited`, `CreditsArePaidFor`, `StaysPaid` | the invariants and `PaidForGood`; in production every credited order was paid in full | `IInv` of `Payments` |
| `PaymentsProofs!PaymentsKeepAccounts` | `Spec => PA!Spec` | only `MarkPaid` moves a balance |
| `BatchDownloadProofs!TypeCorrect` | `TypeOK /\ WorkersPoint` | one lemma per kind of goroutine |
| `BatchDownloadProofs!OneRunAtATime` | `~Overlap => (Spec => []OneRun)` | `HandlerMatchesRuns` |
| `BatchDownloadProofs!NothingIsStuck` | `Spec => []NothingStuck`, overlapping starts and early clears included | `RunsOK`, `DownloadsHeld` |
| `BatchDownloadProofs!VideosAreSavedOnce` | `~Overlap => (Spec => []SavedOnce)` | `BatchOK` on top of both |
| `BatchDownloadProofs!PanicsFollowClears` | `~Overlap => (Spec => []OnlyClearsPanic)`: an index is out of range only while a clear has emptied the list | `CountsMatch` |
| `HelperLicenseProofs!TrialIsLimited`, `StrictMode` | the limit; no download unlogged | `CallsMatch` |
| `HelperLicenseProofs!StagesAreChargedInOrder` | `ChargedInOrder` | `ChargesMatch` |
| `HelperLicenseProofs!TrialIsLogged` | `UsageIsLogged` | `Logged`, and a theory of `MapThenSumSet` |
| `CloudConnectorProofs!ConnectorTypeCorrect` | `TypeOK`, with at most one connection open | `LoopInv` |
| `CloudConnectorProofs!CloudDownloadsAreLicensed`, `CommandsAnsweredOnce` | `DownloadsAreLicensed`, `AnsweredOnce` | `CommandInv` |
| `CloudConnectorProofs!StopIsForGood` | `Spec => ((stopped ~> loop = "ended") => StopsForGood)` | an ended loop stays ended and has left no connection |
| `HubProofs!CallsGetTheirOwnAnswers` | `AnswersMatch` | ids are used once |
| `HubProofs!TablesAreAlwaysCalls` | `TablesAreCalls`: table, loads, and room in every channel | the same, cardinalities of the calls in flight, `PlacesOK` |
| `SingleDownloadProofs!DownloadTypeCorrect`, `DownloadsAreFindable`, `SavedFilesAreWhole`, `DownloadsLeaveNothing` | `TypeOK`, `Findable`, `SavedIsWhole`, `NothingLeft` | one inductive invariant |
| `ChunkUploadProofs!UploadTypeCorrect`, `SavedPartsAreKept` | `TypeOK`, `SavedPartsStay` | slots counted; `PartsOK` |
| `ChunkUploadProofs!MergedIsAlwaysWhole` | `MergeConcurrency = 1 => (Spec => []MergedIsWhole)` | `FilesOK` |

`PanicsFollowClears` and `NothingIsStuck` bound the damage: with early clears a run may index a list that is gone, but
starts, resumes and cancellations never cause that, and with overlapping starts too no task is left "downloading" by
nobody. `StopIsForGood` is the safety
half of a liveness property; that the loop reaches its end is fairness and stays with TLC.

Why the invariants need strengthening:

* **JobLedger**, `IInv == TypeOK /\ NoOverdraft /\ HandlerMatchesRow /\ LedgerExplainsJobs`. That the ledger explains a
  job is not inductive alone: `SubmitFails` may refund only because a row that was settled cannot have its POST
  handler still `submitting`. `HandlerMatchesRow` says which rows each point of the handler can meet, and that the
  row's user and hold are the handler's; that a charge lies in `0 .. reserved` makes a settlement non-negative, which
  `NoOverdraft` rests on.
* **Payments**, `IInv == TypeOK /\ HandlerMatchesOrder /\ CreditedOnce /\ AckedIsCredited`. The unguarded
  `UPDATE orders SET status = 'paying'` keeps a paid order only because the form has not left while the checkout is
  `creating`, which `HandlerMatchesOrder` states.
* **PointsService**: a step of the payment handlers is `Credit` or leaves the wallet alone, and a restart is `JobLedger`'s.
  That makes every behaviour of the service one of `JobLedger`, whose theorems then need no second proof. It is not one of
  `Payments`, as jobs move balances too; but the inductive invariant of `Payments` is about orders and their ledgers, which no
  job handler touches, so its lemmas are used again for the steps of the payment handlers.
* **BatchDownload**, in four layers. `TypeOK /\ WorkersPoint`: a worker past taking a task points into an array that long.
  Without overlapping starts, `HandlerMatchesRuns`: `running` or `cancelFunc` stands for the one live run, whichever
  request or tail clears them. `RunsOK` holds always: only workers of a run being served do anything, and `Tickets`: an
  index is in the run's channel or in one worker's hands, never twice, and below the dispatcher's next. With it
  `DownloadsHeld`, that a task shown as downloading is in the hands of a worker, gives `NothingStuck`: a run
  that is over has no workers. `BatchOK` is for `SavedOnce`: what was given out and not yet taken up is pending
  (`DuePending`); what is in hand is not settled, and saved only by a worker about to report it (`HandsOK`); what was
  saved once is done or in such hands (`SavedOK`). `DuePending` is what a second live run would break. `CountsMatch`, that a
  run's count is the length of the list while it is served and the list is there, gives `OnlyClearsPanic`: starts and
  resumes wait for the run, so that only a clear changes the list under it.
* **HelperLicense**, `TypeOK /\ TrialLimit /\ CallsMatch`: a download begun has an event behind its answered call.
  `ChargesMatch` adds the converse, that an event's call was allowed and is its only one, and that the stage asked second
  has a call only after the first was allowed. A new event is therefore new to the set, which is also why
  `Logged` is kept: adding a number to the usage and an element to the log's sum agree only then. That a sum of a
  finite set gains exactly what is added, in whatever order `CHOOSE` takes the elements, is not in the library; it is shown
  from `FiniteSetsExt`'s definition with smallest counterexamples (`SmallestSet`, `SumExists`, `SumOfPart`, `SumGrows`).
* **CloudConnector**, `LoopInv`: there is an open connection only while the loop is connected, which Stop and the
  heartbeat can close but never open, and the retry count exceeds its bound only on the way out. `CommandInv`: where a
  command is and how far the page has come with it tell what was deducted (`Deducted`) and answered: a `download_video`
  that is mapped has been deducted once, and whatever the page posts once more before it is admitted. The two checks
  are charged independently, so the handler's needs nothing of the connector's.
* **Hub**: `AnswersMatch` needs that every message, in a send buffer, in a browser, in an answer queue or in a worker's
  hand, carries an id no larger than `reqSeq` and the call that had it, and that a waiter found by id is that call. The
  load of a page is the cardinality of a finite set that one call enters or leaves at a time. That a channel of
  capacity one never takes a second answer needs `PlacesOK`: a call's request or answer is at one place of the whole
  system at most (a buffer, the browser, a queue, a hand, its channel), so that nobody else can hold an answer
  to a call whose channel has one; every action moves one message from one place to another (`Moved`) or
  a whole queue by one (`Shifted`).
* **SingleDownload**, `Types /\ RequestsOK /\ Control /\ TakenOK /\ NoClash /\ FilesOK`. `Findable` is kept by the deferred
  delete of another request only because two running requests of one video have raced (`AloneOK`), and because a
  cancellation between its two steps is remembered (`CancelOK`). The files of a request that did not race are one file, at
  the place and in the state its program counter tells (`FilesOK`); nobody else writes there, as names on the way to
  being taken differ (`NoClash`) and a name that exists was taken by a saved request (`TakenOK`). That also counts the names:
  fewer are taken than there are requests, so a free one exists and the model is never blocked where the code is not.
* **ChunkUpload**: the semaphores are the cardinalities of the requests that hold a slot (`ChunkSlots`, `MergeSlots`); a
  part somebody writes is not whole and one whose requests are done, none having failed, is (`PartsOK`); the file of
  a merge that found its parts whole is those it has copied, in order (`FilesOK`), and no merge at work has the name of one
  that succeeded (`NamesOK`), which one merge at a time guarantees.

Only model-checked are the liveness properties, as fairness and ENABLED are beyond the prover: `HoldsClose`,
`PaymentIsCredited`, `RunsEnd`, `CallsEnd`, `DeadPagesLeave`, `CommandsEnd`, `Reconnects`, `DownloadsEnd`, `RequestsEnd`,
and the half of `StopsForGood` that says the loop ends.
`ResumeEnabled = FALSE`, `Development = FALSE`, `Production = TRUE` and `HelperEnabled = FALSE` are covered by the
proofs only.

## 6. Not modelled, and why

* Accounts and sessions: one statement each; the welcome points are `Wallet`'s initial balance.
* Video resolution, previews, search, exports, statistics: reads, text processing and conversions of JSON.
* Logging in and out in the helper: a user is logged in, in `HelperLicense`.
* Stream decryption: ISAAC-64 over 64-bit words needs a bit-level model larger than the code.
* Capture proxy, certificates, injected scripts, configuration, logs, presentation: I/O and text.
* The chunked downloader: no code creates one.
* `save_video`, `save_cover`: one file written in one request; `upload_status`: a read.
* Sync pusher: one goroutine that selects rows by time and remembers when. What it may skip depends on wall-clock times
  of rows, and nothing in the repository states a promise about it.
* Radar: off by default; it inserts rows into the download queue, and what would move those rows is the chunked
  downloader.
* The hub's broadcasts and pings, the connector's bind message, compression and metrics: they only write.
* Hazards no property covers have their reason in `PROJECT.json`.

## 7. Plan

The order is that of importance: money first, then what many goroutines share.

1. *(done)* `Wallet`, `JobLedger`, `PointsAccount`, `Payments`, `PointsService`, `BatchDownload`, `HelperLicense`, with
   their theorems; `Hub` and `CloudConnector` with theirs; `SingleDownload`, `ChunkUpload` with theirs; the theorems of
   `JobLedger` and `Payments` for the whole service.
2. Proofs: the safety halves of the other liveness properties, as `StopIsForGood` is for the connector: that what they lead
   to cannot be undone, and that a state from which they could not be reached is not reached.
3. The licence in front of `SingleDownload` and `ChunkUpload`, if a document comes to promise what a refused download
   costs.
