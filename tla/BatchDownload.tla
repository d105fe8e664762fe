--------------------------- MODULE BatchDownload ---------------------------
(***************************************************************************)
(* Batch downloads of the channel helper (internal/handlers/batch.go).     *)
(*                                                                         *)
(* Every HTTP request is a goroutine of its own.  A request that starts or *)
(* resumes a batch launches a run: a dispatcher that queues the pending    *)
(* tasks and workers that download them with Gopeed.  tasks, running and   *)
(* cancelFunc are shared under BatchHandler.mu, and an action is a section *)
(* under that lock, or a stretch of code between two of them.              *)
(***************************************************************************)
EXTENDS Naturals, Sequences, FiniteSets

CONSTANTS Clients,       \* requests that may be in flight together
          Workers,       \* DownloadConcurrency
          Gids,          \* Gopeed tasks that can be created
          MaxTasks,      \* videos in a batch
          MaxBatches,    \* bound: batches started
          MaxRuns,       \* bound: runs launched, by a start or by a resume
          MaxRetries,    \* DownloadRetryCount
          ResumeEnabled, \* DownloadResumeEnabled
          Overlap        \* whether two starts may be in flight together

ASSUME BoundsAssumption ==
  /\ MaxTasks \in Nat \ {0} /\ MaxBatches \in Nat \ {0}
  /\ MaxRuns \in Nat \ {0} /\ MaxRetries \in Nat \ {0}
ASSUME SwitchesAssumption == {ResumeEnabled, Overlap} \subseteq BOOLEAN
ASSUME NoGidAssumption == "" \notin Gids

Batches == 1 .. MaxBatches
Runs == 1 .. MaxRuns
Indices == 1 .. MaxTasks

VARIABLES heap,       \* the task arrays of all batches: workers keep pointers
          tasks,      \* which of them h.tasks is; 0 is nil
          running,    \* h.running
          cancelFunc, \* h.cancelFunc: the run it cancels, or 0
          run,        \* the runs: dispatcher, channel and context
          worker,     \* the workers of every run
          request,    \* the requests in flight
          gopeed,     \* Gopeed's tasks
          saved,      \* history: how often each task's file was saved
          panicked    \* the process died of an index out of range

handler == <<heap, tasks, running, cancelFunc>>
vars == <<heap, tasks, running, cancelFunc, run, worker, request, gopeed,
          saved, panicked>>

TaskStatuses == {"pending", "downloading", "done", "failed"}
Tasks == [status : TaskStatuses, gid : Gids \cup {""}]
GopeedStates == {"unborn", "running", "paused", "done", "error", "deleted"}
RunStates == {"none", "launched", "starting", "dispatching", "waiting", "ended"}
WorkerStates == {"none", "receiving", "taken", "attempt", "connecting",
                 "created", "waiting", "finishing", "result", "exited"}
Results == {"", "ok", "failed", "paused"}

\* A started batch has an array; the arrays start empty.
NewTask == [status |-> "pending", gid |-> ""]
NoRun == [pc |-> "none", count |-> 0, next |-> 1, queue |-> <<>>, ctxDone |-> FALSE]
NoWork == [pc |-> "none", batch |-> 0, index |-> 0, attempt |-> 0, gid |-> "",
           result |-> ""]

HandlerTypeOK ==
  /\ heap \in [Batches -> Seq(Tasks)]
  /\ \A b \in Batches : Len(heap[b]) <= MaxTasks
  /\ tasks \in 0 .. MaxBatches
  /\ running \in BOOLEAN
  /\ cancelFunc \in 0 .. MaxRuns

RunRecords == [pc : RunStates, count : 0 .. MaxTasks, next : 1 .. MaxTasks + 1,
               queue : Seq(Indices), ctxDone : BOOLEAN]

WorkerRecords == [pc : WorkerStates, batch : 0 .. MaxBatches,
                  index : 0 .. MaxTasks, attempt : 0 .. MaxRetries - 1,
                  gid : Gids \cup {""}, result : Results]

Requests == [pc : {"idle", "cancelled"}]
            \cup [pc : {"starting", "cleaning"}, gids : SUBSET Gids]
            \cup [pc : {"pausing"}, gids : SUBSET Gids, cancel : Runs]
            \cup [pc : {"clearing"}, cancel : 0 .. MaxRuns]

TypeOK ==
  /\ HandlerTypeOK
  /\ run \in [Runs -> RunRecords]
  /\ worker \in [Runs -> [Workers -> WorkerRecords]]
  /\ request \in [Clients -> Requests]
  /\ gopeed \in [Gids -> GopeedStates]
  /\ saved \in [Batches -> [Indices -> Nat]]
  /\ panicked \in BOOLEAN

Init ==
  /\ heap = [b \in Batches |-> <<>>]
  /\ tasks = 0
  /\ running = FALSE
  /\ cancelFunc = 0
  /\ run = [r \in Runs |-> NoRun]
  /\ worker = [r \in Runs |-> [w \in Workers |-> NoWork]]
  /\ request = [c \in Clients |-> [pc |-> "idle"]]
  /\ gopeed = [g \in Gids |-> "unborn"]
  /\ saved = [b \in Batches |-> [i \in Indices |-> 0]]
  /\ panicked = FALSE

-----------------------------------------------------------------------------
(* Helpers *)

\* Mutant of Busy: the tail of a cancelled run is not waited for.
Busy_RunningOnly == running

Busy == running \/ cancelFunc # 0

CurrentTasks == IF tasks = 0 THEN <<>> ELSE heap[tasks]

GidsOf(list) == {list[i].gid : i \in DOMAIN list} \ {""}

\* cleanupTaskArtifacts: the Gopeed tasks are deleted with their files.
Deleted(gids) == [g \in Gids |-> IF g \in gids THEN "deleted" ELSE gopeed[g]]

\* go h.startBatchDownload(...)
Launch ==
  \E r \in Runs :
    /\ run[r].pc = "none"
    /\ \A q \in Runs : q < r => run[q].pc # "none"
    /\ run' = [run EXCEPT ![r].pc = "launched"]

-----------------------------------------------------------------------------
(* Requests *)

\* Nobody sends a second start or resume before the first is answered, unless
\* Overlap says so.
NoOtherStart(c) == Overlap \/ \A d \in Clients \ {c} : request[d].pc # "starting"

\* HandleBatchStart reads busy and copies the old tasks under a read lock; a
\* busy handler refuses, which changes nothing here.
StartChecks(c) ==
  /\ request[c].pc = "idle"
  /\ NoOtherStart(c)
  /\ ~Busy
  /\ request' = [request EXCEPT ![c] =
                   [pc |-> "starting", gids |-> GidsOf(CurrentTasks)]]
  /\ UNCHANGED <<handler, run, worker, gopeed, saved, panicked>>

\* It cleans up after the old tasks without the lock, then installs the new
\* ones under it, without looking at busy again.
StartInstalls(c, n) ==
  /\ request[c].pc = "starting"
  /\ \E b \in Batches :
       /\ heap[b] = <<>>
       /\ \A a \in Batches : a < b => heap[a] # <<>>
       /\ heap' = [heap EXCEPT ![b] = [i \in 1 .. n |-> NewTask]]
       /\ tasks' = b
  /\ running' = TRUE
  /\ Launch
  /\ gopeed' = Deleted(request[c].gids)
  /\ request' = [request EXCEPT ![c] = [pc |-> "idle"]]
  /\ UNCHANGED <<cancelFunc, worker, saved, panicked>>

\* HandleBatchResume does everything under one lock.
BatchResume(c) ==
  /\ request[c].pc = "idle"
  /\ NoOtherStart(c)
  /\ \E i \in DOMAIN CurrentTasks : CurrentTasks[i].status = "pending"
  /\ ~Busy
  /\ running' = TRUE
  /\ Launch
  /\ UNCHANGED <<heap, tasks, cancelFunc, worker, request, gopeed, saved, panicked>>

\* Mutant of Unstarted: failed and finished tasks are offered again too.
Unstarted_All(task) == [task EXCEPT !.status = "pending"]

Unstarted(task) ==
  IF task.status = "downloading" THEN [task EXCEPT !.status = "pending"] ELSE task

\* HandleBatchCancel takes the downloads back under the lock, collects their
\* Gopeed tasks and goes on without it.  With no cancelFunc it only answers.
CancelStops(c) ==
  /\ request[c].pc = "idle"
  /\ cancelFunc # 0
  /\ LET stopped == {i \in DOMAIN CurrentTasks :
                       running /\ CurrentTasks[i].status = "downloading"}
     IN  request' = [request EXCEPT ![c] =
           [pc |-> "pausing", cancel |-> cancelFunc,
            gids |-> IF ResumeEnabled
                     THEN {CurrentTasks[i].gid : i \in stopped} \ {""} ELSE {}]]
  /\ heap' = IF running /\ tasks # 0
             THEN [heap EXCEPT ![tasks] =
                     [i \in DOMAIN heap[tasks] |-> Unstarted(heap[tasks][i])]]
             ELSE heap
  /\ running' = FALSE
  /\ UNCHANGED <<tasks, cancelFunc, run, worker, gopeed, saved, panicked>>

CancelPausesOne(c) ==
  /\ request[c].pc = "pausing"
  /\ \E g \in request[c].gids :
       /\ gopeed' = IF gopeed[g] = "running"
                    THEN [gopeed EXCEPT ![g] = "paused"] ELSE gopeed
       /\ request' = [request EXCEPT ![c].gids = @ \ {g}]
  /\ UNCHANGED <<handler, run, worker, saved, panicked>>

CancelContext(c) ==
  /\ request[c].pc = "pausing"
  /\ request[c].gids = {}
  /\ run' = [run EXCEPT ![request[c].cancel].ctxDone = TRUE]
  /\ request' = [request EXCEPT ![c] = [pc |-> "cancelled"]]
  /\ UNCHANGED <<handler, worker, gopeed, saved, panicked>>

CancelFindsNone(c) ==
  /\ request[c].pc = "idle"
  /\ cancelFunc = 0
  /\ request' = [request EXCEPT ![c] = [pc |-> "cancelled"]]
  /\ UNCHANGED <<handler, run, worker, gopeed, saved, panicked>>

\* The client has read the answer of its cancellation.
CancelAnswered(c) ==
  /\ request[c].pc = "cancelled"
  /\ request' = [request EXCEPT ![c] = [pc |-> "idle"]]
  /\ UNCHANGED <<handler, run, worker, gopeed, saved, panicked>>

\* HandleBatchClear cancels the run it finds ...
ClearStops(c) ==
  /\ request[c].pc = "idle"
  /\ request' = [request EXCEPT ![c] = [pc |-> "clearing", cancel |-> cancelFunc]]
  /\ running' = (running /\ cancelFunc = 0)
  /\ run' = IF cancelFunc = 0 THEN run
            ELSE [run EXCEPT ![cancelFunc].ctxDone = TRUE]
  /\ UNCHANGED <<heap, tasks, cancelFunc, worker, gopeed, saved, panicked>>

\* Only network and file work takes no notice of the context for five seconds.
Overdue(r) ==
  \E w \in Workers : worker[r][w].pc \in {"connecting", "created", "finishing"}

\* ... waits for it for at most five seconds, and drops the tasks in any case.
\* It drops those of a run that works when the run outlasts the wait, or was
\* launched and had not set cancelFunc yet.
ClearForgets(c) ==
  /\ request[c].pc = "clearing"
  /\ request[c].cancel # 0 => ~Busy \/ Overdue(request[c].cancel)
  /\ tasks' = 0
  /\ request' = [request EXCEPT ![c] =
                   [pc |-> "cleaning", gids |-> GidsOf(CurrentTasks)]]
  /\ UNCHANGED <<heap, running, cancelFunc, run, worker, gopeed, saved, panicked>>

ClearCleans(c) ==
  /\ request[c].pc = "cleaning"
  /\ gopeed' = Deleted(request[c].gids)
  /\ request' = [request EXCEPT ![c] = [pc |-> "idle"]]
  /\ UNCHANGED <<handler, run, worker, saved, panicked>>

-----------------------------------------------------------------------------
(* startBatchDownload: the dispatcher *)

RunBegins(r) ==
  /\ run[r].pc = "launched"
  /\ cancelFunc' = r
  /\ run' = [run EXCEPT ![r].pc = "starting"]
  /\ UNCHANGED <<heap, tasks, running, worker, request, gopeed, saved, panicked>>

\* The deferred function.
RunReleases(r) ==
  /\ running' = FALSE
  /\ cancelFunc' = 0
  /\ run' = [run EXCEPT ![r].pc = "ended", ![r].ctxDone = TRUE]
  /\ UNCHANGED <<heap, tasks, worker, request, gopeed, saved, panicked>>

\* There is no download directory.
RunAborts(r) ==
  /\ run[r].pc = "starting"
  /\ RunReleases(r)

\* len(h.tasks) is read once, for the channel and for the range.
WorkersStart(r) ==
  /\ run[r].pc = "starting"
  /\ run' = [run EXCEPT ![r].pc = "dispatching", ![r].count = Len(CurrentTasks)]
  /\ worker' = [worker EXCEPT ![r] = [w \in Workers |-> [NoWork EXCEPT !.pc = "receiving"]]]
  /\ UNCHANGED <<handler, request, gopeed, saved, panicked>>

Panic ==
  /\ panicked' = TRUE
  /\ UNCHANGED <<handler, run, worker, request, gopeed, saved>>

\* h.tasks is indexed anew every time: it may be another array by now.
Dispatch(r) ==
  /\ run[r].pc = "dispatching"
  /\ run[r].next <= run[r].count
  /\ IF run[r].next > Len(CurrentTasks) THEN Panic ELSE
       /\ run' = [run EXCEPT ![r].next = @ + 1,
                    ![r].queue = IF CurrentTasks[run[r].next].status = "pending"
                                 THEN Append(@, run[r].next) ELSE @]
       /\ UNCHANGED <<handler, worker, request, gopeed, saved, panicked>>

\* The range is over, or the select of a pending task took the cancelled
\* context: the channel is closed.
CloseChannel(r) ==
  /\ run[r].pc = "dispatching"
  /\ \/ run[r].next > run[r].count
     \/ /\ run[r].ctxDone
        /\ run[r].next <= Len(CurrentTasks)
        /\ CurrentTasks[run[r].next].status = "pending"
  /\ run' = [run EXCEPT ![r].pc = "waiting"]
  /\ UNCHANGED <<handler, worker, request, gopeed, saved, panicked>>

\* With nothing queued the code does not wait for its workers, which then
\* have nothing to do.
RunEnds(r) ==
  /\ run[r].pc = "waiting"
  /\ \A w \in Workers : worker[r][w].pc = "exited"
  /\ RunReleases(r)

-----------------------------------------------------------------------------
(* startBatchDownload: a worker *)

TaskOf(r, w) == heap[worker[r][w].batch][worker[r][w].index]

\* The worker writes through its pointer, whatever h.tasks is by now.
WriteTask(r, w, task) ==
  heap' = [heap EXCEPT ![worker[r][w].batch][worker[r][w].index] = task]

GoTo(r, w, pc) == worker' = [worker EXCEPT ![r][w].pc = pc]

Report(r, w, result) ==
  worker' = [worker EXCEPT ![r][w].pc = "result", ![r][w].result = result]

Receive(r, w) ==
  /\ worker[r][w].pc = "receiving"
  /\ run[r].queue # <<>>
  /\ run' = [run EXCEPT ![r].queue = Tail(@)]
  /\ worker' = [worker EXCEPT
       ![r][w].pc = IF run[r].ctxDone THEN "exited" ELSE "taken",
       ![r][w].index = Head(run[r].queue)]
  /\ UNCHANGED <<handler, request, gopeed, saved, panicked>>

WorkerExits(r, w) ==
  /\ worker[r][w].pc = "receiving"
  /\ run[r].pc = "waiting"
  /\ run[r].queue = <<>>
  /\ GoTo(r, w, "exited")
  /\ UNCHANGED <<handler, run, request, gopeed, saved, panicked>>

WorkerTakes(r, w) ==
  LET i == worker[r][w].index
  IN  /\ worker[r][w].pc = "taken"
      /\ IF i > Len(CurrentTasks) THEN Panic ELSE
           /\ heap' = [heap EXCEPT ![tasks][i].status = "downloading"]
           /\ worker' = [worker EXCEPT ![r][w].pc = "attempt",
                           ![r][w].batch = tasks, ![r][w].attempt = 0]
           /\ UNCHANGED <<tasks, running, cancelFunc, run, request, gopeed,
                          saved, panicked>>

\* The file is there from an earlier download, or its directory cannot be made.
NoDownload(r, w) ==
  /\ worker[r][w].pc = "attempt"
  /\ worker[r][w].attempt = 0
  /\ \E result \in {"ok", "failed"} : Report(r, w, result)
  /\ UNCHANGED <<handler, run, request, gopeed, saved, panicked>>

\* The context is looked at before an attempt, and during the back-off.
AttemptStarts(r, w) ==
  /\ worker[r][w].pc = "attempt"
  /\ IF run[r].ctxDone THEN Report(r, w, "paused") ELSE GoTo(r, w, "connecting")
  /\ UNCHANGED <<handler, run, request, gopeed, saved, panicked>>

\* Mutant of AttemptFails: failed attempts are not counted.
AttemptFails_Uncounted(r, w) ==
  worker' = [worker EXCEPT ![r][w].pc = "attempt"]

\* An attempt failed: there is another one, or the video has failed.
AttemptFails(r, w) ==
  IF worker[r][w].attempt + 1 < MaxRetries
  THEN worker' = [worker EXCEPT ![r][w].pc = "attempt", ![r][w].attempt = @ + 1]
  ELSE Report(r, w, "failed")

CreateGopeedTask(r, w) ==
  /\ worker[r][w].pc = "connecting"
  /\ TaskOf(r, w).gid = ""
  /\ \E g \in Gids :
       /\ gopeed[g] = "unborn"
       /\ gopeed' = [gopeed EXCEPT ![g] = "running"]
       /\ worker' = [worker EXCEPT ![r][w].pc = "created", ![r][w].gid = g]
  /\ UNCHANGED <<handler, run, request, saved, panicked>>

RecordGopeedTask(r, w) ==
  /\ worker[r][w].pc = "created"
  /\ WriteTask(r, w, [TaskOf(r, w) EXCEPT !.gid = worker[r][w].gid])
  /\ GoTo(r, w, "waiting")
  /\ UNCHANGED <<tasks, running, cancelFunc, run, request, gopeed, saved, panicked>>

\* CreateTask or ContinueTask fails.
ConnectFails(r, w) ==
  /\ worker[r][w].pc = "connecting"
  /\ AttemptFails(r, w)
  /\ UNCHANGED <<handler, run, request, gopeed, saved, panicked>>

\* The Gopeed task of an earlier attempt or run is taken up again.
ContinueGopeedTask(r, w) ==
  LET g == TaskOf(r, w).gid
  IN  /\ worker[r][w].pc = "connecting"
      /\ g # ""
      /\ ResumeEnabled => gopeed[g] \notin {"deleted", "error"}
      /\ gopeed' = IF ResumeEnabled /\ gopeed[g] = "paused"
                   THEN [gopeed EXCEPT ![g] = "running"] ELSE gopeed
      /\ worker' = [worker EXCEPT ![r][w].pc = "waiting", ![r][w].gid = g]
      /\ UNCHANGED <<handler, run, request, saved, panicked>>

\* cleanupTaskArtifacts, and the task forgets its Gopeed task.
Cleanup(r, w) ==
  /\ gopeed' = Deleted({TaskOf(r, w).gid} \ {""})
  /\ WriteTask(r, w, [TaskOf(r, w) EXCEPT !.gid = ""])
  /\ UNCHANGED <<tasks, running, cancelFunc>>

ForgetGopeedTask(r, w) ==
  /\ worker[r][w].pc = "connecting"
  /\ TaskOf(r, w).gid # ""
  /\ ResumeEnabled
  /\ gopeed[TaskOf(r, w).gid] \in {"deleted", "error"}
  /\ Cleanup(r, w)
  /\ UNCHANGED <<run, worker, request, saved, panicked>>

\* WaitTask polls Gopeed and listens to the context.
WaitCancelled(r, w) ==
  /\ worker[r][w].pc = "waiting"
  /\ run[r].ctxDone
  /\ IF ResumeEnabled THEN UNCHANGED <<handler, gopeed>> ELSE Cleanup(r, w)
  /\ Report(r, w, "paused")
  /\ UNCHANGED <<run, request, saved, panicked>>

WaitPaused(r, w) ==
  /\ worker[r][w].pc = "waiting"
  /\ gopeed[worker[r][w].gid] = "paused"
  /\ Report(r, w, "paused")
  /\ UNCHANGED <<handler, run, request, gopeed, saved, panicked>>

WaitDone(r, w) ==
  /\ worker[r][w].pc = "waiting"
  /\ gopeed[worker[r][w].gid] = "done"
  /\ GoTo(r, w, "finishing")
  /\ UNCHANGED <<handler, run, request, gopeed, saved, panicked>>

\* Gopeed reports an error or no longer knows the task, or the attempt's own
\* time is over; or the file cannot be read, decrypted or moved.
DownloadFails(r, w) ==
  /\ worker[r][w].pc \in {"waiting", "finishing"}
  /\ Cleanup(r, w)
  /\ AttemptFails(r, w)
  /\ UNCHANGED <<run, request, saved, panicked>>

\* The file is decrypted and moved to its final name.
SaveVideo(r, w) ==
  /\ worker[r][w].pc = "finishing"
  /\ gopeed[worker[r][w].gid] # "deleted"
  /\ saved' = [saved EXCEPT ![worker[r][w].batch][worker[r][w].index] = @ + 1]
  /\ Cleanup(r, w)
  /\ Report(r, w, "ok")
  /\ UNCHANGED <<run, request, panicked>>

\* Mutant of SettledAs: a paused download keeps its status.
SettledAs_KeepsDownloading(status, result) ==
  CASE result = "ok" -> "done"
    [] result = "failed" -> "failed"
    [] result = "paused" -> status

SettledAs(status, result) ==
  CASE result = "ok" -> "done"
    [] result = "failed" -> "failed"
    [] result = "paused" -> IF status = "downloading" THEN "pending" ELSE status

Settle(r, w) ==
  /\ worker[r][w].pc = "result"
  /\ WriteTask(r, w, [TaskOf(r, w) EXCEPT !.status = SettledAs(@, worker[r][w].result)])
  /\ worker' = [worker EXCEPT ![r][w] = [NoWork EXCEPT !.pc = "receiving"]]
  /\ UNCHANGED <<tasks, running, cancelFunc, run, request, gopeed, saved, panicked>>

GopeedWorks(g) ==
  /\ gopeed[g] = "running"
  /\ \E state \in {"done", "error"} : gopeed' = [gopeed EXCEPT ![g] = state]
  /\ UNCHANGED <<handler, run, worker, request, saved, panicked>>

-----------------------------------------------------------------------------
RequestStep(c) ==
  \/ StartChecks(c) \/ \E n \in Indices : StartInstalls(c, n)
  \/ BatchResume(c)
  \/ CancelStops(c) \/ CancelPausesOne(c) \/ CancelContext(c)
  \/ CancelFindsNone(c) \/ CancelAnswered(c)
  \/ ClearStops(c) \/ ClearForgets(c) \/ ClearCleans(c)

DispatcherStep(r) ==
  \/ RunBegins(r) \/ RunAborts(r) \/ WorkersStart(r)
  \/ Dispatch(r) \/ CloseChannel(r) \/ RunEnds(r)

WorkerStep(r, w) ==
  \/ Receive(r, w) \/ WorkerExits(r, w) \/ WorkerTakes(r, w)
  \/ NoDownload(r, w) \/ AttemptStarts(r, w)
  \/ CreateGopeedTask(r, w) \/ RecordGopeedTask(r, w) \/ ConnectFails(r, w)
  \/ ContinueGopeedTask(r, w) \/ ForgetGopeedTask(r, w)
  \/ WaitCancelled(r, w) \/ WaitPaused(r, w) \/ WaitDone(r, w)
  \/ DownloadFails(r, w) \/ SaveVideo(r, w) \/ Settle(r, w)

Next ==
  /\ ~panicked
  /\ \/ \E c \in Clients : RequestStep(c)
     \/ \E r \in Runs : DispatcherStep(r)
     \/ \E r \in Runs, w \in Workers : WorkerStep(r, w)
     \/ \E g \in Gids : GopeedWorks(g)

Spec == Init /\ [][Next]_vars

\* A goroutine that can run runs in the end.  Gopeed need not make progress:
\* WaitTask has a timeout (DownloadFails).
Fairness ==
  /\ \A r \in Runs : WF_vars(~panicked /\ DispatcherStep(r))
  /\ \A r \in Runs, w \in Workers : WF_vars(~panicked /\ WorkerStep(r, w))

FairSpec == Spec /\ Fairness

-----------------------------------------------------------------------------
(* Properties *)

\* startBatchDownload has been called for the run and has not returned.
Live(r) == run[r].pc \in {"launched", "starting", "dispatching", "waiting"}

\* At most one run works at any time: a start or a resume waits for the tail
\* of the run before, which cancelFunc stands for.
OneRun == \A r, q \in Runs : Live(r) /\ Live(q) => r = q

InHand(r, w, b, i) ==
  /\ worker[r][w].batch = b
  /\ worker[r][w].index = i
  /\ worker[r][w].pc \notin {"none", "receiving", "taken", "exited"}

\* A video is downloaded and saved once, by one worker, however often its batch
\* is cancelled and resumed; once saved it is done for good.
SavedOnce ==
  \A b \in Batches : \A i \in Indices :
    /\ saved[b][i] <= 1
    /\ saved[b][i] = 1 =>
         \/ heap[b][i].status = "done"
         \/ \E r \in Runs, w \in Workers :
              InHand(r, w, b, i) /\ worker[r][w].result = "ok"

\* With no run, no task of the list is shown as downloading: it could be
\* neither resumed nor finished.
NothingStuck ==
  (\A r \in Runs : ~Live(r)) =>
    \A i \in DOMAIN CurrentTasks : CurrentTasks[i].status # "downloading"

\* A run gives the handler back: a new start is not refused for ever.
RunsEnd == \A r \in Runs : Live(r) ~> (~Live(r) \/ panicked)

\* Clearing stops the downloads: cancelFunc interrupts them at once (the comment
\* on it), the clear waits for the run and answers that the tasks are cleared.
\* No goroutine of a run is then left to index the list that is gone.
IndicesAreChecked == ~panicked

\* Only a clear takes the list from under the indices of a run: no start or
\* resume replaces it while the tail of a run before still uses it.
OnlyClearsPanic == panicked => tasks = 0
=============================================================================
