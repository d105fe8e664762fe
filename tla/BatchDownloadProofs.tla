------------------------ MODULE BatchDownloadProofs ------------------------
(***************************************************************************)
(* For every number of requests, workers, tasks and runs: types, one run at*)
(* a time, no run that waits for ever on what nobody will send, no task    *)
(* saved twice by runs that do not overlap, and no task looked up beyond   *)
(* the list by runs whose list is not cleared under them.                  *)
(***************************************************************************)
EXTENDS BatchDownload, SequenceTheorems, TLAPS

Working == {"attempt", "connecting", "created", "waiting", "finishing", "result"}

\* What a worker's pointer and locals are good for in each of its states.
Points(rec, h) ==
  /\ rec.pc \in Working => rec.batch \in Batches /\ rec.index \in DOMAIN h[rec.batch]
  /\ rec.pc = "taken" => rec.index \in Indices
  /\ rec.pc = "created" => rec.gid \in Gids
  /\ rec.pc = "result" => rec.result # ""

WorkersPoint == \A r \in Runs : \A w \in Workers : Points(worker[r][w], heap)

\* running and cancelFunc stand for the one live run, and for the start that
\* is about to launch one.
HandlerMatchesRuns ==
  /\ \A r \in Runs :
       /\ run[r].pc = "launched" => running /\ cancelFunc = 0
       /\ run[r].pc \in {"starting", "dispatching", "waiting"} => cancelFunc = r
  /\ \A c \in Clients : request[c].pc = "starting" => ~Busy
  /\ \A c, d \in Clients :
       request[c].pc = "starting" /\ request[d].pc = "starting" => c = d
  /\ \A r, q \in Runs : run[r].pc = "launched" /\ run[q].pc = "launched" => r = q

USE DEF Batches, Runs, Indices

\* The helper starts with no batch, no run and no worker.
LEMMA InitOK == Init => TypeOK /\ WorkersPoint
  <1> SUFFICES ASSUME Init PROVE TypeOK /\ WorkersPoint
    OBVIOUS
  <1> USE DEF Init
  <1>1. HandlerTypeOK
    <2>1. <<>> \in Seq(Tasks) /\ Len(<<>>) = 0  BY EmptySeq
    <2>2. 0 \in 0 .. MaxBatches /\ 0 \in 0 .. MaxRuns /\ 0 <= MaxTasks  BY BoundsAssumption
    <2>3. heap \in [Batches -> Seq(Tasks)]  BY <2>1
    <2>4. \A b \in Batches : heap[b] = <<>>  OBVIOUS
    <2>5. \A b \in Batches : Len(heap[b]) <= MaxTasks  BY <2>1, <2>2, <2>4
    <2>6. QED  BY <2>2, <2>3, <2>5 DEF HandlerTypeOK
  <1>2. NoRun \in RunRecords  BY EmptySeq, BoundsAssumption DEF NoRun, RunRecords, RunStates
  <1>3. NoWork \in WorkerRecords
    <2>1. 0 \in 0 .. MaxRetries - 1  BY BoundsAssumption
    <2>2. 0 \in 0 .. MaxBatches /\ 0 \in 0 .. MaxTasks  BY BoundsAssumption
    <2>3. QED  BY <2>1, <2>2 DEF NoWork, WorkerRecords, WorkerStates, Results
  <1>4. request \in [Clients -> Requests]  BY DEF Requests
  <1>5. WorkersPoint  BY DEF WorkersPoint, Points, NoWork, Working
  <1>6. QED  BY <1>1, <1>2, <1>3, <1>4, <1>5 DEF TypeOK, GopeedStates

\* The current tasks are a sequence of tasks.
LEMMA CurrentTyped ==
  ASSUME TypeOK
  PROVE  /\ CurrentTasks \in Seq(Tasks)
         /\ Len(CurrentTasks) \in 0 .. MaxTasks
         /\ DOMAIN CurrentTasks = 1 .. Len(CurrentTasks)
  <1>1. CASE tasks = 0
    <2>1. CurrentTasks = <<>>  BY <1>1 DEF CurrentTasks
    <2>2. <<>> \in Seq(Tasks) /\ Len(<<>>) = 0 /\ DOMAIN <<>> = 1 .. 0
      BY EmptySeq, LenProperties
    <2>3. QED  BY <2>1, <2>2, BoundsAssumption
  <1>2. CASE tasks # 0
    <2>1. tasks \in Batches  BY <1>2, BoundsAssumption DEF TypeOK, HandlerTypeOK
    <2>2. heap[tasks] \in Seq(Tasks) /\ Len(heap[tasks]) <= MaxTasks  BY <2>1 DEF TypeOK, HandlerTypeOK
    <2>3. QED  BY <1>2, <2>2, LenProperties DEF CurrentTasks
  <1>3. QED  BY <1>1, <1>2

\* The Gopeed tasks a cancellation or a clean-up collects are tasks of Gopeed.
LEMMA GidsTyped ==
  ASSUME TypeOK
  PROVE  GidsOf(CurrentTasks) \subseteq Gids
  <1> SUFFICES ASSUME NEW i \in DOMAIN CurrentTasks
               PROVE  CurrentTasks[i].gid \in Gids \cup {""}
    BY DEF GidsOf
  <1>1. CurrentTasks[i] \in Tasks  BY CurrentTyped, ElementOfSeq
  <1>2. QED  BY <1>1 DEF Tasks

\* Deleting Gopeed tasks leaves every task in some state.
LEMMA DeletedTyped ==
  ASSUME TypeOK, NEW gids
  PROVE  Deleted(gids) \in [Gids -> GopeedStates]
  BY DEF TypeOK, Deleted, GopeedStates

\* A worker writes its task through its pointer.
LEMMA WriteKeepsType ==
  ASSUME TypeOK, WorkersPoint, NEW r \in Runs, NEW w \in Workers,
         worker[r][w].pc \in Working, NEW task \in Tasks, WriteTask(r, w, task)
  PROVE  /\ heap' \in [Batches -> Seq(Tasks)]
         /\ \A b \in Batches : Len(heap'[b]) = Len(heap[b]) /\ DOMAIN heap'[b] = DOMAIN heap[b]
  <1> DEFINE b0 == worker[r][w].batch
             i0 == worker[r][w].index
  <1>1. b0 \in Batches /\ i0 \in DOMAIN heap[b0]  BY DEF WorkersPoint, Points
  <1>2. heap[b0] \in Seq(Tasks)  BY <1>1 DEF TypeOK, HandlerTypeOK
  <1>3. i0 \in 1 .. Len(heap[b0])  BY <1>1, <1>2, LenProperties
  <1>4. /\ [heap[b0] EXCEPT ![i0] = task] \in Seq(Tasks)
        /\ Len([heap[b0] EXCEPT ![i0] = task]) = Len(heap[b0])
    BY <1>2, <1>3, ExceptSeq
  <1>5. heap' = [heap EXCEPT ![b0] = [heap[b0] EXCEPT ![i0] = task]]
    BY DEF WriteTask, TypeOK, HandlerTypeOK
  <1> HIDE DEF b0, i0
  <1>6. QED  BY <1>1, <1>4, <1>5, LenProperties DEF TypeOK, HandlerTypeOK

\* Where a worker is working, its task is a task.
LEMMA TaskTyped ==
  ASSUME TypeOK, WorkersPoint, NEW r \in Runs, NEW w \in Workers,
         worker[r][w].pc \in Working
  PROVE  TaskOf(r, w) \in Tasks
  <1>1. heap[worker[r][w].batch] \in Seq(Tasks)  BY DEF WorkersPoint, Points, TypeOK, HandlerTypeOK
  <1>2. QED  BY <1>1, LenProperties, ElementOfSeq DEF TaskOf, WorkersPoint, Points
\* Arrays never shrink, so pointers stay good while their workers rest.
LEMMA RestingWorkers ==
  ASSUME WorkersPoint, UNCHANGED worker,
         \A b \in Batches : DOMAIN heap[b] \subseteq DOMAIN heap'[b]
  PROVE  WorkersPoint'
  BY DEF WorkersPoint, Points

\* One worker moves to a state its pointer is good for.
LEMMA MovingWorker ==
  ASSUME TypeOK, WorkersPoint, NEW r \in Runs, NEW w \in Workers,
         NEW rec \in WorkerRecords, Points(rec, heap'),
         worker' = [worker EXCEPT ![r][w] = rec],
         \A b \in Batches : DOMAIN heap[b] \subseteq DOMAIN heap'[b]
  PROVE  worker' \in [Runs -> [Workers -> WorkerRecords]] /\ WorkersPoint'
  BY DEF WorkersPoint, Points, TypeOK

\* go startBatchDownload gives an unused run its record.
LEMMA LaunchTyped ==
  ASSUME TypeOK, Launch
  PROVE  run' \in [Runs -> RunRecords]
  BY DEF Launch, TypeOK, RunRecords, RunStates

\* The HTTP requests: start, resume, cancel and clear.
LEMMA RequestsKeepTypes ==
  ASSUME TypeOK, WorkersPoint, NEW c \in Clients, RequestStep(c)
  PROVE  TypeOK' /\ WorkersPoint'
  <1>1. CASE StartChecks(c)
    <2>1. request' \in [Clients -> Requests]
      BY <1>1, GidsTyped DEF StartChecks, TypeOK, Requests
    <2>2. QED  BY <1>1, <2>1, RestingWorkers DEF StartChecks, TypeOK, HandlerTypeOK, handler
  <1>2. CASE \E n \in Indices : StartInstalls(c, n)
    <2>1. PICK n \in Indices : StartInstalls(c, n)  BY <1>2
    <2>2. PICK b \in Batches : /\ heap[b] = <<>>
                               /\ heap' = [heap EXCEPT ![b] = [i \in 1 .. n |-> NewTask]]
                               /\ tasks' = b
      BY <2>1 DEF StartInstalls
    <2>3. /\ [i \in 1 .. n |-> NewTask] \in Seq(Tasks)
          /\ Len([i \in 1 .. n |-> NewTask]) = n
      BY DEF NewTask, Tasks, TaskStatuses
    <2>4. n <= MaxTasks  BY BoundsAssumption
    <2>5. heap' \in [Batches -> Seq(Tasks)] /\ \A a \in Batches : Len(heap'[a]) <= MaxTasks
      BY <2>2, <2>3, <2>4 DEF TypeOK, HandlerTypeOK
    <2>6. \A a \in Batches : DOMAIN heap[a] \subseteq DOMAIN heap'[a]
      BY <2>2 DEF TypeOK, HandlerTypeOK
    <2>7. HandlerTypeOK'
      <3>1. tasks' \in 0 .. MaxBatches  BY <2>2, BoundsAssumption
      <3>2. running' \in BOOLEAN /\ cancelFunc' = cancelFunc  BY <2>1 DEF StartInstalls
      <3>3. QED  BY <2>5, <3>1, <3>2 DEF TypeOK, HandlerTypeOK
    <2>8. request' \in [Clients -> Requests]  BY <2>1 DEF StartInstalls, TypeOK, Requests
    <2>9. QED
      BY <2>1, <2>6, <2>7, <2>8, RestingWorkers, LaunchTyped, DeletedTyped
      DEF StartInstalls, TypeOK
  <1>3. CASE BatchResume(c)
    BY <1>3, LaunchTyped, RestingWorkers DEF BatchResume, TypeOK, HandlerTypeOK
  <1>4. CASE CancelStops(c)
    <2>1. cancelFunc \in Runs
      <3>1. cancelFunc # 0 /\ cancelFunc \in 0 .. MaxRuns
        BY <1>4 DEF CancelStops, TypeOK, HandlerTypeOK
      <3>2. QED  BY <3>1, BoundsAssumption
    <2>2. \A i \in DOMAIN CurrentTasks : CurrentTasks[i].gid \in Gids \cup {""}
      BY GidsTyped DEF GidsOf
    <2>3. request' \in [Clients -> Requests]
      <3>1. PICK gids \in SUBSET Gids :
              request' = [request EXCEPT ![c] =
                [pc |-> "pausing", cancel |-> cancelFunc, gids |-> gids]]
        BY <1>4, <2>2 DEF CancelStops
      <3>2. QED  BY <2>1, <3>1 DEF TypeOK, Requests
    <2>4. /\ heap' \in [Batches -> Seq(Tasks)]
          /\ \A b \in Batches : Len(heap'[b]) = Len(heap[b]) /\ DOMAIN heap'[b] = DOMAIN heap[b]
      <3>1. CASE ~(running /\ tasks # 0)
        BY <1>4, <3>1 DEF CancelStops, TypeOK, HandlerTypeOK
      <3>2. CASE running /\ tasks # 0
        <4> DEFINE new == [i \in DOMAIN heap[tasks] |-> Unstarted(heap[tasks][i])]
        <4>1. tasks \in Batches  BY <3>2, BoundsAssumption DEF TypeOK, HandlerTypeOK
        <4>2. heap[tasks] \in Seq(Tasks)  BY <4>1 DEF TypeOK, HandlerTypeOK
        <4>3. DOMAIN heap[tasks] = 1 .. Len(heap[tasks]) /\ Len(heap[tasks]) \in Nat
          BY <4>2, LenProperties
        <4>4. \A i \in 1 .. Len(heap[tasks]) : Unstarted(heap[tasks][i]) \in Tasks
          <5> SUFFICES ASSUME NEW i \in 1 .. Len(heap[tasks])
                       PROVE  Unstarted(heap[tasks][i]) \in Tasks
            OBVIOUS
          <5>1. heap[tasks][i] \in Tasks  BY <4>2, ElementOfSeq
          <5>2. QED  BY <5>1 DEF Unstarted, Tasks, TaskStatuses
        <4>5. new \in Seq(Tasks) /\ Len(new) = Len(heap[tasks]) /\ DOMAIN new = DOMAIN heap[tasks]
          BY <4>3, <4>4
        <4>6. heap' = [heap EXCEPT ![tasks] = new]  BY <1>4, <3>2 DEF CancelStops
        <4> HIDE DEF new
        <4>7. QED  BY <4>1, <4>5, <4>6 DEF TypeOK, HandlerTypeOK
      <3>3. QED  BY <3>1, <3>2
    <2>5. HandlerTypeOK'  BY <1>4, <2>4 DEF CancelStops, TypeOK, HandlerTypeOK
    <2>6. QED  BY <1>4, <2>3, <2>4, <2>5, RestingWorkers DEF CancelStops, TypeOK
  <1>5. CASE CancelPausesOne(c)
    <2>1. request' \in [Clients -> Requests]
      BY <1>5 DEF CancelPausesOne, TypeOK, Requests
    <2>2. QED
      BY <1>5, <2>1, RestingWorkers
      DEF CancelPausesOne, TypeOK, HandlerTypeOK, handler, GopeedStates
  <1>6. CASE CancelContext(c)
    <2>1. request' \in [Clients -> Requests]  BY <1>6 DEF CancelContext, TypeOK, Requests
    <2>2. run' \in [Runs -> RunRecords]  BY <1>6 DEF CancelContext, TypeOK, RunRecords
    <2>3. QED
      BY <1>6, <2>1, <2>2, RestingWorkers DEF CancelContext, TypeOK, HandlerTypeOK, handler
  <1>7. CASE CancelFindsNone(c) \/ CancelAnswered(c)
    <2>1. request' \in [Clients -> Requests]
      BY <1>7 DEF CancelFindsNone, CancelAnswered, TypeOK, Requests
    <2>2. QED
      BY <1>7, <2>1, RestingWorkers
      DEF CancelFindsNone, CancelAnswered, TypeOK, HandlerTypeOK, handler
  <1>8. CASE ClearStops(c)
    <2>1. request' \in [Clients -> Requests]
      BY <1>8 DEF ClearStops, TypeOK, HandlerTypeOK, Requests
    <2>2. run' \in [Runs -> RunRecords]  BY <1>8 DEF ClearStops, TypeOK, RunRecords
    <2>3. QED
      BY <1>8, <2>1, <2>2, RestingWorkers DEF ClearStops, TypeOK, HandlerTypeOK
  <1>9. CASE ClearForgets(c)
    <2>1. request' \in [Clients -> Requests]
      BY <1>9, GidsTyped DEF ClearForgets, TypeOK, Requests
    <2>2. HandlerTypeOK'  BY <1>9, BoundsAssumption DEF ClearForgets, TypeOK, HandlerTypeOK
    <2>3. QED  BY <1>9, <2>1, <2>2, RestingWorkers DEF ClearForgets, TypeOK
  <1>10. CASE ClearCleans(c)
    <2>1. request' \in [Clients -> Requests]  BY <1>10 DEF ClearCleans, TypeOK, Requests
    <2>2. QED
      BY <1>10, <2>1, DeletedTyped, RestingWorkers
      DEF ClearCleans, TypeOK, HandlerTypeOK, handler
  <1>11. QED
    BY <1>1, <1>2, <1>3, <1>4, <1>5, <1>6, <1>7, <1>8, <1>9, <1>10 DEF RequestStep
\* Deferred functions, panics and queues of a run.
LEMMA DispatchersKeepTypes ==
  ASSUME TypeOK, WorkersPoint, NEW r \in Runs, DispatcherStep(r)
  PROVE  TypeOK' /\ WorkersPoint'
  <1>1. CASE RunBegins(r)
    <2>1. run' \in [Runs -> RunRecords]  BY <1>1 DEF RunBegins, TypeOK, RunRecords, RunStates
    <2>2. r \in 0 .. MaxRuns  BY BoundsAssumption
    <2>3. QED
      BY <1>1, <2>1, <2>2, RestingWorkers DEF RunBegins, TypeOK, HandlerTypeOK
  <1>2. CASE RunReleases(r)
    <2>1. run' \in [Runs -> RunRecords]  BY <1>2 DEF RunReleases, TypeOK, RunRecords, RunStates
    <2>2. 0 \in 0 .. MaxRuns  BY BoundsAssumption
    <2>3. QED
      BY <1>2, <2>1, <2>2, RestingWorkers DEF RunReleases, TypeOK, HandlerTypeOK
  <1>3. CASE WorkersStart(r)
    <2>1. run' \in [Runs -> RunRecords]
      BY <1>3, CurrentTyped DEF WorkersStart, TypeOK, RunRecords, RunStates
    <2> DEFINE rec == [NoWork EXCEPT !.pc = "receiving"]
    <2>2. rec \in WorkerRecords /\ rec.pc = "receiving"
      <3>1. 0 \in 0 .. MaxRetries - 1  BY BoundsAssumption
      <3>2. 0 \in 0 .. MaxBatches /\ 0 \in 0 .. MaxTasks  BY BoundsAssumption
      <3>3. QED  BY <3>1, <3>2 DEF NoWork, WorkerRecords, WorkerStates, Results
    <2>3. worker' = [worker EXCEPT ![r] = [w \in Workers |-> rec]]
      BY <1>3 DEF WorkersStart
    <2>4. Points(rec, heap)  BY <2>2 DEF Points, Working
    <2> HIDE DEF rec
    <2>5. worker' \in [Runs -> [Workers -> WorkerRecords]]  BY <2>2, <2>3 DEF TypeOK
    <2>6. \A q \in Runs : \A w \in Workers : Points(worker'[q][w], heap)
      BY <2>3, <2>4 DEF WorkersPoint, TypeOK
    <2>7. heap' = heap  BY <1>3 DEF WorkersStart, handler
    <2>8. WorkersPoint'  BY <2>6, <2>7 DEF WorkersPoint
    <2>9. QED  BY <1>3, <2>1, <2>5, <2>8 DEF WorkersStart, TypeOK, HandlerTypeOK, handler
  <1>4. CASE Dispatch(r)
    <2>1. CASE Panic
      BY <2>1, RestingWorkers DEF Panic, TypeOK, HandlerTypeOK, handler
    <2>2. CASE ~Panic
      <3>1. run[r] \in RunRecords  BY DEF TypeOK
      <3>2. run[r].next + 1 \in 1 .. MaxTasks + 1
        BY <1>4, <3>1, BoundsAssumption DEF Dispatch, RunRecords
      <3>3. run[r].next \in Indices
        BY <1>4, <3>1, BoundsAssumption DEF Dispatch, RunRecords
      <3>4. /\ run[r].queue \in Seq(Indices)
            /\ Append(run[r].queue, run[r].next) \in Seq(Indices)
        BY <3>1, <3>3 DEF RunRecords
      <3>5. PICK queue \in Seq(Indices) :
              run' = [run EXCEPT ![r].next = run[r].next + 1, ![r].queue = queue]
        BY <1>4, <2>2, <3>1, <3>4 DEF Dispatch, TypeOK, RunRecords
      <3>6. run' \in [Runs -> RunRecords]  BY <3>1, <3>2, <3>5 DEF TypeOK, RunRecords
      <3>7. QED
        BY <1>4, <2>2, <3>6, RestingWorkers DEF Dispatch, TypeOK, HandlerTypeOK, handler
    <2>3. QED  BY <2>1, <2>2
  <1>5. CASE CloseChannel(r)
    <2>1. run' \in [Runs -> RunRecords]  BY <1>5 DEF CloseChannel, TypeOK, RunRecords, RunStates
    <2>2. QED
      BY <1>5, <2>1, RestingWorkers DEF CloseChannel, TypeOK, HandlerTypeOK, handler
  <1>6. QED
    BY <1>1, <1>2, <1>3, <1>4, <1>5 DEF DispatcherStep, RunAborts, RunEnds
\* A step of a worker that changes at most its own record, and its task through
\* its pointer.
LEMMA WorkerMoves ==
  ASSUME TypeOK, WorkersPoint, NEW r \in Runs, NEW w \in Workers,
         NEW rec \in WorkerRecords,
         worker' = [worker EXCEPT ![r][w] = rec],
         \/ UNCHANGED heap /\ Points(rec, heap)
         \/ /\ worker[r][w].pc \in Working
            /\ \E task \in Tasks : WriteTask(r, w, task)
            /\ Points(rec, heap),
         UNCHANGED <<tasks, running, cancelFunc>>
  PROVE  /\ HandlerTypeOK'
         /\ worker' \in [Runs -> [Workers -> WorkerRecords]]
         /\ WorkersPoint'
  <1>1. /\ heap' \in [Batches -> Seq(Tasks)]
        /\ \A b \in Batches : Len(heap'[b]) = Len(heap[b]) /\ DOMAIN heap'[b] = DOMAIN heap[b]
    BY WriteKeepsType DEF TypeOK, HandlerTypeOK
  <1>2. Points(rec, heap')  BY <1>1 DEF Points
  <1>3. worker' \in [Runs -> [Workers -> WorkerRecords]] /\ WorkersPoint'
    BY <1>1, <1>2, MovingWorker
  <1>4. QED  BY <1>1, <1>3 DEF TypeOK, HandlerTypeOK

\* The records the helpers of the worker leave behind.
LEMMA Goes ==
  ASSUME TypeOK, NEW r \in Runs, NEW w \in Workers, NEW pc, GoTo(r, w, pc)
  PROVE  worker' = [worker EXCEPT ![r][w] = [worker[r][w] EXCEPT !.pc = pc]]
  BY DEF TypeOK, WorkerRecords, GoTo

\* What a worker's report changes of its record.
LEMMA Reports ==
  ASSUME TypeOK, NEW r \in Runs, NEW w \in Workers, NEW result, Report(r, w, result)
  PROVE  worker' = [worker EXCEPT ![r][w] =
                      [worker[r][w] EXCEPT !.pc = "result", !.result = result]]
  BY DEF TypeOK, WorkerRecords, Report

\* A failed attempt is counted below the number of retries, or reported.
LEMMA AttemptFailsTyped ==
  ASSUME TypeOK, WorkersPoint, NEW r \in Runs, NEW w \in Workers,
         worker[r][w].pc \in Working, AttemptFails(r, w)
  PROVE  \E rec \in WorkerRecords :
           worker' = [worker EXCEPT ![r][w] = rec] /\ Points(rec, heap)
  <1>1. worker[r][w] \in WorkerRecords  BY DEF TypeOK
  <1>2. Points(worker[r][w], heap)  BY DEF WorkersPoint
  <1>3. CASE worker[r][w].attempt + 1 < MaxRetries
    <2> DEFINE rec == [worker[r][w] EXCEPT !.pc = "attempt", !.attempt = worker[r][w].attempt + 1]
    <2>1. worker[r][w].attempt + 1 \in 0 .. MaxRetries - 1
      <3>1. worker[r][w].attempt \in 0 .. MaxRetries - 1  BY <1>1 DEF WorkerRecords
      <3>2. QED  BY <3>1, <1>3, BoundsAssumption
    <2>2. rec \in WorkerRecords  BY <1>1, <2>1 DEF WorkerRecords, WorkerStates
    <2>3. worker' = [worker EXCEPT ![r][w] = rec]
      BY <1>1, <1>3 DEF AttemptFails, TypeOK, WorkerRecords
    <2>4. Points(rec, heap)  BY <1>1, <1>2 DEF Points, Working, WorkerRecords
    <2>5. QED  BY <2>2, <2>3, <2>4
  <1>4. CASE ~(worker[r][w].attempt + 1 < MaxRetries)
    <2> DEFINE rec == [worker[r][w] EXCEPT !.pc = "result", !.result = "failed"]
    <2>1. rec \in WorkerRecords  BY <1>1 DEF WorkerRecords, WorkerStates, Results
    <2>2. worker' = [worker EXCEPT ![r][w] = rec]
      BY <1>4, Reports DEF AttemptFails
    <2>3. Points(rec, heap)  BY <1>1, <1>2 DEF Points, Working, WorkerRecords
    <2>4. QED  BY <2>1, <2>2, <2>3
  <1>5. QED  BY <1>3, <1>4

\* Cleaning up a task's artifacts keeps the handler's and Gopeed's types.
LEMMA CleanupTyped ==
  ASSUME TypeOK, WorkersPoint, NEW r \in Runs, NEW w \in Workers,
         worker[r][w].pc \in Working, Cleanup(r, w)
  PROVE  /\ \E task \in Tasks : WriteTask(r, w, task)
         /\ gopeed' \in [Gids -> GopeedStates]
         /\ UNCHANGED <<tasks, running, cancelFunc>>
  <1>1. [TaskOf(r, w) EXCEPT !.gid = ""] \in Tasks  BY TaskTyped DEF Tasks
  <1>2. QED  BY <1>1, DeletedTyped DEF Cleanup

\* The workers, from the queue to the settled task.
LEMMA WorkersKeepTypes ==
  ASSUME TypeOK, WorkersPoint, NEW r \in Runs, NEW w \in Workers, WorkerStep(r, w)
  PROVE  TypeOK' /\ WorkersPoint'
  <1> DEFINE old == worker[r][w]
  <1>0. old \in WorkerRecords /\ Points(old, heap)  BY DEF TypeOK, WorkersPoint
  <1>1. CASE Receive(r, w)
    <2>1. /\ run[r].queue \in Seq(Indices) /\ run[r].queue # <<>>
      BY <1>1 DEF Receive, TypeOK, RunRecords
    <2>2. Head(run[r].queue) \in Indices /\ Tail(run[r].queue) \in Seq(Indices)
      BY <2>1, HeadTailProperties
    <2>3. run' \in [Runs -> RunRecords]  BY <1>1, <2>2 DEF Receive, TypeOK, RunRecords
    <2>4. Head(run[r].queue) \in 0 .. MaxTasks  BY <2>2, BoundsAssumption
    <2>5. PICK pc \in {"exited", "taken"} :
            worker' = [worker EXCEPT ![r][w].pc = pc, ![r][w].index = Head(run[r].queue)]
      BY <1>1 DEF Receive
    <2> DEFINE rec == [old EXCEPT !.pc = pc, !.index = Head(run[r].queue)]
    <2>6. rec \in WorkerRecords  BY <1>0, <2>4 DEF WorkerRecords, WorkerStates
    <2>7. Points(rec, heap)  BY <1>0, <2>2 DEF Points, Working, WorkerRecords
    <2>8. worker' = [worker EXCEPT ![r][w] = rec]  BY <2>5 DEF TypeOK, WorkerRecords
    <2> HIDE DEF rec
    <2>9. UNCHANGED <<heap, tasks, running, cancelFunc, request, gopeed, saved, panicked>>
      BY <1>1 DEF Receive, handler
    <2>10. /\ HandlerTypeOK'
           /\ worker' \in [Runs -> [Workers -> WorkerRecords]]
           /\ WorkersPoint'
      BY <2>6, <2>7, <2>8, <2>9, WorkerMoves
    <2>11. QED  BY <2>3, <2>9, <2>10 DEF TypeOK
  <1>2. CASE WorkerExits(r, w)
    <2> DEFINE rec == [old EXCEPT !.pc = "exited"]
    <2>1. rec \in WorkerRecords /\ Points(rec, heap)
      BY <1>0 DEF WorkerRecords, WorkerStates, Points, Working
    <2>2. worker' = [worker EXCEPT ![r][w] = rec]
      BY <1>2, Goes DEF WorkerExits
    <2> HIDE DEF rec
    <2>3. QED  BY <1>2, <2>1, <2>2, WorkerMoves DEF WorkerExits, TypeOK, handler
  <1>3. CASE WorkerTakes(r, w)
    <2>1. CASE Panic
      BY <2>1, RestingWorkers DEF Panic, TypeOK, HandlerTypeOK, handler
    <2>2. CASE ~Panic
      <3> DEFINE i == old.index
                 rec == [old EXCEPT !.pc = "attempt", !.batch = tasks, !.attempt = 0]
      <3>1. /\ i \in Indices
            /\ i \in DOMAIN CurrentTasks
        <4>1. i \in Indices  BY <1>0, <1>3 DEF WorkerTakes, Points
        <4>2. ~(i > Len(CurrentTasks))  BY <1>3, <2>2 DEF WorkerTakes
        <4>3. QED  BY <4>1, <4>2, CurrentTyped, BoundsAssumption
      <3>2. tasks # 0
        BY <3>1, CurrentTyped, EmptySeq DEF CurrentTasks
      <3>3. tasks \in Batches  BY <3>2, BoundsAssumption DEF TypeOK, HandlerTypeOK
      <3>4. heap[tasks] \in Seq(Tasks) /\ i \in 1 .. Len(heap[tasks])
        BY <3>1, <3>2, CurrentTyped DEF CurrentTasks
      <3>5. heap[tasks][i] \in Tasks  BY <3>4, ElementOfSeq
      <3> DEFINE task == [heap[tasks][i] EXCEPT !.status = "downloading"]
                 list == [heap[tasks] EXCEPT ![i] = task]
      <3>6. task \in Tasks  BY <3>5 DEF Tasks, TaskStatuses
      <3> HIDE DEF task
      <3>7. list \in Seq(Tasks) /\ Len(list) = Len(heap[tasks])  BY <3>4, <3>6, ExceptSeq
      <3>8. heap' = [heap EXCEPT ![tasks] = list]
        BY <1>3, <2>2, <3>3, <3>4, <3>5 DEF WorkerTakes, TypeOK, HandlerTypeOK, task, Tasks
      <3>9. DOMAIN list = DOMAIN heap[tasks]  BY <3>4, <3>7, LenProperties
      <3> HIDE DEF list
      <3>10. /\ heap' \in [Batches -> Seq(Tasks)]
             /\ \A b \in Batches : Len(heap'[b]) = Len(heap[b]) /\ DOMAIN heap'[b] = DOMAIN heap[b]
        BY <3>3, <3>7, <3>8, <3>9 DEF TypeOK, HandlerTypeOK
      <3>11. 0 \in 0 .. MaxRetries - 1  BY BoundsAssumption
      <3>12. rec \in WorkerRecords
        BY <1>0, <3>11 DEF WorkerRecords, WorkerStates, TypeOK, HandlerTypeOK
      <3>13. i \in DOMAIN heap'[tasks]  BY <3>3, <3>4, <3>10, LenProperties
      <3>14. Points(rec, heap')
        BY <1>0, <3>3, <3>13 DEF Points, Working, WorkerRecords
      <3>15. worker' = [worker EXCEPT ![r][w] = rec]
        <4>1. worker' = [worker EXCEPT ![r][w].pc = "attempt",
                           ![r][w].batch = tasks, ![r][w].attempt = 0]
          BY <1>3, <2>2 DEF WorkerTakes
        <4>2. worker \in [Runs -> [Workers -> WorkerRecords]]  BY DEF TypeOK
        <4>3. QED  BY <1>0, <4>1, <4>2 DEF WorkerRecords
      <3> HIDE DEF rec
      <3>16. worker' \in [Runs -> [Workers -> WorkerRecords]] /\ WorkersPoint'
        BY <3>10, <3>12, <3>14, <3>15, MovingWorker
      <3>17. QED
        BY <1>3, <2>2, <3>10, <3>16 DEF WorkerTakes, TypeOK, HandlerTypeOK
    <2>3. QED  BY <2>1, <2>2
  <1>4. CASE NoDownload(r, w) \/ WaitPaused(r, w)
    <2>1. PICK result \in {"ok", "failed", "paused"} : Report(r, w, result)
      BY <1>4 DEF NoDownload, WaitPaused
    <2>2. old.pc \in Working  BY <1>4 DEF NoDownload, WaitPaused, Working
    <2> DEFINE rec == [old EXCEPT !.pc = "result", !.result = result]
    <2>3. rec \in WorkerRecords  BY <1>0 DEF WorkerRecords, WorkerStates, Results
    <2>4. Points(rec, heap)  BY <1>0, <2>2 DEF Points, Working, WorkerRecords
    <2>5. worker' = [worker EXCEPT ![r][w] = rec]  BY <2>1, Reports
    <2> HIDE DEF rec
    <2>6. QED
      BY <1>4, <2>3, <2>4, <2>5, WorkerMoves DEF NoDownload, WaitPaused, TypeOK, handler
  <1>5. CASE AttemptStarts(r, w)
    <2>1. PICK rec \in {[old EXCEPT !.pc = "result", !.result = "paused"],
                         [old EXCEPT !.pc = "connecting"]} :
            worker' = [worker EXCEPT ![r][w] = rec]
      <3>1. Report(r, w, "paused") =>
              worker' = [worker EXCEPT ![r][w] = [old EXCEPT !.pc = "result", !.result = "paused"]]
        BY Reports
      <3>2. GoTo(r, w, "connecting") =>
              worker' = [worker EXCEPT ![r][w] = [old EXCEPT !.pc = "connecting"]]
        BY Goes
      <3>3. Report(r, w, "paused") \/ GoTo(r, w, "connecting")  BY <1>5 DEF AttemptStarts
      <3>4. QED  BY <3>1, <3>2, <3>3
    <2>2. old.pc \in Working  BY <1>5 DEF AttemptStarts, Working
    <2>3. rec \in WorkerRecords  BY <1>0 DEF WorkerRecords, WorkerStates, Results
    <2>4. Points(rec, heap)  BY <1>0, <2>2 DEF Points, Working, WorkerRecords
    <2>5. QED  BY <1>5, <2>1, <2>3, <2>4, WorkerMoves DEF AttemptStarts, TypeOK, handler
  <1>6. CASE CreateGopeedTask(r, w)
    <2>1. PICK g \in Gids : /\ gopeed' = [gopeed EXCEPT ![g] = "running"]
                            /\ worker' = [worker EXCEPT ![r][w].pc = "created", ![r][w].gid = g]
      BY <1>6 DEF CreateGopeedTask
    <2> DEFINE rec == [old EXCEPT !.pc = "created", !.gid = g]
    <2>2. old.pc \in Working  BY <1>6 DEF CreateGopeedTask, Working
    <2>3. rec \in WorkerRecords  BY <1>0 DEF WorkerRecords, WorkerStates
    <2>4. Points(rec, heap)  BY <1>0, <2>2 DEF Points, Working, WorkerRecords
    <2>5. worker' = [worker EXCEPT ![r][w] = rec]  BY <2>1 DEF TypeOK, WorkerRecords
    <2>6. gopeed' \in [Gids -> GopeedStates]  BY <2>1 DEF TypeOK, GopeedStates
    <2> HIDE DEF rec
    <2>7. QED
      BY <1>6, <2>3, <2>4, <2>5, <2>6, WorkerMoves DEF CreateGopeedTask, TypeOK, handler
  <1>7. CASE RecordGopeedTask(r, w)
    <2> DEFINE rec == [old EXCEPT !.pc = "waiting"]
    <2>1. old.pc = "created" /\ old.pc \in Working  BY <1>7 DEF RecordGopeedTask, Working
    <2>2. rec \in WorkerRecords  BY <1>0 DEF WorkerRecords, WorkerStates
    <2>3. Points(rec, heap)  BY <1>0, <2>1 DEF Points, Working, WorkerRecords
    <2>4. worker' = [worker EXCEPT ![r][w] = rec]
      BY <1>7, Goes DEF RecordGopeedTask
    <2>5. [TaskOf(r, w) EXCEPT !.gid = worker[r][w].gid] \in Tasks
      BY <1>0, <2>1, TaskTyped DEF Tasks, WorkerRecords
    <2> HIDE DEF rec
    <2>6. QED
      BY <1>7, <2>1, <2>2, <2>3, <2>4, <2>5, WorkerMoves DEF RecordGopeedTask, TypeOK
  <1>8. CASE ConnectFails(r, w)
    <2>1. old.pc \in Working  BY <1>8 DEF ConnectFails, Working
    <2>2. PICK rec \in WorkerRecords :
            worker' = [worker EXCEPT ![r][w] = rec] /\ Points(rec, heap)
      BY <1>8, <2>1, AttemptFailsTyped DEF ConnectFails
    <2>3. QED  BY <1>8, <2>2, WorkerMoves DEF ConnectFails, TypeOK, handler
  <1>9. CASE ContinueGopeedTask(r, w)
    <2> DEFINE g == TaskOf(r, w).gid
               rec == [old EXCEPT !.pc = "waiting", !.gid = g]
    <2>1. old.pc \in Working  BY <1>9 DEF ContinueGopeedTask, Working
    <2>2. g \in Gids \cup {""}  BY <2>1, TaskTyped DEF Tasks
    <2>3. worker' = [worker EXCEPT ![r][w] = rec]
      BY <1>9 DEF ContinueGopeedTask, TypeOK, WorkerRecords
    <2>4. gopeed' \in [Gids -> GopeedStates]
      BY <1>9 DEF ContinueGopeedTask, TypeOK, GopeedStates
    <2> HIDE DEF g
    <2>5. rec \in WorkerRecords  BY <1>0, <2>2 DEF WorkerRecords, WorkerStates
    <2>6. Points(rec, heap)  BY <1>0, <2>1 DEF Points, Working, WorkerRecords
    <2> HIDE DEF rec
    <2>7. UNCHANGED <<heap, tasks, running, cancelFunc, run, request, saved, panicked>>
      BY <1>9 DEF ContinueGopeedTask, handler
    <2>8. QED  BY <2>3, <2>4, <2>5, <2>6, <2>7, WorkerMoves DEF TypeOK
  <1>10. CASE ForgetGopeedTask(r, w)
    <2>1. old.pc \in Working  BY <1>10 DEF ForgetGopeedTask, Working
    <2>2. worker' = [worker EXCEPT ![r][w] = old]  BY <1>10 DEF ForgetGopeedTask, TypeOK
    <2>3. /\ \E task \in Tasks : WriteTask(r, w, task)
          /\ gopeed' \in [Gids -> GopeedStates]
          /\ UNCHANGED <<tasks, running, cancelFunc, run, request, saved, panicked>>
      BY <1>10, <2>1, CleanupTyped DEF ForgetGopeedTask
    <2> HIDE DEF old
    <2>4. QED  BY <1>0, <2>1, <2>2, <2>3, WorkerMoves DEF TypeOK, old
  <1>11. CASE WaitCancelled(r, w)
    <2> DEFINE rec == [old EXCEPT !.pc = "result", !.result = "paused"]
    <2>1. old.pc \in Working  BY <1>11 DEF WaitCancelled, Working
    <2>2. rec \in WorkerRecords  BY <1>0 DEF WorkerRecords, WorkerStates, Results
    <2>3. Points(rec, heap)  BY <1>0, <2>1 DEF Points, Working, WorkerRecords
    <2>4. worker' = [worker EXCEPT ![r][w] = rec]
      BY <1>11, Reports DEF WaitCancelled
    <2> HIDE DEF rec
    <2>5. QED
      BY <1>11, <2>1, <2>2, <2>3, <2>4, CleanupTyped, WorkerMoves
      DEF WaitCancelled, TypeOK, handler
  <1>12. CASE WaitDone(r, w)
    <2> DEFINE rec == [old EXCEPT !.pc = "finishing"]
    <2>1. old.pc \in Working  BY <1>12 DEF WaitDone, Working
    <2>2. rec \in WorkerRecords  BY <1>0 DEF WorkerRecords, WorkerStates
    <2>3. Points(rec, heap)  BY <1>0, <2>1 DEF Points, Working, WorkerRecords
    <2>4. worker' = [worker EXCEPT ![r][w] = rec]  BY <1>12, Goes DEF WaitDone
    <2> HIDE DEF rec
    <2>5. QED  BY <1>12, <2>2, <2>3, <2>4, WorkerMoves DEF WaitDone, TypeOK, handler
  <1>13. CASE DownloadFails(r, w)
    <2>1. old.pc \in Working  BY <1>13 DEF DownloadFails, Working
    <2>2. PICK rec \in WorkerRecords :
            worker' = [worker EXCEPT ![r][w] = rec] /\ Points(rec, heap)
      BY <1>13, <2>1, AttemptFailsTyped DEF DownloadFails
    <2>3. QED
      BY <1>13, <2>1, <2>2, CleanupTyped, WorkerMoves DEF DownloadFails, TypeOK
  <1>14. CASE SaveVideo(r, w)
    <2> DEFINE rec == [old EXCEPT !.pc = "result", !.result = "ok"]
    <2>1. old.pc \in Working  BY <1>14 DEF SaveVideo, Working
    <2>2. rec \in WorkerRecords  BY <1>0 DEF WorkerRecords, WorkerStates, Results
    <2>3. Points(rec, heap)  BY <1>0, <2>1 DEF Points, Working, WorkerRecords
    <2>4. worker' = [worker EXCEPT ![r][w] = rec]
      <3>1. Report(r, w, "ok")  BY <1>14 DEF SaveVideo
      <3>2. QED  BY <3>1, Reports
    <2>5. saved' \in [Batches -> [Indices -> Nat]]  
      <3> DEFINE b == old.batch
                 i == old.index
      <3>1. b \in Batches /\ i \in DOMAIN heap[b]  BY <1>0, <2>1 DEF Points
      <3>2. heap[b] \in Seq(Tasks) /\ Len(heap[b]) <= MaxTasks
        BY <3>1 DEF TypeOK, HandlerTypeOK
      <3>3. i \in Indices  BY <3>1, <3>2, LenProperties, BoundsAssumption
      <3>4. saved \in [Batches -> [Indices -> Nat]]  BY DEF TypeOK
      <3>5. saved' = [saved EXCEPT ![b][i] = saved[b][i] + 1]  BY <1>14 DEF SaveVideo
      <3> HIDE DEF b, i
      <3>6. saved[b] \in [Indices -> Nat] /\ saved[b][i] + 1 \in Nat
        <4>1. saved[b] \in [Indices -> Nat]  BY <3>1, <3>4
        <4>2. saved[b][i] \in Nat  BY <3>3, <4>1
        <4>3. QED  BY <4>1, <4>2
      <3>7. PICK n \in Nat : n = saved[b][i] + 1  BY <3>6
      <3>8. [saved[b] EXCEPT ![i] = n] \in [Indices -> Nat]  BY <3>6
      <3>9. saved' = [saved EXCEPT ![b] = [saved[b] EXCEPT ![i] = n]]  BY <3>4, <3>5, <3>7
      <3>10. QED  BY <3>1, <3>4, <3>8, <3>9
    <2> HIDE DEF rec
    <2>6. /\ \E task \in Tasks : WriteTask(r, w, task)
          /\ gopeed' \in [Gids -> GopeedStates]
          /\ UNCHANGED <<tasks, running, cancelFunc, run, request, panicked>>
      BY <1>14, <2>1, CleanupTyped DEF SaveVideo
    <2>7. QED  BY <2>1, <2>2, <2>3, <2>4, <2>5, <2>6, WorkerMoves DEF TypeOK
  <1>15. CASE Settle(r, w)
    <2> DEFINE rec == [NoWork EXCEPT !.pc = "receiving"]
               task == [TaskOf(r, w) EXCEPT !.status = SettledAs(TaskOf(r, w).status, old.result)]
    <2>1. old.pc = "result" /\ old.pc \in Working  BY <1>15 DEF Settle, Working
    <2>2. rec \in WorkerRecords
      <3>1. 0 \in 0 .. MaxRetries - 1  BY BoundsAssumption
      <3>2. 0 \in 0 .. MaxBatches /\ 0 \in 0 .. MaxTasks  BY BoundsAssumption
      <3>3. QED  BY <3>1, <3>2 DEF NoWork, WorkerRecords, WorkerStates, Results
    <2>3. Points(rec, heap)  BY DEF Points, Working, NoWork
    <2>4. worker' = [worker EXCEPT ![r][w] = rec]  BY <1>15 DEF Settle
    <2>5. old.result \in {"ok", "failed", "paused"}
      BY <1>0, <2>1 DEF Points, WorkerRecords, Results
    <2>6. TaskOf(r, w) \in Tasks  BY <2>1, TaskTyped
    <2>7. SettledAs(TaskOf(r, w).status, old.result) \in TaskStatuses
      BY <2>5, <2>6 DEF SettledAs, Tasks, TaskStatuses
    <2>8. task \in Tasks  BY <2>6, <2>7 DEF Tasks
    <2>9. WriteTask(r, w, task)  BY <1>15, <2>6 DEF Settle, Tasks
    <2> HIDE DEF rec, task
    <2>10. QED
      BY <1>15, <2>1, <2>2, <2>3, <2>4, <2>8, <2>9, WorkerMoves DEF Settle, TypeOK
  <1>16. QED
    BY <1>1, <1>2, <1>3, <1>4, <1>5, <1>6, <1>7, <1>8, <1>9, <1>10, <1>11, <1>12, <1>13,
       <1>14, <1>15 DEF WorkerStep

\* Types and pointers are inductive.
LEMMA StepsKeepTypes ==
  ASSUME TypeOK, WorkersPoint, [Next]_vars
  PROVE  TypeOK' /\ WorkersPoint'
  <1>1. CASE UNCHANGED vars
    BY <1>1, RestingWorkers DEF vars, TypeOK, HandlerTypeOK
  <1>2. CASE \E g \in Gids : GopeedWorks(g)
    <2>1. gopeed' \in [Gids -> GopeedStates]
      BY <1>2 DEF GopeedWorks, TypeOK, GopeedStates
    <2>2. QED
      BY <1>2, <2>1, RestingWorkers DEF GopeedWorks, TypeOK, HandlerTypeOK, handler
  <1>3. QED
    BY <1>1, <1>2, RequestsKeepTypes, DispatchersKeepTypes, WorkersKeepTypes DEF Next

\* The shared and the private state of every goroutine have their types, and a
\* worker at a task has a task: no task is written through a dangling pointer.
THEOREM TypeCorrect == Spec => [](TypeOK /\ WorkersPoint)
  <1>1. Init => TypeOK /\ WorkersPoint  BY InitOK
  <1>2. TypeOK /\ WorkersPoint /\ [Next]_vars => TypeOK' /\ WorkersPoint'
    BY StepsKeepTypes
  <1>3. QED  BY <1>1, <1>2, PTL DEF Spec

-----------------------------------------------------------------------------
(* One run at a time *)

\* A step that leaves the handler's flags and every run's state alone, and lets
\* no request start.
LEMMA RestingHandler ==
  ASSUME HandlerMatchesRuns, UNCHANGED <<running, cancelFunc>>,
         \A r \in Runs : run'[r].pc = run[r].pc,
         \A c \in Clients : request'[c].pc = "starting" => request[c].pc = "starting"
  PROVE  HandlerMatchesRuns'
  BY DEF HandlerMatchesRuns, Busy

\* Only the run that waits in the dispatcher's first lines, or the one that
\* holds cancelFunc, moves.
LEMMA DispatchersMatch ==
  ASSUME TypeOK, HandlerMatchesRuns, NEW r \in Runs, DispatcherStep(r)
  PROVE  HandlerMatchesRuns'
  <1>0. r # 0 /\ run \in [Runs -> RunRecords]  BY BoundsAssumption DEF TypeOK
  <1>1. CASE RunBegins(r)
    <2>1. /\ run[r].pc = "launched" /\ run'[r].pc = "starting" /\ cancelFunc' = r
          /\ \A q \in Runs \ {r} : run'[q].pc = run[q].pc
          /\ UNCHANGED <<running, request>>
      BY <1>0, <1>1 DEF RunBegins, RunRecords
    <2>2. running /\ cancelFunc = 0  BY <2>1 DEF HandlerMatchesRuns
    <2>3. \A c \in Clients : request[c].pc # "starting"  BY <2>2 DEF HandlerMatchesRuns, Busy
    <2>4. \A q \in Runs \ {r} :
            run[q].pc \notin {"launched", "starting", "dispatching", "waiting"}
      BY <2>1, <2>2, BoundsAssumption DEF HandlerMatchesRuns
    <2>5. QED  BY <2>1, <2>3, <2>4 DEF HandlerMatchesRuns
  <1>2. ASSUME RunReleases(r), run[r].pc \in {"starting", "waiting"}
        PROVE  HandlerMatchesRuns'
    <2>1. /\ run'[r].pc = "ended"
          /\ \A q \in Runs \ {r} : run'[q].pc = run[q].pc
          /\ UNCHANGED request /\ running' = FALSE /\ cancelFunc' = 0
      BY <1>0, <1>2 DEF RunReleases, RunRecords
    <2>2. cancelFunc = r  BY <1>2 DEF HandlerMatchesRuns
    <2>3. \A q \in Runs \ {r} :
            run[q].pc \notin {"launched", "starting", "dispatching", "waiting"}
      BY <1>0, <2>2 DEF HandlerMatchesRuns
    <2>4. QED  BY <2>1, <2>3 DEF HandlerMatchesRuns, Busy
  <1>3. CASE WorkersStart(r) \/ CloseChannel(r)
    <2>1. /\ run[r].pc \in {"starting", "dispatching"}
          /\ run'[r].pc \in {"dispatching", "waiting"}
          /\ \A q \in Runs \ {r} : run'[q].pc = run[q].pc
          /\ UNCHANGED <<running, cancelFunc, request>>
      BY <1>0, <1>3 DEF WorkersStart, CloseChannel, RunRecords, handler
    <2>2. QED  BY <2>1 DEF HandlerMatchesRuns, Busy
  <1>4. CASE Dispatch(r)
    <2>1. /\ \A q \in Runs : run'[q].pc = run[q].pc
          /\ UNCHANGED <<running, cancelFunc, request>>
      BY <1>0, <1>4 DEF Dispatch, Panic, RunRecords, handler
    <2>2. QED  BY <2>1, RestingHandler
  <1>5. QED
    BY <1>1, <1>2, <1>3, <1>4 DEF DispatcherStep, RunAborts, RunEnds

\* A run is launched only where nothing is busy.
LEMMA LaunchMatches ==
  ASSUME TypeOK, HandlerMatchesRuns, ~Busy, Launch, running', UNCHANGED cancelFunc,
         \A c \in Clients : request'[c].pc # "starting"
  PROVE  HandlerMatchesRuns'
  <1>1. PICK r \in Runs : run' = [run EXCEPT ![r].pc = "launched"]  BY DEF Launch
  <1>2. run'[r].pc = "launched" /\ \A q \in Runs \ {r} : run'[q].pc = run[q].pc
    BY <1>1 DEF TypeOK, RunRecords
  <1>3. cancelFunc' = 0 /\ ~running  BY DEF Busy
  <1>4. \A q \in Runs : run[q].pc \notin {"launched", "starting", "dispatching", "waiting"}
    BY <1>3, BoundsAssumption DEF HandlerMatchesRuns, Busy
  <1>5. QED  BY <1>2, <1>3, <1>4 DEF HandlerMatchesRuns

\* Requests keep running and cancelFunc in step with the one live run, when
\* no two starts are in flight together.
LEMMA RequestsMatch ==
  ASSUME ~Overlap, TypeOK, HandlerMatchesRuns, NEW c \in Clients, RequestStep(c)
  PROVE  HandlerMatchesRuns'
  <1>0. request \in [Clients -> Requests] /\ run \in [Runs -> RunRecords]  BY DEF TypeOK
  <1>1. CASE StartChecks(c)
    <2>1. /\ request'[c].pc = "starting"
          /\ \A d \in Clients \ {c} : request'[d].pc # "starting"
          /\ ~Busy
          /\ UNCHANGED <<running, cancelFunc, run>>
      BY <1>0, <1>1 DEF StartChecks, NoOtherStart, handler
    <2>2. QED  BY <2>1 DEF HandlerMatchesRuns, Busy
  <1>2. CASE \E n \in Indices : StartInstalls(c, n)
    <2>1. /\ request[c].pc = "starting" /\ request' = [request EXCEPT ![c] = [pc |-> "idle"]]
          /\ running' /\ Launch /\ UNCHANGED cancelFunc
      BY <1>2 DEF StartInstalls
    <2>2. ~Busy /\ \A d \in Clients \ {c} : request[d].pc # "starting"
      BY <2>1 DEF HandlerMatchesRuns
    <2>3. \A d \in Clients : request'[d].pc # "starting"  BY <1>0, <2>1, <2>2
    <2>4. QED  BY <2>1, <2>2, <2>3, LaunchMatches
  <1>3. CASE BatchResume(c)
    <2>1. ~Busy /\ running' /\ Launch /\ UNCHANGED <<cancelFunc, request>>
      BY <1>3 DEF BatchResume
    <2>2. \A d \in Clients : request[d].pc # "starting"
      BY <1>3 DEF BatchResume, NoOtherStart
    <2>3. QED  BY <2>1, <2>2, LaunchMatches
  <1>4. CASE CancelStops(c)
    <2>1. /\ cancelFunc # 0 /\ running' = FALSE /\ UNCHANGED <<cancelFunc, run>>
          /\ request'[c].pc = "pausing"
          /\ \A d \in Clients \ {c} : request'[d] = request[d]
      BY <1>0, <1>4 DEF CancelStops
    <2>2. QED  BY <2>1 DEF HandlerMatchesRuns, Busy
  <1>5. CASE CancelContext(c)
    <2>1. \A d \in Clients : request'[d].pc = "starting" => request[d].pc = "starting"
      BY <1>0, <1>5 DEF CancelContext
    <2>2. \A r \in Runs : run'[r].pc = run[r].pc
      BY <1>0, <1>5 DEF CancelContext, RunRecords
    <2>3. QED  BY <1>5, <2>1, <2>2, RestingHandler DEF CancelContext, handler
  <1>6. CASE \/ CancelPausesOne(c) \/ CancelFindsNone(c) \/ CancelAnswered(c)
             \/ ClearForgets(c) \/ ClearCleans(c)
    <2>1. \A d \in Clients : request'[d].pc = "starting" => request[d].pc = "starting"
      BY <1>0, <1>6 DEF CancelPausesOne, CancelFindsNone, CancelAnswered, ClearForgets,
                        ClearCleans, Requests
    <2>2. UNCHANGED <<running, cancelFunc, run>>
      BY <1>6 DEF CancelPausesOne, CancelFindsNone, CancelAnswered, ClearForgets,
                  ClearCleans, handler
    <2>3. QED  BY <2>1, <2>2, RestingHandler
  <1>7. CASE ClearStops(c)
    <2>1. \A d \in Clients : request'[d].pc = "starting" => request[d].pc = "starting"
      BY <1>0, <1>7 DEF ClearStops
    <2>2. \A r \in Runs : run'[r].pc = run[r].pc
      BY <1>0, <1>7 DEF ClearStops, RunRecords
    <2>3. UNCHANGED cancelFunc /\ running' = (running /\ cancelFunc = 0)
      BY <1>7 DEF ClearStops
    <2>4. QED  BY <2>1, <2>2, <2>3 DEF HandlerMatchesRuns, Busy
  <1>8. QED
    BY <1>1, <1>2, <1>3, <1>4, <1>5, <1>6, <1>7 DEF RequestStep

\* Workers have no part in it: of the shared flags they change none.
LEMMA WorkersMatch ==
  ASSUME TypeOK, HandlerMatchesRuns, NEW r \in Runs, NEW w \in Workers, WorkerStep(r, w)
  PROVE  HandlerMatchesRuns'
  <1>1. CASE Receive(r, w)
    <2>1. \A q \in Runs : run'[q].pc = run[q].pc
      BY <1>1 DEF Receive, TypeOK, RunRecords
    <2>2. UNCHANGED <<running, cancelFunc, request>>  BY <1>1 DEF Receive, handler
    <2>3. QED  BY <2>1, <2>2, RestingHandler
  <1>2. CASE \/ WorkerExits(r, w) \/ WorkerTakes(r, w) \/ NoDownload(r, w)
             \/ AttemptStarts(r, w) \/ CreateGopeedTask(r, w) \/ RecordGopeedTask(r, w)
             \/ ConnectFails(r, w) \/ ContinueGopeedTask(r, w)
    <2>1. UNCHANGED <<running, cancelFunc, request, run>>
      BY <1>2 DEF WorkerExits, WorkerTakes, Panic, NoDownload, AttemptStarts,
                  CreateGopeedTask, RecordGopeedTask, ConnectFails, ContinueGopeedTask,
                  handler
    <2>2. QED  BY <2>1, RestingHandler
  <1>3. CASE \/ ForgetGopeedTask(r, w) \/ WaitCancelled(r, w) \/ WaitPaused(r, w)
             \/ WaitDone(r, w) \/ DownloadFails(r, w) \/ SaveVideo(r, w) \/ Settle(r, w)
    <2>1. UNCHANGED <<running, cancelFunc, request, run>>
      BY <1>3 DEF ForgetGopeedTask, WaitCancelled, WaitPaused, WaitDone, DownloadFails,
                  SaveVideo, Settle, Cleanup, handler
    <2>2. QED  BY <2>1, RestingHandler
  <1>4. QED  BY <1>1, <1>2, <1>3 DEF WorkerStep

LEMMA AlwaysMatch == ~Overlap => (Spec => []HandlerMatchesRuns)
  <1> SUFFICES ASSUME ~Overlap PROVE Spec => []HandlerMatchesRuns
    OBVIOUS
  <1>1. Init => HandlerMatchesRuns  BY DEF Init, HandlerMatchesRuns, NoRun
  <1>2. TypeOK /\ HandlerMatchesRuns /\ [Next]_vars => HandlerMatchesRuns'
    <2>1. (\E g \in Gids : GopeedWorks(g)) \/ UNCHANGED vars =>
            UNCHANGED <<running, cancelFunc, request, run>>
      BY DEF GopeedWorks, vars, handler
    <2>2. QED
      BY <2>1, RequestsMatch, DispatchersMatch, WorkersMatch, RestingHandler DEF Next
  <1>3. QED  BY <1>1, <1>2, TypeCorrect, PTL DEF Spec


\* When no two starts are in flight together, at most one run works at any time,
\* however requests, cancellations and the tails of cancelled runs interleave.
THEOREM OneRunAtATime == ~Overlap => (Spec => []OneRun)
  <1> SUFFICES ASSUME ~Overlap PROVE Spec => []OneRun
    OBVIOUS
  <1>1. HandlerMatchesRuns => OneRun
    BY BoundsAssumption DEF HandlerMatchesRuns, OneRun, Live
  <1>2. QED  BY <1>1, AlwaysMatch, PTL

-----------------------------------------------------------------------------
(* What becomes of a task *)

HIDE DEF Batches, Runs, Indices

Served(r) == run[r].pc \in {"dispatching", "waiting"}
Holds(r, w) == worker[r][w].pc \in Working \cup {"taken"}
Queued(r, i) == \E k \in DOMAIN run[r].queue : run[r].queue[k] = i

\* Only the workers of a run that is served do anything, and only a worker
\* that reports has a result.
ResultsOK ==
  \A r \in Runs, w \in Workers : worker[r][w].pc # "result" => worker[r][w].result = ""
WorkersLive ==
  \A r \in Runs, w \in Workers : worker[r][w].pc \notin {"none", "exited"} => Served(r)

\* A task that is shown as downloading is in the hands of a worker.
DownloadsHeld ==
  \A b \in Batches : \A i \in DOMAIN heap[b] :
    heap[b][i].status = "downloading" => \E r \in Runs, w \in Workers : InHand(r, w, b, i)

\* A run gives out every index once.
Tickets ==
  \A r \in Runs :
    /\ \A k, l \in DOMAIN run[r].queue : run[r].queue[k] = run[r].queue[l] => k = l
    /\ \A k \in DOMAIN run[r].queue : run[r].queue[k] < run[r].next
    /\ \A w \in Workers :
         Holds(r, w) => worker[r][w].index < run[r].next /\ ~Queued(r, worker[r][w].index)
    /\ \A w, v \in Workers :
         Holds(r, w) /\ Holds(r, v) /\ worker[r][w].index = worker[r][v].index => w = v
FreshQueues ==
  \A r \in Runs : run[r].pc \in {"none", "launched", "starting"} => run[r].queue = <<>>

RunsOK == ResultsOK /\ WorkersLive /\ Tickets /\ FreshQueues

\* The arrays keep their lengths and the statuses in them.
Kept ==
  \A b \in Batches :
    /\ Len(heap'[b]) = Len(heap[b]) /\ DOMAIN heap'[b] = DOMAIN heap[b]
    /\ \A i \in DOMAIN heap[b] : heap'[b][i].status = heap[b][i].status

\* A step of worker w of run r with the task in its hands
Works(r, w, rec) ==
  /\ worker[r][w].pc \in Working \ {"result"} /\ rec.pc \in Working /\ rec \in WorkerRecords
  /\ rec.batch = worker[r][w].batch /\ rec.index = worker[r][w].index
  /\ rec.pc # "result" => rec.result = ""
  /\ worker' = [worker EXCEPT ![r][w] = rec]
  /\ Kept
  /\ UNCHANGED <<tasks, running, cancelFunc, run, request, panicked>>

LEMMA WriteEffect ==
  ASSUME TypeOK, WorkersPoint, NEW r \in Runs, NEW w \in Workers,
         worker[r][w].pc \in Working, NEW task \in Tasks, WriteTask(r, w, task)
  PROVE  /\ \A b \in Batches : Len(heap'[b]) = Len(heap[b]) /\ DOMAIN heap'[b] = DOMAIN heap[b]
         /\ heap'[worker[r][w].batch][worker[r][w].index] = task
         /\ \A b \in Batches : \A i \in DOMAIN heap[b] :
              b # worker[r][w].batch \/ i # worker[r][w].index => heap'[b][i] = heap[b][i]
  <1> DEFINE b0 == worker[r][w].batch
             i0 == worker[r][w].index
  <1>1. b0 \in Batches /\ i0 \in DOMAIN heap[b0]  BY DEF WorkersPoint, Points
  <1>2. heap[b0] \in Seq(Tasks) /\ heap \in [Batches -> Seq(Tasks)]
    BY <1>1 DEF TypeOK, HandlerTypeOK
  <1>3. PICK list : list = [heap[b0] EXCEPT ![i0] = task]
    OBVIOUS
  <1>4. heap' = [heap EXCEPT ![b0] = list]
    BY <1>1, <1>2, <1>3 DEF WriteTask
  <1>5. heap'[b0] = list /\ \A b \in Batches \ {b0} : heap'[b] = heap[b]
    BY <1>1, <1>2, <1>4
  <1>6. list[i0] = task /\ \A i \in DOMAIN heap[b0] : i # i0 => list[i] = heap[b0][i]
    BY <1>1, <1>3
  <1> HIDE DEF b0, i0
  <1>7. \A b \in Batches : Len(heap'[b]) = Len(heap[b]) /\ DOMAIN heap'[b] = DOMAIN heap[b]
    BY WriteKeepsType
  <1>8. \A b \in Batches : \A i \in DOMAIN heap[b] : b # b0 \/ i # i0 => heap'[b][i] = heap[b][i]
    BY <1>5, <1>6
  <1>9. QED  BY <1>1, <1>5, <1>6, <1>7, <1>8 DEF b0, i0

LEMMA WritesGid ==
  ASSUME TypeOK, WorkersPoint, NEW r \in Runs, NEW w \in Workers, worker[r][w].pc \in Working,
         NEW g \in Gids \cup {""}, WriteTask(r, w, [TaskOf(r, w) EXCEPT !.gid = g])
  PROVE  Kept
  <1>1. TaskOf(r, w) \in Tasks
    BY TaskTyped
  <1>2. PICK task : task = [TaskOf(r, w) EXCEPT !.gid = g]
    OBVIOUS
  <1>3. task \in Tasks /\ task.status = TaskOf(r, w).status
    BY <1>1, <1>2 DEF Tasks
  <1>4. WriteTask(r, w, task)
    BY <1>2
  <1>5. /\ \A b \in Batches : Len(heap'[b]) = Len(heap[b]) /\ DOMAIN heap'[b] = DOMAIN heap[b]
        /\ heap'[worker[r][w].batch][worker[r][w].index] = task
        /\ \A b \in Batches : \A i \in DOMAIN heap[b] :
             b # worker[r][w].batch \/ i # worker[r][w].index => heap'[b][i] = heap[b][i]
    BY <1>3, <1>4, WriteEffect
  <1>6. ASSUME NEW b \in Batches, NEW i \in DOMAIN heap[b]
        PROVE  heap'[b][i].status = heap[b][i].status
    <2>1. CASE b = worker[r][w].batch /\ i = worker[r][w].index
      BY <1>3, <1>5, <2>1 DEF TaskOf
    <2>2. CASE b # worker[r][w].batch \/ i # worker[r][w].index
      BY <1>5, <2>2
    <2>3. QED  BY <2>1, <2>2
  <1>7. QED  BY <1>5, <1>6 DEF Kept

LEMMA WorkingSteps ==
  ASSUME TypeOK, WorkersPoint, ResultsOK, NEW r \in Runs, NEW w \in Workers,
         \/ NoDownload(r, w) \/ AttemptStarts(r, w) \/ CreateGopeedTask(r, w)
         \/ RecordGopeedTask(r, w) \/ ConnectFails(r, w) \/ ContinueGopeedTask(r, w)
         \/ ForgetGopeedTask(r, w) \/ WaitCancelled(r, w) \/ WaitPaused(r, w)
         \/ WaitDone(r, w) \/ DownloadFails(r, w) \/ SaveVideo(r, w)
  PROVE  \E rec : Works(r, w, rec)
  <1> DEFINE old == worker[r][w]
  <1>0. old \in WorkerRecords /\ worker \in [Runs -> [Workers -> WorkerRecords]]
    BY DEF TypeOK
  <1>1. old.pc \in Working \ {"result"}
    BY DEF Working, NoDownload, AttemptStarts, CreateGopeedTask, RecordGopeedTask, ConnectFails,
           ContinueGopeedTask, ForgetGopeedTask, WaitCancelled, WaitPaused, WaitDone,
           DownloadFails, SaveVideo
  <1>2. old.result = ""
    BY <1>1 DEF ResultsOK
  <1>3. UNCHANGED <<tasks, running, cancelFunc, run, request, panicked>>
    BY DEF NoDownload, AttemptStarts, CreateGopeedTask, RecordGopeedTask, ConnectFails,
           ContinueGopeedTask, ForgetGopeedTask, WaitCancelled, WaitPaused, WaitDone,
           DownloadFails, SaveVideo, Cleanup, handler
  <1>4. heap' = heap => Kept
    BY DEF Kept
  <1>5. Kept
    <2>1. Cleanup(r, w) => Kept
      BY <1>1, WritesGid DEF Cleanup
    <2>2. RecordGopeedTask(r, w) => Kept
      BY <1>1, WritesGid DEF RecordGopeedTask, WorkersPoint, Points
    <2>3. QED
      BY <1>4, <2>1, <2>2
      DEF NoDownload, AttemptStarts, CreateGopeedTask, ConnectFails,
          ContinueGopeedTask, ForgetGopeedTask, WaitCancelled, WaitPaused, WaitDone,
          DownloadFails, SaveVideo, handler
  <1>6. ASSUME NEW pc, GoTo(r, w, pc), pc \in Working \ {"result"} PROVE \E rec : Works(r, w, rec)
    <2>1. PICK rec : rec = [old EXCEPT !.pc = pc]
      OBVIOUS
    <2>2. worker' = [worker EXCEPT ![r][w] = rec]
      BY <1>6, <2>1, Goes
    <2>3. rec \in WorkerRecords /\ rec.pc = pc /\ rec.batch = old.batch /\ rec.index = old.index
          /\ rec.result = old.result
      BY <1>0, <1>6, <2>1 DEF WorkerRecords, WorkerStates, Working
    <2>4. QED  BY <1>1, <1>2, <1>3, <1>5, <1>6, <2>2, <2>3 DEF Works
  <1>7. ASSUME NEW res \in Results, Report(r, w, res) PROVE \E rec : Works(r, w, rec)
    <2>1. PICK rec : rec = [old EXCEPT !.pc = "result", !.result = res]
      OBVIOUS
    <2>2. worker' = [worker EXCEPT ![r][w] = rec]
      BY <1>7, <2>1, Reports
    <2>3. rec \in WorkerRecords /\ rec.pc = "result" /\ rec.batch = old.batch /\ rec.index = old.index
      BY <1>0, <2>1 DEF WorkerRecords, WorkerStates
    <2>4. QED  BY <1>1, <1>3, <1>5, <2>2, <2>3 DEF Works, Working
  <1>8. ASSUME AttemptFails(r, w) PROVE \E rec : Works(r, w, rec)
    <2>1. CASE old.attempt + 1 < MaxRetries
      <3>1. PICK rec : rec = [old EXCEPT !.pc = "attempt", !.attempt = old.attempt + 1]
        OBVIOUS
      <3>2. worker' = [worker EXCEPT ![r][w] = rec]
        BY <1>0, <1>8, <2>1, <3>1 DEF AttemptFails, WorkerRecords
      <3>3. old.attempt + 1 \in 0 .. MaxRetries - 1
        <4>1. old.attempt \in 0 .. MaxRetries - 1  BY <1>0 DEF WorkerRecords
        <4>2. QED  BY <2>1, <4>1, BoundsAssumption
      <3>4. rec \in WorkerRecords /\ rec.pc = "attempt" /\ rec.batch = old.batch
            /\ rec.index = old.index /\ rec.result = old.result
        BY <1>0, <3>1, <3>3 DEF WorkerRecords, WorkerStates
      <3>5. QED  BY <1>1, <1>2, <1>3, <1>5, <3>2, <3>4 DEF Works, Working
    <2>2. QED  BY <1>7, <1>8, <2>1 DEF AttemptFails, Results
  <1>9. CASE CreateGopeedTask(r, w)
    <2>1. PICK g \in Gids : worker' = [worker EXCEPT ![r][w].pc = "created", ![r][w].gid = g]
      BY <1>9 DEF CreateGopeedTask
    <2>2. PICK rec : rec = [old EXCEPT !.pc = "created", !.gid = g]
      OBVIOUS
    <2>3. worker' = [worker EXCEPT ![r][w] = rec]
      BY <1>0, <2>1, <2>2 DEF WorkerRecords
    <2>4. rec \in WorkerRecords /\ rec.pc = "created" /\ rec.batch = old.batch
          /\ rec.index = old.index /\ rec.result = old.result
      BY <1>0, <2>2 DEF WorkerRecords, WorkerStates
    <2>5. QED  BY <1>1, <1>2, <1>3, <1>5, <2>3, <2>4 DEF Works, Working
  <1>10. CASE ContinueGopeedTask(r, w)
    <2>1. PICK g \in Gids \cup {""} :
            worker' = [worker EXCEPT ![r][w].pc = "waiting", ![r][w].gid = g]
      <3>1. TaskOf(r, w).gid \in Gids \cup {""}
        BY <1>1, TaskTyped DEF Tasks
      <3>2. QED  BY <1>10, <3>1 DEF ContinueGopeedTask
    <2>2. PICK rec : rec = [old EXCEPT !.pc = "waiting", !.gid = g]
      OBVIOUS
    <2>3. worker' = [worker EXCEPT ![r][w] = rec]
      BY <1>0, <2>1, <2>2 DEF WorkerRecords
    <2>4. rec \in WorkerRecords /\ rec.pc = "waiting" /\ rec.batch = old.batch
          /\ rec.index = old.index /\ rec.result = old.result
      BY <1>0, <2>2 DEF WorkerRecords, WorkerStates
    <2>5. QED  BY <1>1, <1>2, <1>3, <1>5, <2>3, <2>4 DEF Works, Working
  <1>11. CASE ForgetGopeedTask(r, w)
    <2>1. worker' = [worker EXCEPT ![r][w] = old]
      BY <1>0, <1>11 DEF ForgetGopeedTask
    <2>2. QED  BY <1>0, <1>1, <1>2, <1>3, <1>5, <2>1 DEF Works
  <1>12. QED
    BY <1>6, <1>7, <1>8, <1>9, <1>10, <1>11
    DEF NoDownload, AttemptStarts, RecordGopeedTask, ConnectFails, WaitCancelled, WaitPaused,
        WaitDone, DownloadFails, SaveVideo, Results, Working

-----------------------------------------------------------------------------
(* Every index is given out once. *)

\* Runs that give out nothing, and workers that rest
LEMMA RunsRest ==
  ASSUME RunsOK, UNCHANGED worker,
         \A r \in Runs :
           /\ run'[r].queue = run[r].queue /\ run'[r].next = run[r].next
           /\ run'[r].pc \in {"none", "launched", "starting"} =>
                run[r].pc \in {"none", "launched", "starting"}
           /\ \A w \in Workers :
                worker[r][w].pc \notin {"none", "exited"} => run'[r].pc \in {"dispatching", "waiting"}
  PROVE  RunsOK'
  <1>1. ResultsOK'
    BY DEF RunsOK, ResultsOK
  <1>2. WorkersLive'
    BY DEF RunsOK, WorkersLive, Served
  <1>3. Tickets'
    BY DEF RunsOK, Tickets, Holds, Queued
  <1>4. FreshQueues'
    BY DEF RunsOK, FreshQueues
  <1>5. QED  BY <1>1, <1>2, <1>3, <1>4 DEF RunsOK

\* A worker that takes no index
LEMMA RunsKeep ==
  ASSUME RunsOK, TypeOK, NEW r \in Runs, NEW w \in Workers, NEW rec,
         worker' = [worker EXCEPT ![r][w] = rec], UNCHANGED run,
         worker[r][w].pc \notin {"none", "exited"},
         rec.pc # "result" => rec.result = "",
         rec.pc \in Working \cup {"taken"} => Holds(r, w) /\ rec.index = worker[r][w].index
  PROVE  RunsOK'
  <1>1. /\ worker'[r][w] = rec
        /\ \A q \in Runs, v \in Workers : q # r \/ v # w => worker'[q][v] = worker[q][v]
    BY DEF TypeOK
  <1>2. ResultsOK'
    BY <1>1 DEF RunsOK, ResultsOK
  <1>3. WorkersLive'
    BY <1>1 DEF RunsOK, WorkersLive, Served
  <1>4. \A q \in Runs, v \in Workers :
          Holds(q, v)' => Holds(q, v) /\ worker'[q][v].index = worker[q][v].index
    BY <1>1 DEF Holds
  <1>5. run' = run
    OBVIOUS
  <1>6. Tickets'
    <2>1. SUFFICES ASSUME NEW q \in Runs
                   PROVE  /\ \A v \in Workers : Holds(q, v)' =>
                               worker'[q][v].index < run[q].next /\ ~Queued(q, worker'[q][v].index)
                          /\ \A u, v \in Workers :
                               Holds(q, u)' /\ Holds(q, v)' /\ worker'[q][u].index = worker'[q][v].index => u = v
      BY <1>5 DEF RunsOK, Tickets, Queued
    <2>2. ASSUME NEW v \in Workers, Holds(q, v)'
          PROVE  worker'[q][v].index < run[q].next /\ ~Queued(q, worker'[q][v].index)
      <3>1. Holds(q, v) /\ worker'[q][v].index = worker[q][v].index
        BY <1>4, <2>2
      <3>2. worker[q][v].index < run[q].next /\ ~Queued(q, worker[q][v].index)
        BY <3>1 DEF RunsOK, Tickets
      <3>3. QED  BY <3>1, <3>2 DEF Queued
    <2>3. ASSUME NEW u \in Workers, NEW v \in Workers, Holds(q, u)', Holds(q, v)',
                 worker'[q][u].index = worker'[q][v].index
          PROVE  u = v
      <3>1. Holds(q, u) /\ Holds(q, v) /\ worker[q][u].index = worker[q][v].index
        BY <1>4, <2>3
      <3>2. QED  BY <3>1 DEF RunsOK, Tickets
    <2>4. QED  BY <2>2, <2>3
  <1>7. FreshQueues'
    BY DEF RunsOK, FreshQueues
  <1>8. QED  BY <1>2, <1>3, <1>6, <1>7 DEF RunsOK

LEMMA ReceiveEffect ==
  ASSUME TypeOK, NEW r \in Runs, NEW w \in Workers, Receive(r, w)
  PROVE  \E pc \in {"exited", "taken"} :
           /\ worker' = [worker EXCEPT ![r][w] =
                [worker[r][w] EXCEPT !.pc = pc, !.index = Head(run[r].queue)]]
           /\ run' = [run EXCEPT ![r].queue = Tail(run[r].queue)]
           /\ run[r].queue \in Seq(Indices) /\ run[r].queue # <<>>
           /\ worker[r][w].pc = "receiving"
           /\ UNCHANGED <<handler, request, gopeed, saved, panicked>>
  <1>1. worker \in [Runs -> [Workers -> WorkerRecords]] /\ run \in [Runs -> RunRecords]
    BY DEF TypeOK
  <1>2. PICK pc \in {"exited", "taken"} :
          worker' = [worker EXCEPT ![r][w].pc = pc, ![r][w].index = Head(run[r].queue)]
    BY DEF Receive
  <1>3. worker' = [worker EXCEPT ![r][w] = [worker[r][w] EXCEPT !.pc = pc, !.index = Head(run[r].queue)]]
    BY <1>1, <1>2 DEF WorkerRecords
  <1>4. run[r].queue \in Seq(Indices)
    BY <1>1 DEF RunRecords
  <1>5. run' = [run EXCEPT ![r].queue = Tail(run[r].queue)]
    BY DEF Receive
  <1>6. QED  BY <1>3, <1>4, <1>5 DEF Receive

\* The first of a queue, and what is left of it
LEMMA QueueTail ==
  ASSUME NEW q \in Seq(Indices), q # <<>>
  PROVE  /\ 1 \in DOMAIN q /\ Head(q) = q[1] /\ Tail(q) \in Seq(Indices)
         /\ \A k \in DOMAIN Tail(q) : k + 1 \in DOMAIN q /\ Tail(q)[k] = q[k + 1] /\ k + 1 # 1
  <1>1. Len(q) \in Nat /\ Len(q) # 0 /\ DOMAIN q = 1 .. Len(q)
    BY EmptySeq, LenProperties
  <1>2. /\ Head(q) = q[1] /\ Tail(q) \in Seq(Indices) /\ Len(Tail(q)) = Len(q) - 1
        /\ \A k \in 1 .. Len(Tail(q)) : Tail(q)[k] = q[k + 1]
    BY HeadTailProperties
  <1>3. DOMAIN Tail(q) = 1 .. Len(q) - 1
    BY <1>2, LenProperties
  <1>4. QED  BY <1>1, <1>2, <1>3

LEMMA QueueAppend ==
  ASSUME NEW q \in Seq(Indices), NEW x \in Indices
  PROVE  \A k \in DOMAIN Append(q, x) : (k \in DOMAIN q /\ Append(q, x)[k] = q[k]) \/
           (k = Len(q) + 1 /\ Append(q, x)[k] = x)
  BY AppendProperties, LenProperties

LEMMA ReceiveRuns ==
  ASSUME RunsOK, TypeOK, NEW r \in Runs, NEW w \in Workers, Receive(r, w)
  PROVE  RunsOK'
  <1>1. PICK pc \in {"exited", "taken"} :
           /\ worker' = [worker EXCEPT ![r][w] =
                [worker[r][w] EXCEPT !.pc = pc, !.index = Head(run[r].queue)]]
           /\ run' = [run EXCEPT ![r].queue = Tail(run[r].queue)]
           /\ run[r].queue \in Seq(Indices) /\ run[r].queue # <<>>
           /\ worker[r][w].pc = "receiving"
    BY ReceiveEffect
  <1>2. PICK rec : rec = [worker[r][w] EXCEPT !.pc = pc, !.index = Head(run[r].queue)]
    OBVIOUS
  <1>3. worker[r][w] \in WorkerRecords /\ worker \in [Runs -> [Workers -> WorkerRecords]]
        /\ run \in [Runs -> RunRecords]
    BY DEF TypeOK
  <1>4. rec.pc = pc /\ rec.index = Head(run[r].queue) /\ rec.result = worker[r][w].result
    BY <1>2, <1>3 DEF WorkerRecords
  <1>5. /\ worker'[r][w] = rec
        /\ \A q \in Runs, v \in Workers : q # r \/ v # w => worker'[q][v] = worker[q][v]
    BY <1>1, <1>2, <1>3
  <1>6. /\ run'[r].queue = Tail(run[r].queue)
        /\ \A q \in Runs \ {r} : run'[q] = run[q]
        /\ \A q \in Runs : run'[q].pc = run[q].pc /\ run'[q].next = run[q].next
    BY <1>1, <1>3 DEF RunRecords
  <1>7. ResultsOK'
    <2>1. worker[r][w].result = ""
      BY <1>1 DEF RunsOK, ResultsOK
    <2>2. SUFFICES ASSUME NEW q \in Runs, NEW v \in Workers, worker'[q][v].pc # "result"
                   PROVE  worker'[q][v].result = ""
      BY DEF ResultsOK
    <2>3. CASE q = r /\ v = w
      <3>1. worker'[q][v].result = rec.result
        BY <1>5, <2>3
      <3>2. QED  BY <1>4, <2>1, <3>1
    <2>4. CASE q # r \/ v # w
      <3>1. worker'[q][v] = worker[q][v]
        BY <1>5, <2>4
      <3>2. worker[q][v].pc # "result" => worker[q][v].result = ""
        BY DEF RunsOK, ResultsOK
      <3>3. QED  BY <2>2, <3>1, <3>2
    <2>5. QED  BY <2>3, <2>4
  <1>8. WorkersLive'
    BY <1>1, <1>4, <1>5, <1>6 DEF RunsOK, WorkersLive, Served
  <1>9. FreshQueues'
    <2>1. Served(r)
      BY <1>1 DEF RunsOK, WorkersLive
    <2>2. QED  BY <1>6, <2>1 DEF RunsOK, FreshQueues, Served
  <1> DEFINE q0 == run[r].queue
             q1 == Tail(run[r].queue)
  <1>10. /\ 1 \in DOMAIN q0 /\ Head(q0) = q0[1]
         /\ \A k \in DOMAIN q1 : k + 1 \in DOMAIN q0 /\ q1[k] = q0[k + 1] /\ k + 1 # 1 /\ k \in Nat
    <2>1. \A k \in DOMAIN q1 : k \in Nat
      BY <1>1, QueueTail, LenProperties
    <2>2. QED  BY <1>1, <2>1, QueueTail
  <1> HIDE DEF q0, q1
  <1>11. /\ \A k, l \in DOMAIN q0 : q0[k] = q0[l] => k = l
         /\ \A k \in DOMAIN q0 : q0[k] < run[r].next
    BY DEF RunsOK, Tickets, q0
  <1>12. /\ \A k, l \in DOMAIN q1 : q1[k] = q1[l] => k = l
         /\ \A k \in DOMAIN q1 : q1[k] < run[r].next /\ q1[k] # Head(q0)
    BY <1>10, <1>11
  <1>13. \A i : (\E k \in DOMAIN q1 : q1[k] = i) => Queued(r, i)
    BY <1>10 DEF Queued, q0
  <1>14. Queued(r, Head(q0)) /\ Head(q0) < run[r].next
    BY <1>10, <1>11 DEF Queued, q0
  <1>15. \A v \in Workers : Holds(r, v) =>
           /\ v # w /\ worker[r][v].index < run[r].next
           /\ ~Queued(r, worker[r][v].index) /\ worker[r][v].index # Head(q0)
    BY <1>1, <1>14 DEF RunsOK, Tickets, Holds, Working
  <1>16. Tickets'
    <2>1. SUFFICES ASSUME NEW q \in Runs
                   PROVE  /\ \A k, l \in DOMAIN run'[q].queue : run'[q].queue[k] = run'[q].queue[l] => k = l
                          /\ \A k \in DOMAIN run'[q].queue : run'[q].queue[k] < run'[q].next
                          /\ \A v \in Workers : Holds(q, v)' =>
                               worker'[q][v].index < run'[q].next /\ ~Queued(q, worker[q][v].index)'
                          /\ \A u, v \in Workers :
                               Holds(q, u)' /\ Holds(q, v)' /\ worker'[q][u].index = worker'[q][v].index => u = v
      BY DEF Tickets, Queued
    <2>2. CASE q # r
      BY <1>5, <1>6, <2>2 DEF RunsOK, Tickets, Holds, Queued
    <2>3. CASE q = r
      <3>1. /\ \A k, l \in DOMAIN run'[q].queue : run'[q].queue[k] = run'[q].queue[l] => k = l
            /\ \A k \in DOMAIN run'[q].queue : run'[q].queue[k] < run'[q].next
        BY <1>6, <1>12, <2>3 DEF q1
      <3>2. \A i : Queued(r, i)' => Queued(r, i) /\ i # Head(q0)
        BY <1>6, <1>12, <1>13 DEF Queued, q1
      <3>3. \A v \in Workers : Holds(r, v)' =>
              \/ v = w /\ worker'[r][v].index = Head(q0)
              \/ v # w /\ Holds(r, v) /\ worker'[r][v] = worker[r][v]
        BY <1>4, <1>5 DEF Holds, q0
      <3>4. \A v \in Workers : Holds(r, v)' =>
              worker'[r][v].index < run'[r].next /\ ~Queued(r, worker[r][v].index)'
        BY <1>6, <1>14, <1>15, <3>2, <3>3 DEF Queued
      <3>5. \A u, v \in Workers :
              Holds(r, u)' /\ Holds(r, v)' /\ worker'[r][u].index = worker'[r][v].index => u = v
        BY <1>15, <3>3 DEF RunsOK, Tickets
      <3>6. QED  BY <2>3, <3>1, <3>4, <3>5
    <2>4. QED  BY <2>2, <2>3
  <1>17. QED  BY <1>7, <1>8, <1>9, <1>16 DEF RunsOK

\* The workers of a run begin with empty hands.
LEMMA WorkersStartRuns ==
  ASSUME RunsOK, TypeOK, NEW r \in Runs, WorkersStart(r)
  PROVE  RunsOK'
  <1>1. PICK rec : rec = [NoWork EXCEPT !.pc = "receiving"]
    OBVIOUS
  <1>2. rec.pc = "receiving" /\ rec.result = ""
    BY <1>1 DEF NoWork
  <1>3. /\ run[r].pc = "starting" /\ run' = [run EXCEPT ![r].pc = "dispatching", ![r].count = Len(CurrentTasks)]
        /\ worker' = [worker EXCEPT ![r] = [w \in Workers |-> rec]]
    BY <1>1 DEF WorkersStart
  <1>4. /\ \A w \in Workers : worker'[r][w] = rec
        /\ \A q \in Runs \ {r} : worker'[q] = worker[q]
    BY <1>3 DEF TypeOK
  <1>5. /\ run'[r].pc = "dispatching" /\ run'[r].queue = run[r].queue /\ run'[r].next = run[r].next
        /\ \A q \in Runs \ {r} : run'[q] = run[q]
    BY <1>3 DEF TypeOK, RunRecords
  <1>6. ResultsOK'
    BY <1>2, <1>4 DEF RunsOK, ResultsOK
  <1>7. WorkersLive'
    BY <1>2, <1>4, <1>5 DEF RunsOK, WorkersLive, Served
  <1>8. FreshQueues'
    BY <1>5 DEF RunsOK, FreshQueues
  <1>9. Tickets'
    <2>1. \A w \in Workers : ~Holds(r, w)'
      BY <1>2, <1>4 DEF Holds, Working
    <2>2. \A q \in Runs \ {r}, w \in Workers : worker'[q][w] = worker[q][w]
      BY <1>4
    <2>3. \A q \in Runs : run'[q].queue = run[q].queue /\ run'[q].next = run[q].next
      BY <1>5
    <2>4. SUFFICES ASSUME NEW q \in Runs
                   PROVE  /\ \A k, l \in DOMAIN run[q].queue : run[q].queue[k] = run[q].queue[l] => k = l
                          /\ \A k \in DOMAIN run[q].queue : run[q].queue[k] < run[q].next
                          /\ \A v \in Workers : Holds(q, v)' =>
                               worker'[q][v].index < run[q].next /\ ~Queued(q, worker'[q][v].index)
                          /\ \A u, v \in Workers :
                               Holds(q, u)' /\ Holds(q, v)' /\ worker'[q][u].index = worker'[q][v].index => u = v
      BY <2>3 DEF Tickets, Queued
    <2>5. CASE q = r
      BY <2>1, <2>5 DEF RunsOK, Tickets
    <2>6. CASE q # r
      BY <2>2, <2>6 DEF RunsOK, Tickets, Holds, Queued
    <2>7. QED  BY <2>5, <2>6
  <1>10. QED  BY <1>6, <1>7, <1>8, <1>9 DEF RunsOK

\* An index is queued once, and those before it have been.
LEMMA DispatchRuns ==
  ASSUME RunsOK, TypeOK, NEW r \in Runs, Dispatch(r)
  PROVE  RunsOK'
  <1>1. CASE Panic
    BY <1>1, RunsRest DEF Panic, RunsOK, WorkersLive, Served
  <1>2. CASE ~Panic
    <2>1. run[r] \in RunRecords /\ run \in [Runs -> RunRecords]
      BY DEF TypeOK
    <2> DEFINE n == run[r].next
               q0 == run[r].queue
    <2>2. n \in Indices /\ q0 \in Seq(Indices) /\ UNCHANGED worker /\ run[r].pc = "dispatching"
      <3>1. n \in 1 .. MaxTasks + 1 /\ n <= run[r].count /\ run[r].count \in 0 .. MaxTasks
        BY <2>1 DEF Dispatch, RunRecords
      <3>2. n \in Indices
        BY <3>1, BoundsAssumption DEF Indices
      <3>3. QED  BY <1>2, <2>1, <3>2 DEF Dispatch, RunRecords
    <2>3. PICK q1 \in {q0, Append(q0, n)} : run' = [run EXCEPT ![r].next = n + 1, ![r].queue = q1]
      BY <1>2 DEF Dispatch
    <2>4. /\ run'[r].next = n + 1 /\ run'[r].queue = q1 /\ run'[r].pc = run[r].pc
          /\ \A q \in Runs \ {r} : run'[q] = run[q]
      BY <2>1, <2>3 DEF RunRecords
    <2>5. n \in Nat /\ \A i \in Indices : i \in Nat
      BY <2>2, BoundsAssumption DEF Indices
    <2>6. \A k \in DOMAIN q0 : q0[k] < n
      BY DEF RunsOK, Tickets
    <2> HIDE DEF n, q0
    <2>7. \A k \in DOMAIN q1 : (k \in DOMAIN q0 /\ q1[k] = q0[k]) \/ (k = Len(q0) + 1 /\ q1[k] = n)
      BY <2>2, <2>3, QueueAppend
    <2>8. \A k \in DOMAIN q0 : q0[k] \in Nat
      BY <2>2, <2>5, ElementOfSeq, LenProperties
    <2>9. /\ \A k, l \in DOMAIN q1 : q1[k] = q1[l] => k = l
          /\ \A k \in DOMAIN q1 : q1[k] < n + 1
      <3>1. \A k, l \in DOMAIN q0 : q0[k] = q0[l] => k = l
        BY DEF RunsOK, Tickets, q0
      <3>2. QED  BY <2>5, <2>6, <2>7, <2>8, <3>1
    <2>10. \A v \in Workers : Holds(r, v) =>
             worker[r][v].index \in Nat /\ worker[r][v].index < n /\ ~Queued(r, worker[r][v].index)
      <3>1. SUFFICES ASSUME NEW v \in Workers, Holds(r, v)
                     PROVE  worker[r][v].index \in Nat /\ worker[r][v].index < n /\
                            ~Queued(r, worker[r][v].index)
        OBVIOUS
      <3>2. worker[r][v] \in WorkerRecords
        BY DEF TypeOK
      <3>3. worker[r][v].index \in Nat
        <4>1. worker[r][v].index \in 0 .. MaxTasks
          BY <3>2 DEF WorkerRecords
        <4>2. QED  BY <4>1, BoundsAssumption
      <3>4. worker[r][v].index < n /\ ~Queued(r, worker[r][v].index)
        BY <3>1 DEF RunsOK, Tickets, n
      <3>5. QED  BY <3>3, <3>4
    <2>11. \A v \in Workers : Holds(r, v) =>
             worker[r][v].index < n + 1 /\ \A k \in DOMAIN q1 : q1[k] # worker[r][v].index
      BY <2>5, <2>7, <2>10 DEF Queued, q0
    <2>12. Tickets'
      <3>1. SUFFICES ASSUME NEW q \in Runs
                   PROVE  /\ \A k, l \in DOMAIN run'[q].queue : run'[q].queue[k] = run'[q].queue[l] => k = l
                          /\ \A k \in DOMAIN run'[q].queue : run'[q].queue[k] < run'[q].next
                          /\ \A v \in Workers : Holds(q, v) =>
                               worker[q][v].index < run'[q].next /\
                               \A k \in DOMAIN run'[q].queue : run'[q].queue[k] # worker[q][v].index
                          /\ \A u, v \in Workers :
                               Holds(q, u) /\ Holds(q, v) /\ worker[q][u].index = worker[q][v].index => u = v
        BY <2>2 DEF Tickets, Queued, Holds
      <3>2. CASE q = r
        BY <2>4, <2>9, <2>11, <3>2 DEF RunsOK, Tickets
      <3>3. CASE q # r
        BY <2>4, <3>3 DEF RunsOK, Tickets, Queued
      <3>4. QED  BY <3>2, <3>3
    <2>13. ResultsOK' /\ WorkersLive' /\ FreshQueues'
      BY <2>2, <2>4 DEF RunsOK, ResultsOK, WorkersLive, FreshQueues, Served
    <2>14. QED  BY <2>12, <2>13 DEF RunsOK
  <1>3. QED  BY <1>1, <1>2

\* Taking a task, settling one and leaving: what becomes of the record
LEMMA TakesEffect ==
  ASSUME TypeOK, WorkersPoint, NEW r \in Runs, NEW w \in Workers, WorkerTakes(r, w), ~Panic
  PROVE  /\ tasks \in Batches /\ worker[r][w].index \in DOMAIN heap[tasks]
         /\ worker[r][w].pc = "taken"
         /\ \E rec : /\ worker' = [worker EXCEPT ![r][w] = rec] /\ rec.pc = "attempt"
                     /\ rec.batch = tasks /\ rec.index = worker[r][w].index
                     /\ rec.result = worker[r][w].result
         /\ heap'[tasks][worker[r][w].index].status = "downloading"
         /\ \A b \in Batches :
              /\ Len(heap'[b]) = Len(heap[b]) /\ DOMAIN heap'[b] = DOMAIN heap[b]
              /\ \A i \in DOMAIN heap[b] :
                   b # tasks \/ i # worker[r][w].index => heap'[b][i] = heap[b][i]
         /\ UNCHANGED <<tasks, running, cancelFunc, run, request, gopeed, saved, panicked>>
  <1> DEFINE i == worker[r][w].index
  <1>1. worker[r][w] \in WorkerRecords /\ worker \in [Runs -> [Workers -> WorkerRecords]]
        /\ heap \in [Batches -> Seq(Tasks)]
    BY DEF TypeOK, HandlerTypeOK
  <1>2. /\ worker[r][w].pc = "taken" /\ ~(i > Len(CurrentTasks))
        /\ heap' = [heap EXCEPT ![tasks][i].status = "downloading"]
        /\ worker' = [worker EXCEPT ![r][w].pc = "attempt", ![r][w].batch = tasks, ![r][w].attempt = 0]
        /\ UNCHANGED <<tasks, running, cancelFunc, run, request, gopeed, saved, panicked>>
    BY DEF WorkerTakes
  <1>3. i \in Indices
    BY <1>2 DEF WorkersPoint, Points
  <1>4. i \in DOMAIN CurrentTasks
    BY <1>2, <1>3, CurrentTyped, BoundsAssumption DEF Indices
  <1>5. tasks # 0
    BY <1>4, EmptySeq DEF CurrentTasks
  <1>6. tasks \in Batches
    BY <1>5, BoundsAssumption DEF TypeOK, HandlerTypeOK, Batches
  <1>7. i \in DOMAIN heap[tasks] /\ heap[tasks] \in Seq(Tasks)
    BY <1>1, <1>4, <1>5, <1>6 DEF CurrentTasks
  <1>8. heap[tasks][i] \in Tasks /\ DOMAIN heap[tasks] = 1 .. Len(heap[tasks])
    BY <1>7, LenProperties, ElementOfSeq
  <1>9. PICK rec : rec = [worker[r][w] EXCEPT !.pc = "attempt", !.batch = tasks, !.attempt = 0]
    OBVIOUS
  <1>10. /\ worker' = [worker EXCEPT ![r][w] = rec] /\ rec.pc = "attempt" /\ rec.batch = tasks
         /\ rec.index = i /\ rec.result = worker[r][w].result
    BY <1>1, <1>2, <1>9 DEF WorkerRecords
  <1>11. PICK task : task = [heap[tasks][i] EXCEPT !.status = "downloading"]
    OBVIOUS
  <1>12. task \in Tasks /\ task.status = "downloading"
    BY <1>8, <1>11 DEF Tasks, TaskStatuses
  <1>13. PICK list : list = [heap[tasks] EXCEPT ![i] = task]
    OBVIOUS
  <1>14. heap' = [heap EXCEPT ![tasks] = list]
    BY <1>1, <1>2, <1>6, <1>7, <1>8, <1>11, <1>13 DEF Tasks
  <1>15. list \in Seq(Tasks) /\ Len(list) = Len(heap[tasks])
    BY <1>7, <1>8, <1>12, <1>13, ExceptSeq
  <1>16. DOMAIN list = DOMAIN heap[tasks] /\ list[i] = task
         /\ \A j \in DOMAIN heap[tasks] : j # i => list[j] = heap[tasks][j]
    BY <1>7, <1>13
  <1>17. heap'[tasks] = list /\ \A b \in Batches \ {tasks} : heap'[b] = heap[b]
    BY <1>1, <1>6, <1>14
  <1> HIDE DEF i
  <1>18. heap'[tasks][i].status = "downloading"
    BY <1>12, <1>16, <1>17
  <1>19. \A b \in Batches :
           /\ Len(heap'[b]) = Len(heap[b]) /\ DOMAIN heap'[b] = DOMAIN heap[b]
           /\ \A j \in DOMAIN heap[b] : b # tasks \/ j # i => heap'[b][j] = heap[b][j]
    BY <1>15, <1>16, <1>17
  <1>20. QED  BY <1>2, <1>6, <1>7, <1>10, <1>18, <1>19 DEF i

LEMMA SettleEffect ==
  ASSUME TypeOK, WorkersPoint, NEW r \in Runs, NEW w \in Workers, Settle(r, w)
  PROVE  /\ worker[r][w].pc = "result"
         /\ worker[r][w].batch \in Batches /\ worker[r][w].index \in DOMAIN heap[worker[r][w].batch]
         /\ \E rec : worker' = [worker EXCEPT ![r][w] = rec] /\ rec.pc = "receiving" /\ rec.result = ""
         /\ heap'[worker[r][w].batch][worker[r][w].index].status =
              SettledAs(TaskOf(r, w).status, worker[r][w].result)
         /\ worker[r][w].result \in {"ok", "failed", "paused"} /\ TaskOf(r, w).status \in TaskStatuses
         /\ \A b \in Batches :
              /\ Len(heap'[b]) = Len(heap[b]) /\ DOMAIN heap'[b] = DOMAIN heap[b]
              /\ \A i \in DOMAIN heap[b] :
                   b # worker[r][w].batch \/ i # worker[r][w].index => heap'[b][i] = heap[b][i]
         /\ UNCHANGED <<tasks, running, cancelFunc, run, request, gopeed, saved, panicked>>
  <1> DEFINE old == worker[r][w]
  <1>1. old \in WorkerRecords /\ Points(old, heap)
    BY DEF TypeOK, WorkersPoint
  <1>2. old.pc = "result" /\ old.pc \in Working
    BY DEF Settle, Working
  <1>3. old.result \in {"ok", "failed", "paused"} /\ old.batch \in Batches /\ old.index \in DOMAIN heap[old.batch]
    BY <1>1, <1>2 DEF Points, WorkerRecords, Results
  <1>4. TaskOf(r, w) \in Tasks
    BY <1>2, TaskTyped
  <1>5. SettledAs(TaskOf(r, w).status, old.result) \in TaskStatuses
    BY <1>3, <1>4 DEF SettledAs, Tasks, TaskStatuses
  <1>6. PICK task : task = [TaskOf(r, w) EXCEPT !.status = SettledAs(TaskOf(r, w).status, old.result)]
    OBVIOUS
  <1>7. task \in Tasks /\ task.status = SettledAs(TaskOf(r, w).status, old.result)
    BY <1>4, <1>5, <1>6 DEF Tasks
  <1>8. WriteTask(r, w, task)
    BY <1>4, <1>6 DEF Settle, Tasks
  <1>9. /\ \A b \in Batches : Len(heap'[b]) = Len(heap[b]) /\ DOMAIN heap'[b] = DOMAIN heap[b]
        /\ heap'[old.batch][old.index] = task
        /\ \A b \in Batches : \A i \in DOMAIN heap[b] :
             b # old.batch \/ i # old.index => heap'[b][i] = heap[b][i]
    BY <1>2, <1>7, <1>8, WriteEffect
  <1>10. PICK rec : rec = [NoWork EXCEPT !.pc = "receiving"]
    OBVIOUS
  <1>11. worker' = [worker EXCEPT ![r][w] = rec] /\ rec.pc = "receiving" /\ rec.result = ""
    BY <1>10 DEF Settle, NoWork
  <1>12. TaskOf(r, w).status \in TaskStatuses
    BY <1>4 DEF Tasks
  <1>13. UNCHANGED <<tasks, running, cancelFunc, run, request, gopeed, saved, panicked>>
    BY DEF Settle
  <1>14. QED  BY <1>2, <1>3, <1>7, <1>9, <1>11, <1>12, <1>13

\* What a request does to the tasks: new ones, and downloads that are taken back
TasksAfterRequest ==
  \A b \in Batches :
    /\ DOMAIN heap[b] # {} => Len(heap'[b]) = Len(heap[b]) /\ DOMAIN heap'[b] = DOMAIN heap[b]
    /\ \A i \in DOMAIN heap[b] :
         \/ heap'[b][i].status = heap[b][i].status
         \/ heap[b][i].status = "downloading" /\ heap'[b][i].status = "pending"
    /\ DOMAIN heap[b] = {} => \A i \in DOMAIN heap'[b] : heap'[b][i].status = "pending"

LEMMA RequestEffect ==
  ASSUME TypeOK, NEW c \in Clients, RequestStep(c)
  PROVE  /\ UNCHANGED <<worker, saved, cancelFunc, panicked>>
         /\ TasksAfterRequest
         /\ \A r \in Runs :
              /\ run'[r].queue = run[r].queue /\ run'[r].next = run[r].next
              /\ run'[r].count = run[r].count
              /\ run'[r].pc = run[r].pc \/ (run[r].pc = "none" /\ run'[r].pc = "launched")
  <1>1. UNCHANGED <<worker, saved, cancelFunc, panicked>>
    BY DEF RequestStep, StartChecks, StartInstalls, BatchResume, CancelStops, CancelPausesOne,
           CancelContext, CancelFindsNone, CancelAnswered, ClearStops, ClearForgets, ClearCleans,
           handler
  <1>2. run \in [Runs -> RunRecords] /\ heap \in [Batches -> Seq(Tasks)]
    BY DEF TypeOK, HandlerTypeOK
  <1>3. \/ run' = run
        \/ Launch
        \/ \E r : run' = [run EXCEPT ![r].ctxDone = TRUE]
    BY DEF RequestStep, StartChecks, StartInstalls, BatchResume, CancelStops, CancelPausesOne,
           CancelContext, CancelFindsNone, CancelAnswered, ClearStops, ClearForgets, ClearCleans,
           handler
  <1>4. \A r \in Runs :
          /\ run'[r].queue = run[r].queue /\ run'[r].next = run[r].next
          /\ run'[r].count = run[r].count
          /\ run'[r].pc = run[r].pc \/ (run[r].pc = "none" /\ run'[r].pc = "launched")
    <2>1. CASE run' = run
      BY <2>1
    <2>2. CASE Launch
      BY <1>2, <2>2 DEF Launch, RunRecords
    <2>3. ASSUME NEW q, run' = [run EXCEPT ![q].ctxDone = TRUE]
          PROVE  \A r \in Runs :
                   /\ run'[r].queue = run[r].queue /\ run'[r].next = run[r].next
                   /\ run'[r].count = run[r].count /\ run'[r].pc = run[r].pc
      BY <1>2, <2>3 DEF RunRecords
    <2>4. QED  BY <1>3, <2>1, <2>2, <2>3
  <1>5. TasksAfterRequest
    <2>1. CASE heap' = heap
      <3>1. \A b \in Batches : DOMAIN heap[b] = {} => \A i \in DOMAIN heap'[b] : heap'[b][i].status = "pending"
        BY <2>1
      <3>2. QED  BY <2>1, <3>1 DEF TasksAfterRequest
    <2>2. CASE \E n \in Indices : StartInstalls(c, n)
      <3>1. PICK n \in Indices, b \in Batches :
              heap[b] = <<>> /\ heap' = [heap EXCEPT ![b] = [i \in 1 .. n |-> NewTask]]
        BY <2>2 DEF StartInstalls
      <3>2. PICK list : list = [i \in 1 .. n |-> NewTask]
        OBVIOUS
      <3>3. \A i \in DOMAIN list : list[i].status = "pending"
        BY <3>2 DEF NewTask
      <3>4. heap'[b] = list /\ \A a \in Batches \ {b} : heap'[a] = heap[a]
        BY <1>2, <3>1, <3>2
      <3>5. DOMAIN heap[b] = {}
        BY <3>1
      <3>6. QED  BY <3>3, <3>4, <3>5 DEF TasksAfterRequest
    <2>3. CASE CancelStops(c) /\ heap' # heap
      <3>1. PICK list : list = [i \in DOMAIN heap[tasks] |-> Unstarted(heap[tasks][i])]
        OBVIOUS
      <3>2. heap' = [heap EXCEPT ![tasks] = list] /\ tasks # 0
        BY <2>3, <3>1 DEF CancelStops
      <3>3. tasks \in Batches
        BY <3>2, BoundsAssumption DEF TypeOK, HandlerTypeOK, Batches
      <3>4. heap'[tasks] = list /\ \A a \in Batches \ {tasks} : heap'[a] = heap[a]
        BY <1>2, <3>2, <3>3
      <3>5. heap[tasks] \in Seq(Tasks) /\ DOMAIN heap[tasks] = 1 .. Len(heap[tasks]) /\ Len(heap[tasks]) \in Nat
        BY <1>2, <3>3, LenProperties
      <3>6. \A i \in DOMAIN heap[tasks] :
              /\ Unstarted(heap[tasks][i]) \in Tasks
              /\ \/ Unstarted(heap[tasks][i]).status = heap[tasks][i].status
                 \/ heap[tasks][i].status = "downloading" /\ Unstarted(heap[tasks][i]).status = "pending"
        <4>1. SUFFICES ASSUME NEW i \in DOMAIN heap[tasks]
                       PROVE  /\ Unstarted(heap[tasks][i]) \in Tasks
                              /\ \/ Unstarted(heap[tasks][i]).status = heap[tasks][i].status
                                 \/ heap[tasks][i].status = "downloading" /\ Unstarted(heap[tasks][i]).status = "pending"
          OBVIOUS
        <4>2. heap[tasks][i] \in Tasks
          BY <3>5, ElementOfSeq
        <4>3. QED  BY <4>2 DEF Unstarted, Tasks, TaskStatuses
      <3>7. list \in Seq(Tasks) /\ Len(list) = Len(heap[tasks]) /\ DOMAIN list = DOMAIN heap[tasks]
        BY <3>1, <3>5, <3>6
      <3>8. \A i \in DOMAIN heap[tasks] : list[i] = Unstarted(heap[tasks][i])
        BY <3>1
      <3>9. QED  BY <3>4, <3>6, <3>7, <3>8 DEF TasksAfterRequest
    <2>4. QED
      BY <2>1, <2>2, <2>3
      DEF RequestStep, StartChecks, BatchResume, CancelPausesOne,
          CancelContext, CancelFindsNone, CancelAnswered, ClearStops, ClearForgets, ClearCleans,
          handler
  <1>6. QED  BY <1>1, <1>4, <1>5

\* The steps of a worker that has a task in its hands
WorkingStep(r, w) ==
  \/ NoDownload(r, w) \/ AttemptStarts(r, w) \/ CreateGopeedTask(r, w)
  \/ RecordGopeedTask(r, w) \/ ConnectFails(r, w) \/ ContinueGopeedTask(r, w)
  \/ ForgetGopeedTask(r, w) \/ WaitCancelled(r, w) \/ WaitPaused(r, w)
  \/ WaitDone(r, w) \/ DownloadFails(r, w) \/ SaveVideo(r, w)

LEMMA WorkerCases ==
  ASSUME TypeOK, NEW r \in Runs, NEW w \in Workers, WorkerStep(r, w)
  PROVE  \/ Receive(r, w)
         \/ WorkerExits(r, w)
         \/ WorkerTakes(r, w) /\ Panic
         \/ WorkerTakes(r, w) /\ ~Panic
         \/ WorkingStep(r, w)
         \/ Settle(r, w)
  BY DEF WorkerStep, WorkingStep

LEMMA ExitsEffect ==
  ASSUME TypeOK, NEW r \in Runs, NEW w \in Workers, WorkerExits(r, w)
  PROVE  /\ worker[r][w].pc = "receiving"
         /\ \E rec : /\ worker' = [worker EXCEPT ![r][w] = rec] /\ rec.pc = "exited"
                     /\ rec.result = worker[r][w].result
         /\ UNCHANGED <<handler, run, request, gopeed, saved, panicked>>
  <1>1. worker[r][w] \in WorkerRecords
    BY DEF TypeOK
  <1>2. PICK rec : rec = [worker[r][w] EXCEPT !.pc = "exited"]
    OBVIOUS
  <1>3. rec.pc = "exited" /\ rec.result = worker[r][w].result
    BY <1>1, <1>2 DEF WorkerRecords
  <1>4. worker' = [worker EXCEPT ![r][w] = rec]
    BY <1>2, Goes DEF WorkerExits
  <1>5. QED  BY <1>3, <1>4 DEF WorkerExits

LEMMA WorkersKeepRuns ==
  ASSUME RunsOK, TypeOK, WorkersPoint, NEW r \in Runs, NEW w \in Workers, WorkerStep(r, w)
  PROVE  RunsOK'
  <1>1. CASE Receive(r, w)
    BY <1>1, ReceiveRuns
  <1>2. CASE WorkerExits(r, w)
    <2>1. PICK rec : /\ worker' = [worker EXCEPT ![r][w] = rec] /\ rec.pc = "exited"
                     /\ rec.result = worker[r][w].result
      BY <1>2, ExitsEffect
    <2>2. worker[r][w].pc = "receiving" /\ UNCHANGED run
      BY <1>2, ExitsEffect
    <2>3. rec.result = ""
      BY <2>1, <2>2 DEF RunsOK, ResultsOK
    <2>4. QED  BY <2>1, <2>2, <2>3, RunsKeep DEF Working
  <1>3. CASE WorkerTakes(r, w) /\ Panic
    BY <1>3, RunsRest DEF Panic, RunsOK, WorkersLive, Served
  <1>4. CASE WorkerTakes(r, w) /\ ~Panic
    <2>1. PICK rec : /\ worker' = [worker EXCEPT ![r][w] = rec] /\ rec.pc = "attempt"
                     /\ rec.index = worker[r][w].index /\ rec.result = worker[r][w].result
      BY <1>4, TakesEffect
    <2>2. worker[r][w].pc = "taken" /\ UNCHANGED run
      BY <1>4, TakesEffect
    <2>3. rec.result = ""
      BY <2>1, <2>2 DEF RunsOK, ResultsOK
    <2>4. QED  BY <2>1, <2>2, <2>3, RunsKeep DEF Holds
  <1>5. CASE WorkingStep(r, w)
    <2>1. PICK rec : Works(r, w, rec)
      BY <1>5, WorkingSteps DEF RunsOK, WorkingStep
    <2>2. Holds(r, w) /\ worker[r][w].pc \notin {"none", "exited"}
      BY <2>1 DEF Works, Holds, Working
    <2>3. QED  BY <2>1, <2>2, RunsKeep DEF Works
  <1>6. CASE Settle(r, w)
    <2>1. PICK rec : worker' = [worker EXCEPT ![r][w] = rec] /\ rec.pc = "receiving" /\ rec.result = ""
      BY <1>6, SettleEffect
    <2>2. worker[r][w].pc = "result" /\ UNCHANGED run
      BY <1>6, SettleEffect
    <2>3. QED  BY <2>1, <2>2, RunsKeep DEF Working
  <1>7. QED  BY <1>1, <1>2, <1>3, <1>4, <1>5, <1>6, WorkerCases

LEMMA ReleaseRuns ==
  ASSUME RunsOK, TypeOK, NEW r \in Runs, RunReleases(r),
         \A w \in Workers : worker[r][w].pc \in {"none", "exited"}
  PROVE  RunsOK'
  <1>1. /\ run' = [run EXCEPT ![r].pc = "ended", ![r].ctxDone = TRUE] /\ UNCHANGED worker
    BY DEF RunReleases
  <1>2. /\ run'[r].pc = "ended" /\ \A q \in Runs \ {r} : run'[q] = run[q]
        /\ run'[r].queue = run[r].queue /\ run'[r].next = run[r].next
    BY <1>1 DEF TypeOK, RunRecords
  <1>3. QED  BY <1>1, <1>2, RunsRest DEF RunsOK, WorkersLive, Served

LEMMA DispatchersKeepRuns ==
  ASSUME RunsOK, TypeOK, NEW r \in Runs, DispatcherStep(r)
  PROVE  RunsOK'
  <1>1. CASE RunBegins(r)
    <2>1. /\ run[r].pc = "launched" /\ run'[r].pc = "starting" /\ \A q \in Runs \ {r} : run'[q] = run[q]
          /\ run'[r].queue = run[r].queue /\ run'[r].next = run[r].next /\ UNCHANGED worker
      BY <1>1 DEF RunBegins, TypeOK, RunRecords
    <2>2. QED  BY <2>1, RunsRest DEF RunsOK, WorkersLive, Served
  <1>2. CASE CloseChannel(r)
    <2>1. /\ run[r].pc = "dispatching" /\ run'[r].pc = "waiting" /\ \A q \in Runs \ {r} : run'[q] = run[q]
          /\ run'[r].queue = run[r].queue /\ run'[r].next = run[r].next /\ UNCHANGED worker
      BY <1>2 DEF CloseChannel, TypeOK, RunRecords
    <2>2. QED  BY <2>1, RunsRest DEF RunsOK, WorkersLive, Served
  <1>3. CASE RunAborts(r)
    <2>1. RunReleases(r) /\ run[r].pc = "starting"
      BY <1>3 DEF RunAborts
    <2>2. \A w \in Workers : worker[r][w].pc \in {"none", "exited"}
      BY <2>1 DEF RunsOK, WorkersLive, Served
    <2>3. QED  BY <2>1, <2>2, ReleaseRuns
  <1>4. CASE RunEnds(r)
    BY <1>4, ReleaseRuns DEF RunEnds
  <1>5. QED
    BY <1>1, <1>2, <1>3, <1>4, WorkersStartRuns, DispatchRuns DEF DispatcherStep

LEMMA StepsKeepRuns ==
  ASSUME RunsOK, TypeOK, WorkersPoint, [Next]_vars
  PROVE  RunsOK'
  <1>1. ASSUME NEW c \in Clients, RequestStep(c) PROVE RunsOK'
    <2>1. /\ UNCHANGED worker
          /\ \A r \in Runs :
              /\ run'[r].queue = run[r].queue /\ run'[r].next = run[r].next
              /\ run'[r].pc = run[r].pc \/ (run[r].pc = "none" /\ run'[r].pc = "launched")
      BY <1>1, RequestEffect
    <2>2. \A r \in Runs, w \in Workers :
            worker[r][w].pc \notin {"none", "exited"} => run'[r].pc \in {"dispatching", "waiting"}
      BY <2>1 DEF RunsOK, WorkersLive, Served
    <2>3. QED  BY <2>1, <2>2, RunsRest
  <1>2. CASE UNCHANGED <<run, worker>>
    BY <1>2, RunsRest DEF RunsOK, WorkersLive, Served
  <1>3. QED
    BY <1>1, <1>2, WorkersKeepRuns, DispatchersKeepRuns DEF Next, GopeedWorks, vars

LEMMA InitRuns == Init => RunsOK
  <1> SUFFICES ASSUME Init PROVE RunsOK
    OBVIOUS
  <1>1. /\ NoRun.pc = "none" /\ NoRun.queue = <<>>
        /\ NoWork.pc = "none" /\ NoWork.result = ""
    BY DEF NoRun, NoWork
  <1>2. \A r \in Runs : run[r] = NoRun /\ run[r].queue = <<>>
    BY <1>1 DEF Init
  <1>3. \A r \in Runs, w \in Workers : worker[r][w].pc = "none" /\ worker[r][w].result = ""
    BY <1>1 DEF Init
  <1>4. ResultsOK /\ WorkersLive
    BY <1>3 DEF ResultsOK, WorkersLive
  <1>5. DOMAIN <<>> = {}
    OBVIOUS
  <1>6. \A r \in Runs, w \in Workers : ~Holds(r, w)
    BY <1>3 DEF Holds, Working
  <1>7. \A r \in Runs : \A k \in DOMAIN run[r].queue : FALSE
    BY <1>2, <1>5
  <1>8. Tickets /\ FreshQueues
    BY <1>2, <1>6, <1>7 DEF Tickets, FreshQueues
  <1>9. QED  BY <1>4, <1>8 DEF RunsOK

LEMMA AlwaysRuns == Spec => []RunsOK
  BY InitRuns, StepsKeepRuns, TypeCorrect, PTL DEF Spec

-----------------------------------------------------------------------------
(* A task that is shown as downloading is in some worker's hands. *)

InHands(rec, b, i) ==
  rec.pc \notin {"none", "receiving", "taken", "exited"} /\ rec.batch = b /\ rec.index = i

\* A step of one worker: it hands nothing over that is still downloading.
LEMMA HandsKeepDownloads ==
  ASSUME TypeOK, DownloadsHeld, NEW r \in Runs, NEW w \in Workers, NEW rec,
         worker' = [worker EXCEPT ![r][w] = rec],
         \A b \in Batches : DOMAIN heap'[b] = DOMAIN heap[b],
         \A b \in Batches : \A i \in DOMAIN heap[b] :
           heap'[b][i].status = "downloading" =>
             /\ heap[b][i].status = "downloading" \/ InHands(rec, b, i)
             /\ InHand(r, w, b, i) => InHands(rec, b, i)
  PROVE  DownloadsHeld'
  <1>1. /\ worker'[r][w] = rec
        /\ \A q \in Runs, v \in Workers : q # r \/ v # w => worker'[q][v] = worker[q][v]
    BY DEF TypeOK
  <1>2. SUFFICES ASSUME NEW b \in Batches, NEW i \in DOMAIN heap[b], heap'[b][i].status = "downloading"
                 PROVE  \E q \in Runs, v \in Workers : InHands(worker'[q][v], b, i)
    BY DEF DownloadsHeld, InHand, InHands
  <1>3. CASE InHands(rec, b, i)
    BY <1>1, <1>3
  <1>4. CASE ~InHands(rec, b, i)
    <2>1. PICK q \in Runs, v \in Workers : InHand(q, v, b, i)
      BY <1>2, <1>4 DEF DownloadsHeld
    <2>2. q # r \/ v # w
      BY <1>2, <1>4, <2>1
    <2>3. InHands(worker'[q][v], b, i)
      BY <1>1, <2>1, <2>2 DEF InHand, InHands
    <2>4. QED  BY <2>3
  <1>5. QED  BY <1>3, <1>4

LEMMA WorkersKeepDownloads ==
  ASSUME DownloadsHeld, RunsOK, TypeOK, WorkersPoint, NEW r \in Runs, NEW w \in Workers,
         WorkerStep(r, w)
  PROVE  DownloadsHeld'
  <1>1. CASE Receive(r, w)
    <2>1. PICK pc \in {"exited", "taken"} : worker' = [worker EXCEPT ![r][w] =
                      [worker[r][w] EXCEPT !.pc = pc, !.index = Head(run[r].queue)]]
      BY <1>1, ReceiveEffect
    <2>2. worker[r][w].pc = "receiving" /\ heap' = heap
      BY <1>1, ReceiveEffect DEF handler
    <2>3. \A b, i : ~InHand(r, w, b, i)
      BY <2>2 DEF InHand
    <2>4. QED  BY <2>1, <2>2, <2>3, HandsKeepDownloads
  <1>2. CASE WorkerExits(r, w)
    <2>1. PICK rec : worker' = [worker EXCEPT ![r][w] = rec]
      BY <1>2, ExitsEffect
    <2>2. worker[r][w].pc = "receiving" /\ heap' = heap
      BY <1>2, ExitsEffect DEF handler
    <2>3. QED  BY <2>1, <2>2, HandsKeepDownloads DEF InHand
  <1>3. CASE WorkerTakes(r, w) /\ Panic
    BY <1>3 DEF Panic, handler, DownloadsHeld, InHand
  <1>4. CASE WorkerTakes(r, w) /\ ~Panic
    <2>1. PICK rec : /\ worker' = [worker EXCEPT ![r][w] = rec] /\ rec.pc = "attempt"
                     /\ rec.batch = tasks /\ rec.index = worker[r][w].index
      BY <1>4, TakesEffect
    <2>2. /\ worker[r][w].pc = "taken"
          /\ \A b \in Batches :
               /\ DOMAIN heap'[b] = DOMAIN heap[b]
               /\ \A i \in DOMAIN heap[b] :
                    b # tasks \/ i # worker[r][w].index => heap'[b][i] = heap[b][i]
      BY <1>4, TakesEffect
    <2>3. \A b \in Batches : \A i \in DOMAIN heap[b] :
            heap'[b][i].status = "downloading" => heap[b][i].status = "downloading" \/ InHands(rec, b, i)
      BY <2>1, <2>2 DEF InHands
    <2>4. \A b, i : ~InHand(r, w, b, i)
      BY <2>2 DEF InHand
    <2>5. QED  BY <2>1, <2>2, <2>3, <2>4, HandsKeepDownloads
  <1>5. CASE WorkingStep(r, w)
    <2>1. PICK rec : Works(r, w, rec)
      BY <1>5, WorkingSteps DEF RunsOK, WorkingStep
    <2>2. \A b, i : InHand(r, w, b, i) => InHands(rec, b, i)
      BY <2>1 DEF Works, InHand, InHands, Working
    <2>3. \A b \in Batches :
            /\ DOMAIN heap'[b] = DOMAIN heap[b]
            /\ \A i \in DOMAIN heap[b] : heap'[b][i].status = heap[b][i].status
      BY <2>1 DEF Works, Kept
    <2>4. worker' = [worker EXCEPT ![r][w] = rec]
      BY <2>1 DEF Works
    <2>5. QED  BY <2>2, <2>3, <2>4, HandsKeepDownloads
  <1>6. CASE Settle(r, w)
    <2>1. PICK rec : /\ worker' = [worker EXCEPT ![r][w] = rec] /\ rec.pc = "receiving"
                     /\ rec.result = ""
      BY <1>6, SettleEffect
    <2> DEFINE b0 == worker[r][w].batch
               i0 == worker[r][w].index
    <2>2. heap'[b0][i0].status # "downloading"
      BY <1>6, SettleEffect DEF SettledAs, TaskStatuses
    <2>3. \A b \in Batches :
            /\ DOMAIN heap'[b] = DOMAIN heap[b]
            /\ \A i \in DOMAIN heap[b] : b # b0 \/ i # i0 => heap'[b][i] = heap[b][i]
      BY <1>6, SettleEffect
    <2>4. \A b, i : InHand(r, w, b, i) => b = b0 /\ i = i0
      BY DEF InHand
    <2> HIDE DEF b0, i0
    <2>5. \A b \in Batches : \A i \in DOMAIN heap[b] :
            heap'[b][i].status = "downloading" =>
              heap[b][i].status = "downloading" /\ ~InHand(r, w, b, i)
      BY <2>2, <2>3, <2>4
    <2>6. QED  BY <2>1, <2>3, <2>5, HandsKeepDownloads
  <1>7. QED  BY <1>1, <1>2, <1>3, <1>4, <1>5, <1>6, WorkerCases

\* Dispatchers touch no task, and the workers they start have empty hands.
LEMMA DispatchersKeepDownloads ==
  ASSUME DownloadsHeld, RunsOK, TypeOK, NEW r \in Runs, DispatcherStep(r)
  PROVE  DownloadsHeld'
  <1>1. heap' = heap
    BY DEF DispatcherStep, RunBegins, RunAborts, RunReleases, WorkersStart, Dispatch, Panic,
           CloseChannel, RunEnds, handler
  <1>2. \A q \in Runs, v \in Workers : \A b, i : InHand(q, v, b, i) => InHands(worker'[q][v], b, i)
    <2>1. CASE UNCHANGED worker
      BY <2>1 DEF InHand, InHands
    <2>2. CASE WorkersStart(r)
      <3>1. \A q \in Runs \ {r} : worker'[q] = worker[q]
        BY <2>2 DEF WorkersStart, TypeOK
      <3>2. run[r].pc = "starting"
        BY <2>2 DEF WorkersStart
      <3>3. \A v \in Workers : worker[r][v].pc \in {"none", "exited"}
        BY <3>2 DEF RunsOK, WorkersLive, Served
      <3>4. QED  BY <3>1, <3>3 DEF InHand, InHands
    <2>3. QED
      BY <2>1, <2>2 DEF DispatcherStep, RunBegins, RunAborts, RunReleases, Dispatch, Panic,
                        CloseChannel, RunEnds
  <1>3. QED  BY <1>1, <1>2 DEF DownloadsHeld, InHand, InHands

LEMMA StepsKeepDownloads ==
  ASSUME DownloadsHeld, RunsOK, TypeOK, WorkersPoint, [Next]_vars
  PROVE  DownloadsHeld'
  <1>1. ASSUME NEW c \in Clients, RequestStep(c) PROVE DownloadsHeld'
    <2>1. UNCHANGED worker /\ TasksAfterRequest
      BY <1>1, RequestEffect
    <2>2. ASSUME NEW b \in Batches, NEW i \in DOMAIN heap'[b], heap'[b][i].status = "downloading"
          PROVE  i \in DOMAIN heap[b] /\ heap[b][i].status = "downloading"
      <3>1. DOMAIN heap[b] # {}
        BY <2>1, <2>2 DEF TasksAfterRequest
      <3>2. i \in DOMAIN heap[b]
        BY <2>1, <2>2, <3>1 DEF TasksAfterRequest
      <3>3. \/ heap'[b][i].status = heap[b][i].status
            \/ heap'[b][i].status = "pending"
        BY <2>1, <3>2 DEF TasksAfterRequest
      <3>4. QED  BY <2>2, <3>2, <3>3
    <2>3. QED  BY <2>1, <2>2 DEF DownloadsHeld, InHand
  <1>2. CASE UNCHANGED <<heap, worker>>
    BY <1>2 DEF DownloadsHeld, InHand
  <1>3. QED
    BY <1>1, <1>2, WorkersKeepDownloads, DispatchersKeepDownloads
    DEF Next, GopeedWorks, handler, vars

LEMMA InitDownloads == Init => DownloadsHeld
  <1> SUFFICES ASSUME Init, NEW b \in Batches, NEW i \in DOMAIN heap[b] PROVE FALSE
    BY DEF DownloadsHeld
  <1>1. heap[b] = <<>>
    BY DEF Init
  <1>2. QED  BY <1>1

LEMMA AlwaysHeld == Spec => []DownloadsHeld
  BY InitDownloads, StepsKeepDownloads, AlwaysRuns, TypeCorrect, PTL DEF Spec

\* When no run is left, no task of the list is shown as downloading: whatever
\* the requests overlap, clear and cancel, every worker that set a task to
\* downloading has settled it before its run ended.
THEOREM NothingIsStuck == Spec => []NothingStuck
  <1>1. TypeOK /\ RunsOK /\ DownloadsHeld => NothingStuck
    <2>1. SUFFICES ASSUME TypeOK, RunsOK, DownloadsHeld, \A r \in Runs : ~Live(r),
                          NEW i \in DOMAIN CurrentTasks, CurrentTasks[i].status = "downloading"
                   PROVE  FALSE
      BY DEF NothingStuck
    <2>2. tasks # 0
      BY DEF CurrentTasks
    <2>3. tasks \in Batches
      BY <2>1, <2>2, BoundsAssumption DEF TypeOK, HandlerTypeOK, Batches
    <2>4. PICK r \in Runs, w \in Workers : InHand(r, w, tasks, i)
      BY <2>1, <2>2, <2>3 DEF CurrentTasks, DownloadsHeld
    <2>5. Served(r)
      BY <2>1, <2>4 DEF InHand, RunsOK, WorkersLive
    <2>6. QED  BY <2>1, <2>5 DEF Served, Live
  <1>2. QED  BY <1>1, AlwaysRuns, AlwaysHeld, TypeCorrect, PTL

-----------------------------------------------------------------------------
(* A video is saved once. *)

Due(r, i) == Queued(r, i) \/ \E w \in Workers : worker[r][w].pc = "taken" /\ worker[r][w].index = i

\* What a run has given out and no worker has taken up is still pending.
DuePending ==
  tasks # 0 =>
    \A r \in Runs, i \in Indices :
      Served(r) /\ Due(r, i) => i \in DOMAIN heap[tasks] /\ heap[tasks][i].status = "pending"

\* The task in a worker's hands is not settled; it is saved only when the
\* worker is about to say so.
HandsOK ==
  \A r \in Runs, w \in Workers, b \in Batches, i \in Indices :
    InHands(worker[r][w], b, i) =>
      /\ heap[b][i].status \in {"pending", "downloading"}
      /\ saved[b][i] # 0 => worker[r][w].result = "ok"

SavedOK ==
  \A b \in Batches, i \in Indices :
    saved[b][i] # 0 =>
      /\ saved[b][i] = 1
      /\ i \in DOMAIN heap[b]
      /\ \/ heap[b][i].status = "done"
         \/ \E r \in Runs, w \in Workers : InHands(worker[r][w], b, i) /\ worker[r][w].result = "ok"

\* No two workers, of one run or of two, hold the same index.
LEMMA HandOnce ==
  ASSUME RunsOK, HandlerMatchesRuns,
         NEW r \in Runs, NEW w \in Workers, NEW q \in Runs, NEW v \in Workers,
         Holds(r, w), Holds(q, v), worker[r][w].index = worker[q][v].index
  PROVE  r = q /\ w = v
  <1>1. worker[r][w].pc \notin {"none", "exited"} /\ worker[q][v].pc \notin {"none", "exited"}
    BY DEF Holds, Working
  <1>2. Served(r) /\ Served(q)
    BY <1>1 DEF RunsOK, WorkersLive
  <1>3. r = q
    BY <1>2 DEF Served, HandlerMatchesRuns
  <1>4. QED  BY <1>3 DEF RunsOK, Tickets

LEMMA InHandsHolds ==
  ASSUME TypeOK, WorkersPoint, NEW r \in Runs, NEW w \in Workers,
         NEW b \in Batches, NEW i \in Indices, InHands(worker[r][w], b, i)
  PROVE  Holds(r, w) /\ worker[r][w].index = i /\ worker[r][w].batch = b /\ i \in DOMAIN heap[b]
  <1>1. worker[r][w].pc \in Working
    <2>1. worker[r][w] \in WorkerRecords
      BY DEF TypeOK
    <2>2. worker[r][w].pc \in WorkerStates
      BY <2>1 DEF WorkerRecords
    <2>3. QED  BY <2>2 DEF InHands, WorkerStates, Working
  <1>2. QED  BY <1>1 DEF Holds, InHands, WorkersPoint, Points

\* A step of one worker that touches at most the task b0, i0 it holds
LEMMA HandsKeepSaved ==
  ASSUME TypeOK, WorkersPoint, RunsOK, HandlerMatchesRuns, HandsOK, SavedOK,
         NEW r \in Runs, NEW w \in Workers, NEW rec, worker' = [worker EXCEPT ![r][w] = rec],
         NEW b0 \in Batches, NEW i0 \in DOMAIN heap[b0], Holds(r, w), worker[r][w].index = i0,
         \A b, i : InHands(worker[r][w], b, i) => b = b0 /\ i = i0,
         \A b, i : InHands(rec, b, i) => b = b0 /\ i = i0,
         \A b \in Batches : DOMAIN heap'[b] = DOMAIN heap[b],
         \A b \in Batches : \A i \in DOMAIN heap[b] :
           b # b0 \/ i # i0 => heap'[b][i].status = heap[b][i].status,
         \A b \in Batches, i \in Indices : b # b0 \/ i # i0 => saved'[b][i] = saved[b][i],
         InHands(rec, b0, i0) => /\ heap'[b0][i0].status \in {"pending", "downloading"}
                                 /\ saved'[b0][i0] = 0 \/ rec.result = "ok",
         saved'[b0][i0] # 0 =>
           /\ saved'[b0][i0] = 1
           /\ heap'[b0][i0].status = "done" \/ (InHands(rec, b0, i0) /\ rec.result = "ok")
  PROVE  HandsOK' /\ SavedOK'
  <1>1. /\ worker'[r][w] = rec
        /\ \A q \in Runs, v \in Workers : q # r \/ v # w => worker'[q][v] = worker[q][v]
    BY DEF TypeOK
  <1>2. HandsOK'
    <2>1. SUFFICES ASSUME NEW q \in Runs, NEW v \in Workers, NEW b \in Batches, NEW i \in Indices,
                          InHands(worker'[q][v], b, i)
                   PROVE  /\ heap'[b][i].status \in {"pending", "downloading"}
                          /\ saved'[b][i] = 0 \/ worker'[q][v].result = "ok"
      BY DEF HandsOK
    <2>2. CASE q = r /\ v = w
      BY <1>1, <2>1, <2>2
    <2>3. CASE q # r \/ v # w
      <3>1. worker'[q][v] = worker[q][v]
        BY <1>1, <2>3
      <3>2. InHands(worker[q][v], b, i)
        BY <2>1, <3>1
      <3>3. Holds(q, v) /\ worker[q][v].index = i /\ i \in DOMAIN heap[b]
        BY <3>2, InHandsHolds
      <3>4. i # i0
        BY <2>3, <3>3, HandOnce
      <3>5. heap'[b][i].status = heap[b][i].status /\ saved'[b][i] = saved[b][i]
        BY <3>3, <3>4
      <3>6. heap[b][i].status \in {"pending", "downloading"} /\ (saved[b][i] = 0 \/ worker[q][v].result = "ok")
        BY <3>2 DEF HandsOK
      <3>7. QED  BY <3>1, <3>5, <3>6
    <2>4. QED  BY <2>2, <2>3
  <1>3. SavedOK'
    <2>1. SUFFICES ASSUME NEW b \in Batches, NEW i \in Indices, saved'[b][i] # 0
                   PROVE  /\ saved'[b][i] = 1
                          /\ i \in DOMAIN heap'[b]
                          /\ \/ heap'[b][i].status = "done"
                             \/ \E q \in Runs, v \in Workers :
                                  InHands(worker'[q][v], b, i) /\ worker'[q][v].result = "ok"
      BY DEF SavedOK
    <2>2. CASE b = b0 /\ i = i0
      BY <1>1, <2>1, <2>2
    <2>3. CASE b # b0 \/ i # i0
      <3>1. saved'[b][i] = saved[b][i]
        BY <2>3
      <3>2. /\ saved[b][i] = 1 /\ i \in DOMAIN heap[b]
            /\ \/ heap[b][i].status = "done"
               \/ \E q \in Runs, v \in Workers :
                    InHands(worker[q][v], b, i) /\ worker[q][v].result = "ok"
        BY <2>1, <3>1 DEF SavedOK
      <3>3. i \in DOMAIN heap'[b] /\ heap'[b][i].status = heap[b][i].status
        BY <2>3, <3>2
      <3>4. ASSUME NEW q \in Runs, NEW v \in Workers, InHands(worker[q][v], b, i)
            PROVE  worker'[q][v] = worker[q][v]
        <4>1. q # r \/ v # w
          BY <2>3, <3>4
        <4>2. QED  BY <1>1, <4>1
      <3>5. QED  BY <3>1, <3>2, <3>3, <3>4
    <2>4. QED  BY <2>2, <2>3
  <1>4. QED  BY <1>2, <1>3

\* A step that puts nothing into a worker's hands and settles nothing
LEMMA HandsRest ==
  ASSUME TypeOK, WorkersPoint, HandsOK, SavedOK, UNCHANGED saved,
         \A q \in Runs, v \in Workers :
           \/ worker'[q][v] = worker[q][v]
           \/ \A b, i : ~InHands(worker[q][v], b, i) /\ ~InHands(worker'[q][v], b, i),
         \A b \in Batches : \A i \in DOMAIN heap[b] :
           /\ i \in DOMAIN heap'[b]
           /\ \/ heap'[b][i].status = heap[b][i].status
              \/ heap[b][i].status = "downloading" /\ heap'[b][i].status = "pending"
  PROVE  HandsOK' /\ SavedOK'
  <1>1. HandsOK'
    <2>1. SUFFICES ASSUME NEW q \in Runs, NEW v \in Workers, NEW b \in Batches, NEW i \in Indices,
                          InHands(worker'[q][v], b, i)
                   PROVE  /\ heap'[b][i].status \in {"pending", "downloading"}
                          /\ saved[b][i] = 0 \/ worker'[q][v].result = "ok"
      BY DEF HandsOK
    <2>2. worker'[q][v] = worker[q][v] /\ InHands(worker[q][v], b, i)
      BY <2>1
    <2>3. i \in DOMAIN heap[b]
      BY <2>2, InHandsHolds
    <2>4. heap[b][i].status \in {"pending", "downloading"} /\ (saved[b][i] = 0 \/ worker[q][v].result = "ok")
      BY <2>2 DEF HandsOK
    <2>5. QED  BY <2>2, <2>3, <2>4
  <1>2. SavedOK'
    <2>1. SUFFICES ASSUME NEW b \in Batches, NEW i \in Indices, saved[b][i] # 0
                   PROVE  /\ saved[b][i] = 1
                          /\ i \in DOMAIN heap'[b]
                          /\ \/ heap'[b][i].status = "done"
                             \/ \E q \in Runs, v \in Workers :
                                  InHands(worker'[q][v], b, i) /\ worker'[q][v].result = "ok"
      BY DEF SavedOK
    <2>2. /\ saved[b][i] = 1 /\ i \in DOMAIN heap[b]
          /\ \/ heap[b][i].status = "done"
             \/ \E q \in Runs, v \in Workers :
                  InHands(worker[q][v], b, i) /\ worker[q][v].result = "ok"
      BY <2>1 DEF SavedOK
    <2>3. i \in DOMAIN heap'[b] /\ (heap[b][i].status = "done" => heap'[b][i].status = "done")
      BY <2>2
    <2>4. \A q \in Runs, v \in Workers : InHands(worker[q][v], b, i) => worker'[q][v] = worker[q][v]
      OBVIOUS
    <2>5. QED  BY <2>2, <2>3, <2>4
  <1>3. QED  BY <1>1, <1>2

\* Only SaveVideo saves, and its worker reports it.
LEMMA WorkSaves ==
  ASSUME TypeOK, WorkersPoint, NEW r \in Runs, NEW w \in Workers, WorkingStep(r, w)
  PROVE  \/ UNCHANGED saved
         \/ /\ worker'[r][w].result = "ok"
            /\ saved'[worker[r][w].batch][worker[r][w].index] =
                 saved[worker[r][w].batch][worker[r][w].index] + 1
            /\ \A b \in Batches, i \in Indices :
                 b # worker[r][w].batch \/ i # worker[r][w].index => saved'[b][i] = saved[b][i]
  <1>1. CASE SaveVideo(r, w)
    <2>1. saved' = [saved EXCEPT ![worker[r][w].batch][worker[r][w].index] = @ + 1]
          /\ Report(r, w, "ok") /\ worker[r][w].pc = "finishing"
      BY <1>1 DEF SaveVideo
    <2>2. worker' = [worker EXCEPT ![r][w] = [worker[r][w] EXCEPT !.pc = "result", !.result = "ok"]]
      BY <2>1, Reports
    <2>3. worker'[r][w].result = "ok"
      <3>1. PICK rec : rec = [worker[r][w] EXCEPT !.pc = "result", !.result = "ok"]
        OBVIOUS
      <3>2. worker[r][w] \in WorkerRecords /\ worker \in [Runs -> [Workers -> WorkerRecords]]
        BY DEF TypeOK
      <3>3. rec.result = "ok"
        BY <3>1, <3>2 DEF WorkerRecords
      <3>4. worker'[r][w] = rec
        BY <2>2, <3>1, <3>2
      <3>5. QED  BY <3>3, <3>4
    <2>4. worker[r][w].batch \in Batches /\ worker[r][w].index \in DOMAIN heap[worker[r][w].batch]
      BY <2>1 DEF WorkersPoint, Points, Working
    <2>5. worker[r][w].index \in Indices
      <3>1. heap[worker[r][w].batch] \in Seq(Tasks) /\ Len(heap[worker[r][w].batch]) <= MaxTasks
        BY <2>4 DEF TypeOK, HandlerTypeOK
      <3>2. worker[r][w].index \in 1 .. Len(heap[worker[r][w].batch]) /\ Len(heap[worker[r][w].batch]) \in Nat
        BY <2>4, <3>1, LenProperties
      <3>3. QED  BY <3>1, <3>2, BoundsAssumption DEF Indices
    <2>6. saved \in [Batches -> [Indices -> Nat]]
      BY DEF TypeOK
    <2>7. QED  BY <2>1, <2>3, <2>4, <2>5, <2>6
  <1>2. QED
    BY <1>1
    DEF WorkingStep, NoDownload, AttemptStarts, CreateGopeedTask, RecordGopeedTask, ConnectFails,
        ContinueGopeedTask, ForgetGopeedTask, WaitCancelled, WaitPaused, WaitDone, DownloadFails

LEMMA PointedIndex ==
  ASSUME TypeOK, NEW b \in Batches, NEW i \in DOMAIN heap[b]
  PROVE  i \in Indices
  <1>1. heap[b] \in Seq(Tasks) /\ Len(heap[b]) <= MaxTasks
    BY DEF TypeOK, HandlerTypeOK
  <1>2. i \in 1 .. Len(heap[b]) /\ Len(heap[b]) \in Nat
    BY <1>1, LenProperties
  <1>3. QED  BY <1>1, <1>2, BoundsAssumption DEF Indices

\* A task that is taken up has been neither saved nor given to another worker.
LEMMA TakesKeepSaved ==
  ASSUME TypeOK, WorkersPoint, RunsOK, HandlerMatchesRuns, DuePending, HandsOK, SavedOK,
         NEW r \in Runs, NEW w \in Workers, WorkerTakes(r, w), ~Panic
  PROVE  HandsOK' /\ SavedOK'
  <1> DEFINE i0 == worker[r][w].index
  <1>1. /\ tasks \in Batches /\ i0 \in DOMAIN heap[tasks] /\ worker[r][w].pc = "taken"
        /\ heap'[tasks][i0].status = "downloading"
        /\ \A b \in Batches :
             /\ DOMAIN heap'[b] = DOMAIN heap[b]
             /\ \A i \in DOMAIN heap[b] : b # tasks \/ i # i0 => heap'[b][i] = heap[b][i]
        /\ UNCHANGED saved
    BY TakesEffect
  <1>2. PICK rec : /\ worker' = [worker EXCEPT ![r][w] = rec] /\ rec.pc = "attempt"
                   /\ rec.batch = tasks /\ rec.index = i0
                   /\ rec.result = worker[r][w].result
    BY TakesEffect
  <1>3. Holds(r, w) /\ Served(r) /\ i0 \in Indices
    BY <1>1, PointedIndex DEF Holds, RunsOK, WorkersLive
  <1>4. Due(r, i0)
    BY <1>1 DEF Due
  <1>5. tasks # 0
    BY <1>1, BoundsAssumption DEF Batches
  <1>6. heap[tasks][i0].status = "pending"
    BY <1>3, <1>4, <1>5 DEF DuePending
  <1>7. saved[tasks][i0] = 0
    <2>1. SUFFICES ASSUME saved[tasks][i0] # 0 PROVE FALSE
      OBVIOUS
    <2>2. PICK q \in Runs, v \in Workers : InHands(worker[q][v], tasks, i0)
      BY <1>1, <1>3, <1>6, <2>1 DEF SavedOK
    <2> HIDE DEF i0
    <2>3. Holds(q, v) /\ worker[q][v].index = i0
      BY <1>1, <1>3, <2>2, InHandsHolds
    <2>4. q = r /\ v = w
      BY <1>3, <2>3, HandOnce DEF i0
    <2>5. QED  BY <1>1, <2>2, <2>4 DEF InHands
  <1>8. \A b, i : ~InHands(worker[r][w], b, i)
    BY <1>1 DEF InHands
  <1>9. \A b, i : InHands(rec, b, i) => b = tasks /\ i = i0
    BY <1>2 DEF InHands
  <1>10. worker[r][w].index = i0
    OBVIOUS
  <1> HIDE DEF i0
  <1>11. /\ \A b \in Batches : DOMAIN heap'[b] = DOMAIN heap[b]
         /\ \A b \in Batches : \A i \in DOMAIN heap[b] :
              b # tasks \/ i # i0 => heap'[b][i].status = heap[b][i].status
         /\ \A b \in Batches, i \in Indices : b # tasks \/ i # i0 => saved'[b][i] = saved[b][i]
         /\ saved'[tasks][i0] = 0 /\ heap'[tasks][i0].status \in {"pending", "downloading"}
    BY <1>1, <1>7
  <1>12. /\ \A b, i : InHands(worker[r][w], b, i) => b = tasks /\ i = i0
         /\ worker' = [worker EXCEPT ![r][w] = rec]
         /\ tasks \in Batches /\ i0 \in DOMAIN heap[tasks] /\ Holds(r, w)
    BY <1>1, <1>2, <1>3, <1>8
  <1>13. QED  BY <1>9, <1>10, <1>11, <1>12, HandsKeepSaved

LEMMA WorkKeepsSaved ==
  ASSUME TypeOK, WorkersPoint, RunsOK, HandlerMatchesRuns, HandsOK, SavedOK,
         NEW r \in Runs, NEW w \in Workers, WorkingStep(r, w)
  PROVE  HandsOK' /\ SavedOK'
  <1> DEFINE b0 == worker[r][w].batch
             i0 == worker[r][w].index
  <1>1. PICK rec : Works(r, w, rec)
    BY WorkingSteps DEF RunsOK, WorkingStep
  <1>2. /\ worker[r][w].pc \in Working \ {"result"} /\ rec.pc \in Working
        /\ rec.batch = b0 /\ rec.index = i0
        /\ worker' = [worker EXCEPT ![r][w] = rec]
        /\ Kept
    BY <1>1 DEF Works
  <1>3. Holds(r, w) /\ b0 \in Batches /\ i0 \in DOMAIN heap[b0] /\ InHands(worker[r][w], b0, i0)
    BY <1>2 DEF Holds, WorkersPoint, Points, InHands, Working
  <1>4. i0 \in Indices
    BY <1>3, PointedIndex
  <1>5. heap[b0][i0].status \in {"pending", "downloading"} /\ saved[b0][i0] = 0
    <2>1. worker[r][w].result = ""
      BY <1>2 DEF RunsOK, ResultsOK
    <2>2. QED  BY <1>3, <1>4, <2>1 DEF HandsOK
  <1>6. worker'[r][w] = rec
    BY <1>2 DEF TypeOK
  <1>7. /\ saved'[b0][i0] = 0 \/ (saved'[b0][i0] = 1 /\ rec.result = "ok")
        /\ \A b \in Batches, i \in Indices : b # b0 \/ i # i0 => saved'[b][i] = saved[b][i]
    <2>1. CASE UNCHANGED saved
      BY <1>5, <2>1
    <2>2. CASE ~UNCHANGED saved
      BY <1>5, <1>6, <2>2, WorkSaves
    <2>3. QED  BY <2>1, <2>2
  <1>8. /\ \A b, i : InHands(worker[r][w], b, i) => b = b0 /\ i = i0
        /\ \A b, i : InHands(rec, b, i) => b = b0 /\ i = i0
        /\ InHands(rec, b0, i0)
    BY <1>2 DEF InHands, Working
  <1>9. \A b \in Batches :
          /\ DOMAIN heap'[b] = DOMAIN heap[b]
          /\ \A i \in DOMAIN heap[b] : heap'[b][i].status = heap[b][i].status
    BY <1>2 DEF Kept
  <1>10. worker[r][w].index = i0
    OBVIOUS
  <1> HIDE DEF b0, i0
  <1>11. heap'[b0][i0].status \in {"pending", "downloading"}
    BY <1>3, <1>5, <1>9
  <1>12. /\ \A b \in Batches : DOMAIN heap'[b] = DOMAIN heap[b]
         /\ \A b \in Batches : \A i \in DOMAIN heap[b] :
              b # b0 \/ i # i0 => heap'[b][i].status = heap[b][i].status
         /\ saved'[b0][i0] = 0 \/ rec.result = "ok"
         /\ saved'[b0][i0] # 0 => saved'[b0][i0] = 1 /\ InHands(rec, b0, i0) /\ rec.result = "ok"
    BY <1>7, <1>8, <1>9
  <1>13. /\ worker' = [worker EXCEPT ![r][w] = rec]
         /\ b0 \in Batches /\ i0 \in DOMAIN heap[b0] /\ Holds(r, w)
         /\ \A b \in Batches, i \in Indices : b # b0 \/ i # i0 => saved'[b][i] = saved[b][i]
    BY <1>2, <1>3, <1>7
  <1>14. QED  BY <1>8, <1>10, <1>11, <1>12, <1>13, HandsKeepSaved

LEMMA SettleKeepsSaved ==
  ASSUME TypeOK, WorkersPoint, RunsOK, HandlerMatchesRuns, HandsOK, SavedOK,
         NEW r \in Runs, NEW w \in Workers, Settle(r, w)
  PROVE  HandsOK' /\ SavedOK'
  <1> DEFINE b0 == worker[r][w].batch
             i0 == worker[r][w].index
  <1>1. PICK rec : /\ worker' = [worker EXCEPT ![r][w] = rec] /\ rec.pc = "receiving"
                   /\ rec.result = ""
    BY SettleEffect
  <1>2. /\ worker[r][w].pc = "result" /\ b0 \in Batches /\ i0 \in DOMAIN heap[b0]
        /\ heap'[b0][i0].status = SettledAs(TaskOf(r, w).status, worker[r][w].result)
        /\ \A b \in Batches :
             /\ DOMAIN heap'[b] = DOMAIN heap[b]
             /\ \A i \in DOMAIN heap[b] : b # b0 \/ i # i0 => heap'[b][i] = heap[b][i]
        /\ UNCHANGED saved
    BY SettleEffect
  <1>3. Holds(r, w) /\ InHands(worker[r][w], b0, i0) /\ i0 \in Indices
    BY <1>2, PointedIndex DEF Holds, InHands, Working
  <1>4. saved'[b0][i0] # 0 => saved'[b0][i0] = 1 /\ heap'[b0][i0].status = "done"
    <2>1. SUFFICES ASSUME saved[b0][i0] # 0
                   PROVE  saved[b0][i0] = 1 /\ heap'[b0][i0].status = "done"
      BY <1>2
    <2>2. saved[b0][i0] = 1 /\ worker[r][w].result = "ok"
      BY <1>2, <1>3, <2>1 DEF SavedOK, HandsOK
    <2>3. QED  BY <1>2, <2>2 DEF SettledAs
  <1>5. /\ \A b, i : InHands(worker[r][w], b, i) => b = b0 /\ i = i0
        /\ \A b, i : ~InHands(rec, b, i)
    BY <1>1 DEF InHands
  <1>6. worker[r][w].index = i0
    OBVIOUS
  <1> HIDE DEF b0, i0
  <1>7. /\ \A b \in Batches : DOMAIN heap'[b] = DOMAIN heap[b]
        /\ \A b \in Batches : \A i \in DOMAIN heap[b] :
             b # b0 \/ i # i0 => heap'[b][i].status = heap[b][i].status
        /\ \A b \in Batches, i \in Indices : b # b0 \/ i # i0 => saved'[b][i] = saved[b][i]
        /\ b0 \in Batches /\ i0 \in DOMAIN heap[b0]
    BY <1>2
  <1>8. worker' = [worker EXCEPT ![r][w] = rec] /\ Holds(r, w)
    BY <1>1, <1>3
  <1>9. QED  BY <1>4, <1>5, <1>6, <1>7, <1>8, HandsKeepSaved

\* A step that keeps the list or drops it, and of which what is given out
\* afterwards was given out before and stays pending, or is pending now
LEMMA DueKept ==
  ASSUME DuePending, tasks' = tasks \/ tasks' = 0,
         \A q \in Runs, i \in Indices :
           tasks # 0 /\ Served(q)' /\ Due(q, i)' =>
             \/ /\ Served(q) /\ Due(q, i)
                /\ i \in DOMAIN heap[tasks] /\ heap[tasks][i].status = "pending" =>
                     i \in DOMAIN heap'[tasks] /\ heap'[tasks][i].status = "pending"
             \/ i \in DOMAIN heap'[tasks] /\ heap'[tasks][i].status = "pending"
  PROVE  DuePending'
  <1>1. CASE tasks' = 0
    BY <1>1 DEF DuePending
  <1>2. CASE tasks' = tasks
    <2>1. SUFFICES ASSUME tasks # 0, NEW q \in Runs, NEW i \in Indices, Served(q)', Due(q, i)'
                   PROVE  i \in DOMAIN heap'[tasks] /\ heap'[tasks][i].status = "pending"
      BY <1>2 DEF DuePending
    <2>2. CASE Served(q) /\ Due(q, i)
      <3>1. i \in DOMAIN heap[tasks] /\ heap[tasks][i].status = "pending"
        BY <2>1, <2>2 DEF DuePending
      <3>2. QED  BY <2>1, <3>1
    <2>3. QED  BY <2>1, <2>2
  <1>3. QED  BY <1>1, <1>2

\* What a worker's step leaves given out was given out before, and not to it.
LEMMA DueOfWorker ==
  ASSUME TypeOK, UNCHANGED run, NEW r \in Runs, NEW w \in Workers, NEW rec,
         worker' = [worker EXCEPT ![r][w] = rec], rec.pc # "taken",
         NEW q \in Runs, NEW i \in Indices, Served(q)', Due(q, i)'
  PROVE  /\ Served(q)
         /\ \/ Queued(q, i)
            \/ \E v \in Workers : /\ q # r \/ v # w
                                  /\ worker[q][v].pc = "taken" /\ worker[q][v].index = i
  <1>1. /\ worker'[r][w] = rec
        /\ \A p \in Runs, v \in Workers : p # r \/ v # w => worker'[p][v] = worker[p][v]
    BY DEF TypeOK
  <1>2. Served(q)
    BY DEF Served
  <1>3. CASE \E k \in DOMAIN run'[q].queue : run'[q].queue[k] = i
    BY <1>2, <1>3 DEF Queued
  <1>4. CASE \E v \in Workers : worker'[q][v].pc = "taken" /\ worker'[q][v].index = i
    BY <1>1, <1>2, <1>4
  <1>5. QED  BY <1>3, <1>4 DEF Due, Queued

\* The one run that is served holds no index it still has to give out.
LEMMA HeldNotDue ==
  ASSUME RunsOK, HandlerMatchesRuns, NEW r \in Runs, NEW w \in Workers, Holds(r, w),
         NEW q \in Runs, Served(q), NEW i \in Indices,
         \/ Queued(q, i)
         \/ \E v \in Workers : /\ q # r \/ v # w
                               /\ worker[q][v].pc = "taken" /\ worker[q][v].index = i
  PROVE  i # worker[r][w].index /\ Due(q, i)
  <1>1. worker[r][w].pc \notin {"none", "exited"}
    BY DEF Holds, Working
  <1>2. q = r
    BY <1>1 DEF RunsOK, WorkersLive, Served, HandlerMatchesRuns
  <1>3. CASE Queued(q, i)
    BY <1>2, <1>3 DEF RunsOK, Tickets, Due
  <1>4. ASSUME NEW v \in Workers, q # r \/ v # w, worker[q][v].pc = "taken", worker[q][v].index = i
        PROVE  i # worker[r][w].index /\ Due(q, i)
    <2>1. Holds(q, v)
      BY <1>4 DEF Holds
    <2>2. QED  BY <1>4, <2>1, HandOnce DEF Due
  <1>5. QED  BY <1>3, <1>4

\* A step of a worker with a task in its hands leaves the others' tasks alone.
LEMMA HandsKeepDue ==
  ASSUME TypeOK, RunsOK, HandlerMatchesRuns, DuePending, UNCHANGED <<run, tasks>>,
         NEW r \in Runs, NEW w \in Workers, NEW rec, worker' = [worker EXCEPT ![r][w] = rec],
         rec.pc # "taken", Holds(r, w),
         \A b \in Batches : DOMAIN heap'[b] = DOMAIN heap[b],
         \A b \in Batches : \A i \in DOMAIN heap[b] :
           i # worker[r][w].index => heap'[b][i].status = heap[b][i].status
  PROVE  DuePending'
  <1>1. SUFFICES ASSUME tasks # 0, NEW q \in Runs, NEW i \in Indices, Served(q)', Due(q, i)'
                 PROVE  i \in DOMAIN heap'[tasks] /\ heap'[tasks][i].status = "pending"
    BY DueKept
  <1>2. /\ Served(q)
        /\ \/ Queued(q, i)
           \/ \E v \in Workers : /\ q # r \/ v # w
                                 /\ worker[q][v].pc = "taken" /\ worker[q][v].index = i
    <2>1. CASE \E k \in DOMAIN run'[q].queue : run'[q].queue[k] = i
      BY <1>1, <2>1, DueOfWorker DEF Due, Queued
    <2>2. CASE \E v \in Workers : worker'[q][v].pc = "taken" /\ worker'[q][v].index = i
      <3>1. \A p \in Runs, v \in Workers : worker'[p][v] = IF p = r /\ v = w THEN rec ELSE worker[p][v]
        BY DEF TypeOK
      <3>2. Served(q)
        BY <1>1 DEF Served
      <3>3. QED  BY <2>2, <3>1, <3>2
    <2>3. QED  BY <1>1, <2>1, <2>2 DEF Due, Queued
  <1>3. i # worker[r][w].index /\ Due(q, i)
    BY <1>2, HeldNotDue
  <1>4. i \in DOMAIN heap[tasks] /\ heap[tasks][i].status = "pending"
    BY <1>1, <1>2, <1>3 DEF DuePending
  <1>5. tasks \in Batches
    BY <1>1, BoundsAssumption DEF TypeOK, HandlerTypeOK, Batches
  <1>6. QED  BY <1>3, <1>4, <1>5

\* A worker that receives an index leaves it due.
LEMMA ReceiveDue ==
  ASSUME TypeOK, NEW r \in Runs, NEW w \in Workers, Receive(r, w),
         NEW q \in Runs, NEW i \in Indices, Served(q)', Due(q, i)'
  PROVE  Served(q) /\ Due(q, i)
  <1>1. PICK pc \in {"exited", "taken"} :
           /\ worker' = [worker EXCEPT ![r][w] =
                [worker[r][w] EXCEPT !.pc = pc, !.index = Head(run[r].queue)]]
           /\ run' = [run EXCEPT ![r].queue = Tail(run[r].queue)]
           /\ run[r].queue \in Seq(Indices) /\ run[r].queue # <<>>
    BY ReceiveEffect
  <1>2. worker[r][w] \in WorkerRecords /\ worker \in [Runs -> [Workers -> WorkerRecords]]
        /\ run \in [Runs -> RunRecords]
    BY DEF TypeOK
  <1>3. PICK rec : rec = [worker[r][w] EXCEPT !.pc = pc, !.index = Head(run[r].queue)]
    OBVIOUS
  <1>4. rec.index = Head(run[r].queue)
    BY <1>2, <1>3 DEF WorkerRecords
  <1>5. /\ worker'[r][w] = rec
        /\ \A p \in Runs, v \in Workers : p # r \/ v # w => worker'[p][v] = worker[p][v]
    BY <1>1, <1>2, <1>3
  <1>6. /\ run'[r].queue = Tail(run[r].queue)
        /\ \A p \in Runs \ {r} : run'[p] = run[p]
        /\ \A p \in Runs : run'[p].pc = run[p].pc
    BY <1>1, <1>2 DEF RunRecords
  <1>7. /\ 1 \in DOMAIN run[r].queue /\ Head(run[r].queue) = run[r].queue[1]
        /\ \A k \in DOMAIN Tail(run[r].queue) :
             k + 1 \in DOMAIN run[r].queue /\ Tail(run[r].queue)[k] = run[r].queue[k + 1]
    BY <1>1, QueueTail
  <1>8. Served(q)
    BY <1>6 DEF Served
  <1>9. CASE \E k \in DOMAIN run'[q].queue : run'[q].queue[k] = i
    <2>1. CASE q = r
      <3>1. PICK k \in DOMAIN Tail(run[r].queue) : Tail(run[r].queue)[k] = i
        BY <1>6, <1>9, <2>1
      <3>2. k + 1 \in DOMAIN run[q].queue /\ run[q].queue[k + 1] = i
        BY <1>7, <2>1, <3>1
      <3>3. Queued(q, i)
        BY <3>2 DEF Queued
      <3>4. QED  BY <1>8, <3>3 DEF Due
    <2>2. CASE q # r
      <3>1. run'[q] = run[q]
        BY <1>6, <2>2
      <3>2. QED  BY <1>8, <1>9, <3>1 DEF Due, Queued
    <2>3. QED  BY <2>1, <2>2
  <1>10. ASSUME NEW v \in Workers, worker'[q][v].pc = "taken", worker'[q][v].index = i
         PROVE  Due(q, i)
    <2>1. CASE q = r /\ v = w
      BY <1>4, <1>5, <1>7, <1>10, <2>1 DEF Due, Queued
    <2>2. CASE q # r \/ v # w
      BY <1>5, <1>10, <2>2 DEF Due
    <2>3. QED  BY <2>1, <2>2
  <1>11. \/ \E k \in DOMAIN run'[q].queue : run'[q].queue[k] = i
         \/ \E v \in Workers : worker'[q][v].pc = "taken" /\ worker'[q][v].index = i
    BY DEF Due, Queued
  <1>12. Due(q, i)
    BY <1>9, <1>10, <1>11
  <1>13. QED  BY <1>8, <1>12

LEMMA WorkersKeepDue ==
  ASSUME TypeOK, WorkersPoint, RunsOK, HandlerMatchesRuns, DuePending,
         NEW r \in Runs, NEW w \in Workers, WorkerStep(r, w)
  PROVE  DuePending'
  <1>1. CASE Receive(r, w)
    <2>1. UNCHANGED <<heap, tasks>>
      BY <1>1, ReceiveEffect DEF handler
    <2>2. ASSUME NEW q \in Runs, NEW i \in Indices, Served(q)', Due(q, i)'
          PROVE  Served(q) /\ Due(q, i)
      BY <1>1, <2>2, ReceiveDue DEF Served, Due, Queued
    <2>3. QED  BY <2>1, <2>2, DueKept
  <1>2. CASE WorkerExits(r, w)
    <2>1. PICK rec : worker' = [worker EXCEPT ![r][w] = rec] /\ rec.pc = "exited"
                     /\ rec.result = worker[r][w].result
      BY <1>2, ExitsEffect
    <2>2. UNCHANGED <<heap, tasks, run>>
      BY <1>2, ExitsEffect DEF handler
    <2>3. ASSUME NEW q \in Runs, NEW i \in Indices, Served(q)', Due(q, i)'
          PROVE  Served(q) /\ Due(q, i)
      BY <2>1, <2>2, <2>3, DueOfWorker DEF Served, Due, Queued
    <2>4. QED  BY <2>2, <2>3, DueKept
  <1>3. CASE WorkerTakes(r, w) /\ Panic
    BY <1>3 DEF Panic, handler, DuePending, Served, Due, Queued
  <1>4. CASE WorkerTakes(r, w) /\ ~Panic
    <2>1. PICK rec : /\ worker' = [worker EXCEPT ![r][w] = rec] /\ rec.pc = "attempt"
                     /\ rec.batch = tasks /\ rec.index = worker[r][w].index
                     /\ rec.result = worker[r][w].result
      BY <1>4, TakesEffect
    <2>2. worker[r][w].pc = "taken" /\ UNCHANGED <<run, tasks>>
      BY <1>4, TakesEffect
    <2>3. \A b \in Batches :
            /\ DOMAIN heap'[b] = DOMAIN heap[b]
            /\ \A i \in DOMAIN heap[b] :
                 b # tasks \/ i # worker[r][w].index => heap'[b][i] = heap[b][i]
      BY <1>4, TakesEffect
    <2>4. Holds(r, w)
      BY <2>2 DEF Holds
    <2>5. QED  BY <2>1, <2>2, <2>3, <2>4, HandsKeepDue
  <1>5. CASE WorkingStep(r, w)
    <2>1. PICK rec : Works(r, w, rec)
      BY <1>5, WorkingSteps DEF RunsOK, WorkingStep
    <2>2. Holds(r, w) /\ rec.pc # "taken" /\ UNCHANGED <<run, tasks>>
          /\ worker' = [worker EXCEPT ![r][w] = rec]
      BY <2>1 DEF Works, Holds, Working
    <2>3. \A b \in Batches :
            /\ DOMAIN heap'[b] = DOMAIN heap[b]
            /\ \A i \in DOMAIN heap[b] : heap'[b][i].status = heap[b][i].status
      BY <2>1 DEF Works, Kept
    <2>4. QED  BY <2>2, <2>3, HandsKeepDue
  <1>6. CASE Settle(r, w)
    <2>1. PICK rec : /\ worker' = [worker EXCEPT ![r][w] = rec] /\ rec.pc = "receiving"
                     /\ rec.result = ""
      BY <1>6, SettleEffect
    <2>2. worker[r][w].pc = "result" /\ UNCHANGED <<run, tasks>>
      BY <1>6, SettleEffect
    <2>3. \A b \in Batches :
            /\ DOMAIN heap'[b] = DOMAIN heap[b]
            /\ \A i \in DOMAIN heap[b] :
                 b # worker[r][w].batch \/ i # worker[r][w].index => heap'[b][i] = heap[b][i]
      BY <1>6, SettleEffect
    <2>4. Holds(r, w)
      BY <2>2 DEF Holds, Working
    <2>5. QED  BY <2>1, <2>2, <2>3, <2>4, HandsKeepDue
  <1>7. QED  BY <1>1, <1>2, <1>3, <1>4, <1>5, <1>6, WorkerCases

\* What the proofs below keep together
BatchOK == DuePending /\ HandsOK /\ SavedOK

\* A batch is installed only while no run is served; the other requests keep
\* the list or drop it.
LEMMA InstallsWhenIdle ==
  ASSUME TypeOK, HandlerMatchesRuns, NEW c \in Clients, RequestStep(c)
  PROVE  \/ tasks' = tasks \/ tasks' = 0
         \/ \A r \in Runs : ~Served(r)
  <1>1. CASE \E n \in Indices : StartInstalls(c, n)
    <2>1. request[c].pc = "starting"
      BY <1>1 DEF StartInstalls
    <2>2. cancelFunc = 0
      BY <2>1 DEF HandlerMatchesRuns, Busy
    <2>3. \A r \in Runs : r # 0
      BY BoundsAssumption DEF Runs
    <2>4. QED  BY <2>2, <2>3 DEF HandlerMatchesRuns, Served
  <1>2. QED
    BY <1>1 DEF RequestStep, StartChecks, BatchResume, CancelStops, CancelPausesOne,
           CancelContext, CancelFindsNone, CancelAnswered, ClearStops, ClearForgets, ClearCleans,
           handler

LEMMA RequestsKeepBatch ==
  ASSUME TypeOK, WorkersPoint, HandlerMatchesRuns, BatchOK, NEW c \in Clients, RequestStep(c)
  PROVE  BatchOK'
  <1>1. /\ UNCHANGED <<worker, saved>> /\ TasksAfterRequest
        /\ \A r \in Runs :
             /\ run'[r].queue = run[r].queue
             /\ run'[r].pc = run[r].pc \/ (run[r].pc = "none" /\ run'[r].pc = "launched")
    BY RequestEffect
  <1>2. \A b \in Batches : \A i \in DOMAIN heap[b] :
          /\ i \in DOMAIN heap'[b]
          /\ \/ heap'[b][i].status = heap[b][i].status
             \/ heap[b][i].status = "downloading" /\ heap'[b][i].status = "pending"
    BY <1>1 DEF TasksAfterRequest
  <1>3. HandsOK' /\ SavedOK'
    BY <1>1, <1>2, HandsRest DEF BatchOK
  <1>4. \A q \in Runs : run'[q].pc \in {"dispatching", "waiting"} => Served(q)
    BY <1>1 DEF Served
  <1>5. DuePending'
    <2>1. CASE tasks' = tasks \/ tasks' = 0
      <3>1. SUFFICES ASSUME tasks' # 0, NEW q \in Runs, NEW i \in Indices, Served(q)', Due(q, i)'
                     PROVE  i \in DOMAIN heap'[tasks] /\ heap'[tasks][i].status = "pending"
        BY <2>1 DEF DuePending
      <3>2. Served(q)
        BY <1>4, <3>1 DEF Served
      <3>3. Due(q, i)
        BY <1>1, <3>1 DEF Due, Queued
      <3>4. tasks # 0 /\ tasks \in Batches
        BY <2>1, <3>1, BoundsAssumption DEF TypeOK, HandlerTypeOK, Batches
      <3>5. i \in DOMAIN heap[tasks] /\ heap[tasks][i].status = "pending"
        BY <3>2, <3>3, <3>4 DEF BatchOK, DuePending
      <3>6. QED  BY <1>2, <3>4, <3>5
    <2>2. CASE \A r \in Runs : ~Served(r)
      BY <1>4, <2>2 DEF DuePending, Served
    <2>3. QED  BY <2>1, <2>2, InstallsWhenIdle
  <1>6. QED  BY <1>3, <1>5 DEF BatchOK

LEMMA DispatchersKeepBatch ==
  ASSUME TypeOK, WorkersPoint, RunsOK, BatchOK, NEW r \in Runs, DispatcherStep(r)
  PROVE  BatchOK'
  <1>1. UNCHANGED <<heap, tasks, saved>>
    BY DEF DispatcherStep, RunBegins, RunAborts, RunReleases, WorkersStart, Dispatch, Panic,
           CloseChannel, RunEnds, handler
  <1>2. CASE WorkersStart(r)
    <2>1. PICK rec : rec = [NoWork EXCEPT !.pc = "receiving"]
      OBVIOUS
    <2>2. /\ rec.pc = "receiving" /\ run[r].pc = "starting"
          /\ worker' = [worker EXCEPT ![r] = [w \in Workers |-> rec]]
          /\ run' = [run EXCEPT ![r].pc = "dispatching", ![r].count = Len(CurrentTasks)]
      BY <1>2, <2>1 DEF WorkersStart, NoWork
    <2>3. /\ \A w \in Workers : worker'[r][w] = rec
          /\ \A q \in Runs \ {r} : worker'[q] = worker[q]
      BY <2>2 DEF TypeOK
    <2>4. /\ run'[r].queue = run[r].queue /\ \A q \in Runs \ {r} : run'[q] = run[q]
      BY <2>2 DEF TypeOK, RunRecords
    <2>5. run[r].queue = <<>>
      BY <2>2 DEF RunsOK, FreshQueues
    <2>6. \A w \in Workers : worker[r][w].pc \in {"none", "exited"}
      BY <2>2 DEF RunsOK, WorkersLive, Served
    <2>7. \A q \in Runs, v \in Workers :
            \/ worker'[q][v] = worker[q][v]
            \/ \A b, i : ~InHands(worker[q][v], b, i) /\ ~InHands(worker'[q][v], b, i)
      BY <2>2, <2>3, <2>6 DEF InHands
    <2>8. HandsOK' /\ SavedOK'
      BY <1>1, <2>7, HandsRest DEF BatchOK
    <2>9. DuePending'
      <3>1. SUFFICES ASSUME tasks # 0, NEW q \in Runs, NEW i \in Indices, Served(q)', Due(q, i)'
                     PROVE  i \in DOMAIN heap[tasks] /\ heap[tasks][i].status = "pending"
        BY <1>1 DEF DuePending
      <3>2. DOMAIN <<>> = {}
        OBVIOUS
      <3>3. q # r
        BY <2>2, <2>3, <2>4, <2>5, <3>1, <3>2 DEF Due, Queued
      <3>4. run'[q] = run[q] /\ worker'[q] = worker[q]
        BY <2>3, <2>4, <3>3
      <3>5. Served(q)
        BY <3>1, <3>4 DEF Served
      <3>6. Due(q, i)
        BY <3>1, <3>4 DEF Due, Queued
      <3>7. QED  BY <3>1, <3>5, <3>6 DEF BatchOK, DuePending
    <2>10. QED  BY <2>8, <2>9 DEF BatchOK
  <1>3. CASE ~WorkersStart(r)
    <2>1. UNCHANGED worker
      BY <1>3 DEF DispatcherStep, RunBegins, RunAborts, RunReleases, Dispatch, Panic,
           CloseChannel, RunEnds
    <2>2. HandsOK' /\ SavedOK'
      BY <1>1, <2>1, HandsRest DEF BatchOK
    <2>3. CASE Dispatch(r) /\ ~Panic
      <3>1. run[r] \in RunRecords /\ run \in [Runs -> RunRecords]
        BY DEF TypeOK
      <3> DEFINE n == run[r].next
      <3>2. /\ run[r].pc = "dispatching" /\ ~(n > Len(CurrentTasks))
            /\ run' = [run EXCEPT ![r].next = n + 1,
                 ![r].queue = IF CurrentTasks[n].status = "pending"
                              THEN Append(run[r].queue, n) ELSE run[r].queue]
        BY <2>3 DEF Dispatch
      <3>3. n \in Indices /\ run[r].queue \in Seq(Indices)
        <4>1. n \in 1 .. MaxTasks + 1 /\ n <= run[r].count /\ run[r].count \in 0 .. MaxTasks
          BY <2>3, <3>1 DEF Dispatch, RunRecords
        <4>2. n \in Indices
          BY <4>1, BoundsAssumption DEF Indices
        <4>3. QED  BY <3>1, <4>2 DEF RunRecords
      <3>4. n \in DOMAIN CurrentTasks
        BY <3>2, <3>3, CurrentTyped, BoundsAssumption DEF Indices
      <3>5. /\ run'[r].queue = IF CurrentTasks[n].status = "pending"
                              THEN Append(run[r].queue, n) ELSE run[r].queue
            /\ \A q \in Runs \ {r} : run'[q] = run[q]
            /\ \A q \in Runs : run'[q].pc = run[q].pc
        BY <3>1, <3>2 DEF RunRecords
      <3> HIDE DEF n
      <3>6. SUFFICES ASSUME tasks # 0, NEW q \in Runs, NEW i \in Indices, Served(q)', Due(q, i)'
                     PROVE  i \in DOMAIN heap[tasks] /\ heap[tasks][i].status = "pending"
        BY <1>1, <2>2 DEF DuePending, BatchOK
      <3>7. Served(q)
        BY <3>5, <3>6 DEF Served
      <3>8. Due(q, i) \/ (i = n /\ CurrentTasks[n].status = "pending")
        <4>1. CASE \E v \in Workers : worker'[q][v].pc = "taken" /\ worker'[q][v].index = i
          BY <2>1, <4>1 DEF Due
        <4>2. CASE \E k \in DOMAIN run'[q].queue : run'[q].queue[k] = i
          <5>1. CASE run'[q].queue = run[q].queue
            BY <4>2, <5>1 DEF Due, Queued
          <5>2. CASE run'[q].queue # run[q].queue
            <6>1. q = r /\ CurrentTasks[n].status = "pending" /\ run'[q].queue = Append(run[q].queue, n)
              BY <3>5, <5>2
            <6>2. PICK k \in DOMAIN Append(run[q].queue, n) : Append(run[q].queue, n)[k] = i
              BY <4>2, <6>1
            <6>3. (k \in DOMAIN run[q].queue /\ run[q].queue[k] = i) \/ i = n
              BY <3>3, <6>1, <6>2, QueueAppend
            <6>4. QED  BY <6>1, <6>3 DEF Due, Queued
          <5>3. QED  BY <5>1, <5>2
        <4>3. QED  BY <3>6, <4>1, <4>2 DEF Due, Queued
      <3>9. CASE Due(q, i)
        BY <3>6, <3>7, <3>9 DEF BatchOK, DuePending
      <3>10. CASE i = n /\ CurrentTasks[n].status = "pending"
        BY <3>4, <3>6, <3>10 DEF CurrentTasks
      <3>11. QED  BY <3>8, <3>9, <3>10
    <2>4. CASE ~(Dispatch(r) /\ ~Panic)
      <3>1. /\ \A q \in Runs : run'[q].queue = run[q].queue
            /\ \A q \in Runs : run'[q].pc \in {"dispatching", "waiting"} => Served(q)
        <4>1. run \in [Runs -> RunRecords]
          BY DEF TypeOK
        <4>2. CASE run' = run
          BY <4>2 DEF Served
        <4>3. CASE RunBegins(r)
          BY <4>1, <4>3 DEF RunBegins, RunRecords, Served
        <4>4. CASE RunReleases(r)
          BY <4>1, <4>4 DEF RunReleases, RunRecords, Served
        <4>5. CASE CloseChannel(r)
          BY <4>1, <4>5 DEF CloseChannel, RunRecords, Served
        <4>6. QED
          BY <1>3, <2>4, <4>2, <4>3, <4>4, <4>5 DEF DispatcherStep, RunAborts, RunEnds, Dispatch, Panic
      <3>2. SUFFICES ASSUME tasks # 0, NEW q \in Runs, NEW i \in Indices, Served(q)', Due(q, i)'
                     PROVE  i \in DOMAIN heap[tasks] /\ heap[tasks][i].status = "pending"
        BY <1>1, <2>2 DEF DuePending, BatchOK
      <3>3. Served(q)
        BY <3>1, <3>2 DEF Served
      <3>4. Due(q, i)
        BY <2>1, <3>1, <3>2 DEF Due, Queued
      <3>5. QED  BY <3>2, <3>3, <3>4 DEF BatchOK, DuePending
    <2>5. QED  BY <2>3, <2>4
  <1>4. QED  BY <1>2, <1>3

LEMMA WorkersKeepBatch ==
  ASSUME TypeOK, WorkersPoint, RunsOK, HandlerMatchesRuns, BatchOK,
         NEW r \in Runs, NEW w \in Workers, WorkerStep(r, w)
  PROVE  BatchOK'
  <1>1. DuePending'
    BY WorkersKeepDue DEF BatchOK
  <1>2. CASE Receive(r, w)
    <2>1. PICK pc \in {"exited", "taken"} : worker' = [worker EXCEPT ![r][w] =
                      [worker[r][w] EXCEPT !.pc = pc, !.index = Head(run[r].queue)]]
      BY <1>2, ReceiveEffect
    <2>2. worker[r][w].pc = "receiving" /\ UNCHANGED <<heap, saved>>
      BY <1>2, ReceiveEffect DEF handler
    <2>3. PICK rec : rec = [worker[r][w] EXCEPT !.pc = pc, !.index = Head(run[r].queue)]
      OBVIOUS
    <2>4. worker[r][w] \in WorkerRecords /\ worker \in [Runs -> [Workers -> WorkerRecords]]
      BY DEF TypeOK
    <2>5. rec.pc = pc
      BY <2>3, <2>4 DEF WorkerRecords
    <2>6. /\ worker'[r][w] = rec
          /\ \A q \in Runs, v \in Workers : q # r \/ v # w => worker'[q][v] = worker[q][v]
      BY <2>1, <2>3, <2>4
    <2>7. \A b, i : ~InHands(worker[r][w], b, i) /\ ~InHands(rec, b, i)
      BY <2>2, <2>5 DEF InHands
    <2>8. HandsOK' /\ SavedOK'
      BY <2>2, <2>6, <2>7, HandsRest DEF BatchOK
    <2>9. QED  BY <1>1, <2>8 DEF BatchOK
  <1>3. CASE WorkerExits(r, w)
    <2>1. PICK rec : worker' = [worker EXCEPT ![r][w] = rec] /\ rec.pc = "exited"
                     /\ rec.result = worker[r][w].result
      BY <1>3, ExitsEffect
    <2>2. worker[r][w].pc = "receiving" /\ UNCHANGED <<heap, saved>>
      BY <1>3, ExitsEffect DEF handler
    <2>3. /\ worker'[r][w] = rec
          /\ \A q \in Runs, v \in Workers : q # r \/ v # w => worker'[q][v] = worker[q][v]
      BY <2>1 DEF TypeOK
    <2>4. \A b, i : ~InHands(worker[r][w], b, i) /\ ~InHands(rec, b, i)
      BY <2>1, <2>2 DEF InHands
    <2>5. HandsOK' /\ SavedOK'
      BY <2>2, <2>3, <2>4, HandsRest DEF BatchOK
    <2>6. QED  BY <1>1, <2>5 DEF BatchOK
  <1>4. CASE WorkerTakes(r, w) /\ Panic
    <2>1. HandsOK' /\ SavedOK'
      BY <1>4, HandsRest DEF Panic, handler, BatchOK
    <2>2. QED  BY <1>1, <2>1 DEF BatchOK
  <1>5. CASE WorkerTakes(r, w) /\ ~Panic
    BY <1>1, <1>5, TakesKeepSaved DEF BatchOK
  <1>6. CASE WorkingStep(r, w)
    BY <1>1, <1>6, WorkKeepsSaved DEF BatchOK
  <1>7. CASE Settle(r, w)
    BY <1>1, <1>7, SettleKeepsSaved DEF BatchOK
  <1>8. QED  BY <1>2, <1>3, <1>4, <1>5, <1>6, <1>7, WorkerCases

LEMMA StepsKeepBatch ==
  ASSUME TypeOK, WorkersPoint, RunsOK, HandlerMatchesRuns, BatchOK, [Next]_vars
  PROVE  BatchOK'
  <1>1. CASE UNCHANGED <<heap, tasks, run, worker, saved>>
    BY <1>1 DEF BatchOK, DuePending, HandsOK, SavedOK, Served, Due, Queued
  <1>2. QED
    BY <1>1, RequestsKeepBatch, DispatchersKeepBatch, WorkersKeepBatch
    DEF Next, GopeedWorks, handler, vars

LEMMA InitBatch == Init => BatchOK
  <1> SUFFICES ASSUME Init PROVE BatchOK
    OBVIOUS
  <1>1. NoWork.pc = "none"
    BY DEF NoWork
  <1>2. \A r \in Runs, w \in Workers : worker[r][w].pc = "none"
    BY <1>1 DEF Init
  <1>3. HandsOK
    BY <1>2 DEF HandsOK, InHands
  <1>4. DuePending /\ SavedOK
    BY DEF Init, DuePending, SavedOK
  <1>5. QED  BY <1>3, <1>4 DEF BatchOK

LEMMA AlwaysBatch == ~Overlap => (Spec => []BatchOK)
  <1> SUFFICES ASSUME ~Overlap PROVE Spec => []BatchOK
    OBVIOUS
  <1>1. QED
    BY InitBatch, StepsKeepBatch, AlwaysRuns, AlwaysMatch, TypeCorrect, PTL DEF Spec

\* However often a batch is cancelled, cleared and resumed, no video of it is
\* saved twice, and one that has been saved is done or about to be settled as
\* done, so that no resume downloads it again.
THEOREM VideosAreSavedOnce == ~Overlap => (Spec => []SavedOnce)
  <1> SUFFICES ASSUME ~Overlap PROVE Spec => []SavedOnce
    OBVIOUS
  <1>1. TypeOK /\ BatchOK => SavedOnce
    <2>1. SUFFICES ASSUME TypeOK, SavedOK, NEW b \in Batches, NEW i \in Indices
                   PROVE  /\ saved[b][i] <= 1
                          /\ saved[b][i] = 1 =>
                               \/ heap[b][i].status = "done"
                               \/ \E r \in Runs, w \in Workers :
                                    InHand(r, w, b, i) /\ worker[r][w].result = "ok"
      BY DEF BatchOK, SavedOnce
    <2>2. CASE saved[b][i] = 0
      BY <2>2
    <2>3. CASE saved[b][i] # 0
      <3>1. /\ saved[b][i] = 1
            /\ \/ heap[b][i].status = "done"
               \/ \E r \in Runs, w \in Workers : InHands(worker[r][w], b, i) /\ worker[r][w].result = "ok"
        BY <2>1, <2>3 DEF SavedOK
      <3>2. QED  BY <3>1 DEF InHands, InHand
    <2>4. QED  BY <2>2, <2>3
  <1>2. QED  BY <1>1, AlwaysBatch, TypeCorrect, PTL

-----------------------------------------------------------------------------
(* Only a clear takes the list from under the indices of a run. *)

\* While a list is installed, a run that is served counted the tasks of it.
CountsMatch ==
  tasks # 0 => \A r \in Runs : Served(r) =>
    /\ run[r].count = Len(CurrentTasks)
    /\ \A i \in Indices : Due(r, i) => i <= run[r].count

\* What a worker's step leaves given out was given out before.
LEMMA WorkerDue ==
  ASSUME TypeOK, WorkersPoint, RunsOK, NEW r \in Runs, NEW w \in Workers, WorkerStep(r, w),
         NEW q \in Runs, NEW i \in Indices, Served(q)', Due(q, i)'
  PROVE  Served(q) /\ Due(q, i)
  <1>1. CASE Receive(r, w)
    BY <1>1, ReceiveDue
  <1>2. CASE WorkerTakes(r, w) /\ Panic
    BY <1>2 DEF Panic, Served, Due, Queued
  <1>3. CASE ~Receive(r, w) /\ ~(WorkerTakes(r, w) /\ Panic)
    <2>1. PICK rec : worker' = [worker EXCEPT ![r][w] = rec] /\ rec.pc # "taken"
      <3>1. CASE WorkerExits(r, w)
        <4>1. PICK rec : worker' = [worker EXCEPT ![r][w] = rec] /\ rec.pc = "exited"
                         /\ rec.result = worker[r][w].result
          BY <3>1, ExitsEffect
        <4>2. QED  BY <4>1
      <3>2. CASE WorkerTakes(r, w) /\ ~Panic
        <4>1. PICK rec : /\ worker' = [worker EXCEPT ![r][w] = rec] /\ rec.pc = "attempt"
                         /\ rec.batch = tasks /\ rec.index = worker[r][w].index
                         /\ rec.result = worker[r][w].result
          BY <3>2, TakesEffect
        <4>2. QED  BY <4>1
      <3>3. CASE WorkingStep(r, w)
        <4>1. PICK rec : Works(r, w, rec)
          BY <3>3, WorkingSteps DEF RunsOK, WorkingStep
        <4>2. QED  BY <4>1 DEF Works, Working
      <3>4. CASE Settle(r, w)
        <4>1. PICK rec : /\ worker' = [worker EXCEPT ![r][w] = rec] /\ rec.pc = "receiving"
                         /\ rec.result = ""
          BY <3>4, SettleEffect
        <4>2. QED  BY <4>1
      <3>5. QED  BY <1>3, <3>1, <3>2, <3>3, <3>4, WorkerCases
    <2>2. run' = run
      BY <1>3 DEF WorkerStep, WorkerExits, WorkerTakes, NoDownload, AttemptStarts, CreateGopeedTask,
           RecordGopeedTask, ConnectFails, ContinueGopeedTask, ForgetGopeedTask, WaitCancelled,
           WaitPaused, WaitDone, DownloadFails, SaveVideo, Settle
    <2>3. QED  BY <2>1, <2>2, DueOfWorker DEF Served, Due, Queued
  <1>4. QED  BY <1>1, <1>2, <1>3

\* A worker's step changes neither the list nor its length, nor what a run
\* counted.
LEMMA WorkerLengths ==
  ASSUME TypeOK, WorkersPoint, RunsOK, NEW r \in Runs, NEW w \in Workers, WorkerStep(r, w)
  PROVE  /\ UNCHANGED tasks
         /\ \A b \in Batches : Len(heap'[b]) = Len(heap[b])
         /\ \A q \in Runs : run'[q].count = run[q].count
  <1>1. CASE Receive(r, w)
    <2>1. UNCHANGED <<tasks, heap>>
      BY <1>1, ReceiveEffect DEF handler
    <2>2. run' = [run EXCEPT ![r].queue = Tail(@)]
      BY <1>1 DEF Receive
    <2>3. \A q \in Runs : run'[q].count = run[q].count
      BY <2>2 DEF TypeOK, RunRecords
    <2>4. QED  BY <2>1, <2>3
  <1>2. CASE WorkerExits(r, w)
    BY <1>2, ExitsEffect DEF handler
  <1>3. CASE WorkerTakes(r, w) /\ Panic
    BY <1>3 DEF Panic, handler
  <1>4. CASE WorkerTakes(r, w) /\ ~Panic
    BY <1>4, TakesEffect
  <1>5. CASE WorkingStep(r, w)
    <2>1. PICK rec : Works(r, w, rec)
      BY <1>5, WorkingSteps DEF RunsOK, WorkingStep
    <2>2. QED  BY <2>1 DEF Works, Kept
  <1>6. CASE Settle(r, w)
    BY <1>6, SettleEffect
  <1>7. QED  BY <1>1, <1>2, <1>3, <1>4, <1>5, <1>6, WorkerCases

\* The list keeps its length through every request but a start.
LEMMA RequestLengths ==
  ASSUME TypeOK, WorkersPoint, NEW c \in Clients, RequestStep(c), ~\E n \in Indices : StartInstalls(c, n)
  PROVE  \A b \in Batches : Len(heap'[b]) = Len(heap[b])
  <1>1. CASE CancelStops(c) /\ running /\ tasks # 0
    <2>1. tasks \in Batches
      BY <1>1, BoundsAssumption DEF TypeOK, HandlerTypeOK, Batches
    <2>2. heap \in [Batches -> Seq(Tasks)] /\ heap' \in [Batches -> Seq(Tasks)]
      BY RequestsKeepTypes DEF TypeOK, HandlerTypeOK
    <2>3. heap' = [heap EXCEPT ![tasks] = [i \in DOMAIN heap[tasks] |-> Unstarted(heap[tasks][i])]]
      BY <1>1 DEF CancelStops
    <2>4. DOMAIN heap'[tasks] = DOMAIN heap[tasks] /\ \A b \in Batches \ {tasks} : heap'[b] = heap[b]
      BY <2>1, <2>2, <2>3
    <2>5. /\ Len(heap[tasks]) \in Nat /\ DOMAIN heap[tasks] = 1 .. Len(heap[tasks])
          /\ Len(heap'[tasks]) \in Nat /\ DOMAIN heap'[tasks] = 1 .. Len(heap'[tasks])
      BY <2>1, <2>2, LenProperties
    <2>6. \A m, n \in Nat : 1 .. m = 1 .. n => m = n
      <3>1. SUFFICES ASSUME NEW m \in Nat, NEW n \in Nat, 1 .. m = 1 .. n, m < n PROVE FALSE
        OBVIOUS
      <3>2. n \in 1 .. n /\ ~(n \in 1 .. m)
        BY <3>1
      <3>3. QED  BY <3>1, <3>2
    <2>7. QED  BY <2>4, <2>5, <2>6
  <1>2. CASE ~(CancelStops(c) /\ running /\ tasks # 0)
    BY <1>2 DEF RequestStep, StartChecks, BatchResume, CancelStops, CancelPausesOne,
           CancelContext, CancelFindsNone, CancelAnswered, ClearStops, ClearForgets, ClearCleans,
           handler
  <1>3. QED  BY <1>1, <1>2

\* A list that keeps its length and its place in the handler
LEMMA SameLength ==
  ASSUME TypeOK, UNCHANGED tasks, \A b \in Batches : Len(heap'[b]) = Len(heap[b])
  PROVE  Len(CurrentTasks)' = Len(CurrentTasks)
  <1>1. CASE tasks = 0
    BY <1>1 DEF CurrentTasks
  <1>2. CASE tasks # 0
    <2>1. tasks \in Batches
      BY <1>2, BoundsAssumption DEF TypeOK, HandlerTypeOK, Batches
    <2>2. QED  BY <1>2, <2>1 DEF CurrentTasks
  <1>3. QED  BY <1>1, <1>2

GivenOut(queue, hands, i) ==
  \/ \E k \in DOMAIN queue : queue[k] = i
  \/ \E v \in Workers : hands[v].pc = "taken" /\ hands[v].index = i

LEMMA CountsKept ==
  ASSUME CountsMatch, UNCHANGED tasks, Len(CurrentTasks)' = Len(CurrentTasks),
         \A q \in Runs : run'[q].pc \in {"dispatching", "waiting"} =>
           /\ Served(q) /\ run'[q].count = run[q].count
           /\ \A i \in Indices :
                GivenOut(run'[q].queue, worker'[q], i) => Due(q, i) \/ i <= run[q].count
  PROVE  CountsMatch'
  <1>1. SUFFICES ASSUME tasks # 0, NEW q \in Runs, run'[q].pc \in {"dispatching", "waiting"}
                 PROVE  /\ run'[q].count = Len(CurrentTasks)'
                        /\ \A i \in Indices :
                             GivenOut(run'[q].queue, worker'[q], i) => i <= run'[q].count
    BY DEF CountsMatch, Served, Due, Queued, GivenOut
  <1>2. Served(q) /\ run'[q].count = run[q].count
    BY <1>1
  <1>3. run[q].count = Len(CurrentTasks) /\ \A i \in Indices : Due(q, i) => i <= run[q].count
    BY <1>1, <1>2 DEF CountsMatch
  <1>4. QED  BY <1>1, <1>2, <1>3

LEMMA WorkersKeepCounts ==
  ASSUME TypeOK, WorkersPoint, RunsOK, CountsMatch,
         NEW r \in Runs, NEW w \in Workers, WorkerStep(r, w)
  PROVE  CountsMatch'
  <1>1. /\ UNCHANGED tasks
        /\ Len(CurrentTasks)' = Len(CurrentTasks)
        /\ \A q \in Runs : run'[q].count = run[q].count
    BY WorkerLengths, SameLength
  <1>2. ASSUME NEW q \in Runs, run'[q].pc \in {"dispatching", "waiting"} PROVE Served(q)
    <2>1. run'[q].pc = run[q].pc
      <3>1. run' = run \/ run' = [run EXCEPT ![r].queue = Tail(@)]
        BY DEF WorkerStep, Receive, WorkerExits, WorkerTakes, Panic, NoDownload, AttemptStarts,
               CreateGopeedTask, RecordGopeedTask, ConnectFails, ContinueGopeedTask,
               ForgetGopeedTask, WaitCancelled, WaitPaused, WaitDone, DownloadFails, SaveVideo,
               Settle
      <3>2. QED  BY <3>1 DEF TypeOK, RunRecords
    <2>2. QED  BY <1>2, <2>1 DEF Served
  <1>3. ASSUME NEW q \in Runs, run'[q].pc \in {"dispatching", "waiting"},
               NEW i \in Indices, GivenOut(run'[q].queue, worker'[q], i)
        PROVE  Due(q, i)
    BY <1>3, WorkerDue DEF Served, Due, Queued, GivenOut
  <1>4. QED  BY <1>1, <1>2, <1>3, CountsKept

LEMMA RequestsKeepCounts ==
  ASSUME TypeOK, WorkersPoint, HandlerMatchesRuns, CountsMatch,
         NEW c \in Clients, RequestStep(c)
  PROVE  CountsMatch'
  <1>1. /\ UNCHANGED worker
        /\ \A r \in Runs :
             /\ run'[r].queue = run[r].queue /\ run'[r].count = run[r].count
             /\ run'[r].pc = run[r].pc \/ (run[r].pc = "none" /\ run'[r].pc = "launched")
    BY RequestEffect
  <1>2. CASE \A r \in Runs : ~Served(r)
    BY <1>1, <1>2 DEF CountsMatch, Served
  <1>3. CASE ClearForgets(c)
    BY <1>3 DEF ClearForgets, CountsMatch
  <1>4. CASE ~ClearForgets(c) /\ ~ \A r \in Runs : ~Served(r)
    <2>1. cancelFunc # 0
      BY <1>4, BoundsAssumption DEF HandlerMatchesRuns, Served, Runs
    <2>2. UNCHANGED tasks /\ ~ \E n \in Indices : StartInstalls(c, n)
      <3>1. ~Busy => FALSE
        BY <2>1 DEF Busy
      <3>2. ~ \E n \in Indices : StartInstalls(c, n)
        BY <3>1 DEF StartInstalls, HandlerMatchesRuns
      <3>3. UNCHANGED tasks
        BY <1>4, <3>2 DEF RequestStep, StartChecks, BatchResume, CancelStops, CancelPausesOne,
           CancelContext, CancelFindsNone, CancelAnswered, ClearStops, ClearCleans, handler
      <3>4. QED  BY <3>2, <3>3
    <2>3. Len(CurrentTasks)' = Len(CurrentTasks)
      BY <2>2, RequestLengths, SameLength
    <2>4. QED  BY <1>1, <2>2, <2>3, CountsKept DEF Served, Due, Queued, GivenOut
  <1>5. QED  BY <1>2, <1>3, <1>4

LEMMA DispatchersKeepCounts ==
  ASSUME TypeOK, RunsOK, CountsMatch, NEW r \in Runs, DispatcherStep(r)
  PROVE  CountsMatch'
  <1>1. UNCHANGED <<heap, tasks>>
    BY DEF DispatcherStep, RunBegins, RunAborts, RunReleases, WorkersStart, Dispatch, Panic,
           CloseChannel, RunEnds, handler
  <1>2. Len(CurrentTasks)' = Len(CurrentTasks)
    BY <1>1 DEF CurrentTasks
  <1>3. run \in [Runs -> RunRecords]
    BY DEF TypeOK
  <1>4. CASE WorkersStart(r)
    <2>1. PICK rec : rec = [NoWork EXCEPT !.pc = "receiving"]
      OBVIOUS
    <2>2. /\ rec.pc = "receiving" /\ run[r].pc = "starting"
          /\ worker' = [worker EXCEPT ![r] = [w \in Workers |-> rec]]
          /\ run' = [run EXCEPT ![r].pc = "dispatching", ![r].count = Len(CurrentTasks)]
      BY <1>4, <2>1 DEF WorkersStart, NoWork
    <2>3. /\ \A w \in Workers : worker'[r][w] = rec
          /\ \A q \in Runs \ {r} : worker'[q] = worker[q]
      BY <2>2 DEF TypeOK
    <2>4. /\ run'[r].queue = run[r].queue /\ run'[r].count = Len(CurrentTasks)
          /\ \A q \in Runs \ {r} : run'[q] = run[q]
      BY <1>3, <2>2 DEF RunRecords
    <2>5. run[r].queue = <<>>
      BY <2>2 DEF RunsOK, FreshQueues
    <2>6. DOMAIN <<>> = {}
      OBVIOUS
    <2>7. \A i \in Indices : ~GivenOut(run'[r].queue, worker'[r], i)
      BY <2>2, <2>3, <2>4, <2>5, <2>6 DEF GivenOut
    <2>8. SUFFICES ASSUME tasks # 0, NEW q \in Runs, run'[q].pc \in {"dispatching", "waiting"}
                   PROVE  /\ run'[q].count = Len(CurrentTasks)'
                          /\ \A i \in Indices :
                               GivenOut(run'[q].queue, worker'[q], i) => i <= run'[q].count
      BY <1>1 DEF CountsMatch, Served, Due, Queued, GivenOut
    <2>9. CASE q = r
      BY <1>2, <2>4, <2>7, <2>9
    <2>10. CASE q # r
      <3>1. run'[q] = run[q] /\ worker'[q] = worker[q]
        BY <2>3, <2>4, <2>10
      <3>2. Served(q)
        BY <2>8, <3>1 DEF Served
      <3>3. run[q].count = Len(CurrentTasks) /\ \A i \in Indices : Due(q, i) => i <= run[q].count
        BY <2>8, <3>2 DEF CountsMatch
      <3>4. QED  BY <1>2, <3>1, <3>3 DEF Due, Queued, GivenOut
    <2>11. QED  BY <2>9, <2>10
  <1>5. CASE Dispatch(r) /\ ~Panic
    <2>0. PICK n \in Indices : \E q1 \in {run[r].queue, Append(run[r].queue, n)} :
            /\ run' = [run EXCEPT ![r].next = n + 1, ![r].queue = q1]
            /\ n <= run[r].count /\ run[r].queue \in Seq(Indices) /\ UNCHANGED worker
            /\ run[r].pc = "dispatching"
      <3>1. run[r] \in RunRecords
        BY <1>3
      <3>2. run[r].next \in Indices
        <4>1. run[r].next \in 1 .. MaxTasks + 1 /\ run[r].next <= run[r].count /\ run[r].count \in 0 .. MaxTasks
          BY <1>5, <3>1 DEF Dispatch, RunRecords
        <4>2. QED  BY <4>1, BoundsAssumption DEF Indices
      <3>3. run[r].queue \in Seq(Indices)
        BY <3>1 DEF RunRecords
      <3>4. PICK q1 \in {run[r].queue, Append(run[r].queue, run[r].next)} :
              run' = [run EXCEPT ![r].next = run[r].next + 1, ![r].queue = q1]
        BY <1>5 DEF Dispatch
      <3>5. run[r].next <= run[r].count /\ UNCHANGED worker /\ run[r].pc = "dispatching"
        BY <1>5 DEF Dispatch
      <3>6. QED  BY <3>2, <3>3, <3>4, <3>5
    <2>1. PICK q1 \in {run[r].queue, Append(run[r].queue, n)} :
            /\ run' = [run EXCEPT ![r].next = n + 1, ![r].queue = q1]
            /\ n <= run[r].count /\ run[r].queue \in Seq(Indices) /\ UNCHANGED worker
            /\ run[r].pc = "dispatching"
      BY <2>0
    <2>2. /\ run'[r].queue = q1
          /\ \A q \in Runs \ {r} : run'[q] = run[q]
          /\ \A q \in Runs : run'[q].pc = run[q].pc /\ run'[q].count = run[q].count
      BY <1>3, <2>1 DEF RunRecords
    <2>3. ASSUME NEW i \in Indices, GivenOut(q1, worker[r], i) PROVE Due(r, i) \/ i <= run[r].count
      <3>1. ASSUME NEW k \in DOMAIN q1, q1[k] = i PROVE Due(r, i) \/ i <= run[r].count
        <4>1. (k \in DOMAIN run[r].queue /\ run[r].queue[k] = i) \/ i = n
          BY <2>1, <3>1, QueueAppend
        <4>2. QED  BY <2>1, <4>1 DEF Due, Queued
      <3>2. QED  BY <2>3, <3>1 DEF GivenOut, Due
    <2>4. ASSUME NEW q \in Runs, run'[q].pc \in {"dispatching", "waiting"}
          PROVE  /\ Served(q) /\ run'[q].count = run[q].count
                 /\ \A i \in Indices :
                      GivenOut(run'[q].queue, worker'[q], i) => Due(q, i) \/ i <= run[q].count
      <3>1. Served(q) /\ run'[q].count = run[q].count
        BY <2>2, <2>4 DEF Served
      <3>2. CASE q = r
        BY <2>1, <2>2, <2>3, <3>1, <3>2
      <3>3. CASE q # r
        <4>1. run'[q] = run[q] /\ worker'[q] = worker[q]
          BY <2>1, <2>2, <3>3
        <4>2. QED  BY <3>1, <4>1 DEF GivenOut, Due, Queued
      <3>4. QED  BY <3>2, <3>3
    <2>5. QED  BY <1>1, <1>2, <2>4, CountsKept
  <1>6. CASE ~WorkersStart(r) /\ ~(Dispatch(r) /\ ~Panic)
    <2>1. UNCHANGED worker
      BY <1>6 DEF DispatcherStep, RunBegins, RunAborts, RunReleases, Dispatch, Panic,
           CloseChannel, RunEnds
    <2>2. \A q \in Runs :
            /\ run'[q].queue = run[q].queue /\ run'[q].count = run[q].count
            /\ run'[q].pc \in {"dispatching", "waiting"} => Served(q)
      <3>1. CASE run' = run
        BY <3>1 DEF Served
      <3>2. CASE RunBegins(r)
        BY <1>3, <3>2 DEF RunBegins, RunRecords, Served
      <3>3. CASE RunReleases(r)
        BY <1>3, <3>3 DEF RunReleases, RunRecords, Served
      <3>4. CASE CloseChannel(r)
        BY <1>3, <3>4 DEF CloseChannel, RunRecords, Served
      <3>5. QED
        BY <1>6, <3>1, <3>2, <3>3, <3>4 DEF DispatcherStep, RunAborts, RunEnds, Dispatch, Panic
    <2>3. \A q \in Runs, i \in Indices : GivenOut(run'[q].queue, worker'[q], i) => Due(q, i)
      BY <2>1, <2>2 DEF GivenOut, Due, Queued
    <2>4. QED  BY <1>1, <1>2, <2>2, <2>3, CountsKept
  <1>7. QED  BY <1>4, <1>5, <1>6

LEMMA StepsKeepCounts ==
  ASSUME TypeOK, WorkersPoint, RunsOK, HandlerMatchesRuns, CountsMatch, [Next]_vars
  PROVE  CountsMatch'
  <1>1. CASE UNCHANGED <<heap, tasks, run, worker>>
    BY <1>1 DEF CountsMatch, CurrentTasks, Served, Due, Queued
  <1>2. QED
    BY <1>1, RequestsKeepCounts, DispatchersKeepCounts, WorkersKeepCounts
    DEF Next, GopeedWorks, handler, vars

LEMMA InitCounts == Init => CountsMatch
  <1> SUFFICES ASSUME Init PROVE CountsMatch
    OBVIOUS
  <1>1. NoRun.pc = "none"
    BY DEF NoRun
  <1>2. QED  BY <1>1 DEF Init, CountsMatch, Served

\* A start or a resume never takes the list from a run that still has indices
\* into it, for it waits for the run's tail: when a goroutine does die of an
\* index, a clear has dropped the list (and in the code it does, as the run
\* batch_clear shows).
THEOREM PanicsFollowClears == ~Overlap => (Spec => []OnlyClearsPanic)
  <1> SUFFICES ASSUME ~Overlap PROVE Spec => []OnlyClearsPanic
    OBVIOUS
  <1>1. Init => OnlyClearsPanic
    BY DEF Init, OnlyClearsPanic
  <1>2. TypeOK /\ WorkersPoint /\ RunsOK /\ CountsMatch /\ OnlyClearsPanic /\ [Next]_vars
          => OnlyClearsPanic'
    <2>1. SUFFICES ASSUME TypeOK, WorkersPoint, RunsOK, CountsMatch, OnlyClearsPanic, [Next]_vars
                   PROVE  OnlyClearsPanic'
      OBVIOUS
    <2>2. CASE panicked
      BY <2>1, <2>2 DEF Next, vars, OnlyClearsPanic
    <2>3. ASSUME NEW c \in Clients, RequestStep(c) PROVE UNCHANGED panicked
      BY <2>1, <2>3, RequestEffect
    <2>4. ASSUME NEW r \in Runs, DispatcherStep(r)
          PROVE  UNCHANGED panicked \/ (tasks = 0 /\ UNCHANGED tasks)
      <3>1. CASE Dispatch(r) /\ tasks # 0
        <4>1. Served(r) /\ run[r].next <= run[r].count
          BY <3>1 DEF Dispatch, Served
        <4>2. run[r].count = Len(CurrentTasks)
          BY <2>1, <3>1, <4>1 DEF CountsMatch
        <4>3. run[r].next \in Nat /\ Len(CurrentTasks) \in Nat
          <5>1. run[r].next \in 1 .. MaxTasks + 1
            BY <2>1 DEF TypeOK, RunRecords
          <5>2. QED  BY <2>1, <5>1, CurrentTyped, BoundsAssumption
        <4>4. ~(run[r].next > Len(CurrentTasks))
          BY <4>1, <4>2, <4>3
        <4>5. QED  BY <3>1, <4>4 DEF Dispatch
      <3>2. CASE Dispatch(r) /\ tasks = 0
        BY <3>2 DEF Dispatch, Panic, handler
      <3>3. QED
        BY <2>4, <3>1, <3>2 DEF DispatcherStep, RunBegins, RunAborts, RunReleases, WorkersStart,
                                CloseChannel, RunEnds
    <2>5. ASSUME NEW r \in Runs, NEW w \in Workers, WorkerStep(r, w)
          PROVE  UNCHANGED panicked \/ (tasks = 0 /\ UNCHANGED tasks)
      <3>1. CASE WorkerTakes(r, w) /\ tasks # 0
        <4>1. worker[r][w].pc = "taken" /\ worker[r][w].index \in Indices
          BY <2>1, <3>1 DEF WorkerTakes, WorkersPoint, Points
        <4>2. Served(r) /\ Due(r, worker[r][w].index)
          BY <2>1, <4>1 DEF RunsOK, WorkersLive, Due
        <4>3. worker[r][w].index <= Len(CurrentTasks)
          BY <2>1, <3>1, <4>1, <4>2 DEF CountsMatch
        <4>4. worker[r][w].index \in Nat /\ Len(CurrentTasks) \in Nat
          BY <2>1, <4>1, CurrentTyped, BoundsAssumption DEF Indices
        <4>5. ~(worker[r][w].index > Len(CurrentTasks))
          BY <4>3, <4>4
        <4>6. QED  BY <3>1, <4>5 DEF WorkerTakes
      <3>2. CASE WorkerTakes(r, w) /\ tasks = 0
        BY <2>1, <3>2, WorkerLengths, <2>5
      <3>3. QED
        BY <2>5, <3>1, <3>2 DEF WorkerStep, Receive, WorkerExits, NoDownload, AttemptStarts,
               CreateGopeedTask, RecordGopeedTask, ConnectFails, ContinueGopeedTask,
               ForgetGopeedTask, WaitCancelled, WaitPaused, WaitDone, DownloadFails, SaveVideo,
               Settle
    <2>6. CASE ~panicked
      <3>1. UNCHANGED panicked \/ (tasks = 0 /\ UNCHANGED tasks)
        BY <2>1, <2>3, <2>4, <2>5 DEF Next, GopeedWorks, vars
      <3>2. QED  BY <2>6, <3>1 DEF OnlyClearsPanic
    <2>7. QED  BY <2>2, <2>6
  <1>3. QED
    BY <1>1, <1>2, InitCounts, StepsKeepCounts, AlwaysRuns, AlwaysMatch, TypeCorrect, PTL DEF Spec
=============================================================================
