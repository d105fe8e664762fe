----------------------------- MODULE JobLedger -----------------------------
(***************************************************************************)
(* An erase job and the points it freezes, from POST /api/jobs to the poll *)
(* (GET /api/jobs/[id]) that settles it.                                   *)
(*                                                                         *)
(* better-sqlite3 is synchronous, so in the one Node process whatever runs *)
(* between two awaits is atomic: an action here is such a stretch of a     *)
(* handler.  Handlers of different requests interleave at their awaits,    *)
(* the provider works on its own, and the process may crash anywhere; the  *)
(* database survives a crash, the handlers in flight do not.               *)
(***************************************************************************)
EXTENDS Wallet, Pricing

CONSTANTS Slots,            \* polls of one job that may be in flight together
          Durations,        \* lengths (s) the server can verify for a video
          RemoteDurations,  \* lengths the provider reports; 0 is "none reported"
          PackagePoints     \* points an order buys

ASSUME DurationsAssumption ==
  Durations \subseteq Nat /\ RemoteDurations \subseteq Nat
ASSUME PackagesAssumption == PackagePoints \subseteq Nat \ {0}
ASSUME RefsAssumption == Jobs \cap Orders = {}

VARIABLES post,      \* the POST handler of each job and its locals
          jobs,      \* the table jobs
          provider,  \* the provider's task for the job's client token
          poll       \* the GET handlers in flight, per job and slot

vars == <<balance, ledger, post, jobs, provider, poll>>

Sources == {"direct", "douyin"}
PostStates == {"idle", "reserved", "submitting", "done", "refunded", "dead"}
JobStatuses == {"absent", "submitting", "running",
                "completed", "failed", "submit_failed"}
TerminalStatuses == {"completed", "failed", "submit_failed"}
ProviderStates == {"none", "working", "completed", "failed"}

Tasks == [state : ProviderStates, duration : RemoteDurations \cup {0}]

\* The handler of a request that was let in, and its locals.
Requests == [pc : PostStates \ {"idle"}, user : Users, seconds : Durations,
             mode : Modes, source : Sources, held : Nat]
NoRequest == [pc |-> "idle"]

JobRows == [status : JobStatuses \ {"absent"}, user : Users, seconds : Durations,
            mode : Modes, reserved : Nat, task : BOOLEAN, final : Nat \cup {-1}]
NoRow == [status |-> "absent"]

Polls == [pc : {"idle", "querying"}] \cup [pc : {"answered"}, remote : Tasks]

TypeOK ==
  /\ WalletTypeOK
  /\ post \in [Jobs -> Requests \cup {NoRequest}]
  /\ jobs \in [Jobs -> JobRows \cup {NoRow}]
  /\ provider \in [Jobs -> Tasks]
  /\ poll \in [Jobs -> [Slots -> Polls]]

NoTask == [state |-> "none", duration |-> 0]

Init ==
  /\ WalletInit
  /\ post = [j \in Jobs |-> NoRequest]
  /\ jobs = [j \in Jobs |-> NoRow]
  /\ provider = [j \in Jobs |-> NoTask]
  /\ poll = [j \in Jobs |-> [s \in Slots |-> [pc |-> "idle"]]]

-----------------------------------------------------------------------------
(* POST /api/jobs *)

\* The request is authenticated and parsed, the length comes from the resolve
\* cache or the provider's probe, and the first transaction freezes the price.
\* A refused request (401, 400, 422, 402) changes nothing.
Reserve(j, u, seconds, mode, source) ==
  LET held == reservePoints(seconds, mode)
  IN  /\ post[j].pc = "idle"
      /\ seconds <= SixHours
      /\ balance[u] >= held
      /\ Transfer(u, j, "reserve", -held)
      /\ post' = [post EXCEPT ![j] =
                    [pc |-> "reserved", user |-> u, seconds |-> seconds,
                     mode |-> mode, source |-> source, held |-> held]]
      /\ UNCHANGED <<jobs, provider, poll>>

\* The second transaction: the catch clause gives everything back.
RefundSubmission(j) ==
  /\ Transfer(post[j].user, j, "refund", post[j].held)
  /\ post' = [post EXCEPT ![j].pc = "refunded"]
  /\ UNCHANGED <<provider, poll>>

\* A Douyin video is fetched and uploaded before there is a job row; when that
\* fails the UPDATE of the catch clause finds no row.
IngestFails(j) ==
  /\ post[j].pc = "reserved"
  /\ post[j].source = "douyin"
  /\ RefundSubmission(j)
  /\ UNCHANGED jobs

InsertJob(j) ==
  /\ post[j].pc = "reserved"
  /\ jobs' = [jobs EXCEPT ![j] =
                [status |-> "submitting", user |-> post[j].user,
                 seconds |-> post[j].seconds, mode |-> post[j].mode,
                 reserved |-> post[j].held, task |-> FALSE, final |-> -1]]
  /\ post' = [post EXCEPT ![j].pc = "submitting"]
  /\ UNCHANGED <<balance, ledger, provider, poll>>

\* The provider's answer arrives: the row gets its provider_task_id.
SubmitReturns(j) ==
  /\ post[j].pc = "submitting"
  /\ provider[j].state # "none"
  /\ jobs' = [jobs EXCEPT ![j].task = TRUE, ![j].status = "running"]
  /\ post' = [post EXCEPT ![j].pc = "done"]
  /\ UNCHANGED <<balance, ledger, provider, poll>>

\* Mutant of SubmitFails: the try block also holds the answer to the browser.
SubmitFails_AnswerToo(j) ==
  /\ post[j].pc \in {"submitting", "done"}
  /\ jobs' = [jobs EXCEPT ![j].status = "submit_failed"]
  /\ RefundSubmission(j)

\* The provider refuses, or its answer is lost although it took the task.
SubmitFails(j) ==
  /\ post[j].pc = "submitting"
  /\ jobs' = [jobs EXCEPT ![j].status = "submit_failed"]
  /\ RefundSubmission(j)

-----------------------------------------------------------------------------
(* The provider, which sees the request sent by submitEraseJob *)

ProviderAccepts(j) ==
  /\ post[j].pc = "submitting"
  /\ provider[j].state = "none"
  /\ provider' = [provider EXCEPT ![j].state = "working"]
  /\ UNCHANGED <<balance, ledger, post, jobs, poll>>

ProviderCompletes(j, seconds) ==
  /\ provider[j].state = "working"
  /\ provider' = [provider EXCEPT ![j] =
                    [state |-> "completed", duration |-> seconds]]
  /\ UNCHANGED <<balance, ledger, post, jobs, poll>>

ProviderGivesUp(j) ==
  /\ provider[j].state = "working"
  /\ provider' = [provider EXCEPT ![j].state = "failed"]
  /\ UNCHANGED <<balance, ledger, post, jobs, poll>>

-----------------------------------------------------------------------------
(* GET /api/jobs/[id], asked by the job's owner *)

\* Mutant of Pollable: a job that runs is taken for one nobody need ask about.
Pollable_Submitting(row) == row.status = "submitting" /\ row.task

Pollable(row) ==
  /\ row.status \in {"running", "submitting"}
  /\ row.task

\* Read the row; a job without a provider task, or one that is over, is
\* returned at once.  The columns used after the await never change later, so
\* the snapshot of the row is its row.
PollStart(j, s) ==
  /\ poll[j][s].pc = "idle"
  /\ Pollable(jobs[j])
  /\ poll' = [poll EXCEPT ![j][s] = [pc |-> "querying"]]
  /\ UNCHANGED <<balance, ledger, post, jobs, provider>>

\* The provider reports the task as it is now; the reply is read later.
PollAnswered(j, s) ==
  /\ poll[j][s].pc = "querying"
  /\ poll' = [poll EXCEPT ![j][s] = [pc |-> "answered", remote |-> provider[j]]]
  /\ UNCHANGED <<balance, ledger, post, jobs, provider>>

\* The query throws: the row is returned with a pollError.
PollFails(j, s) ==
  /\ poll[j][s].pc = "querying"
  /\ poll' = [poll EXCEPT ![j][s] = [pc |-> "idle"]]
  /\ UNCHANGED <<balance, ledger, post, jobs, provider>>

\* Mutant of Charged: no cap at the hold.
Charged_Uncapped(row, reported) ==
  usagePoints(IF reported > 0 THEN reported ELSE row.seconds, row.mode)

\* What the finished job costs: the price of the output, at most what is held.
Charged(row, reported) ==
  LET output == usagePoints(IF reported > 0 THEN reported ELSE row.seconds, row.mode)
  IN  IF output < row.reserved THEN output ELSE row.reserved

\* Mutant of StillRunning: the UPDATE lost its AND status = 'running'.
StillRunning_AnyStatus(j) == jobs[j].status # "absent"

\* UPDATE ... WHERE id = ? AND status = 'running' changes one row.
StillRunning(j) == jobs[j].status = "running"

SettleCompleted(j, reported) ==
  LET charged == Charged(jobs[j], reported)
      adjustment == jobs[j].reserved - charged
  IN  /\ jobs' = [jobs EXCEPT ![j].status = "completed", ![j].final = charged]
      /\ IF adjustment # 0
         THEN Transfer(jobs[j].user, j, "settlement", adjustment)
         ELSE UNCHANGED walletVars

\* Mutant of SettleFailed: the job is closed and its hold kept.
SettleFailed_KeepsHold(j) ==
  /\ jobs' = [jobs EXCEPT ![j].status = "failed"]
  /\ UNCHANGED walletVars

SettleFailed(j) ==
  /\ jobs' = [jobs EXCEPT ![j].status = "failed"]
  /\ Transfer(jobs[j].user, j, "refund", jobs[j].reserved)

\* The rest of the handler: a finished task is settled by the first poll that
\* finds the row still running.
PollApplies(j, s) ==
  /\ poll[j][s].pc = "answered"
  /\ \/ /\ poll[j][s].remote.state = "completed"
        /\ StillRunning(j)
        /\ SettleCompleted(j, poll[j][s].remote.duration)
     \/ /\ poll[j][s].remote.state = "failed"
        /\ StillRunning(j)
        /\ SettleFailed(j)
     \/ /\ poll[j][s].remote.state = "working" \/ ~StillRunning(j)
        /\ UNCHANGED <<jobs, balance, ledger>>
  /\ poll' = [poll EXCEPT ![j][s] = [pc |-> "idle"]]
  /\ UNCHANGED <<post, provider>>

-----------------------------------------------------------------------------
(* The environment *)

\* A recharge order is paid (module Payments has the detail): once per order.
Credit(o, u, points) ==
  /\ ledger[o] = <<>>
  /\ Transfer(u, o, "recharge", points)
  /\ UNCHANGED <<post, jobs, provider, poll>>

\* The Node process dies and is restarted; nothing looks for half-done work.
Crash ==
  /\ post' = [j \in Jobs |-> IF post[j].pc \in {"reserved", "submitting"}
                             THEN [post[j] EXCEPT !.pc = "dead"] ELSE post[j]]
  /\ poll' = [j \in Jobs |-> [s \in Slots |-> [pc |-> "idle"]]]
  /\ UNCHANGED <<balance, ledger, jobs, provider>>

PostStep(j) ==
  \/ \E u \in Users, seconds \in Durations, mode \in Modes, source \in Sources :
       Reserve(j, u, seconds, mode, source)
  \/ IngestFails(j)
  \/ InsertJob(j)
  \/ SubmitReturns(j)
  \/ SubmitFails(j)

ProviderStep(j) ==
  \/ ProviderAccepts(j)
  \/ \E seconds \in RemoteDurations : ProviderCompletes(j, seconds)
  \/ ProviderGivesUp(j)

PollStep(j, s) ==
  \/ PollStart(j, s)
  \/ PollAnswered(j, s)
  \/ PollFails(j, s)
  \/ PollApplies(j, s)

Next ==
  \/ \E j \in Jobs : PostStep(j)
  \/ \E j \in Jobs : ProviderStep(j)
  \/ \E j \in Jobs, s \in Slots : PollStep(j, s)
  \/ \E o \in Orders, u \in Users, points \in PackagePoints : Credit(o, u, points)
  \/ Crash

Spec == Init /\ [][Next]_vars

(***************************************************************************)
(* Fairness: a handler that is running gets on (Node's event loop; a fetch *)
(* ends, if only by its time-out), the provider finishes its tasks, the    *)
(* dashboard's 5 s timer keeps polling an open job, and neither does every *)
(* query of the provider fail nor a crash cut off every poll.  Nothing     *)
(* makes a user submit or the process crash.                               *)
(***************************************************************************)
Fairness ==
  /\ \A j \in Jobs :
       /\ WF_vars(InsertJob(j) \/ IngestFails(j))
       /\ WF_vars(SubmitReturns(j) \/ SubmitFails(j))
       /\ WF_vars(ProviderGivesUp(j) \/ \E seconds \in RemoteDurations :
                                           ProviderCompletes(j, seconds))
  /\ \A j \in Jobs, s \in Slots :
       /\ WF_vars(PollStart(j, s))
       /\ SF_vars(PollAnswered(j, s))
       /\ SF_vars(PollApplies(j, s))

FairSpec == Spec /\ Fairness

-----------------------------------------------------------------------------
(* Properties *)

\* Nobody spends points they do not have: the check and the deduction of every
\* reservation are one transaction, and settling a job never takes more.
NoOverdraft == \A u \in Users : balance[u] >= 0

\* The row a handler must have written when it closed job j; none while the
\* job is open, or when the whole hold was charged.
ClosingRows(j) ==
  CASE post[j].pc = "refunded" ->
         << Row(post[j].user, "refund", post[j].held) >>
    [] jobs[j].status = "failed" ->
         << Row(jobs[j].user, "refund", jobs[j].reserved) >>
    [] jobs[j].status = "completed" /\ jobs[j].final # jobs[j].reserved ->
         << Row(jobs[j].user, "settlement", jobs[j].reserved - jobs[j].final) >>
    [] OTHER -> <<>>

\* The ledger rows job j calls for.
RowsOf(j) ==
  IF post[j].pc = "idle" THEN <<>>
  ELSE << Row(post[j].user, "reserve", -post[j].held) >> \o ClosingRows(j)

\* However submissions, polls and crashes interleave, the ledger rows of a job
\* are one reservation and the single closing row its state calls for: no hold
\* is given back twice (concurrent polls, a refund after a settlement), and no
\* job is closed without its row.
LedgerExplainsJobs == \A j \in Jobs : ledger[j] = RowsOf(j)

\* What ties a POST handler to its row: the part of the inductive invariant
\* that says which rows each point of the handler can meet.
HandlerMatchesRow ==
  \A j \in Jobs :
    /\ post[j].pc \in {"idle", "reserved"} => jobs[j].status = "absent"
    /\ post[j].pc = "submitting" => jobs[j].status = "submitting"
    /\ post[j].pc = "done" => jobs[j].status \in {"running", "completed", "failed"}
    /\ post[j].pc = "refunded" => jobs[j].status \in {"absent", "submit_failed"}
    /\ post[j].pc = "dead" => jobs[j].status \in {"absent", "submitting"}
    /\ jobs[j].status # "absent" =>
         /\ jobs[j].user = post[j].user
         /\ jobs[j].reserved = post[j].held
    /\ jobs[j].status = "completed" => jobs[j].final \in 0 .. jobs[j].reserved

IInv == TypeOK /\ NoOverdraft /\ HandlerMatchesRow /\ LedgerExplainsJobs

\* Every step that moves a balance writes the one ledger row that explains it,
\* for the same user and amount, and no row appears without its movement.
DoubleEntry ==
  [][ \/ UNCHANGED walletVars
      \/ \E ref \in Refs :
           /\ ledger'[ref] # ledger[ref]
           /\ LET row == ledger'[ref][Len(ledger'[ref])]
              IN  /\ ledger' = [ledger EXCEPT ![ref] = Append(@, row)]
                  /\ balance' = [balance EXCEPT ![row.user] = @ + row.points]
    ]_vars

\* A job that is over stays as it was settled: a late answer of the provider,
\* a second poll or the submitting handler never reopens or re-prices it.
SettledForGood ==
  [][ \A j \in Jobs : jobs[j].status \in TerminalStatuses => jobs'[j] = jobs[j] ]_vars

Closed(j) == post[j].pc = "refunded" \/ jobs[j].status \in TerminalStatuses

\* Every hold is closed in the end, though the process may be restarted any
\* number of times: the submission is refunded, or the job is settled by a poll.
\* Only a restart in the midst of the submission itself leaves it open.
HoldsClose == \A j \in Jobs : (ledger[j] # <<>>) ~> (Closed(j) \/ post[j].pc = "dead")

Refunded(j) == \E i \in DOMAIN ledger[j] : ledger[j][i].type = "refund"

\* PRICING.md: a job whose processing fails gets all its frozen points back.
\* False across a restart: the row of a submission the crash cut off has no
\* provider_task_id, so no poll ever asks about it.
FailedWorkIsRefunded ==
  \A j \in Jobs : (provider[j].state = "failed") ~> Refunded(j)

-----------------------------------------------------------------------------
(* The promise this module keeps (PointsAccount), under this mapping *)

accountOf(r) ==
  IF ledger[r] = <<>> THEN [phase |-> "none"]
  ELSE IF r \in Orders
  THEN [phase |-> "toppedUp", user |-> ledger[r][1].user, points |-> ledger[r][1].points]
  ELSE IF ~Closed(r)
  THEN [phase |-> "held", user |-> post[r].user, points |-> post[r].held]
  ELSE [phase |-> "closed", user |-> post[r].user, points |-> post[r].held,
        charged |-> IF jobs[r].status = "completed" THEN jobs[r].final ELSE 0]

JobPrices == {reservePoints(seconds, mode) : seconds \in Durations, mode \in Modes}

PA == INSTANCE PointsAccount WITH
        Welcome <- welcomePoints,
        Prices <- JobPrices,
        account <- [r \in Refs |-> accountOf(r)]

\* Reservations, refunds, settlements and recharges are the holds, closings and
\* top-ups of PointsAccount, and every other step of a handler is invisible.
KeepsAccounts == PA!Spec
=============================================================================
