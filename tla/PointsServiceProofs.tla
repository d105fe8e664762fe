------------------------- MODULE PointsServiceProofs -------------------------
(***************************************************************************)
(* Proofs about the erase jobs (JobLedger) and about the whole service, in *)
(* which the payment handlers are their environment, for every set of      *)
(* users, jobs, orders, polls and durations, and every price of a package. *)
(***************************************************************************)
EXTENDS PointsService, SequenceTheorems, TLAPS

-----------------------------------------------------------------------------
(* The transactions of Wallet *)

\* A transaction changes one balance by its amount and appends one row.
LEMMA TransferEffect ==
  ASSUME WalletTypeOK, NEW u \in Users, NEW ref \in Refs, NEW type \in RowTypes,
         NEW n \in Int, Transfer(u, ref, type, n)
  PROVE  /\ WalletTypeOK'
         /\ balance'[u] = balance[u] + n
         /\ \A v \in Users \ {u} : balance'[v] = balance[v]
         /\ ledger'[ref] = Append(ledger[ref], Row(u, type, n))
         /\ \A r \in Refs \ {ref} : ledger'[r] = ledger[r]
<1>1. Row(u, type, n) \in Rows
  BY DEF Row, Rows
<1>. QED
  BY <1>1 DEF WalletTypeOK, Transfer

\* The ledger of one reference: a first row, then nothing or a second one.
LEMMA RowsAreOneOrTwo ==
  ASSUME NEW x, NEW y
  PROVE  /\ << x >> \o << >> = << x >>
         /\ << x >> \o << y >> = << x, y >>
         /\ Append(<< x >>, y) = << x, y >>
<1>. DEFINE S == {x, y}
<1>1. /\ << x >> \in Seq(S) /\ << y >> \in Seq(S)
      /\ << x, y >> \in Seq(S) /\ y \in S
  OBVIOUS
<1>2. /\ Append(<< x >>, y) \in Seq(S)
      /\ Len(Append(<< x >>, y)) = 2
      /\ Append(<< x >>, y)[1] = x
      /\ Append(<< x >>, y)[2] = y
  BY <1>1, AppendProperties
<1>3. Len(<< x, y >>) = 2 /\ << x, y >>[1] = x /\ << x, y >>[2] = y
  OBVIOUS
<1>4. 1 .. 2 = {1, 2}
  OBVIOUS
<1>5. Append(<< x >>, y) = << x, y >>
  BY <1>1, <1>2, <1>3, <1>4, SeqEqual
<1>6. Append(<< x >>, y) = << x >> \o << y >>
  BY <1>1, AppendIsConcat
<1>7. << x >> \o << >> = << x >>
  BY <1>1, ConcatEmptySeq
<1>. QED
  BY <1>5, <1>6, <1>7

\* A transaction is a double entry.
LEMMA TransferIsDoubleEntry ==
  ASSUME WalletTypeOK, NEW u \in Users, NEW ref \in Refs, NEW type \in RowTypes,
         NEW n \in Int, Transfer(u, ref, type, n)
  PROVE  \E r \in Refs :
           /\ ledger'[r] # ledger[r]
           /\ LET row == ledger'[r][Len(ledger'[r])]
              IN  /\ ledger' = [ledger EXCEPT ![r] = Append(@, row)]
                  /\ balance' = [balance EXCEPT ![row.user] = @ + row.points]
<1>. DEFINE row == Row(u, type, n)
<1>1. row \in Rows /\ row.user = u /\ row.points = n
  BY DEF Row, Rows
<1>2. ledger[ref] \in Seq(Rows)
  BY DEF WalletTypeOK
<1>3. /\ Len(Append(ledger[ref], row)) = Len(ledger[ref]) + 1
      /\ Append(ledger[ref], row)[Len(ledger[ref]) + 1] = row
  BY <1>1, <1>2, AppendProperties
<1>4. /\ ledger' = [ledger EXCEPT ![ref] = Append(@, row)]
      /\ balance' = [balance EXCEPT ![u] = @ + n]
      /\ ledger'[ref] = Append(ledger[ref], row)
  BY DEF Transfer, WalletTypeOK
<1>. HIDE DEF row
<1>5. Len(ledger[ref]) \in Nat
  BY <1>2, LenProperties
<1>6. ledger'[ref] # ledger[ref]
  <2>. SUFFICES ASSUME Append(ledger[ref], row) = ledger[ref] PROVE FALSE
    BY <1>4
  <2>1. Len(ledger[ref]) = Len(ledger[ref]) + 1
    BY <1>3
  <2>. QED
    BY <1>5, <2>1
<1>7. ledger'[ref][Len(ledger'[ref])] = row
  BY <1>3, <1>4
<1>. QED
  BY <1>1, <1>4, <1>6, <1>7

-----------------------------------------------------------------------------
(* The erase jobs *)

\* What a lookup of the price list gives is a positive number of points.
LEMMA PriceIsPositive ==
  ASSUME NEW seconds \in Nat, NEW mode \in Modes
  PROVE  /\ usagePoints(seconds, mode) \in Nat
         /\ usagePoints(seconds, mode) >= 1
<1>1. rates[mode] \in Nat
  BY DEF rates, Modes
<1>2. seconds * rates[mode] \in Nat
  BY <1>1
<1>3. CeilDiv(seconds * rates[mode], 60) \in Int
  BY <1>2 DEF CeilDiv
<1>. QED
  BY <1>3 DEF usagePoints

\* Accounts start with their welcome points and an empty ledger.
LEMMA InitInv == Init => IInv
<1>. SUFFICES ASSUME Init PROVE IInv
  OBVIOUS
<1>1. TypeOK
  BY DEF Init, TypeOK, WalletInit, WalletTypeOK, welcomePoints, NoTask, Tasks,
         ProviderStates, Polls
<1>2. NoOverdraft
  <2>. SUFFICES ASSUME NEW u \in Users PROVE balance[u] >= 0
    BY DEF NoOverdraft
  <2>1. balance[u] = 20
    BY DEF Init, WalletInit, welcomePoints
  <2>. QED
    BY <2>1
<1>3. HandlerMatchesRow
  BY DEF Init, HandlerMatchesRow, NoRow, NoRequest
<1>4. LedgerExplainsJobs
  BY DEF Init, WalletInit, LedgerExplainsJobs, RowsOf, Refs, NoRequest
<1>. QED
  BY <1>1, <1>2, <1>3, <1>4 DEF IInv

\* The first transaction: the guard keeps the balance at or above zero.
LEMMA ReserveInv ==
  ASSUME IInv, NEW j \in Jobs, NEW u \in Users, NEW seconds \in Durations,
         NEW mode \in Modes, NEW source \in Sources,
         Reserve(j, u, seconds, mode, source)
  PROVE  IInv'
<1>. USE DEF IInv
<1>. DEFINE held == reservePoints(seconds, mode)
<1>1. held \in Nat /\ held >= 1
  BY PriceIsPositive, DurationsAssumption DEF reservePoints
<1>2. /\ post[j].pc = "idle" /\ held <= balance[u]
      /\ Transfer(u, j, "reserve", -held)
      /\ post' = [post EXCEPT ![j] =
                    [pc |-> "reserved", user |-> u, seconds |-> seconds,
                     mode |-> mode, source |-> source, held |-> held]]
      /\ UNCHANGED <<jobs, provider, poll>>
  BY DEF Reserve
<1>. HIDE DEF held
<1>3. /\ WalletTypeOK'
      /\ balance'[u] = balance[u] - held
      /\ \A v \in Users \ {u} : balance'[v] = balance[v]
      /\ ledger'[j] = Append(ledger[j], Row(u, "reserve", -held))
      /\ \A r \in Refs \ {j} : ledger'[r] = ledger[r]
  <2>1. -held \in Int /\ j \in Refs /\ "reserve" \in RowTypes
    BY <1>1 DEF Refs, RowTypes
  <2>2. balance[u] \in Int
    BY DEF TypeOK, WalletTypeOK
  <2>. QED
    BY <1>1, <1>2, <2>1, <2>2, TransferEffect DEF TypeOK
<1>4. post'[j] \in Requests /\ post'[j] # NoRequest
  BY <1>1, <1>2 DEF TypeOK, Requests, PostStates, NoRequest
<1>5. TypeOK'
  BY <1>2, <1>3, <1>4 DEF TypeOK
<1>6. NoOverdraft'
  <2>. SUFFICES ASSUME NEW v \in Users PROVE balance'[v] >= 0
    BY DEF NoOverdraft
  <2>1. balance[v] >= 0 /\ balance[v] \in Int /\ balance[u] \in Int
    BY DEF NoOverdraft, TypeOK, WalletTypeOK
  <2>2. CASE v = u
    BY <1>1, <1>2, <1>3, <2>1, <2>2
  <2>3. CASE v # u
    BY <1>3, <2>1, <2>3
  <2>. QED
    BY <2>2, <2>3
<1>7. jobs[j].status = "absent"
  BY <1>2 DEF HandlerMatchesRow
<1>8. HandlerMatchesRow'
  BY <1>2, <1>7 DEF HandlerMatchesRow, TypeOK
<1>9. LedgerExplainsJobs'
  <2>1. ledger[j] = <<>>
    BY <1>2 DEF LedgerExplainsJobs, RowsOf
  <2>2. ledger'[j] = << Row(u, "reserve", -held) >>
    BY <1>3, <2>1
  <2>. SUFFICES ASSUME NEW i \in Jobs
                PROVE  ledger'[i] = RowsOf(i)'
    BY DEF LedgerExplainsJobs
  <2>3. CASE i = j
    <3>1. ClosingRows(j)' = <<>>
      BY <1>2, <1>7 DEF ClosingRows, TypeOK
    <3>2. post'[j].pc = "reserved" /\ post'[j].user = u /\ post'[j].held = held
      BY <1>2 DEF TypeOK
    <3>. QED
      BY <2>2, <2>3, <3>1, <3>2 DEF Row, RowsOf
  <2>4. CASE i # j
    BY <1>2, <1>3, <2>4 DEF LedgerExplainsJobs, TypeOK, RowsOf, ClosingRows, Refs
  <2>. QED
    BY <2>3, <2>4
<1>. QED
  BY <1>5, <1>6, <1>8, <1>9

\* INSERT INTO jobs.
LEMMA InsertJobInv ==
  ASSUME IInv, NEW j \in Jobs, InsertJob(j)
  PROVE  IInv'
<1>. USE DEF IInv
<1>0. post[j] \in Requests
  BY DEF TypeOK, InsertJob, NoRequest
<1>1. TypeOK'
  <2>1. post'[j] \in Requests
    BY <1>0 DEF TypeOK, InsertJob, Requests, PostStates
  <2>2. jobs'[j] \in JobRows
    BY <1>0 DEF TypeOK, InsertJob, Requests, JobRows, JobStatuses
  <2>. QED
    BY <2>1, <2>2 DEF TypeOK, WalletTypeOK, InsertJob
<1>2. NoOverdraft'
  BY DEF NoOverdraft, InsertJob
<1>3. HandlerMatchesRow'
  BY <1>0 DEF HandlerMatchesRow, InsertJob, TypeOK, Requests
<1>4. LedgerExplainsJobs'
  BY <1>0 DEF LedgerExplainsJobs, RowsOf, InsertJob, TypeOK, ClosingRows, HandlerMatchesRow, Requests
<1>. QED
  BY <1>1, <1>2, <1>3, <1>4

\* The UPDATE that records the provider's task.
LEMMA SubmitReturnsInv ==
  ASSUME IInv, NEW j \in Jobs, SubmitReturns(j)
  PROVE  IInv'
<1>. USE DEF IInv
<1>1. /\ post[j] \in Requests /\ post[j].pc = "submitting"
      /\ jobs[j] \in JobRows /\ jobs[j].status = "submitting"
  BY DEF TypeOK, SubmitReturns, NoRequest, NoRow, HandlerMatchesRow
<1>2. /\ jobs' = [jobs EXCEPT ![j].task = TRUE, ![j].status = "running"]
      /\ post' = [post EXCEPT ![j].pc = "done"]
      /\ UNCHANGED <<balance, ledger, provider, poll>>
  BY DEF SubmitReturns
<1>3. /\ jobs'[j] \in JobRows /\ jobs'[j].status = "running"
      /\ jobs'[j].user = jobs[j].user /\ jobs'[j].reserved = jobs[j].reserved
  BY <1>1, <1>2 DEF TypeOK, JobRows, JobStatuses
<1>4. /\ post'[j] \in Requests /\ post'[j].pc = "done"
      /\ post'[j].user = post[j].user /\ post'[j].held = post[j].held
  BY <1>1, <1>2 DEF TypeOK, Requests, PostStates
<1>5. TypeOK'
  BY <1>2, <1>3, <1>4 DEF TypeOK, WalletTypeOK
<1>6. NoOverdraft'
  BY <1>2 DEF NoOverdraft
<1>7. HandlerMatchesRow'
  BY <1>1, <1>2, <1>3, <1>4 DEF HandlerMatchesRow, TypeOK
<1>8. LedgerExplainsJobs'
  BY <1>1, <1>2, <1>3, <1>4 DEF LedgerExplainsJobs, RowsOf, ClosingRows, TypeOK
<1>. QED
  BY <1>5, <1>6, <1>7, <1>8

\* The catch clause, for a job whose row (if it has one) ends submit_failed.
LEMMA RefundSubmissionInv ==
  ASSUME IInv, NEW j \in Jobs, RefundSubmission(j),
         \/ post[j].pc = "reserved" /\ jobs' = jobs
         \/ /\ post[j].pc = "submitting"
            /\ jobs' = [jobs EXCEPT ![j].status = "submit_failed"]
  PROVE  IInv'
<1>. USE DEF IInv
<1>1. post[j] \in Requests /\ post[j].pc \in {"reserved", "submitting"}
  BY DEF TypeOK, NoRequest
<1>2. /\ Transfer(post[j].user, j, "refund", post[j].held)
      /\ post' = [post EXCEPT ![j].pc = "refunded"]
      /\ UNCHANGED <<provider, poll>>
  BY DEF RefundSubmission
<1>3. /\ post[j].user \in Users /\ post[j].held \in Nat
  BY <1>1 DEF Requests
<1>4. /\ WalletTypeOK'
      /\ balance'[post[j].user] = balance[post[j].user] + post[j].held
      /\ \A v \in Users \ {post[j].user} : balance'[v] = balance[v]
      /\ ledger'[j] = Append(ledger[j], Row(post[j].user, "refund", post[j].held))
      /\ \A r \in Refs \ {j} : ledger'[r] = ledger[r]
  <2>1. j \in Refs /\ "refund" \in RowTypes /\ post[j].held \in Int
    BY <1>3 DEF Refs, RowTypes
  <2>. QED
    BY <1>2, <1>3, <2>1, TransferEffect DEF TypeOK
<1>5. /\ post'[j] \in Requests /\ post'[j].pc = "refunded"
      /\ post'[j].user = post[j].user /\ post'[j].held = post[j].held
  BY <1>1, <1>2 DEF TypeOK, Requests, PostStates
<1>6. /\ jobs'[j] \in JobRows \cup {NoRow}
      /\ jobs'[j].status \in {"absent", "submit_failed"}
      /\ jobs'[j].status # "absent" =>
           jobs'[j].user = post[j].user /\ jobs'[j].reserved = post[j].held
      /\ \A i \in Jobs \ {j} : jobs'[i] = jobs[i]
      /\ jobs' \in [Jobs -> JobRows \cup {NoRow}]
  <2>1. CASE post[j].pc = "reserved" /\ jobs' = jobs
    BY <2>1 DEF TypeOK, HandlerMatchesRow
  <2>2. CASE /\ post[j].pc = "submitting"
             /\ jobs' = [jobs EXCEPT ![j].status = "submit_failed"]
    <3>1. jobs[j] \in JobRows /\ jobs[j].status = "submitting"
      BY <2>2 DEF TypeOK, HandlerMatchesRow, NoRow
    <3>2. jobs'[j] \in JobRows /\ jobs'[j].status = "submit_failed"
      BY <2>2, <3>1 DEF TypeOK, JobRows, JobStatuses
    <3>3. jobs'[j].user = jobs[j].user /\ jobs'[j].reserved = jobs[j].reserved
      BY <2>2, <3>1 DEF TypeOK, JobRows
    <3>. QED
      BY <2>2, <3>1, <3>2, <3>3 DEF TypeOK, HandlerMatchesRow
  <2>. QED
    BY <2>1, <2>2
<1>7. TypeOK'
  BY <1>2, <1>4, <1>5, <1>6 DEF TypeOK
<1>8. NoOverdraft'
  <2>. SUFFICES ASSUME NEW v \in Users PROVE balance'[v] >= 0
    BY DEF NoOverdraft
  <2>1. balance[v] >= 0 /\ balance[v] \in Int
    BY DEF NoOverdraft, TypeOK, WalletTypeOK
  <2>. QED
    BY <1>3, <1>4, <2>1
<1>9. HandlerMatchesRow'
  BY <1>1, <1>2, <1>5, <1>6 DEF HandlerMatchesRow, TypeOK
<1>10. LedgerExplainsJobs'
  <2>. SUFFICES ASSUME NEW i \in Jobs PROVE ledger'[i] = RowsOf(i)'
    BY DEF LedgerExplainsJobs
  <2>1. CASE i = j
    <3>1. ClosingRows(j) = <<>>
      BY <1>1 DEF ClosingRows, HandlerMatchesRow
    <3>2. ledger[j] = << Row(post[j].user, "reserve", -post[j].held) >>
      BY <1>1, <3>1, RowsAreOneOrTwo DEF LedgerExplainsJobs, RowsOf
    <3>3. ClosingRows(j)' = << Row(post[j].user, "refund", post[j].held) >>
      BY <1>5, <1>6 DEF ClosingRows
    <3>4. RowsOf(j)' = << Row(post[j].user, "reserve", -post[j].held),
                          Row(post[j].user, "refund", post[j].held) >>
      BY <1>5, <3>3, RowsAreOneOrTwo DEF RowsOf
    <3>. QED
      BY <1>4, <2>1, <3>2, <3>4, RowsAreOneOrTwo
  <2>2. CASE i # j
    BY <1>2, <1>4, <1>6, <2>2
       DEF LedgerExplainsJobs, TypeOK, RowsOf, ClosingRows, Refs
  <2>. QED
    BY <2>1, <2>2
<1>. QED
  BY <1>7, <1>8, <1>9, <1>10

\* Steps of the provider and the beginnings of polls touch no money and no row.
LEMMA QuietStepInv ==
  ASSUME IInv, UNCHANGED <<balance, ledger, post, jobs>>,
         provider' \in [Jobs -> Tasks], poll' \in [Jobs -> [Slots -> Polls]]
  PROVE  IInv'
BY DEF IInv, TypeOK, WalletTypeOK, NoOverdraft, HandlerMatchesRow,
       LedgerExplainsJobs, RowsOf, ClosingRows

\* The provider touches no table.
LEMMA ProviderStepInv ==
  ASSUME IInv, NEW j \in Jobs, ProviderStep(j)
  PROVE  IInv'
<1>1. UNCHANGED <<balance, ledger, post, jobs, poll>>
  BY DEF ProviderStep, ProviderAccepts, ProviderCompletes, ProviderGivesUp
<1>2. provider \in [Jobs -> Tasks] /\ poll \in [Jobs -> [Slots -> Polls]]
  BY DEF IInv, TypeOK
<1>3. provider' \in [Jobs -> Tasks]
  <2>1. CASE ProviderAccepts(j)
    BY <1>2, <2>1 DEF ProviderAccepts, Tasks, ProviderStates
  <2>2. CASE \E seconds \in RemoteDurations : ProviderCompletes(j, seconds)
    BY <1>2, <2>2 DEF ProviderCompletes, Tasks, ProviderStates
  <2>3. CASE ProviderGivesUp(j)
    BY <1>2, <2>3 DEF ProviderGivesUp, Tasks, ProviderStates
  <2>. QED
    BY <2>1, <2>2, <2>3 DEF ProviderStep
<1>. QED
  BY <1>1, <1>2, <1>3, QuietStepInv

\* A poll that reads or waits touches no table.
LEMMA PollQueryInv ==
  ASSUME IInv, NEW j \in Jobs, NEW s \in Slots,
         PollStart(j, s) \/ PollAnswered(j, s) \/ PollFails(j, s)
  PROVE  IInv'
<1>1. UNCHANGED <<balance, ledger, post, jobs, provider>>
  BY DEF PollStart, PollAnswered, PollFails
<1>2. provider \in [Jobs -> Tasks] /\ poll \in [Jobs -> [Slots -> Polls]]
  BY DEF IInv, TypeOK
<1>3. \E answer \in Polls : poll' = [poll EXCEPT ![j][s] = answer]
  <2>1. /\ [pc |-> "querying"] \in Polls /\ [pc |-> "idle"] \in Polls
        /\ [pc |-> "answered", remote |-> provider[j]] \in Polls
    BY <1>2 DEF Polls
  <2>. QED
    BY <2>1 DEF PollStart, PollAnswered, PollFails
<1>4. poll' \in [Jobs -> [Slots -> Polls]]
  BY <1>2, <1>3
<1>. QED
  BY <1>1, <1>2, <1>4, QuietStepInv

\* A running row belongs to a handler that has answered; its ledger is the
\* reservation alone.
LEMMA RunningRow ==
  ASSUME IInv, NEW j \in Jobs, StillRunning(j)
  PROVE  /\ post[j] \in Requests /\ post[j].pc = "done"
         /\ jobs[j] \in JobRows
         /\ jobs[j].user = post[j].user /\ jobs[j].reserved = post[j].held
         /\ ledger[j] = << Row(post[j].user, "reserve", -post[j].held) >>
<1>. USE DEF IInv
<1>1. jobs[j] \in JobRows /\ jobs[j].status = "running"
  BY DEF TypeOK, StillRunning, NoRow
<1>2. post[j] \in Requests \cup {NoRequest}
  BY DEF TypeOK
<1>3. post[j].pc \in PostStates
  BY <1>2 DEF Requests, NoRequest, PostStates
<1>4. post[j].pc = "done"
  BY <1>1, <1>3 DEF HandlerMatchesRow, PostStates
<1>5. ClosingRows(j) = <<>>
  BY <1>1, <1>4 DEF ClosingRows
<1>6. ledger[j] = << Row(post[j].user, "reserve", -post[j].held) >>
  BY <1>4, <1>5, RowsAreOneOrTwo DEF LedgerExplainsJobs, RowsOf
<1>. QED
  BY <1>1, <1>2, <1>4, <1>6 DEF HandlerMatchesRow, NoRequest

\* A job is never charged more than it holds.
LEMMA ChargedIsCapped ==
  ASSUME NEW row \in JobRows, NEW reported \in Nat
  PROVE  Charged(row, reported) \in 0 .. row.reserved
<1>. DEFINE seconds == IF reported > 0 THEN reported ELSE row.seconds
            output == usagePoints(seconds, row.mode)
<1>1. row.seconds \in Nat /\ row.mode \in Modes /\ row.reserved \in Nat
  BY DurationsAssumption DEF JobRows
<1>2. seconds \in Nat
  BY <1>1
<1>3. output \in Nat
  BY <1>1, <1>2, PriceIsPositive
<1>4. Charged(row, reported) = IF output < row.reserved THEN output ELSE row.reserved
  BY DEF Charged
<1>. HIDE DEF output
<1>. QED
  BY <1>1, <1>3, <1>4

\* What both settlements do: close a running row and give back part of its hold.
LEMMA SettlementInv ==
  ASSUME IInv, NEW j \in Jobs, StillRunning(j), NEW row \in JobRows,
         jobs' = [jobs EXCEPT ![j] = row],
         row.user = jobs[j].user, row.reserved = jobs[j].reserved,
         UNCHANGED <<post, provider>>, poll' \in [Jobs -> [Slots -> Polls]],
         NEW type \in RowTypes, NEW back \in 0 .. row.reserved,
         Transfer(row.user, j, type, back),
         \/ row.status = "failed" /\ type = "refund" /\ back = row.reserved
         \/ /\ row.status = "completed" /\ type = "settlement"
            /\ row.final = row.reserved - back /\ back # 0
  PROVE  IInv'
<1>. USE DEF IInv
<1>1. /\ post[j] \in Requests /\ post[j].pc = "done"
      /\ row.user = post[j].user /\ row.reserved = post[j].held
      /\ ledger[j] = << Row(post[j].user, "reserve", -post[j].held) >>
  BY RunningRow
<1>2. row.user \in Users /\ row.reserved \in Nat /\ back \in Nat
  BY DEF JobRows
<1>3. /\ WalletTypeOK'
      /\ balance'[row.user] = balance[row.user] + back
      /\ \A v \in Users \ {row.user} : balance'[v] = balance[v]
      /\ ledger'[j] = Append(ledger[j], Row(row.user, type, back))
      /\ \A r \in Refs \ {j} : ledger'[r] = ledger[r]
  <2>1. j \in Refs /\ back \in Int
    BY <1>2 DEF Refs
  <2>. QED
    BY <1>2, <2>1, TransferEffect DEF TypeOK
<1>4. TypeOK'
  BY <1>3 DEF TypeOK
<1>5. NoOverdraft'
  <2>. SUFFICES ASSUME NEW v \in Users PROVE balance'[v] >= 0
    BY DEF NoOverdraft
  <2>1. balance[v] >= 0 /\ balance[v] \in Int
    BY DEF NoOverdraft, TypeOK, WalletTypeOK
  <2>. QED
    BY <1>2, <1>3, <2>1
<1>6. jobs'[j] = row /\ \A i \in Jobs \ {j} : jobs'[i] = jobs[i]
  BY DEF TypeOK
<1>7. HandlerMatchesRow'
  <2>1. row.status = "completed" => row.final \in 0 .. row.reserved
    BY <1>2
  <2>. QED
    BY <1>1, <1>6, <2>1 DEF HandlerMatchesRow
<1>8. LedgerExplainsJobs'
  <2>. SUFFICES ASSUME NEW i \in Jobs PROVE ledger'[i] = RowsOf(i)'
    BY DEF LedgerExplainsJobs
  <2>1. CASE i = j
    <3>1. row.status = "completed" => row.final # row.reserved /\ back = row.reserved - row.final
      BY <1>2
    <3>2. ClosingRows(j)' = << Row(row.user, type, back) >>
      BY <1>1, <1>6, <3>1 DEF ClosingRows
    <3>3. RowsOf(j)' = << Row(post[j].user, "reserve", -post[j].held),
                          Row(row.user, type, back) >>
      BY <1>1, <3>2, RowsAreOneOrTwo DEF RowsOf
    <3>. QED
      BY <1>1, <1>3, <2>1, <3>3, RowsAreOneOrTwo
  <2>2. CASE i # j
    BY <1>3, <1>6, <2>2 DEF LedgerExplainsJobs, RowsOf, ClosingRows, Refs
  <2>. QED
    BY <2>1, <2>2
<1>. QED
  BY <1>4, <1>5, <1>7, <1>8

\* A completed task: charge, and give the difference back.
LEMMA SettleCompletedInv ==
  ASSUME IInv, NEW j \in Jobs, StillRunning(j), NEW reported \in Nat,
         SettleCompleted(j, reported),
         UNCHANGED <<post, provider>>, poll' \in [Jobs -> [Slots -> Polls]]
  PROVE  IInv'
<1>. DEFINE charged == Charged(jobs[j], reported)
            row == [jobs[j] EXCEPT !.status = "completed", !.final = charged]
            back == jobs[j].reserved - charged
<1>1. jobs[j] \in JobRows
  BY RunningRow
<1>2. charged \in 0 .. jobs[j].reserved /\ jobs[j].reserved \in Nat
  BY <1>1, ChargedIsCapped DEF JobRows
<1>3. /\ jobs' = [jobs EXCEPT ![j].status = "completed", ![j].final = charged]
      /\ IF back # 0 THEN Transfer(jobs[j].user, j, "settlement", back)
                     ELSE UNCHANGED walletVars
  BY DEF SettleCompleted
<1>. HIDE DEF charged
<1>4. /\ row \in JobRows /\ row.status = "completed" /\ row.final = charged
      /\ row.user = jobs[j].user /\ row.reserved = jobs[j].reserved
  <2>1. charged \in Nat
    BY <1>2
  <2>. QED
    BY <1>1, <2>1 DEF JobRows, JobStatuses
<1>5. jobs' = [jobs EXCEPT ![j] = row]
  BY <1>1, <1>3 DEF IInv, TypeOK, JobRows
<1>. HIDE DEF row
<1>6. CASE back # 0
  <2>1. /\ back \in 0 .. row.reserved /\ row.final = row.reserved - back
        /\ "settlement" \in RowTypes
        /\ Transfer(row.user, j, "settlement", back)
    BY <1>2, <1>3, <1>4, <1>6 DEF RowTypes
  <2>. QED
    BY <1>4, <1>5, <1>6, <2>1, SettlementInv
<1>7. CASE back = 0
  <2>1. /\ post[j] \in Requests /\ post[j].pc = "done"
        /\ row.user = post[j].user /\ row.reserved = post[j].held
        /\ ledger[j] = << Row(post[j].user, "reserve", -post[j].held) >>
    BY <1>4, RunningRow
  <2>2. UNCHANGED <<balance, ledger>> /\ row.final = row.reserved
    BY <1>2, <1>3, <1>4, <1>7 DEF walletVars
  <2>3. jobs'[j] = row /\ \A i \in Jobs \ {j} : jobs'[i] = jobs[i]
    BY <1>5 DEF IInv, TypeOK
  <2>4. TypeOK'
    BY <1>4, <1>5, <2>2 DEF IInv, TypeOK, WalletTypeOK
  <2>5. NoOverdraft'
    BY <2>2 DEF IInv, NoOverdraft
  <2>6. HandlerMatchesRow'
    <3>1. row.final \in 0 .. row.reserved
      BY <1>2, <1>4
    <3>. QED
      BY <1>4, <2>1, <2>3, <3>1 DEF IInv, HandlerMatchesRow
  <2>7. LedgerExplainsJobs'
    <3>1. ClosingRows(j)' = <<>>
      BY <1>4, <2>1, <2>2, <2>3 DEF ClosingRows
    <3>2. ledger'[j] = RowsOf(j)'
      BY <2>1, <2>2, <3>1, RowsAreOneOrTwo DEF RowsOf
    <3>3. \A i \in Jobs \ {j} : ledger'[i] = RowsOf(i)'
      BY <2>2, <2>3 DEF IInv, LedgerExplainsJobs, RowsOf, ClosingRows
    <3>. QED
      BY <3>2, <3>3 DEF LedgerExplainsJobs
  <2>. QED
    BY <2>4, <2>5, <2>6, <2>7 DEF IInv
<1>. QED
  BY <1>6, <1>7

\* A failed task: give the whole hold back.
LEMMA SettleFailedInv ==
  ASSUME IInv, NEW j \in Jobs, StillRunning(j), SettleFailed(j),
         UNCHANGED <<post, provider>>, poll' \in [Jobs -> [Slots -> Polls]]
  PROVE  IInv'
<1>. DEFINE row == [jobs[j] EXCEPT !.status = "failed"]
<1>1. jobs[j] \in JobRows
  BY RunningRow
<1>2. /\ row \in JobRows /\ row.status = "failed"
      /\ row.user = jobs[j].user /\ row.reserved = jobs[j].reserved
  BY <1>1 DEF JobRows, JobStatuses
<1>3. jobs' = [jobs EXCEPT ![j] = row]
  BY <1>1 DEF SettleFailed, IInv, TypeOK, JobRows
<1>4. /\ row.reserved \in 0 .. row.reserved /\ "refund" \in RowTypes
      /\ Transfer(row.user, j, "refund", row.reserved)
  BY <1>1, <1>2 DEF SettleFailed, JobRows, RowTypes
<1>. QED
  BY <1>2, <1>3, <1>4, SettlementInv

\* What a poll was told is a duration the price list is defined for.
LEMMA ReportIsNat ==
  ASSUME IInv, NEW j \in Jobs, NEW s \in Slots, poll[j][s].pc = "answered"
  PROVE  poll[j][s].remote.duration \in Nat
<1>1. poll[j][s] \in Polls
  BY DEF IInv, TypeOK
<1>2. poll[j][s].remote \in Tasks
  BY <1>1 DEF Polls
<1>3. poll[j][s].remote.duration \in RemoteDurations \cup {0}
  BY <1>2 DEF Tasks
<1>4. RemoteDurations \cup {0} \subseteq Nat
  BY DurationsAssumption
<1>. QED
  BY <1>3, <1>4

\* The end of GET /api/jobs/[id], settled by this poll or by none.
LEMMA PollAppliesInv ==
  ASSUME IInv, NEW j \in Jobs, NEW s \in Slots, PollApplies(j, s)
  PROVE  IInv'
<1>1. /\ poll[j][s].pc = "answered"
      /\ poll' = [poll EXCEPT ![j][s] = [pc |-> "idle"]]
      /\ UNCHANGED <<post, provider>>
  BY DEF PollApplies
<1>2. poll' \in [Jobs -> [Slots -> Polls]]
  <2>1. [pc |-> "idle"] \in Polls
    BY DEF Polls
  <2>. QED
    BY <1>1, <2>1 DEF IInv, TypeOK
<1>3. poll[j][s].remote.duration \in Nat
  BY <1>1, ReportIsNat
<1>4. CASE StillRunning(j) /\ SettleCompleted(j, poll[j][s].remote.duration)
  BY <1>1, <1>2, <1>3, <1>4, SettleCompletedInv
<1>5. CASE StillRunning(j) /\ SettleFailed(j)
  BY <1>1, <1>2, <1>5, SettleFailedInv
<1>6. CASE UNCHANGED <<jobs, balance, ledger>>
  <2>1. provider' \in [Jobs -> Tasks]
    BY <1>1 DEF IInv, TypeOK
  <2>. QED
    BY <1>1, <1>2, <1>6, <2>1, QuietStepInv
<1>. QED
  BY <1>4, <1>5, <1>6 DEF PollApplies

\* A recharge belongs to an order, so it disturbs no job's ledger.
LEMMA CreditInv ==
  ASSUME IInv, NEW o \in Orders, NEW u \in Users, NEW points \in PackagePoints,
         Credit(o, u, points)
  PROVE  IInv'
<1>. USE DEF IInv
<1>1. points \in Nat
  BY PackagesAssumption
<1>2. /\ WalletTypeOK'
      /\ balance'[u] = balance[u] + points
      /\ \A v \in Users \ {u} : balance'[v] = balance[v]
      /\ \A r \in Refs \ {o} : ledger'[r] = ledger[r]
  <2>1. o \in Refs /\ "recharge" \in RowTypes /\ points \in Int
    BY <1>1 DEF Refs, RowTypes
  <2>. QED
    BY <2>1, TransferEffect DEF TypeOK, Credit
<1>3. UNCHANGED <<post, jobs, provider, poll>>
  BY DEF Credit
<1>4. TypeOK'
  BY <1>2, <1>3 DEF TypeOK
<1>5. NoOverdraft'
  <2>. SUFFICES ASSUME NEW v \in Users PROVE balance'[v] >= 0
    BY DEF NoOverdraft
  <2>1. balance[v] >= 0 /\ balance[v] \in Int
    BY DEF NoOverdraft, TypeOK, WalletTypeOK
  <2>. QED
    BY <1>1, <1>2, <2>1
<1>6. HandlerMatchesRow'
  BY <1>3 DEF HandlerMatchesRow
<1>7. LedgerExplainsJobs'
  <2>1. \A j \in Jobs : j \in Refs \ {o}
    BY RefsAssumption DEF Refs
  <2>. QED
    BY <1>2, <1>3, <2>1 DEF LedgerExplainsJobs, RowsOf, ClosingRows
<1>. QED
  BY <1>4, <1>5, <1>6, <1>7

\* What is lost in a crash is the handlers: no row and no balance.
LEMMA CrashInv ==
  ASSUME IInv, Crash
  PROVE  IInv'
<1>. USE DEF IInv
<1>1. /\ UNCHANGED <<balance, ledger, jobs, provider>>
      /\ poll' = [j \in Jobs |-> [s \in Slots |-> [pc |-> "idle"]]]
  BY DEF Crash
<1>2. ASSUME NEW j \in Jobs
      PROVE  \/ post'[j] = post[j]
             \/ /\ post[j].pc \in {"reserved", "submitting"}
                /\ post[j] \in Requests /\ post'[j] \in Requests
                /\ post'[j].pc = "dead" /\ post'[j].user = post[j].user
                /\ post'[j].held = post[j].held
  <2>1. CASE post[j].pc \in {"reserved", "submitting"}
    <3>1. post[j] \in Requests
      BY <2>1 DEF TypeOK, NoRequest
    <3>2. post'[j] = [post[j] EXCEPT !.pc = "dead"]
      BY <2>1 DEF Crash
    <3>. QED
      BY <2>1, <3>1, <3>2 DEF Requests, PostStates
  <2>2. CASE post[j].pc \notin {"reserved", "submitting"}
    BY <2>2 DEF Crash
  <2>. QED
    BY <2>1, <2>2
<1>3. TypeOK'
  <2>1. post' \in [Jobs -> Requests \cup {NoRequest}]
    <3>1. DOMAIN post' = Jobs /\ post' = [j \in Jobs |-> post'[j]]
      BY DEF Crash
    <3>2. \A j \in Jobs : post'[j] \in Requests \cup {NoRequest}
      BY <1>2 DEF TypeOK
    <3>. QED
      BY <3>1, <3>2
  <2>2. poll' \in [Jobs -> [Slots -> Polls]]
    BY <1>1 DEF Polls
  <2>. QED
    BY <1>1, <2>1, <2>2 DEF TypeOK, WalletTypeOK
<1>4. NoOverdraft'
  BY <1>1 DEF NoOverdraft
<1>5. HandlerMatchesRow'
  <2>. SUFFICES ASSUME NEW j \in Jobs
                PROVE  /\ post'[j].pc \in {"idle", "reserved"} => jobs[j].status = "absent"
                       /\ post'[j].pc = "submitting" => jobs[j].status = "submitting"
                       /\ post'[j].pc = "done" =>
                            jobs[j].status \in {"running", "completed", "failed"}
                       /\ post'[j].pc = "refunded" =>
                            jobs[j].status \in {"absent", "submit_failed"}
                       /\ post'[j].pc = "dead" => jobs[j].status \in {"absent", "submitting"}
                       /\ jobs[j].status # "absent" =>
                            /\ jobs[j].user = post'[j].user
                            /\ jobs[j].reserved = post'[j].held
                       /\ jobs[j].status = "completed" =>
                            jobs[j].final \in 0 .. jobs[j].reserved
    BY <1>1 DEF HandlerMatchesRow
  <2>. QED
    BY <1>2 DEF HandlerMatchesRow
<1>6. LedgerExplainsJobs'
  <2>. SUFFICES ASSUME NEW j \in Jobs PROVE ledger[j] = RowsOf(j)'
    BY <1>1 DEF LedgerExplainsJobs
  <2>1. RowsOf(j)' = RowsOf(j)
    BY <1>1, <1>2 DEF RowsOf, ClosingRows
  <2>. QED
    BY <2>1 DEF LedgerExplainsJobs
<1>. QED
  BY <1>3, <1>4, <1>5, <1>6

\* Every step preserves the inductive invariant.
LEMMA NextInv ==
  ASSUME IInv, [Next]_vars
  PROVE  IInv'
<1>1. ASSUME NEW j \in Jobs, PostStep(j) PROVE IInv'
  <2>1. CASE \E u \in Users, seconds \in Durations, mode \in Modes, source \in Sources :
               Reserve(j, u, seconds, mode, source)
    BY <2>1, ReserveInv
  <2>2. CASE IngestFails(j)
    BY <2>2, RefundSubmissionInv DEF IngestFails
  <2>3. CASE InsertJob(j)
    BY <2>3, InsertJobInv
  <2>4. CASE SubmitReturns(j)
    BY <2>4, SubmitReturnsInv
  <2>5. CASE SubmitFails(j)
    BY <2>5, RefundSubmissionInv DEF SubmitFails
  <2>. QED
    BY <1>1, <2>1, <2>2, <2>3, <2>4, <2>5 DEF PostStep
<1>2. ASSUME NEW j \in Jobs, ProviderStep(j) PROVE IInv'
  BY <1>2, ProviderStepInv
<1>3. ASSUME NEW j \in Jobs, NEW s \in Slots, PollStep(j, s) PROVE IInv'
  BY <1>3, PollQueryInv, PollAppliesInv DEF PollStep
<1>4. ASSUME NEW o \in Orders, NEW u \in Users, NEW points \in PackagePoints,
             Credit(o, u, points)
      PROVE  IInv'
  BY <1>4, CreditInv
<1>5. CASE Crash
  BY <1>5, CrashInv
<1>6. CASE UNCHANGED vars
  <2>1. UNCHANGED <<balance, ledger, post, jobs, provider, poll>>
    BY <1>6 DEF vars
  <2>. QED
    BY <2>1, QuietStepInv DEF IInv, TypeOK
<1>. QED
  BY <1>1, <1>2, <1>3, <1>4, <1>5, <1>6 DEF Next

\* The inductive invariant holds in every reachable state.
THEOREM InductiveInvariant == Spec => []IInv
<1>1. Init => IInv
  BY InitInv
<1>2. IInv /\ [Next]_vars => IInv'
  BY NextInv
<1>. QED
  BY <1>1, <1>2, PTL DEF Spec

\* Balances, ledger rows, job rows, handlers, the provider's tasks and polls keep
\* their types, for every user, video length, mode and price of the two routes.
THEOREM TypeCorrect == Spec => []TypeOK
<1>1. IInv => TypeOK
  BY DEF IInv
<1>. QED
  BY <1>1, InductiveInvariant, PTL

\* No interleaving of submissions, polls, recharges and crashes takes a balance
\* below zero.
THEOREM NeverOverdrawn == Spec => []NoOverdraft
<1>1. IInv => NoOverdraft
  BY DEF IInv
<1>. QED
  BY <1>1, InductiveInvariant, PTL

\* The rows a job has in point_transactions are at every moment exactly those
\* its handler and its row call for: one reservation, at most one closing.
THEOREM LedgerAlwaysExplains == Spec => []LedgerExplainsJobs
<1>1. IInv => LedgerExplainsJobs
  BY DEF IInv
<1>. QED
  BY <1>1, InductiveInvariant, PTL

-----------------------------------------------------------------------------
(* Action properties *)

\* No step changes the row of a job that is over.
LEMMA TerminalRowKept ==
  ASSUME IInv, [Next]_vars, NEW j \in Jobs, jobs[j].status \in TerminalStatuses
  PROVE  jobs'[j] = jobs[j]
<1>. USE DEF IInv, TerminalStatuses
<1>1. ASSUME NEW i \in Jobs, PostStep(i) PROVE jobs'[j] = jobs[j]
  <2>1. CASE post[i].pc \in {"reserved", "submitting"} /\ i = j
    BY <2>1 DEF HandlerMatchesRow
  <2>2. CASE post[i].pc \notin {"reserved", "submitting"} \/ i # j
    BY <1>1, <2>2 DEF PostStep, Reserve, IngestFails, InsertJob, SubmitReturns,
                     SubmitFails, TypeOK
  <2>. QED
    BY <2>1, <2>2
<1>2. ASSUME NEW i \in Jobs, ProviderStep(i) PROVE jobs'[j] = jobs[j]
  BY <1>2 DEF ProviderStep, ProviderAccepts, ProviderCompletes, ProviderGivesUp
<1>3. ASSUME NEW i \in Jobs, NEW s \in Slots, PollStep(i, s) PROVE jobs'[j] = jobs[j]
  <2>1. CASE StillRunning(i) /\ i = j
    BY <2>1 DEF StillRunning
  <2>2. CASE ~StillRunning(i) \/ i # j
    BY <1>3, <2>2 DEF PollStep, PollStart, PollAnswered, PollFails, PollApplies,
                     SettleCompleted, SettleFailed, TypeOK
  <2>. QED
    BY <2>1, <2>2
<1>. QED
  BY <1>1, <1>2, <1>3 DEF Next, Credit, Crash, vars

\* A settled job is never reopened or re-priced.
THEOREM StaysSettled == Spec => SettledForGood
<1>1. IInv /\ [Next]_vars =>
        \A j \in Jobs : jobs[j].status \in TerminalStatuses => jobs'[j] = jobs[j]
  BY TerminalRowKept
<1>2. IInv /\ [Next]_vars =>
        [ \A j \in Jobs : jobs[j].status \in TerminalStatuses => jobs'[j] = jobs[j] ]_vars
  BY <1>1
<1>. QED
  BY <1>2, InductiveInvariant, PTL DEF Spec, SettledForGood

\* Money moves by transactions only, each of a known user, row and amount.
LEMMA MovesAreTransfers ==
  ASSUME IInv, [Next]_vars
  PROVE  \/ UNCHANGED walletVars
         \/ \E u \in Users, ref \in Refs, type \in RowTypes, n \in Int :
              Transfer(u, ref, type, n)
<1>. DEFINE Moves == \/ UNCHANGED walletVars
                     \/ \E u \in Users, ref \in Refs, type \in RowTypes, n \in Int :
                          Transfer(u, ref, type, n)
<1>. USE DEF IInv
<1>. SUFFICES Moves
  OBVIOUS
<1>0. Jobs \subseteq Refs /\ Orders \subseteq Refs
  BY DEF Refs
<1>1. ASSUME NEW j \in Jobs, PostStep(j) PROVE Moves
  <2>1. CASE \E u \in Users, seconds \in Durations, mode \in Modes, source \in Sources :
               Reserve(j, u, seconds, mode, source)
    <3>1. PICK u \in Users, seconds \in Durations, mode \in Modes, source \in Sources :
            Reserve(j, u, seconds, mode, source)
      BY <2>1
    <3>2. reservePoints(seconds, mode) \in Nat
      BY DurationsAssumption, PriceIsPositive DEF reservePoints
    <3>3. /\ -reservePoints(seconds, mode) \in Int /\ "reserve" \in RowTypes
          /\ Transfer(u, j, "reserve", -reservePoints(seconds, mode))
      BY <3>1, <3>2 DEF Reserve, RowTypes
    <3>. QED
      BY <1>0, <3>3
  <2>2. CASE IngestFails(j) \/ SubmitFails(j)
    <3>1. post[j] \in Requests
      BY <2>2 DEF IngestFails, SubmitFails, TypeOK, NoRequest
    <3>2. /\ post[j].user \in Users /\ post[j].held \in Int /\ "refund" \in RowTypes
          /\ Transfer(post[j].user, j, "refund", post[j].held)
      BY <2>2, <3>1 DEF IngestFails, SubmitFails, RefundSubmission, Requests, RowTypes
    <3>. QED
      BY <1>0, <3>2
  <2>3. CASE InsertJob(j) \/ SubmitReturns(j)
    BY <2>3 DEF InsertJob, SubmitReturns, walletVars
  <2>. QED
    BY <1>1, <2>1, <2>2, <2>3 DEF PostStep
<1>2. ASSUME NEW j \in Jobs, ProviderStep(j) PROVE Moves
  BY <1>2 DEF ProviderStep, ProviderAccepts, ProviderCompletes, ProviderGivesUp, walletVars
<1>3. ASSUME NEW j \in Jobs, NEW s \in Slots, PollStep(j, s) PROVE Moves
  <2>1. CASE \/ PollStart(j, s) \/ PollAnswered(j, s) \/ PollFails(j, s)
             \/ UNCHANGED <<jobs, balance, ledger>>
    BY <2>1 DEF PollStart, PollAnswered, PollFails, walletVars
  <2>2. CASE StillRunning(j) /\ SettleFailed(j)
    <3>1. jobs[j].user \in Users /\ jobs[j].reserved \in Int /\ "refund" \in RowTypes
      BY <2>2, RunningRow DEF JobRows, RowTypes
    <3>. QED
      BY <1>0, <2>2, <3>1 DEF SettleFailed
  <2>3. CASE /\ poll[j][s].pc = "answered" /\ StillRunning(j)
             /\ SettleCompleted(j, poll[j][s].remote.duration)
    <3>. DEFINE charged == Charged(jobs[j], poll[j][s].remote.duration)
    <3>1. jobs[j] \in JobRows
      BY <2>3, RunningRow
    <3>2. charged \in 0 .. jobs[j].reserved /\ jobs[j].reserved \in Nat
      BY <2>3, <3>1, ReportIsNat, ChargedIsCapped DEF JobRows
    <3>3. \/ UNCHANGED walletVars
          \/ Transfer(jobs[j].user, j, "settlement", jobs[j].reserved - charged)
      BY <2>3 DEF SettleCompleted
    <3>. HIDE DEF charged
    <3>4. /\ jobs[j].user \in Users /\ "settlement" \in RowTypes
          /\ jobs[j].reserved - charged \in Int
      BY <3>1, <3>2 DEF JobRows, RowTypes
    <3>. QED
      BY <1>0, <3>3, <3>4
  <2>. QED
    BY <1>3, <2>1, <2>2, <2>3 DEF PollStep, PollApplies
<1>4. ASSUME NEW o \in Orders, NEW u \in Users, NEW points \in PackagePoints,
             Credit(o, u, points)
      PROVE  Moves
  <2>1. "recharge" \in RowTypes /\ points \in Int
    BY PackagesAssumption DEF RowTypes
  <2>. QED
    BY <1>0, <1>4, <2>1 DEF Credit
<1>. QED
  BY <1>1, <1>2, <1>3, <1>4 DEF Next, Crash, vars, walletVars

\* Every movement of a balance leaves the row that explains it, and no row is
\* written without its movement.
THEOREM AlwaysDoubleEntry == Spec => DoubleEntry
<1>. DEFINE Entry ==
       \/ UNCHANGED walletVars
       \/ \E ref \in Refs :
            /\ ledger'[ref] # ledger[ref]
            /\ LET row == ledger'[ref][Len(ledger'[ref])]
               IN  /\ ledger' = [ledger EXCEPT ![ref] = Append(@, row)]
                   /\ balance' = [balance EXCEPT ![row.user] = @ + row.points]
<1>1. IInv /\ [Next]_vars => Entry
  <2>. SUFFICES ASSUME IInv, [Next]_vars PROVE Entry
    OBVIOUS
  <2>1. WalletTypeOK
    BY DEF IInv, TypeOK
  <2>. QED
    BY <2>1, MovesAreTransfers, TransferIsDoubleEntry
<1>2. IInv /\ [Next]_vars => [Entry]_vars
  BY <1>1
<1>. HIDE DEF Entry
<1>3. Spec => [][Entry]_vars
  BY <1>2, InductiveInvariant, PTL DEF Spec
<1>. QED
  BY <1>3 DEF DoubleEntry, Entry

-----------------------------------------------------------------------------
(* JobLedger implements PointsAccount: every step of a handler maps to a
   hold, a closing, a top-up or a stutter of the promise. *)

accounts == [r \in Refs |-> accountOf(r)]

\* The account of a job, read off the handler and the row instead of the ledger.
jobAccount(j) ==
  IF post[j].pc = "idle" THEN [phase |-> "none"]
  ELSE IF ~Closed(j)
  THEN [phase |-> "held", user |-> post[j].user, points |-> post[j].held]
  ELSE [phase |-> "closed", user |-> post[j].user, points |-> post[j].held,
        charged |-> IF jobs[j].status = "completed" THEN jobs[j].final ELSE 0]

\* A job that was begun calls for ledger rows.
LEMMA OpenedHasRows ==
  ASSUME NEW j \in Jobs, post[j].pc # "idle"
  PROVE  RowsOf(j) # <<>>
<1>. DEFINE x == Row(post[j].user, "reserve", -post[j].held)
<1>1. RowsOf(j) = << x >> \o ClosingRows(j)
  BY DEF RowsOf
<1>2. \/ ClosingRows(j) = <<>>
      \/ \E y : ClosingRows(j) = << y >>
  BY DEF ClosingRows
<1>. HIDE DEF x
<1>3. CASE ClosingRows(j) = <<>>
  BY <1>1, <1>3, RowsAreOneOrTwo
<1>4. CASE \E y : ClosingRows(j) = << y >>
  BY <1>1, <1>4, RowsAreOneOrTwo
<1>. QED
  BY <1>2, <1>3, <1>4

\* What a job has done to its user's balance can be told without the ledger.
LEMMA JobAccounts == IInv => \A j \in Jobs : accountOf(j) = jobAccount(j)
<1>. SUFFICES ASSUME IInv, NEW j \in Jobs PROVE accountOf(j) = jobAccount(j)
  OBVIOUS
<1>1. ledger[j] = RowsOf(j)
  BY DEF IInv, LedgerExplainsJobs
<1>2. ledger[j] = <<>> <=> post[j].pc = "idle"
  BY <1>1, OpenedHasRows DEF RowsOf
<1>3. j \notin Orders
  BY RefsAssumption
<1>. QED
  BY <1>2, <1>3 DEF accountOf, jobAccount

\* A job whose handler and row agree with what they were keeps its account, and
\* so does an order whose rows do.
LEMMA AccountKept ==
  ASSUME IInv, [Next]_vars
  PROVE  /\ \A j \in Jobs : accountOf(j)' = jobAccount(j)' /\ accountOf(j) = jobAccount(j)
         /\ \A j \in Jobs : post'[j] = post[j] /\ jobs'[j] = jobs[j]
                              => jobAccount(j)' = jobAccount(j)
         /\ \A o \in Orders : ledger'[o] = ledger[o] => accountOf(o)' = accountOf(o)
<1>1. IInv'
  BY NextInv
<1>2. \A j \in Jobs : accountOf(j)' = jobAccount(j)'
  <2>1. (IInv => \A j \in Jobs : accountOf(j) = jobAccount(j))'
    BY JobAccounts, PTL
  <2>. QED
    BY <1>1, <2>1
<1>3. \A j \in Jobs : accountOf(j) = jobAccount(j)
  BY JobAccounts
<1>4. ASSUME NEW j \in Jobs, post'[j] = post[j], jobs'[j] = jobs[j]
      PROVE  jobAccount(j)' = jobAccount(j)
  BY <1>4 DEF jobAccount, Closed
<1>5. ASSUME NEW o \in Orders, ledger'[o] = ledger[o]
      PROVE  accountOf(o)' = accountOf(o)
  <2>1. o \notin Jobs
    BY RefsAssumption
  <2>. QED
    BY <1>5, <2>1 DEF accountOf
<1>. QED
  BY <1>2, <1>3, <1>4, <1>5

\* A step of one job changes the account of that job alone.
LEMMA OneJobChanges ==
  ASSUME IInv, [Next]_vars, NEW j \in Jobs,
         \A i \in Jobs \ {j} : post'[i] = post[i] /\ jobs'[i] = jobs[i],
         \A o \in Orders : ledger'[o] = ledger[o]
  PROVE  /\ accounts' = [accounts EXCEPT ![j] = jobAccount(j)']
         /\ accounts[j] = jobAccount(j)
         /\ jobAccount(j)' = jobAccount(j) => accounts' = accounts
<1>1. accountOf(j)' = jobAccount(j)' /\ accountOf(j) = jobAccount(j)
  BY AccountKept
<1>2. \A r \in Refs \ {j} : accountOf(r)' = accountOf(r)
  BY AccountKept DEF Refs
<1>3. j \in Refs
  BY DEF Refs
<1>. QED
  BY <1>1, <1>2, <1>3 DEF accounts, Refs

\* A reservation is a Hold of the promise.
LEMMA ReserveHolds ==
  ASSUME IInv, [Next]_vars, NEW j \in Jobs, NEW u \in Users, NEW seconds \in Durations,
         NEW mode \in Modes, NEW source \in Sources,
         Reserve(j, u, seconds, mode, source)
  PROVE  /\ reservePoints(seconds, mode) \in JobPrices
         /\ PA!Hold(j, u, reservePoints(seconds, mode))
<1>. DEFINE held == reservePoints(seconds, mode)
<1>1. /\ post[j].pc = "idle" /\ balance[u] >= held
      /\ Transfer(u, j, "reserve", -held) /\ jobs' = jobs
      /\ post' = [post EXCEPT ![j] =
                    [pc |-> "reserved", user |-> u, seconds |-> seconds,
                     mode |-> mode, source |-> source, held |-> held]]
  BY DEF Reserve
<1>2. held \in Nat /\ held \in JobPrices
  BY PriceIsPositive, DurationsAssumption DEF reservePoints, JobPrices
<1>. HIDE DEF held
<1>3. post'[j].pc = "reserved" /\ post'[j].user = u /\ post'[j].held = held
  BY <1>1 DEF IInv, TypeOK
<1>4. jobs[j].status = "absent"
  BY <1>1 DEF IInv, HandlerMatchesRow
<1>5. jobAccount(j)' = [phase |-> "held", user |-> u, points |-> held]
  BY <1>1, <1>3, <1>4 DEF jobAccount, Closed, TerminalStatuses
<1>6. /\ accounts' = [accounts EXCEPT ![j] = jobAccount(j)']
      /\ accounts[j] = jobAccount(j)
  <2>1. \A i \in Jobs \ {j} : post'[i] = post[i] /\ jobs'[i] = jobs[i]
    BY <1>1 DEF IInv, TypeOK
  <2>2. \A o \in Orders : ledger'[o] = ledger[o]
    BY <1>1, RefsAssumption DEF IInv, TypeOK, WalletTypeOK, Transfer, Refs
  <2>. QED
    BY <2>1, <2>2, OneJobChanges
<1>7. accounts[j] = [phase |-> "none"]
  BY <1>1, <1>6 DEF jobAccount
<1>8. balance' = [balance EXCEPT ![u] = @ - held] /\ held <= balance[u]
  <2>1. balance[u] \in Int /\ balance[u] + (-held) = balance[u] - held
    BY <1>2 DEF IInv, TypeOK, WalletTypeOK
  <2>. QED
    BY <1>1, <1>2, <2>1 DEF Transfer
<1>9. PA!Hold(j, u, held)
  BY <1>5, <1>6, <1>7, <1>8 DEF PA!Hold, PA!Untouched, PA!Held, accounts
<1>. QED
  BY <1>2, <1>9 DEF held

\* Closing an open job gives back what it does not charge.
LEMMA ClosingCloses ==
  ASSUME IInv, [Next]_vars, NEW j \in Jobs, NEW charged,
         post[j].pc # "idle", ~Closed(j), Closed(j)',
         post'[j].pc # "idle", post'[j].user = post[j].user, post'[j].held = post[j].held,
         charged = (IF jobs'[j].status = "completed" THEN jobs'[j].final ELSE 0),
         charged \in 0 .. post[j].held,
         balance' = [balance EXCEPT ![post[j].user] = @ + (post[j].held - charged)],
         \A i \in Jobs \ {j} : post'[i] = post[i] /\ jobs'[i] = jobs[i],
         \A o \in Orders : ledger'[o] = ledger[o]
  PROVE  /\ PA!Close(j, charged)
         /\ accounts[j].phase = "held" /\ charged \in 0 .. accounts[j].points
<1>1. /\ accounts' = [accounts EXCEPT ![j] = jobAccount(j)']
      /\ accounts[j] = jobAccount(j)
  BY OneJobChanges
<1>2. accounts[j] = [phase |-> "held", user |-> post[j].user, points |-> post[j].held]
  BY <1>1 DEF jobAccount
<1>3. jobAccount(j)' = [phase |-> "closed", user |-> post[j].user,
                        points |-> post[j].held, charged |-> charged]
  BY DEF jobAccount
<1>4. /\ accounts[j].phase = "held" /\ accounts[j].user = post[j].user
      /\ accounts[j].points = post[j].held
  BY <1>2
<1>5. accounts' = [accounts EXCEPT ![j] =
                     PA!Closed(accounts[j].user, accounts[j].points, charged)]
  BY <1>1, <1>3, <1>4 DEF PA!Closed
<1>6. balance' = [balance EXCEPT ![accounts[j].user] = @ + (accounts[j].points - charged)]
  BY <1>4
<1>. QED
  BY <1>4, <1>5, <1>6 DEF PA!Close, accounts

\* A refunded submission is a Close that charges nothing.
LEMMA RefundCloses ==
  ASSUME IInv, [Next]_vars, NEW j \in Jobs, IngestFails(j) \/ SubmitFails(j)
  PROVE  /\ PA!Close(j, 0)
         /\ accounts[j].phase = "held" /\ 0 \in 0 .. accounts[j].points
<1>1. /\ post[j] \in Requests /\ post[j].pc \in {"reserved", "submitting"}
      /\ jobs[j].status \in {"absent", "submitting"}
  BY DEF IngestFails, SubmitFails, IInv, TypeOK, NoRequest, HandlerMatchesRow
<1>2. /\ Transfer(post[j].user, j, "refund", post[j].held)
      /\ post' = [post EXCEPT ![j].pc = "refunded"]
  BY DEF IngestFails, SubmitFails, RefundSubmission
<1>3. /\ post'[j].pc = "refunded" /\ post'[j].user = post[j].user
      /\ post'[j].held = post[j].held /\ post[j].held \in Nat
      /\ \A i \in Jobs \ {j} : post'[i] = post[i]
  BY <1>1, <1>2 DEF IInv, TypeOK, Requests
<1>4. /\ jobs'[j].status # "completed"
      /\ \A i \in Jobs \ {j} : jobs'[i] = jobs[i]
  <2>1. CASE IngestFails(j)
    BY <1>1, <2>1 DEF IngestFails
  <2>2. CASE SubmitFails(j)
    <3>1. jobs[j] \in JobRows
      BY <2>2 DEF SubmitFails, IInv, TypeOK, HandlerMatchesRow, NoRow
    <3>2. jobs'[j].status = "submit_failed"
      BY <2>2, <3>1 DEF SubmitFails, IInv, TypeOK, JobRows
    <3>. QED
      BY <2>2, <3>2 DEF SubmitFails, IInv, TypeOK
  <2>. QED
    BY <2>1, <2>2
<1>5. balance' = [balance EXCEPT ![post[j].user] = @ + (post[j].held - 0)]
  <2>1. post[j].held - 0 = post[j].held
    BY <1>3
  <2>. QED
    BY <1>2, <2>1 DEF Transfer
<1>6. \A o \in Orders : ledger'[o] = ledger[o]
  BY <1>2, RefsAssumption DEF IInv, TypeOK, WalletTypeOK, Transfer, Refs
<1>7. ~Closed(j) /\ Closed(j)'
  BY <1>1, <1>3 DEF Closed, TerminalStatuses
<1>8. 0 \in 0 .. post[j].held
  BY <1>3
<1>9. 0 = (IF jobs'[j].status = "completed" THEN jobs'[j].final ELSE 0)
  BY <1>4
<1>. QED
  BY <1>1, <1>3, <1>4, <1>5, <1>6, <1>7, <1>8, <1>9, ClosingCloses

\* A settled job is a Close that charges what its row says.
LEMMA SettlementCloses ==
  ASSUME IInv, [Next]_vars, NEW j \in Jobs, NEW s \in Slots, PollApplies(j, s)
  PROVE  \/ /\ accounts[j].phase = "held"
            /\ \E charged \in 0 .. accounts[j].points : PA!Close(j, charged)
         \/ UNCHANGED <<balance, ledger, post, jobs>>
<1>1. /\ poll[j][s].pc = "answered" /\ post' = post
      /\ \/ StillRunning(j) /\ SettleCompleted(j, poll[j][s].remote.duration)
         \/ StillRunning(j) /\ SettleFailed(j)
         \/ UNCHANGED <<balance, ledger, jobs>>
  BY DEF PollApplies
<1>2. ASSUME StillRunning(j), SettleCompleted(j, poll[j][s].remote.duration)
      PROVE  \E charged \in 0 .. accounts[j].points :
               accounts[j].phase = "held" /\ PA!Close(j, charged)
  <2>. DEFINE charged == Charged(jobs[j], poll[j][s].remote.duration)
  <2>1. /\ jobs[j] \in JobRows /\ post[j].pc = "done"
        /\ jobs[j].user = post[j].user /\ jobs[j].reserved = post[j].held
    BY <1>2, RunningRow
  <2>2. charged \in 0 .. jobs[j].reserved /\ jobs[j].reserved \in Nat
    BY <1>1, <2>1, ReportIsNat, ChargedIsCapped DEF JobRows
  <2>3. /\ jobs' = [jobs EXCEPT ![j].status = "completed", ![j].final = charged]
        /\ IF jobs[j].reserved - charged # 0
           THEN Transfer(jobs[j].user, j, "settlement", jobs[j].reserved - charged)
           ELSE UNCHANGED walletVars
    BY <1>2 DEF SettleCompleted
  <2>. HIDE DEF charged
  <2>4. /\ jobs'[j].status = "completed" /\ jobs'[j].final = charged
        /\ \A i \in Jobs \ {j} : jobs'[i] = jobs[i]
    BY <2>1, <2>3 DEF IInv, TypeOK, JobRows
  <2>5. balance' = [balance EXCEPT ![post[j].user] = @ + (post[j].held - charged)]
    <3>1. CASE jobs[j].reserved - charged # 0
      BY <2>1, <2>3, <3>1 DEF Transfer
    <3>2. CASE jobs[j].reserved - charged = 0
      <4>1. post[j].user \in Users /\ balance' = balance
        BY <2>1, <2>3, <3>2 DEF JobRows, walletVars
      <4>2. balance[post[j].user] + (post[j].held - charged) = balance[post[j].user]
        BY <2>1, <3>2, <4>1 DEF IInv, TypeOK, WalletTypeOK
      <4>. QED
        BY <4>1, <4>2 DEF IInv, TypeOK, WalletTypeOK
    <3>. QED
      BY <3>1, <3>2
  <2>6. \A o \in Orders : ledger'[o] = ledger[o]
    BY <2>3, RefsAssumption
       DEF IInv, TypeOK, WalletTypeOK, Transfer, Refs, walletVars
  <2>7. ~Closed(j) /\ Closed(j)'
    BY <1>2, <2>1, <2>4 DEF Closed, StillRunning, TerminalStatuses
  <2>8. /\ PA!Close(j, charged)
        /\ accounts[j].phase = "held" /\ charged \in 0 .. accounts[j].points
    BY <1>1, <2>1, <2>2, <2>4, <2>5, <2>6, <2>7, ClosingCloses
  <2>. QED
    BY <2>8
<1>3. ASSUME StillRunning(j), SettleFailed(j)
      PROVE  \E charged \in 0 .. accounts[j].points :
               accounts[j].phase = "held" /\ PA!Close(j, charged)
  <2>1. /\ jobs[j] \in JobRows /\ post[j].pc = "done"
        /\ jobs[j].user = post[j].user /\ jobs[j].reserved = post[j].held
    BY <1>3, RunningRow
  <2>2. /\ jobs'[j].status = "failed"
        /\ \A i \in Jobs \ {j} : jobs'[i] = jobs[i]
    BY <1>3, <2>1 DEF SettleFailed, IInv, TypeOK, JobRows
  <2>3. balance' = [balance EXCEPT ![post[j].user] = @ + (post[j].held - 0)]
    <3>1. post[j].held - 0 = post[j].held
      BY <2>1 DEF JobRows
    <3>. QED
      BY <1>3, <2>1, <3>1 DEF SettleFailed, Transfer
  <2>4. \A o \in Orders : ledger'[o] = ledger[o]
    BY <1>3, RefsAssumption
       DEF SettleFailed, IInv, TypeOK, WalletTypeOK, Transfer, Refs
  <2>5. ~Closed(j) /\ Closed(j)'
    BY <1>3, <2>1, <2>2 DEF Closed, StillRunning, TerminalStatuses
  <2>6. 0 \in 0 .. post[j].held
    BY <2>1 DEF JobRows
  <2>7. 0 = (IF jobs'[j].status = "completed" THEN jobs'[j].final ELSE 0)
    BY <2>2
  <2>8. /\ PA!Close(j, 0)
        /\ accounts[j].phase = "held" /\ 0 \in 0 .. accounts[j].points
    BY <1>1, <2>1, <2>2, <2>3, <2>4, <2>5, <2>6, <2>7, ClosingCloses
  <2>. QED
    BY <2>8
<1>. QED
  BY <1>1, <1>2, <1>3

\* A recharge is a TopUp.
LEMMA CreditTopsUp ==
  ASSUME IInv, [Next]_vars, NEW o \in Orders, NEW u \in Users,
         NEW points \in PackagePoints, Credit(o, u, points)
  PROVE  PA!TopUp(o, u, points)
<1>1. /\ o \in Refs /\ o \notin Jobs /\ \A j \in Jobs : j \notin Orders
  BY RefsAssumption DEF Refs
<1>2. /\ ledger[o] = <<>> /\ UNCHANGED <<post, jobs>>
      /\ balance' = [balance EXCEPT ![u] = @ + points]
      /\ ledger'[o] = Append(<<>>, Row(u, "recharge", points))
      /\ \A r \in Refs \ {o} : ledger'[r] = ledger[r]
  BY <1>1 DEF Credit, Transfer, IInv, TypeOK, WalletTypeOK
<1>3. ledger'[o] = << Row(u, "recharge", points) >>
  BY <1>2
<1>4. accountOf(o) = [phase |-> "none"]
  BY <1>2 DEF accountOf
<1>5. accountOf(o)' = [phase |-> "toppedUp", user |-> u, points |-> points]
  BY <1>1, <1>3 DEF accountOf, Row
<1>6. \A r \in Refs \ {o} : accountOf(r)' = accountOf(r)
  BY <1>2, AccountKept DEF Refs
<1>7. accounts' = [accounts EXCEPT ![o] = accountOf(o)'] /\ accounts[o] = accountOf(o)
  BY <1>1, <1>6 DEF accounts
<1>. QED
  BY <1>2, <1>4, <1>5, <1>7 DEF PA!TopUp, PA!Untouched, PA!ToppedUp, accounts

\* A step that moves no balance and changes no account is a stutter.
LEMMA HiddenStep ==
  ASSUME IInv, [Next]_vars, UNCHANGED <<balance, ledger>>,
         \A j \in Jobs : jobAccount(j)' = jobAccount(j)
  PROVE  UNCHANGED <<balance, accounts>>
<1>1. \A r \in Refs : accountOf(r)' = accountOf(r)
  BY AccountKept DEF Refs
<1>. QED
  BY <1>1 DEF accounts, Refs

\* The initial states map to initial states.
LEMMA InitMaps == Init => PA!Init
<1>. SUFFICES ASSUME Init PROVE PA!Init
  OBVIOUS
<1>1. \A r \in Refs : accountOf(r) = [phase |-> "none"]
  BY DEF Init, WalletInit, accountOf
<1>. QED
  BY <1>1 DEF Init, WalletInit, PA!Init, PA!Untouched, Refs

\* Every step is a step of the promise or a stutter.
LEMMA StepMaps ==
  ASSUME IInv, [Next]_vars
  PROVE  PA!Next \/ UNCHANGED <<balance, accounts>>
<1>. DEFINE Maps == PA!Next \/ UNCHANGED <<balance, accounts>>
<1>1. ASSUME NEW j \in Jobs, PostStep(j) PROVE Maps
  <2>1. CASE \E u \in Users, seconds \in Durations, mode \in Modes, source \in Sources :
               Reserve(j, u, seconds, mode, source)
    BY <2>1, ReserveHolds DEF PA!Next
  <2>2. CASE IngestFails(j) \/ SubmitFails(j)
    BY <2>2, RefundCloses DEF PA!Next, accounts
  <2>3. CASE InsertJob(j) \/ SubmitReturns(j)
    <3>1. /\ UNCHANGED <<balance, ledger>>
          /\ post[j] \in Requests
          /\ post'[j].pc \in {"submitting", "done"} /\ post[j].pc \in {"reserved", "submitting"}
          /\ post'[j].user = post[j].user /\ post'[j].held = post[j].held
          /\ \A i \in Jobs \ {j} : post'[i] = post[i] /\ jobs'[i] = jobs[i]
      BY <2>3 DEF InsertJob, SubmitReturns, IInv, TypeOK, Requests, NoRequest
    <3>2. jobs[j].status \in {"absent", "submitting"}
      BY <3>1 DEF IInv, HandlerMatchesRow
    <3>3. jobs'[j].status \in {"submitting", "running"}
      <4>1. CASE InsertJob(j)
        BY <4>1 DEF InsertJob, IInv, TypeOK
      <4>2. CASE SubmitReturns(j)
        <5>1. jobs[j] \in JobRows
          BY <4>2 DEF SubmitReturns, IInv, TypeOK, HandlerMatchesRow, NoRow
        <5>. QED
          BY <4>2, <5>1 DEF SubmitReturns, IInv, TypeOK, JobRows
      <4>. QED
        BY <2>3, <4>1, <4>2
    <3>4. jobAccount(j)' = jobAccount(j)
      BY <3>1, <3>2, <3>3 DEF jobAccount, Closed, TerminalStatuses
    <3>. QED
      BY <3>1, <3>4, OneJobChanges
  <2>. QED
    BY <1>1, <2>1, <2>2, <2>3 DEF PostStep
<1>2. CASE UNCHANGED <<balance, ledger, post, jobs>>
  <2>1. \A j \in Jobs : jobAccount(j)' = jobAccount(j)
    BY <1>2 DEF jobAccount, Closed
  <2>. QED
    BY <1>2, <2>1, HiddenStep
<1>3. ASSUME NEW j \in Jobs, ProviderStep(j) PROVE Maps
  BY <1>2, <1>3 DEF ProviderStep, ProviderAccepts, ProviderCompletes, ProviderGivesUp
<1>4. ASSUME NEW j \in Jobs, NEW s \in Slots, PollStep(j, s) PROVE Maps
  <2>1. CASE PollApplies(j, s)
    BY <1>2, <2>1, SettlementCloses DEF PA!Next, accounts
  <2>2. CASE PollStart(j, s) \/ PollAnswered(j, s) \/ PollFails(j, s)
    BY <1>2, <2>2 DEF PollStart, PollAnswered, PollFails
  <2>. QED
    BY <1>4, <2>1, <2>2 DEF PollStep
<1>5. ASSUME NEW o \in Orders, NEW u \in Users, NEW points \in PackagePoints,
             Credit(o, u, points)
      PROVE  Maps
  BY <1>5, CreditTopsUp DEF PA!Next
<1>6. CASE Crash
  <2>1. UNCHANGED <<balance, ledger, jobs>>
    BY <1>6 DEF Crash
  <2>2. ASSUME NEW j \in Jobs PROVE jobAccount(j)' = jobAccount(j)
    <3>1. CASE post[j].pc \in {"reserved", "submitting"}
      <4>1. post[j] \in Requests
        BY <3>1 DEF IInv, TypeOK, NoRequest
      <4>2. post'[j] = [post[j] EXCEPT !.pc = "dead"]
        BY <1>6, <3>1 DEF Crash
      <4>3. /\ post'[j].pc = "dead" /\ post'[j].user = post[j].user
            /\ post'[j].held = post[j].held
        BY <4>1, <4>2 DEF Requests
      <4>. QED
        BY <2>1, <3>1, <4>3 DEF jobAccount, Closed
    <3>2. CASE post[j].pc \notin {"reserved", "submitting"}
      <4>1. post'[j] = post[j]
        BY <1>6, <3>2 DEF Crash
      <4>. QED
        BY <2>1, <4>1 DEF jobAccount, Closed
    <3>. QED
      BY <3>1, <3>2
  <2>. QED
    BY <2>1, <2>2, HiddenStep
<1>. QED
  BY <1>1, <1>2, <1>3, <1>4, <1>5, <1>6 DEF Next, vars

\* The handlers, however they interleave and crash, implement PointsAccount: a
\* hold is closed once and gives back what it does not charge, an order tops up
\* once, and no balance moves otherwise.
THEOREM JobsKeepAccounts == Spec => KeepsAccounts
<1>1. Init => PA!Init
  BY InitMaps
<1>2. IInv /\ [Next]_vars => [PA!Next]_(PA!paVars)
  BY StepMaps DEF PA!paVars, accounts
<1>. QED
  BY <1>1, <1>2, InductiveInvariant, PTL DEF Spec, KeepsAccounts, PA!Spec

-----------------------------------------------------------------------------
(* The whole service: the payment handlers credit as JobLedger expects *)

\* The orders' rows and what their ledgers hold.
OrdersOK ==
  /\ checkout \in [Orders -> Pay!CheckoutStates]
  /\ orders \in [Orders -> Pay!OrderRows \cup {Pay!NoOrder}]
  /\ trade = [o \in Orders |-> trade[o]]
  /\ \A o \in Orders :
       /\ checkout[o] = "idle" => orders[o] = Pay!NoOrder
       /\ checkout[o] = "creating" => orders[o].status = "pending"
       /\ trade[o] # 0 => checkout[o] = "answered"
       /\ orders[o].status # "paid" => ledger[o] = <<>>

\* No job handler writes the ledger of an order.
LEMMA JobsLeaveOrders ==
  ASSUME IInv, JobStep, NEW o \in Orders
  PROVE  ledger'[o] = ledger[o]
<1>1. o \in Refs /\ o \notin Jobs /\ DOMAIN ledger = Refs
  BY RefsAssumption DEF Refs, IInv, TypeOK, WalletTypeOK
<1>2. ASSUME NEW j \in Jobs, NEW u, NEW type, NEW n, Transfer(u, j, type, n)
      PROVE  ledger'[o] = ledger[o]
  BY <1>1, <1>2 DEF Transfer
<1>3. ASSUME NEW j \in Jobs, PostStep(j) PROVE ledger'[o] = ledger[o]
  BY <1>2, <1>3 DEF PostStep, Reserve, IngestFails, RefundSubmission, InsertJob, SubmitReturns,
                    SubmitFails
<1>4. ASSUME NEW j \in Jobs, ProviderStep(j) PROVE ledger'[o] = ledger[o]
  BY <1>4 DEF ProviderStep, ProviderAccepts, ProviderCompletes, ProviderGivesUp
<1>5. ASSUME NEW j \in Jobs, NEW s \in Slots, PollStep(j, s) PROVE ledger'[o] = ledger[o]
  BY <1>2, <1>5 DEF PollStep, PollStart, PollAnswered, PollFails, PollApplies, SettleCompleted,
                    SettleFailed, walletVars
<1>. QED
  BY <1>3, <1>4, <1>5 DEF JobStep

\* A row marked paid is a credit of an unused order.
LEMMA MarkPaidCredits ==
  ASSUME IInv, OrdersOK, NEW o \in Orders, Pay!MarkPaid(o),
         orders[o].status \in {"pending", "paying"}, checkout[o] # "creating",
         UNCHANGED <<checkout, trade, jobVars>>
  PROVE  OrdersOK' /\ \E u \in Users, points \in PackagePoints : Credit(o, u, points)
<1>1. orders[o] \in Pay!OrderRows
  BY DEF OrdersOK, Pay!NoOrder
<1>2. orders[o].user \in Users /\ orders[o].pack \in PackageIds
  BY <1>1 DEF Pay!OrderRows
<1>3. Pay!pointsOf(o) = PACKAGES[orders[o].pack].points
  BY DEF Pay!pointsOf, Pay!PACKAGES, PACKAGES
<1>4. Pay!pointsOf(o) \in PackagePoints
  BY <1>2, <1>3, PackagesAgree
<1>5. Transfer(orders[o].user, o, "recharge", Pay!pointsOf(o))
  BY DEF Pay!MarkPaid, Pay!Transfer, Pay!Row, Transfer, Row
<1>6. ledger[o] = <<>>
  BY DEF OrdersOK
<1>7. Credit(o, orders[o].user, Pay!pointsOf(o))
  BY <1>5, <1>6 DEF Credit, jobVars
<1>8. OrdersOK'
  <2>1. /\ orders' = [orders EXCEPT ![o].status = "paid"]
        /\ checkout' = checkout /\ trade' = trade
    BY DEF Pay!MarkPaid
  <2>2. /\ orders'[o] \in Pay!OrderRows /\ orders'[o].status = "paid"
        /\ orders' \in [Orders -> Pay!OrderRows \cup {Pay!NoOrder}]
        /\ \A p \in Orders \ {o} : orders'[p] = orders[p]
    BY <1>1, <2>1 DEF OrdersOK, Pay!OrderRows
  <2>3. \A p \in Orders \ {o} : ledger'[p] = ledger[p]
    BY <1>5 DEF Transfer, IInv, TypeOK, WalletTypeOK, Refs
  <2>4. checkout[o] # "idle"
    BY DEF OrdersOK, Pay!NoOrder
  <2>. QED
    BY <2>1, <2>2, <2>3, <2>4 DEF OrdersOK
<1>. QED
  BY <1>2, <1>4, <1>7, <1>8

\* A payment handler credits, or leaves the balances alone.
LEMMA OrderStepCredits ==
  ASSUME IInv, OrdersOK, NEW o \in Orders, Pay!OrderStep(o), UNCHANGED jobVars
  PROVE  /\ OrdersOK'
         /\ \/ \E u \in Users, points \in PackagePoints : Credit(o, u, points)
            \/ UNCHANGED vars
<1>1. CASE \E u \in Users, pack \in PackageIds : Pay!createPendingOrder(o, u, pack)
  <2>1. PICK u \in Users, pack \in PackageIds : Pay!createPendingOrder(o, u, pack)
    BY <1>1
  <2>2. PICK row : row = [status |-> "pending", user |-> u, pack |-> pack]
    OBVIOUS
  <2>3. /\ row \in Pay!OrderRows /\ row.status = "pending"
        /\ orders' = [orders EXCEPT ![o] = row]
        /\ checkout' = [checkout EXCEPT ![o] = "creating"] /\ checkout[o] = "idle"
        /\ UNCHANGED <<balance, ledger, trade>>
    BY <2>1, <2>2 DEF Pay!createPendingOrder, Pay!OrderRows
  <2>4. orders[o] = Pay!NoOrder /\ ledger[o] = <<>> /\ trade[o] = 0
    BY <2>3 DEF OrdersOK, Pay!NoOrder
  <2>5. OrdersOK'
    BY <2>3, <2>4 DEF OrdersOK, Pay!CheckoutStates
  <2>. QED
    BY <2>3, <2>5 DEF vars, jobVars
<1>2. CASE Pay!PaymentCreated(o)
  <2>1. /\ checkout[o] = "creating" /\ orders' = [orders EXCEPT ![o].status = "paying"]
        /\ checkout' = [checkout EXCEPT ![o] = "answered"]
        /\ UNCHANGED <<balance, ledger, trade>>
    BY <1>2 DEF Pay!PaymentCreated
  <2>2. orders[o] \in Pay!OrderRows /\ ledger[o] = <<>>
    BY <2>1 DEF OrdersOK, Pay!NoOrder
  <2>3. /\ orders' \in [Orders -> Pay!OrderRows \cup {Pay!NoOrder}]
        /\ orders'[o].status = "paying" /\ \A p \in Orders \ {o} : orders'[p] = orders[p]
    BY <2>1, <2>2 DEF OrdersOK, Pay!OrderRows
  <2>4. OrdersOK'
    BY <2>1, <2>2, <2>3 DEF OrdersOK, Pay!CheckoutStates
  <2>. QED
    BY <2>1, <2>4 DEF vars, jobVars
<1>3. CASE Pay!PaymentRefused(o)
  <2>1. /\ checkout[o] = "creating" /\ checkout' = [checkout EXCEPT ![o] = "failed"]
        /\ UNCHANGED <<balance, ledger, orders, trade>>
    BY <1>3 DEF Pay!PaymentRefused
  <2>2. OrdersOK'
    BY <2>1 DEF OrdersOK, Pay!CheckoutStates
  <2>. QED
    BY <2>1, <2>2 DEF vars, jobVars
<1>4. CASE /\ checkout[o] = "answered"
           /\ \E cents \in {Pay!amount_cents(o)} \cup OtherAmounts : Pay!CustomerPays(o, cents)
  <2>1. PICK cents : trade' = [trade EXCEPT ![o] = cents]
    BY <1>4 DEF Pay!CustomerPays
  <2>2. UNCHANGED <<balance, ledger, checkout, orders>>
    BY <1>4 DEF Pay!CustomerPays
  <2>3. OrdersOK'
    BY <1>4, <2>1, <2>2 DEF OrdersOK
  <2>. QED
    BY <2>2, <2>3 DEF vars, jobVars
<1>5. CASE Pay!AlipayNotify(o)
  <2>1. CASE Pay!Payable(o, {"pending", "paying"})
    <3>1. /\ Pay!MarkPaid(o) /\ orders[o].status \in {"pending", "paying"}
          /\ UNCHANGED <<checkout, trade>> /\ trade[o] # 0
      BY <1>5, <2>1 DEF Pay!AlipayNotify, Pay!Payable
    <3>2. checkout[o] # "creating"
      BY <3>1 DEF OrdersOK
    <3>. QED
      BY <3>1, <3>2, MarkPaidCredits
  <2>2. CASE ~Pay!Payable(o, {"pending", "paying"})
    BY <1>5, <2>2 DEF Pay!AlipayNotify, OrdersOK, vars, jobVars
  <2>. QED
    BY <2>1, <2>2
<1>6. CASE Pay!MockComplete(o)
  BY <1>6, MarkPaidCredits DEF Pay!MockComplete, Pay!Payable
<1>. QED
  BY <1>1, <1>2, <1>3, <1>4, <1>5, <1>6 DEF Pay!OrderStep

LEMMA ServiceStep ==
  ASSUME IInv, OrdersOK, [ServiceNext]_serviceVars
  PROVE  OrdersOK' /\ [Next]_vars
<1>1. CASE JobStep /\ UNCHANGED orderVars
  <2>1. OrdersOK'
    BY <1>1, JobsLeaveOrders DEF OrdersOK, orderVars
  <2>. QED
    BY <1>1, <2>1 DEF JobStep, Next
<1>2. ASSUME NEW o \in Orders, Pay!OrderStep(o), UNCHANGED jobVars
      PROVE  OrdersOK' /\ [Next]_vars
  BY <1>2, OrderStepCredits DEF Next
<1>3. CASE Restart
  <2>1. \A o \in Orders : checkout'[o] \in {checkout[o], "dead"} /\ checkout'[o] # "creating"
                          /\ (checkout[o] = "answered" => checkout'[o] = "answered")
    BY <1>3 DEF Restart
  <2>2. /\ checkout' \in [Orders -> Pay!CheckoutStates]
        /\ UNCHANGED <<ledger, orders, trade>>
    BY <1>3 DEF Restart, Crash, OrdersOK, Pay!CheckoutStates
  <2>3. OrdersOK'
    BY <2>1, <2>2 DEF OrdersOK
  <2>. QED
    BY <1>3, <2>3 DEF Restart, Next
<1>4. CASE UNCHANGED serviceVars
  BY <1>4 DEF serviceVars, orderVars, OrdersOK, vars
<1>. QED
  BY <1>1, <1>2, <1>3, <1>4 DEF ServiceNext

\* In the whole service, whatever the payment handlers do is what the erase
\* jobs expect of their environment: credits of unused orders, for a registered
\* user and a package's points.
THEOREM PaymentsAreCredits == ServiceSpec => JobsSeeCredits
<1>1. ServiceInit => Init /\ IInv /\ OrdersOK
  BY InitInv DEF ServiceInit, Pay!Init, Pay!NoOrder, Pay!CheckoutStates, OrdersOK, Init,
                 WalletInit, Refs
<1>2. IInv /\ OrdersOK /\ [ServiceNext]_serviceVars => IInv' /\ OrdersOK' /\ [Next]_vars
  BY ServiceStep, NextInv
<1>. QED
  BY <1>1, <1>2, PTL DEF ServiceSpec, JobsSeeCredits, Spec

\* So that what is proved of the jobs beside an environment holds of the whole
\* service: no overdraft, every ledger explained, every movement a double
\* entry, settled jobs for good, and the promise about points.
THEOREM ServiceKeepsPromises ==
  ServiceSpec => /\ [](NoOverdraft /\ LedgerExplainsJobs)
                 /\ DoubleEntry /\ SettledForGood /\ KeepsAccounts
  BY PaymentsAreCredits, NeverOverdrawn, LedgerAlwaysExplains, AlwaysDoubleEntry, StaysSettled,
     JobsKeepAccounts, PTL DEF JobsSeeCredits

-----------------------------------------------------------------------------
(* The other way round: beside the erase jobs, too, orders keep what is     *)
(* proved of the payment handlers alone.                                    *)

Alone == INSTANCE PaymentsProofs

LEMMA AloneAssumptions ==
  PackageIds \subseteq DOMAIN Alone!PACKAGES /\ OtherAmounts \subseteq Int /\ Jobs \cap Orders = {}
  BY OrdersAssumption, RefsAssumption DEF Alone!PACKAGES, PACKAGES

LEMMA SameOrderStep ==
  ASSUME NEW o \in Orders, Pay!OrderStep(o)
  PROVE  Alone!OrderStep(o)
  BY DEF Pay!OrderStep, Alone!OrderStep, Pay!createPendingOrder, Alone!createPendingOrder,
         Pay!PaymentCreated, Alone!PaymentCreated, Pay!PaymentRefused, Alone!PaymentRefused,
         Pay!CustomerPays, Alone!CustomerPays, Pay!AlipayNotify, Alone!AlipayNotify,
         Pay!MockComplete, Alone!MockComplete, Pay!Payable, Alone!Payable, Pay!MarkPaid,
         Alone!MarkPaid, Pay!pointsOf, Alone!pointsOf, Pay!amount_cents, Alone!amount_cents,
         Pay!PACKAGES, Alone!PACKAGES, Pay!Transfer, Alone!Transfer, Pay!Row, Alone!Row,
         Pay!validatePaidAmount, Alone!validatePaidAmount

\* A job handler writes neither an order nor its ledger, and leaves the balances
\* and the ledger well formed.
LEMMA JobStepKeepsOrders ==
  ASSUME IInv, IInv', Alone!IInv, JobStep, UNCHANGED orderVars
  PROVE  Alone!IInv'
<1>1. \A o \in Orders : ledger'[o] = ledger[o]
  BY JobsLeaveOrders
<1>2. Alone!WalletTypeOK'
  BY DEF IInv, TypeOK, WalletTypeOK, Rows, RowTypes, Refs, Alone!WalletTypeOK, Alone!Rows,
         Alone!RowTypes, Alone!Refs
<1>3. Alone!TypeOK'
  BY <1>2 DEF Alone!IInv, Alone!TypeOK, orderVars
<1>4. Alone!HandlerMatchesOrder' /\ Alone!AckedIsCredited'
  BY DEF Alone!IInv, Alone!HandlerMatchesOrder, Alone!AckedIsCredited, Alone!amount_cents,
         orderVars
<1>5. Alone!CreditedOnce'
  BY <1>1 DEF Alone!IInv, Alone!CreditedOnce, Alone!pointsOf, orderVars
<1>. QED
  BY <1>3, <1>4, <1>5 DEF Alone!IInv

\* A restart is a crash of the payment handlers, or finds none at work.
LEMMA RestartIsCrash ==
  ASSUME Alone!IInv, Restart
  PROVE  [Alone!Next]_(Alone!payVars)
<1>1. /\ checkout' = [o \in Orders |-> IF checkout[o] = "creating" THEN "dead" ELSE checkout[o]]
      /\ UNCHANGED <<balance, ledger, orders, trade, acked>>
  BY DEF Restart, Crash, walletVars
<1>2. CASE \E o \in Orders : checkout[o] = "creating"
  BY <1>1, <1>2 DEF Alone!Crash, Alone!Next
<1>3. CASE \A o \in Orders : checkout[o] # "creating"
  <2>1. checkout' = checkout
    BY <1>1, <1>3 DEF Alone!IInv, Alone!TypeOK
  <2>. QED
    BY <1>1, <2>1 DEF Alone!payVars
<1>. QED
  BY <1>2, <1>3

\* What a step of the service does to the orders, whoever takes it
LEMMA ServiceKeepsOrders ==
  ASSUME IInv, IInv', Alone!IInv, [ServiceNext]_serviceVars
  PROVE  /\ Alone!IInv'
         /\ \A p \in Orders : orders[p].status = "paid" => orders'[p] = orders[p]
<1>1. CASE JobStep /\ UNCHANGED orderVars
  BY <1>1, JobStepKeepsOrders DEF orderVars
<1>2. CASE [Alone!Next]_(Alone!payVars)
  <2>1. Alone!IInv'
    BY <1>2, AloneAssumptions, Alone!NextInv
  <2>2. ASSUME NEW p \in Orders, orders[p].status = "paid"
        PROVE  orders'[p] = orders[p]
    BY <1>2, <2>2, AloneAssumptions, Alone!PaidRowKept
  <2>. QED
    BY <2>1, <2>2
<1>3. CASE \E o \in Orders : Pay!OrderStep(o)
  BY <1>2, <1>3, SameOrderStep DEF Alone!Next
<1>4. CASE Restart
  BY <1>2, <1>4, RestartIsCrash
<1>5. CASE UNCHANGED serviceVars
  BY <1>2, <1>5 DEF serviceVars, vars, orderVars, Alone!payVars
<1>. QED
  BY <1>1, <1>3, <1>4, <1>5 DEF ServiceNext

\* In the whole service an order is credited once, for what Alipay took, and
\* acknowledged only then; and it stays paid, whatever the erase jobs do to the
\* same balances meanwhile and wherever the process restarts.
THEOREM ServiceKeepsOrderPromises ==
  ServiceSpec => /\ [](Pay!CreditedOnce /\ Pay!CreditWasPaidFor /\ Pay!AckedIsCredited)
                 /\ Pay!PaidForGood
<1>1. ServiceInit => Alone!IInv
  <2>1. ServiceInit => Alone!Init
    BY DEF ServiceInit, Pay!Init, Alone!Init, Pay!WalletInit, Alone!WalletInit, Pay!NoOrder,
           Alone!NoOrder, Pay!Refs, Alone!Refs, Pay!welcomePoints, Alone!welcomePoints
  <2>. QED
    BY <2>1, AloneAssumptions, Alone!InitInv
<1>2. ServiceSpec => []IInv
  BY PaymentsAreCredits, InductiveInvariant, PTL DEF JobsSeeCredits
<1>3. IInv /\ IInv' /\ Alone!IInv /\ [ServiceNext]_serviceVars =>
        /\ Alone!IInv'
        /\ [\A o \in Orders : orders[o].status = "paid" => orders'[o] = orders[o]]_(Pay!payVars)
  BY ServiceKeepsOrders
<1>4. Alone!IInv => Pay!CreditedOnce /\ Pay!CreditWasPaidFor /\ Pay!AckedIsCredited
  BY DEF Alone!IInv, Alone!HandlerMatchesOrder, Alone!CreditedOnce, Alone!AckedIsCredited,
         Alone!Row, Alone!pointsOf, Alone!amount_cents, Alone!PACKAGES, Pay!CreditedOnce,
         Pay!CreditWasPaidFor, Pay!AckedIsCredited, Pay!Row, Pay!pointsOf, Pay!amount_cents,
         Pay!PACKAGES
<1>5. ServiceSpec => []Alone!IInv
  BY <1>1, <1>2, <1>3, PTL DEF ServiceSpec
<1>6. ServiceSpec => [](Pay!CreditedOnce /\ Pay!CreditWasPaidFor /\ Pay!AckedIsCredited)
  BY <1>4, <1>5, PTL
<1> DEFINE PaidStay == \A o \in Orders : orders[o].status = "paid" => orders'[o] = orders[o]
<1>7. ServiceSpec => [][PaidStay]_(Pay!payVars)
  BY <1>2, <1>3, <1>5, PTL DEF ServiceSpec
<1>8. Pay!PaidForGood <=> [][PaidStay]_(Pay!payVars)
  BY DEF Pay!PaidForGood
<1>. QED
  BY <1>6, <1>7, <1>8
=============================================================================
