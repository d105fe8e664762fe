------------------------- MODULE HelperLicenseProofs -------------------------
(***************************************************************************)
(* For every number of users, downloads and videos: a device's free trial  *)
(* is never exceeded and its usage is the sum of its log, the helper       *)
(* downloads nothing the site has not logged, and every stage of a         *)
(* download is charged at most once and in order, whatever calls are lost. *)
(***************************************************************************)
EXTENDS HelperLicense, FiniteSetTheorems, NaturalsInduction, WellFoundedInduction, TLAPS

\* The calls of a download agree with where the helper is in it, and with the
\* site's log.
CallsMatch ==
  \A o \in Ops, s \in Stages :
    /\ call[o][s] # "none" => op[o].pc # "idle"
    /\ op[o].pc \in {"starting", "downloading"} => call[o]["helper"] = "allowed"
    /\ call[o][s] = "allowed" => \E e \in events : e.op = o /\ e.stage = s

IInv == TypeOK /\ TrialLimit /\ CallsMatch

\* A download that has begun knows its user and its count.
LEMMA BegunDownload ==
  ASSUME TypeOK, NEW o \in Ops, op[o].pc # "idle"
  PROVE  op[o] \in Downloads
  BY DEF TypeOK, NoDownload

\* Where a flow begins
LEMMA FirstStages ==
  ASSUME NEW flow \in Flows
  PROVE  FirstStage(flow) \in Stages
  BY FlowsAssumption DEF FirstStage, Stages

LEMMA StageDevices == \A s \in Stages : DeviceOf(s) \in Devices
  BY DEF DeviceOf, Devices

\* Nothing is used and no call is out at first.
LEMMA InitHolds == Init => IInv
  <1> SUFFICES ASSUME Init PROVE IInv
    OBVIOUS
  <1>1. TypeOK  BY CountsAssumption DEF Init, TypeOK, Stages, Devices, CallStates
  <1>2. TrialLimit  BY DEF Init, TrialLimit, HELPER_TRIAL_LIMIT
  <1>3. CallsMatch  BY DEF Init, CallsMatch, NoDownload, Stages
  <1>4. QED  BY <1>1, <1>2, <1>3 DEF IInv

\* The console, the page and the helper: asking, giving up, starting.
LEMMA HelperKeeps ==
  ASSUME IInv, HelperStep
  PROVE  IInv'
  <1> USE DEF IInv
  <1>0. UNCHANGED <<used, months, events>>
    BY DEF HelperStep, RequestDownload, PassedOn, AllowedInConsole, AllowedInConnector,
           AllowedInHelper, Refused, GivesUp, Starts
  <1>1. TrialLimit'  BY <1>0 DEF TrialLimit
  <1>2. CASE \E o \in Ops, u \in Users, n \in Counts, flow \in Flows :
               RequestDownload(o, u, n, flow)
    <2>1. PICK o \in Ops, u \in Users, n \in Counts, flow \in Flows :
            RequestDownload(o, u, n, flow)
      BY <1>2
    <2>2. FirstStage(flow) \in Stages  BY FirstStages
    <2>3. PICK s \in Stages : s = FirstStage(flow)  BY <2>2
    <2> DEFINE new == [pc |-> "asking", user |-> u, count |-> n, flow |-> flow, stage |-> s]
    <2>4. new \in Downloads /\ new.pc = "asking"  BY DEF Downloads, OpStates
    <2>5. /\ op[o].pc = "idle" /\ op' = [op EXCEPT ![o] = new]
          /\ call' = [call EXCEPT ![o][s] = "sent"]
      BY <2>1, <2>3 DEF RequestDownload
    <2> HIDE DEF new
    <2>6. TypeOK'  BY <1>0, <2>4, <2>5 DEF TypeOK, CallStates
    <2>7. CallsMatch'  BY <1>0, <2>4, <2>5 DEF CallsMatch, TypeOK, Stages
    <2>8. QED  BY <1>1, <2>6, <2>7
  <1>3. ASSUME NEW o \in Ops, AllowedInConsole(o) \/ AllowedInConnector(o)
        PROVE  IInv'
    <2>1. op[o].pc = "asking"  BY <1>3 DEF AllowedInConsole, AllowedInConnector, PassedOn
    <2>2. op[o] \in Downloads  BY <2>1, BegunDownload
    <2> DEFINE new == [op[o] EXCEPT !.stage = "helper"]
    <2>3. new \in Downloads /\ new.pc = "asking"  BY <2>1, <2>2 DEF Downloads, Stages
    <2>4. op' = [op EXCEPT ![o] = new] /\ call' = [call EXCEPT ![o]["helper"] = "sent"]
      BY <1>3 DEF AllowedInConsole, AllowedInConnector, PassedOn
    <2> HIDE DEF new
    <2>5. TypeOK'  BY <1>0, <2>3, <2>4 DEF TypeOK, CallStates
    <2>6. CallsMatch'  BY <1>0, <2>1, <2>3, <2>4 DEF CallsMatch, TypeOK, Stages
    <2>7. QED  BY <1>1, <2>5, <2>6
  <1>4. ASSUME NEW o \in Ops, AllowedInHelper(o) \/ Refused(o) \/ GivesUp(o) \/ Starts(o)
        PROVE  IInv'
    <2>1. PICK pc \in OpStates :
            /\ op' = [op EXCEPT ![o].pc = pc]
            /\ pc \in {"starting", "downloading"} => call[o]["helper"] = "allowed"
      <3>1. CASE AllowedInHelper(o)  BY <1>4, <3>1 DEF AllowedInHelper, OpStates
      <3>2. CASE Refused(o) \/ GivesUp(o)  BY <1>4, <3>2 DEF Refused, GivesUp, OpStates
      <3>3. CASE Starts(o)
        <4>1. call[o]["helper"] = "allowed"  BY <3>3 DEF Starts, CallsMatch, Stages
        <4>2. QED  BY <3>3, <4>1 DEF Starts, OpStates
      <3>4. QED  BY <1>4, <3>1, <3>2, <3>3
    <2>2. op[o].pc # "idle" /\ UNCHANGED call
      BY <1>4 DEF AllowedInHelper, Refused, GivesUp, Starts
    <2>3. op[o] \in Downloads  BY <2>2, BegunDownload
    <2> DEFINE new == [op[o] EXCEPT !.pc = pc]
    <2>4. new \in Downloads /\ new.pc = pc /\ pc # "idle"
      BY <2>3 DEF Downloads, OpStates
    <2>5. op' = [op EXCEPT ![o] = new]  BY <2>1
    <2> HIDE DEF new
    <2>6. TypeOK'  BY <1>0, <2>2, <2>4, <2>5 DEF TypeOK
    <2>7. CallsMatch'  BY <1>0, <2>1, <2>2, <2>4, <2>5 DEF CallsMatch, TypeOK
    <2>8. QED  BY <1>1, <2>6, <2>7
  <1>5. QED  BY <1>2, <1>3, <1>4 DEF HelperStep

\* What the site writes for a call it allows.
LEMMA AllowedKeeps ==
  ASSUME IInv, NEW o \in Ops, NEW s \in Stages,
         NEW type \in {"member_download", "trial_download"},
         call[o][s] = "sent", UNCHANGED <<months, op>>,
         events' = events \cup {Event(o, s, type)},
         call' = [call EXCEPT ![o][s] = "allowed"],
         used' \in [Users -> [Devices -> Nat]]
  PROVE  TypeOK' /\ CallsMatch'
  <1> USE DEF IInv
  <1>1. op[o].pc # "idle"  BY DEF CallsMatch
  <1>2. op[o] \in Downloads  BY <1>1, BegunDownload
  <1>3. Event(o, s, type) \in Events  BY <1>2, StageDevices DEF Event, Events, Downloads
  <1>4. TypeOK'  BY <1>3 DEF TypeOK, CallStates
  <1>5. Event(o, s, type).op = o /\ Event(o, s, type).stage = s  BY DEF Event
  <1>6. CallsMatch'  BY <1>1, <1>5 DEF CallsMatch, TypeOK
  <1>7. QED  BY <1>4, <1>6

\* The site: consuming, activating, expiring.
LEMMA SiteKeeps ==
  ASSUME IInv, SiteStep
  PROVE  IInv'
  <1> USE DEF IInv
  <1>1. ASSUME NEW o \in Ops, NEW s \in Stages, ConsumeAsMember(o, s)
        PROVE  IInv'
    <2>1. TypeOK' /\ CallsMatch'
      BY <1>1, AllowedKeeps DEF ConsumeAsMember, TypeOK
    <2>2. TrialLimit'  BY <1>1 DEF ConsumeAsMember, TrialLimit
    <2>3. QED  BY <2>1, <2>2
  <1>2. ASSUME NEW o \in Ops, NEW s \in Stages, ConsumeTrial(o, s)
        PROVE  IInv'
    <2> DEFINE u == op[o].user
               n == op[o].count
               d == DeviceOf(s)
    <2>1. op[o].pc # "idle"  BY <1>2 DEF ConsumeTrial, CallsMatch
    <2>2. op[o] \in Downloads  BY <2>1, BegunDownload
    <2>3. u \in Users /\ n \in Nat /\ d \in Devices
      BY <2>2, StageDevices, CountsAssumption DEF Downloads
    <2>4. used[u][d] \in Nat  BY <2>3 DEF TypeOK
    <2>5. used[u][d] <= HELPER_TRIAL_LIMIT  BY <2>3 DEF TrialLimit
    <2>6. used[u][d] + n \in Nat /\ used[u][d] + n <= HELPER_TRIAL_LIMIT
      <3>1. trialRemaining(u, d) >= n  BY <1>2 DEF ConsumeTrial, Enough
      <3>2. trialRemaining(u, d) = HELPER_TRIAL_LIMIT - used[u][d]
        BY <2>4, <2>5 DEF trialRemaining, HELPER_TRIAL_LIMIT
      <3> HIDE DEF u, n, d
      <3>3. QED  BY <2>3, <2>4, <3>1, <3>2 DEF HELPER_TRIAL_LIMIT
    <2>7. used' = [used EXCEPT ![u][d] = used[u][d] + n]  BY <1>2 DEF ConsumeTrial
    <2> HIDE DEF u, n, d
    <2>8. PICK m \in Nat : m = used[u][d] + n /\ m <= HELPER_TRIAL_LIMIT  BY <2>6
    <2>9. used' = [used EXCEPT ![u][d] = m]  BY <2>7, <2>8
    <2>10. used' \in [Users -> [Devices -> Nat]]  BY <2>3, <2>9 DEF TypeOK
    <2>11. TrialLimit'  BY <2>3, <2>8, <2>9 DEF TrialLimit, TypeOK
    <2>12. TypeOK' /\ CallsMatch'  BY <1>2, <2>10, AllowedKeeps DEF ConsumeTrial
    <2>13. QED  BY <2>11, <2>12
  <1>3. ASSUME NEW o \in Ops, NEW s \in Stages, ConsumeRefused(o, s)
        PROVE  IInv'
    <2>1. TypeOK'  BY <1>3 DEF ConsumeRefused, TypeOK, CallStates
    <2>2. op[o].pc # "idle"  BY <1>3 DEF ConsumeRefused, CallsMatch
    <2>3. CallsMatch'  BY <1>3, <2>2 DEF ConsumeRefused, CallsMatch, TypeOK, Stages
    <2>4. TrialLimit'  BY <1>3 DEF ConsumeRefused, TrialLimit
    <2>5. QED  BY <2>1, <2>3, <2>4
  <1>4. CASE (\E u \in Users, m \in PlanMonths : MockActivate(u, m)) \/ MonthPasses
    <2>1. UNCHANGED <<used, events, op, call>>  BY <1>4 DEF MockActivate, MonthPasses
    <2>2. months' \in [Users -> 0 .. MaxMonths]
      <3>1. CASE MonthPasses
        BY <3>1, CountsAssumption DEF MonthPasses, isMember, TypeOK
      <3>2. CASE \E u \in Users, m \in PlanMonths : MockActivate(u, m)
        BY <3>2, CountsAssumption DEF MockActivate, PlanMonths, TypeOK
      <3>3. QED  BY <1>4, <3>1, <3>2
    <2>3. TypeOK'  BY <2>1, <2>2 DEF TypeOK
    <2>4. TrialLimit' /\ CallsMatch'  BY <2>1 DEF TrialLimit, CallsMatch
    <2>5. QED  BY <2>3, <2>4
  <1>5. QED  BY <1>1, <1>2, <1>3, <1>4 DEF SiteStep

\* The inductive invariant holds in every reachable state.
LEMMA Invariance == Spec => []IInv
  <1>1. IInv /\ UNCHANGED vars => IInv'
    BY DEF IInv, vars, TypeOK, TrialLimit, CallsMatch
  <1>2. IInv /\ [Next]_vars => IInv'
    BY <1>1, HelperKeeps, SiteKeeps DEF Next
  <1>3. QED  BY <1>2, InitHolds, PTL DEF Spec

\* Whatever the number of clients and the order of their calls, no device gets
\* more than its free videos.
THEOREM TrialIsLimited == Spec => [](TypeOK /\ TrialLimit)
  BY Invariance, PTL DEF IInv

\* The helper downloads nothing for which the site has no event, whatever calls
\* and answers are lost.
THEOREM StrictMode == Spec => []DownloadsAreLicensed
  <1>1. IInv => DownloadsAreLicensed
    BY DEF IInv, CallsMatch, DownloadsAreLicensed, Stages
  <1>2. QED  BY <1>1, Invariance, PTL
-----------------------------------------------------------------------------
(* Who is charged, and in which order *)

\* A stage after the first of a download's flow is the handler's, reached when the
\* first has allowed it, and the site logs one event for every call it allows.
Passed(o) ==
  LET first == FirstStage(op[o].flow) IN
  /\ op[o].stage # "helper" => op[o].stage = first /\ call[o]["helper"] = "none"
  /\ \A s \in Stages \ {first} :
       call[o][s] # "none" => s = "helper" /\ call[o][first] = "allowed"

ChargesMatch ==
  /\ \A o \in Ops : op[o].pc # "idle" => Passed(o)
  /\ \A e \in events : e.device = DeviceOf(e.stage) /\ call[e.op][e.stage] = "allowed"
  /\ \A e, f \in events : e.op = f.op /\ e.stage = f.stage => e = f

CInv == IInv /\ ChargesMatch

\* A new download is charged to nobody yet; a later step of its client changes
\* neither its flow nor what has been allowed.
LEMMA HelperKeepsCharges ==
  ASSUME CInv, HelperStep
  PROVE  ChargesMatch'
  <1> USE DEF CInv, IInv
  <1>0. UNCHANGED <<used, months, events>>
    BY DEF HelperStep, RequestDownload, PassedOn, AllowedInConsole, AllowedInConnector,
           AllowedInHelper, Refused, GivesUp, Starts
  <1>1. \A e \in events : e.op \in Ops /\ e.stage \in Stages  BY DEF TypeOK, Events
  <1>2. CASE \E o \in Ops, u \in Users, n \in Counts, flow \in Flows :
               RequestDownload(o, u, n, flow)
    <2>1. PICK o \in Ops, u \in Users, n \in Counts, flow \in Flows :
            RequestDownload(o, u, n, flow)
      BY <1>2
    <2>2. PICK first \in Stages : first = FirstStage(flow)  BY FirstStages
    <2>3. /\ op[o].pc = "idle" /\ \A s \in Stages : call[o][s] = "none"
          /\ op'[o].flow = flow /\ op'[o].stage = first /\ op'[o].pc # "idle"
          /\ call' = [call EXCEPT ![o][first] = "sent"]
          /\ \A p \in Ops \ {o} : op'[p] = op[p]
      BY <2>1, <2>2 DEF RequestDownload, TypeOK, CallsMatch
    <2>4. \A e \in events : e.op # o  BY <1>1, <2>3 DEF ChargesMatch
    <2>5. \A p \in Ops \ {o} : call'[p] = call[p]  BY <2>3 DEF TypeOK
    <2>6. \A s \in Stages \ {first} : call'[o][s] = "none"
      BY <2>3 DEF TypeOK
    <2>7. \A e \in events : e.device = DeviceOf(e.stage) /\ call'[e.op][e.stage] = "allowed"
      BY <1>1, <2>4, <2>5 DEF ChargesMatch
    <2>8. Passed(o)'  BY <2>2, <2>3, <2>6 DEF Passed, Stages
    <2>9. \A p \in Ops \ {o} : op'[p].pc # "idle" => Passed(p)'
      BY <2>3, <2>5 DEF ChargesMatch, Passed
    <2>10. QED  BY <1>0, <2>7, <2>8, <2>9 DEF ChargesMatch
  <1>3. ASSUME NEW o \in Ops, AllowedInConsole(o) \/ AllowedInConnector(o)
        PROVE  ChargesMatch'
    <2>1. PICK stage \in {"console", "connector"} : PassedOn(o, stage)
      BY <1>3 DEF AllowedInConsole, AllowedInConnector
    <2>2. /\ op[o].pc = "asking" /\ op[o].stage = stage /\ call[o][stage] = "allowed"
          /\ op' = [op EXCEPT ![o].stage = "helper"]
          /\ call' = [call EXCEPT ![o]["helper"] = "sent"]
      BY <2>1 DEF PassedOn
    <2>3. op[o] \in Downloads  BY <2>2, BegunDownload
    <2>4. /\ op'[o].flow = op[o].flow /\ op'[o].stage = "helper"
          /\ \A p \in Ops \ {o} : op'[p] = op[p]
      BY <2>2, <2>3 DEF TypeOK, Downloads
    <2>5. FirstStage(op[o].flow) = stage /\ call[o]["helper"] = "none"
      BY <2>1, <2>2 DEF ChargesMatch, Passed
    <2>6. /\ \A p \in Ops \ {o} : call'[p] = call[p]
          /\ \A s \in Stages \ {"helper"} : call'[o][s] = call[o][s]
      BY <2>2 DEF TypeOK
    <2>7. \A e \in events : e.device = DeviceOf(e.stage) /\ call'[e.op][e.stage] = "allowed"
      BY <1>1, <2>5, <2>6 DEF ChargesMatch
    <2>8. Passed(o)'
      <3>1. call'[o][stage] = "allowed" /\ stage # "helper"  BY <2>1, <2>2, <2>6 DEF Stages
      <3>2. \A s \in Stages \ {stage} : call'[o][s] # "none" => s = "helper"
        BY <2>2, <2>5, <2>6 DEF ChargesMatch, Passed
      <3>3. QED  BY <2>4, <2>5, <3>1, <3>2 DEF Passed
    <2>9. \A p \in Ops \ {o} : op'[p].pc # "idle" => Passed(p)'
      BY <2>4, <2>6 DEF ChargesMatch, Passed
    <2>10. QED  BY <1>0, <2>7, <2>8, <2>9 DEF ChargesMatch
  <1>4. ASSUME NEW o \in Ops, AllowedInHelper(o) \/ Refused(o) \/ GivesUp(o) \/ Starts(o)
        PROVE  ChargesMatch'
    <2>1. UNCHANGED call /\ op[o].pc # "idle"
      BY <1>4 DEF AllowedInHelper, Refused, GivesUp, Starts
    <2>2. op[o] \in Downloads  BY <2>1, BegunDownload
    <2>3. \E pc : op' = [op EXCEPT ![o].pc = pc]
      BY <1>4 DEF AllowedInHelper, Refused, GivesUp, Starts
    <2>4. /\ op'[o].flow = op[o].flow /\ op'[o].stage = op[o].stage
          /\ \A p \in Ops \ {o} : op'[p] = op[p]
      BY <2>2, <2>3 DEF TypeOK, Downloads
    <2>5. QED  BY <1>0, <2>1, <2>4 DEF ChargesMatch, Passed
  <1>5. QED  BY <1>2, <1>3, <1>4 DEF HelperStep

\* The answer to a call that was sent leaves the stages passed as they are.
LEMMA AnswerKeepsPassed ==
  ASSUME CInv, NEW o \in Ops, NEW s \in Stages, NEW answer \in {"allowed", "refused"},
         call[o][s] = "sent", call' = [call EXCEPT ![o][s] = answer], UNCHANGED op,
         NEW p \in Ops, op[p].pc # "idle"
  PROVE  Passed(p)'
  <1> USE DEF CInv, IInv
  <1>1. \A q \in Ops, c \in Stages : ~(q = o /\ c = s) => call'[q][c] = call[q][c]
    BY DEF TypeOK
  <1>2. op[p] \in Downloads /\ Passed(p)  BY BegunDownload DEF ChargesMatch
  <1>3. PICK first \in Stages : first = FirstStage(op[p].flow)
    BY <1>2, FirstStages DEF Downloads
  <1>4. op[p].stage # "helper" => op[p].stage = first /\ call'[p]["helper"] = "none"
    BY <1>1, <1>2, <1>3 DEF Passed, Stages
  <1>5. ASSUME NEW c \in Stages \ {first}, call'[p][c] # "none"
        PROVE  c = "helper" /\ call'[p][first] = "allowed"
    <2>1. call[p][c] # "none"  BY <1>1, <1>5
    <2>2. c = "helper" /\ call[p][first] = "allowed"  BY <1>2, <1>3, <1>5, <2>1 DEF Passed
    <2>3. QED  BY <1>1, <1>3, <2>2
  <1>6. QED  BY <1>3, <1>4, <1>5 DEF Passed

\* The site allows a call once, and logs it then.
LEMMA SiteKeepsCharges ==
  ASSUME CInv, SiteStep
  PROVE  ChargesMatch'
  <1> USE DEF CInv, IInv
  <1>1. ASSUME NEW o \in Ops, NEW s \in Stages, ConsumeAsMember(o, s) \/ ConsumeTrial(o, s)
        PROVE  ChargesMatch'
    <2>1. PICK type : events' = events \cup {Event(o, s, type)}
      BY <1>1 DEF ConsumeAsMember, ConsumeTrial
    <2>2. /\ call[o][s] = "sent" /\ call' = [call EXCEPT ![o][s] = "allowed"]
          /\ UNCHANGED op
      BY <1>1 DEF ConsumeAsMember, ConsumeTrial
    <2>3. /\ Event(o, s, type).op = o /\ Event(o, s, type).stage = s
          /\ Event(o, s, type).device = DeviceOf(s)
      BY DEF Event
    <2>4. \A e \in events : /\ e.op \in Ops /\ e.stage \in Stages
                            /\ ~(e.op = o /\ e.stage = s)
      BY <2>2 DEF ChargesMatch, TypeOK, Events
    <2>5. /\ call'[o][s] = "allowed"
          /\ \A p \in Ops, c \in Stages : ~(p = o /\ c = s) => call'[p][c] = call[p][c]
      BY <2>2 DEF TypeOK
    <2>6. \A e, f \in events' : e.op = f.op /\ e.stage = f.stage => e = f
      BY <2>1, <2>3, <2>4 DEF ChargesMatch
    <2>7. \A e \in events' : e.device = DeviceOf(e.stage) /\ call'[e.op][e.stage] = "allowed"
      BY <2>1, <2>3, <2>4, <2>5 DEF ChargesMatch
    <2>8. \A p \in Ops : op'[p].pc # "idle" => Passed(p)'
      BY <2>2, AnswerKeepsPassed
    <2>9. QED  BY <2>6, <2>7, <2>8 DEF ChargesMatch
  <1>2. ASSUME NEW o \in Ops, NEW s \in Stages, ConsumeRefused(o, s)
        PROVE  ChargesMatch'
    <2>1. /\ call[o][s] = "sent" /\ call' = [call EXCEPT ![o][s] = "refused"]
          /\ UNCHANGED <<events, op>>
      BY <1>2 DEF ConsumeRefused
    <2>2. \A p \in Ops, c \in Stages : ~(p = o /\ c = s) => call'[p][c] = call[p][c]
      BY <2>1 DEF TypeOK
    <2>3. \A e \in events : e.op \in Ops /\ e.stage \in Stages  BY DEF TypeOK, Events
    <2>4. \A e \in events : e.device = DeviceOf(e.stage) /\ call'[e.op][e.stage] = "allowed"
      BY <2>1, <2>2, <2>3 DEF ChargesMatch
    <2>5. \A p \in Ops : op'[p].pc # "idle" => Passed(p)'
      BY <2>1, AnswerKeepsPassed
    <2>6. QED  BY <2>1, <2>4, <2>5 DEF ChargesMatch
  <1>3. CASE (\E u \in Users, m \in PlanMonths : MockActivate(u, m)) \/ MonthPasses
    <2>1. UNCHANGED <<events, op, call>>  BY <1>3 DEF MockActivate, MonthPasses
    <2>2. QED  BY <2>1 DEF ChargesMatch, Passed
  <1>4. QED  BY <1>1, <1>2, <1>3 DEF SiteStep

LEMMA ChargesInvariance == Spec => []CInv
  <1>1. Init => ChargesMatch  BY DEF Init, ChargesMatch, NoDownload
  <1>2. CInv /\ [Next]_vars => ChargesMatch'
    <2>1. ChargesMatch /\ UNCHANGED vars => ChargesMatch'  BY DEF vars, ChargesMatch, Passed
    <2>2. QED  BY <2>1, HelperKeepsCharges, SiteKeepsCharges DEF CInv, Next
  <1>3. QED  BY <1>1, <1>2, Invariance, PTL DEF Spec, CInv

\* A device is charged twice for a download from the cloud only: two stages with
\* the same device are the connector's and the handler's.
LEMMA TwoStages ==
  ASSUME CInv, NEW e \in events, NEW f \in events, f.op = e.op, f # e
  PROVE  /\ f.stage # e.stage
         /\ f.device = e.device => op[e.op].flow = "cloud"
  <1> USE DEF CInv, IInv
  <1>1. PICK o \in Ops : e.op = o /\ f.op = o  BY DEF TypeOK, Events
  <1>2. PICK s \in Stages, c \in Stages : s = e.stage /\ c = f.stage  BY DEF TypeOK, Events
  <1>3. s # c  BY <1>1, <1>2 DEF ChargesMatch
  <1>4. /\ call[o][s] = "allowed" /\ call[o][c] = "allowed"
        /\ e.device = DeviceOf(s) /\ f.device = DeviceOf(c)
    BY <1>1, <1>2 DEF ChargesMatch
  <1>5. op[o].pc # "idle"  BY <1>4 DEF CallsMatch
  <1>6. op[o].flow \in Flows /\ Passed(o)  BY <1>5, BegunDownload DEF ChargesMatch, Downloads
  <1>7. PICK first \in Stages : first = FirstStage(op[o].flow)  BY <1>6, FirstStages
  <1>8. (s = first \/ s = "helper") /\ (c = first \/ c = "helper")
    BY <1>4, <1>6, <1>7 DEF Passed
  <1>9. DeviceOf(s) = DeviceOf(c) => first = "connector"
    BY <1>3, <1>8 DEF DeviceOf, Stages
  <1>10. first = "connector" => op[o].flow = "cloud"
    BY <1>6, <1>7, FlowsAssumption DEF FirstStage
  <1>11. QED  BY <1>1, <1>2, <1>3, <1>4, <1>9, <1>10

\* No lost answer and no late call makes a stage charge a download twice, or
\* before the stage its flow asks first has allowed it; and no device is charged
\* twice, but the machine's of a download from the cloud: for any number of
\* users, downloads and calls on their way.
THEOREM StagesAreChargedInOrder == Spec => []ChargedInOrder
  <1>1. CInv => ChargedInOrder
    <2>1. SUFFICES ASSUME CInv, NEW o \in Ops, NEW e \in events, e.op = o
                   PROVE  /\ e.stage # FirstStage(op[o].flow) =>
                               \E f \in events : f.op = o /\ f.stage = FirstStage(op[o].flow)
                          /\ \A f \in events : f.op = o /\ f # e =>
                               /\ f.stage # e.stage
                               /\ f.device = e.device => op[o].flow = "cloud"
      BY DEF ChargedInOrder
    <2>2. e.stage \in Stages /\ call[o][e.stage] = "allowed"
      BY <2>1 DEF CInv, IInv, TypeOK, Events, ChargesMatch
    <2>3. op[o].pc # "idle"  BY <2>2, <2>1 DEF CInv, IInv, CallsMatch
    <2>4. PICK first \in Stages : first = FirstStage(op[o].flow)
      BY <2>1, <2>3, BegunDownload, FirstStages DEF CInv, IInv, Downloads
    <2>5. e.stage # first => call[o][first] = "allowed"
      BY <2>1, <2>2, <2>3, <2>4 DEF CInv, ChargesMatch, Passed
    <2>6. e.stage # first => \E f \in events : f.op = o /\ f.stage = first
      BY <2>1, <2>4, <2>5 DEF CInv, IInv, CallsMatch
    <2>7. ASSUME NEW f \in events, f.op = o, f # e
          PROVE  f.stage # e.stage /\ (f.device = e.device => op[o].flow = "cloud")
      BY <2>1, <2>7, TwoStages
    <2>8. QED  BY <2>4, <2>6, <2>7
  <1>2. QED  BY <1>1, ChargesInvariance, PTL
-----------------------------------------------------------------------------
(* Sums over a log.  A sum is a recursive function over the subsets of a    *)
(* finite set, which takes its elements out in the order of CHOOSE: that    *)
(* there is such a function, and that the order does not matter, is shown   *)
(* with smallest counterexamples.                                           *)

First(s) == CHOOSE e \in s : TRUE
Rest(s) == s \ {First(s)}

\* The videos of a set of events, one event after another
IsSum(g, S) ==
  g = [s \in SUBSET S |-> IF s = {} THEN 0 ELSE First(s).video_count + g[Rest(s)]]

Sum(S) == CHOOSE g : IsSum(g, S)

Videos(S) == MapThenSumSet(LAMBDA e : e.video_count, S)

Countable(S) == IsFiniteSet(S) /\ \A e \in S : e.video_count \in Nat

LEMMA VideosAreSummed ==
  ASSUME NEW S
  PROVE  Videos(S) = Sum(S)[S]
  BY DEF Videos, MapThenSumSet, MapThenFoldSet, Sum, IsSum, First, Rest

LEMMA LeastNumber ==
  ASSUME NEW N \in SUBSET Nat, N # {}
  PROVE  \E m \in N : \A k \in N : m <= k
  <1>1. PICK m \in N : \A k \in N : <<k, m>> \notin OpToRel(<, Nat)
    BY NatLessThanWellFounded, WFMin
  <1>2. \A k \in N : ~(k < m)  BY <1>1 DEF OpToRel
  <1>3. QED  BY <1>2

LEMMA SmallestSet ==
  ASSUME NEW S, IsFiniteSet(S), NEW Bad \in SUBSET SUBSET S, Bad # {}
  PROVE  \E s \in Bad : \A t \in Bad : t \subseteq s => t = s
  <1> DEFINE N == {Cardinality(s) : s \in Bad}
  <1>1. \A s \in Bad : IsFiniteSet(s) /\ Cardinality(s) \in Nat
    BY FS_Subset, FS_CardinalityType
  <1>2. N \in SUBSET Nat /\ N # {}  BY <1>1
  <1>3. PICK m \in N : \A k \in N : m <= k
    <2> HIDE DEF N
    <2>1. QED  BY <1>2, LeastNumber
  <1>4. PICK s \in Bad : Cardinality(s) = m  BY <1>3
  <1>5. ASSUME NEW t \in Bad, t \subseteq s
        PROVE  t = s
    <2>1. IsFiniteSet(s) /\ Cardinality(s) \in Nat /\ Cardinality(t) \in Nat  BY <1>1
    <2>2. Cardinality(t) <= Cardinality(s)  BY <1>5, <2>1, FS_Subset
    <2>3. Cardinality(s) <= Cardinality(t)  BY <1>3, <1>4
    <2>4. Cardinality(s) = Cardinality(t)  BY <2>1, <2>2, <2>3
    <2>5. QED  BY <1>5, <2>1, <2>4, FS_Subset
  <1>6. QED  BY <1>4, <1>5

LEMMA RestIsSmaller ==
  ASSUME NEW S, NEW s \in SUBSET S, s # {}
  PROVE  /\ First(s) \in s
         /\ Rest(s) \in SUBSET S
         /\ Rest(s) \subseteq s /\ Rest(s) # s
  BY DEF First, Rest

\* The function exists on the subsets of at most n events, for every n.
Level(S, n) == {s \in SUBSET S : Cardinality(s) <= n}

IsSumTo(g, S, n) ==
  g = [s \in Level(S, n) |-> IF s = {} THEN 0 ELSE First(s).video_count + g[Rest(s)]]

LEMMA SumExists ==
  ASSUME NEW S, IsFiniteSet(S)
  PROVE  IsSum(Sum(S), S)
  <1>1. \A s \in SUBSET S : IsFiniteSet(s) /\ Cardinality(s) \in Nat
    BY FS_Subset, FS_CardinalityType
  <1>2. \A n \in Nat : \E g : IsSumTo(g, S, n)
    <2> DEFINE Bad == {n \in Nat : ~ \E g : IsSumTo(g, S, n)}
    <2>1. SUFFICES ASSUME Bad # {} PROVE FALSE
      OBVIOUS
    <2>2. PICK m \in Bad : \A k \in Bad : m <= k
      <3>1. Bad \in SUBSET Nat  OBVIOUS
      <3> HIDE DEF Bad
      <3>2. QED  BY <2>1, <3>1, LeastNumber
    <2>3. CASE m = 0
      <3> DEFINE g == [s \in Level(S, 0) |-> 0]
      <3>1. \A s \in Level(S, 0) : s = {}
        BY <1>1, FS_EmptySet DEF Level
      <3>2. IsSumTo(g, S, 0)  BY <3>1 DEF IsSumTo
      <3>3. QED  BY <2>3, <3>2
    <2>4. CASE m # 0
      <3>1. m \in Nat /\ m - 1 \in Nat /\ m - 1 < m  BY <2>4
      <3>2. m - 1 \notin Bad  BY <2>2, <3>1
      <3>3. PICK g : IsSumTo(g, S, m - 1)  BY <3>1, <3>2
      <3> DEFINE h == [s \in Level(S, m) |->
                         IF s = {} THEN 0 ELSE First(s).video_count + g[Rest(s)]]
      <3>4. ASSUME NEW s \in Level(S, m), s # {}
            PROVE  h[Rest(s)] = g[Rest(s)]
        <4>1. First(s) \in s /\ Rest(s) \in SUBSET S
          BY <3>4, RestIsSmaller DEF Level
        <4>2. IsFiniteSet(s) /\ Cardinality(s) \in Nat /\ Cardinality(s) <= m
          BY <1>1 DEF Level
        <4>3. Cardinality(Rest(s)) = Cardinality(s) - 1
          BY <4>1, <4>2, FS_RemoveElement DEF Rest
        <4>4. Rest(s) \in Level(S, m - 1) /\ Rest(s) \in Level(S, m)
          BY <3>1, <4>1, <4>2, <4>3 DEF Level
        <4>5. g[Rest(s)] = IF Rest(s) = {} THEN 0
                           ELSE First(Rest(s)).video_count + g[Rest(Rest(s))]
          BY <3>3, <4>4 DEF IsSumTo
        <4>6. QED  BY <4>4, <4>5
      <3>5. h = [s \in Level(S, m) |->
                   IF s = {} THEN 0 ELSE First(s).video_count + h[Rest(s)]]
        <4>1. \A s \in Level(S, m) : s # {} => h[Rest(s)] = g[Rest(s)]  BY <3>4
        <4> HIDE DEF h
        <4>2. h = [s \in Level(S, m) |->
                     IF s = {} THEN 0 ELSE First(s).video_count + g[Rest(s)]]
          BY DEF h
        <4>3. QED  BY <4>1, <4>2
      <3>6. IsSumTo(h, S, m)  BY <3>5 DEF IsSumTo
      <3>7. QED  BY <3>6
    <2>5. QED  BY <2>3, <2>4
  <1>3. PICK g : IsSumTo(g, S, Cardinality(S))  BY <1>1, <1>2
  <1>4. Level(S, Cardinality(S)) = SUBSET S  BY FS_Subset DEF Level
  <1>5. IsSum(g, S)  BY <1>3, <1>4 DEF IsSumTo, IsSum
  <1>6. QED  BY <1>5 DEF Sum

\* What the function gives for each subset
LEMMA SumUnfolds ==
  ASSUME NEW S, IsFiniteSet(S), NEW s \in SUBSET S
  PROVE  Sum(S)[s] = IF s = {} THEN 0 ELSE First(s).video_count + Sum(S)[Rest(s)]
  <1> DEFINE g == Sum(S)
  <1>1. g = [t \in SUBSET S |-> IF t = {} THEN 0 ELSE First(t).video_count + g[Rest(t)]]
    BY SumExists DEF IsSum
  <1> HIDE DEF g
  <1>2. g[s] = IF s = {} THEN 0 ELSE First(s).video_count + g[Rest(s)]
    BY <1>1
  <1>3. QED  BY <1>2 DEF g

LEMMA SumIsNatural ==
  ASSUME NEW S, Countable(S), NEW s \in SUBSET S
  PROVE  Sum(S)[s] \in Nat
  <1> DEFINE Bad == {t \in SUBSET S : Sum(S)[t] \notin Nat}
  <1>1. SUFFICES ASSUME Bad # {} PROVE FALSE
    OBVIOUS
  <1>2. PICK b \in Bad : \A t \in Bad : t \subseteq b => t = b
    <2>1. Bad \in SUBSET SUBSET S  OBVIOUS
    <2> HIDE DEF Bad
    <2>2. QED  BY <1>1, <2>1, SmallestSet DEF Countable
  <1>3. Sum(S)[b] = IF b = {} THEN 0 ELSE First(b).video_count + Sum(S)[Rest(b)]
    BY SumUnfolds DEF Countable
  <1>4. b # {}  BY <1>3
  <1>5. First(b) \in S /\ Rest(b) \in SUBSET S /\ Rest(b) \notin Bad
    BY <1>2, <1>4, RestIsSmaller
  <1>6. First(b).video_count \in Nat /\ Sum(S)[Rest(b)] \in Nat
    BY <1>5 DEF Countable
  <1>7. QED  BY <1>3, <1>4, <1>6

\* A subset has the same sum in every set it is taken from.
LEMMA SumOfPart ==
  ASSUME NEW S, NEW T, IsFiniteSet(S), IsFiniteSet(T), NEW s \in SUBSET S, s \in SUBSET T
  PROVE  Sum(S)[s] = Sum(T)[s]
  <1> DEFINE Bad == {t \in SUBSET S : t \in SUBSET T /\ Sum(S)[t] # Sum(T)[t]}
  <1>1. SUFFICES ASSUME Bad # {} PROVE FALSE
    OBVIOUS
  <1>2. PICK b \in Bad : \A t \in Bad : t \subseteq b => t = b
    <2>1. Bad \in SUBSET SUBSET S  OBVIOUS
    <2> HIDE DEF Bad
    <2>2. QED  BY <1>1, <2>1, SmallestSet
  <1>3. /\ Sum(S)[b] = IF b = {} THEN 0 ELSE First(b).video_count + Sum(S)[Rest(b)]
        /\ Sum(T)[b] = IF b = {} THEN 0 ELSE First(b).video_count + Sum(T)[Rest(b)]
    BY SumUnfolds
  <1>4. b # {}  BY <1>3
  <1>5. Rest(b) \in SUBSET S /\ Rest(b) \in SUBSET T /\ Rest(b) \notin Bad
    BY <1>2, <1>4, RestIsSmaller
  <1>6. QED  BY <1>3, <1>4, <1>5

\* The order does not matter: whichever event is taken out first, the rest and
\* that event make up the sum.
LEMMA SumGrows ==
  ASSUME NEW S, Countable(S), NEW s \in SUBSET S, NEW e \in S, e \notin s
  PROVE  Sum(S)[s \cup {e}] = Sum(S)[s] + e.video_count
  <1> DEFINE Bad == {t \in SUBSET S : \E f \in S \ t :
                       Sum(S)[t \cup {f}] # Sum(S)[t] + f.video_count}
  <1>1. SUFFICES ASSUME Bad # {} PROVE FALSE
    OBVIOUS
  <1>2. PICK b \in Bad : \A t \in Bad : t \subseteq b => t = b
    <2>1. Bad \in SUBSET SUBSET S  OBVIOUS
    <2> HIDE DEF Bad
    <2>2. QED  BY <1>1, <2>1, SmallestSet DEF Countable
  <1>3. PICK f \in S \ b : Sum(S)[b \cup {f}] # Sum(S)[b] + f.video_count
    OBVIOUS
  <1> DEFINE all == b \cup {f}
             x == First(all)
  <1>4. all \in SUBSET S /\ all # {} /\ x \in all
    <2>1. all \in SUBSET S /\ all # {}  OBVIOUS
    <2> HIDE DEF all
    <2>2. QED  BY <2>1, RestIsSmaller
  <1>5. Sum(S)[all] = x.video_count + Sum(S)[all \ {x}]
    <2>1. Rest(all) = all \ {x}  BY DEF Rest
    <2> HIDE DEF all, x
    <2>2. QED  BY <1>4, <2>1, SumUnfolds DEF Countable, x
  <1>6. f.video_count \in Nat /\ x.video_count \in Nat
    <2> HIDE DEF all, x
    <2>1. QED  BY <1>4 DEF Countable
  <1>7. CASE x = f
    <2>1. all \ {x} = b  BY <1>7
    <2>2. Sum(S)[b] \in Nat  BY SumIsNatural
    <2>3. Sum(S)[all] = f.video_count + Sum(S)[b]  BY <1>5, <1>7, <2>1
    <2> HIDE DEF all, x, Bad
    <2>4. PICK n \in Nat, m \in Nat : n = f.video_count /\ m = Sum(S)[b]  BY <1>6, <2>2
    <2>5. n + m = m + n  OBVIOUS
    <2>6. Sum(S)[all] = Sum(S)[b] + f.video_count  BY <2>3, <2>4, <2>5
    <2>7. QED  BY <1>3, <2>6 DEF all
  <1>8. CASE x # f
    <2> HIDE DEF x
    <2> DEFINE rest == b \ {x}
    <2>1. x \in b  BY <1>4, <1>8
    <2>2. /\ rest \in SUBSET S /\ rest \subseteq b /\ rest # b
          /\ f \in S \ rest /\ x \in S \ rest
          /\ all \ {x} = rest \cup {f} /\ rest \cup {x} = b
      BY <1>8, <2>1
    <2>3. rest \notin Bad  BY <1>2, <2>2
    <2>4. /\ Sum(S)[rest \cup {f}] = Sum(S)[rest] + f.video_count
          /\ Sum(S)[rest \cup {x}] = Sum(S)[rest] + x.video_count
      BY <2>2, <2>3
    <2>5. Sum(S)[rest] \in Nat  BY <2>2, SumIsNatural
    <2>6. Sum(S)[all] = x.video_count + Sum(S)[rest \cup {f}]  BY <1>5, <2>2
    <2> HIDE DEF all, rest, Bad
    <2>7. PICK n \in Nat, m \in Nat, r \in Nat :
            n = f.video_count /\ m = x.video_count /\ r = Sum(S)[rest]
      BY <1>6, <2>5
    <2>8. Sum(S)[all] = m + (r + n) /\ Sum(S)[b] = r + m  BY <2>2, <2>4, <2>6, <2>7
    <2>9. m + (r + n) = (r + m) + n  OBVIOUS
    <2>10. QED  BY <1>3, <2>7, <2>8, <2>9 DEF all
  <1>9. QED  BY <1>7, <1>8

\* Logging one more event adds its videos.
LEMMA NothingIsNone == Videos({}) = 0
  BY VideosAreSummed, SumUnfolds, FS_EmptySet

LEMMA LoggingAdds ==
  ASSUME NEW S, Countable(S), NEW e, e \notin S, e.video_count \in Nat
  PROVE  Videos(S \cup {e}) = Videos(S) + e.video_count
  <1> DEFINE T == S \cup {e}
  <1>1. Countable(T) /\ IsFiniteSet(S) /\ IsFiniteSet(T)
    BY FS_AddElement DEF Countable
  <1>2. S \in SUBSET T /\ S \in SUBSET S /\ e \in T  OBVIOUS
  <1> HIDE DEF T
  <1>3. Sum(T)[S \cup {e}] = Sum(T)[S] + e.video_count
    BY <1>1, <1>2, SumGrows
  <1>4. Sum(T)[S] = Sum(S)[S]  BY <1>1, <1>2, SumOfPart
  <1>5. QED  BY <1>3, <1>4, VideosAreSummed DEF T

\* The log is finite, and each device's usage is the sum of its trial's events.
Logged == \A u \in Users, d \in Devices : used[u][d] = Videos(TrialEvents(u, d))
LogOK == IsFiniteSet(events) /\ Logged

LEMMA LoggedIsUsage == Logged => UsageIsLogged
  BY DEF Logged, UsageIsLogged, Videos

LEMMA InitIsLogged == Init => LogOK
  <1> SUFFICES ASSUME Init PROVE LogOK
    OBVIOUS
  <1>1. \A u \in Users, d \in Devices : TrialEvents(u, d) = {} /\ used[u][d] = 0
    BY DEF Init, TrialEvents
  <1>2. QED  BY <1>1, NothingIsNone, FS_EmptySet DEF Init, LogOK, Logged

LEMMA SameLog ==
  ASSUME LogOK, UNCHANGED <<used, events>>
  PROVE  LogOK'
  BY DEF LogOK, Logged, TrialEvents

\* A member's download is logged, but not as a trial's.
LEMMA MemberKeepsLog ==
  ASSUME LogOK, NEW o \in Ops, NEW s \in Stages, ConsumeAsMember(o, s)
  PROVE  LogOK'
  <1>1. events' = events \cup {Event(o, s, "member_download")} /\ UNCHANGED used
    BY DEF ConsumeAsMember
  <1>2. IsFiniteSet(events')  BY <1>1, FS_AddElement DEF LogOK
  <1>3. Event(o, s, "member_download").event_type # "trial_download"  BY DEF Event
  <1>4. \A u \in Users, c \in Devices : TrialEvents(u, c)' = TrialEvents(u, c)
    BY <1>1, <1>3 DEF TrialEvents
  <1>5. QED  BY <1>1, <1>2, <1>4 DEF LogOK, Logged

\* A free download adds its videos to the usage and, by an event that was not
\* there, to the log of the same user and device; to no other's.
LEMMA TrialKeepsLog ==
  ASSUME CInv, LogOK, NEW o \in Ops, NEW s \in Stages, ConsumeTrial(o, s)
  PROVE  LogOK'
  <1>0. op[o] \in Downloads
    BY BegunDownload DEF ConsumeTrial, CInv, IInv, CallsMatch
  <1>1. PICK u \in Users, n \in Nat, d \in Devices :
          u = op[o].user /\ n = op[o].count /\ d = DeviceOf(s)
    BY <1>0, StageDevices, CountsAssumption DEF Downloads
  <1>2. PICK new : new = Event(o, s, "trial_download")
    OBVIOUS
  <1>3. /\ call[o][s] = "sent" /\ used' = [used EXCEPT ![u][d] = @ + n]
        /\ events' = events \cup {new}
    BY <1>1, <1>2 DEF ConsumeTrial
  <1>4. /\ new.op = o /\ new.stage = s /\ new.user = u /\ new.device = d /\ new.video_count = n
        /\ new.event_type = "trial_download"
    BY <1>1, <1>2 DEF Event
  <1>5. new \notin events  BY <1>3, <1>4 DEF CInv, ChargesMatch
  <1>6. IsFiniteSet(events')  BY <1>3, FS_AddElement DEF LogOK
  <1>7. TrialEvents(u, d)' = TrialEvents(u, d) \cup {new}
    BY <1>3, <1>4 DEF TrialEvents
  <1>8. Countable(TrialEvents(u, d))
    <2>1. IsFiniteSet(TrialEvents(u, d))  BY FS_Subset DEF LogOK, TrialEvents
    <2>2. \A e \in TrialEvents(u, d) : e.video_count \in Nat
      BY CountsAssumption DEF CInv, IInv, TypeOK, TrialEvents, Events
    <2>3. QED  BY <2>1, <2>2 DEF Countable
  <1>9. new \notin TrialEvents(u, d)  BY <1>5 DEF TrialEvents
  <1>10. Videos(TrialEvents(u, d)') = Videos(TrialEvents(u, d)) + n
    BY <1>4, <1>7, <1>8, <1>9, LoggingAdds
  <1>11. used \in [Users -> [Devices -> Nat]]  BY DEF CInv, IInv, TypeOK
  <1>12. used'[u][d] = used[u][d] + n  BY <1>3, <1>11
  <1>13. ASSUME NEW v \in Users, NEW c \in Devices, ~(v = u /\ c = d)
         PROVE  used'[v][c] = Videos(TrialEvents(v, c)')
    <2>1. TrialEvents(v, c)' = TrialEvents(v, c)
      BY <1>3, <1>4, <1>13 DEF TrialEvents
    <2>2. used'[v][c] = used[v][c]  BY <1>3, <1>11, <1>13
    <2>3. QED  BY <2>1, <2>2 DEF LogOK, Logged
  <1>14. used'[u][d] = Videos(TrialEvents(u, d)')
    BY <1>10, <1>12 DEF LogOK, Logged
  <1>15. Logged'  BY <1>13, <1>14 DEF Logged
  <1>16. QED  BY <1>6, <1>15 DEF LogOK

\* The usage row and the event log agree at all times, though the log is a set
\* and is never read back: for any number of users, downloads and lost calls.
THEOREM TrialIsLogged == Spec => []UsageIsLogged
  <1>1. CInv /\ LogOK /\ [Next]_vars => LogOK'
    <2> SUFFICES ASSUME CInv, LogOK, [Next]_vars PROVE LogOK'
      OBVIOUS
    <2>1. ASSUME HelperStep \/ UNCHANGED vars  PROVE LogOK'
      <3>1. UNCHANGED <<used, events>>
        BY <2>1 DEF vars, HelperStep, RequestDownload, PassedOn, AllowedInConsole,
                    AllowedInConnector, AllowedInHelper, Refused, GivesUp, Starts
      <3>2. QED  BY <3>1, SameLog
    <2>2. ASSUME SiteStep  PROVE LogOK'
      <3>1. ASSUME NEW o \in Ops, NEW s \in Stages, ConsumeRefused(o, s)
            PROVE  LogOK'
        BY <3>1, SameLog DEF ConsumeRefused
      <3>2. ASSUME (\E u \in Users, m \in PlanMonths : MockActivate(u, m)) \/ MonthPasses
            PROVE  LogOK'
        BY <3>2, SameLog DEF MockActivate, MonthPasses
      <3>3. QED  BY <2>2, <3>1, <3>2, MemberKeepsLog, TrialKeepsLog DEF SiteStep
    <2>3. QED  BY <2>1, <2>2 DEF Next
  <1>2. LogOK => UsageIsLogged  BY LoggedIsUsage DEF LogOK
  <1>3. QED  BY <1>1, <1>2, InitIsLogged, ChargesInvariance, PTL DEF Spec
=============================================================================
