--------------------------- MODULE HelperLicense ---------------------------
(***************************************************************************)
(* The channel helper's licence: the free trial and the membership the     *)
(* site keeps (POST /api/helper-license/consume), and the helper's clients *)
(* that ask before they download.  The handler that downloads always asks. *)
(* Two clients ask before they send it the request, and it does not know:  *)
(* the web console for the browser's device, and the cloud connector for   *)
(* the machine's, for which the handler then asks a second time.  A call   *)
(* may be answered late or not at all: its client gives up (8 s) and       *)
(* blocks the download.                                                    *)
(***************************************************************************)
EXTENDS Integers, FiniteSets, FiniteSetsExt

CONSTANTS Users,
          Ops,            \* downloads, each of some videos
          Counts,         \* how many videos a download may have
          Flows,          \* where downloads start: "console", "cloud", "page"
          MaxVideoCount,  \* most videos in one call: 50
          MaxMonths,      \* bound: months of membership
          Lossy,          \* whether a client may give up on a call
          MayBeBusy,      \* whether the helper may refuse a licensed start
          Production      \* NODE_ENV = "production": no mock activation

ASSUME CountsAssumption ==
  Counts \subseteq Nat \ {0} /\ MaxVideoCount \in Nat \ {0} /\ MaxMonths \in Nat
ASSUME FlowsAssumption == Flows \subseteq {"console", "cloud", "page"}
ASSUME SwitchesAssumption ==
  {Lossy, MayBeBusy, Production} \subseteq BOOLEAN

HELPER_TRIAL_LIMIT == 3
PlanMonths == {1, 3, 12}

\* A user's computer has two device ids: the console makes one up in the
\* browser's storage, the helper has the machine's.
Devices == {"browser", "machine"}

\* Where the site is asked: ensureHelperDownloadAllowed of the console, the
\* cloud connector, and the handler of the helper that downloads.
Stages == {"console", "connector", "helper"}

DeviceOf(stage) == IF stage = "console" THEN "browser" ELSE "machine"

VARIABLES used,    \* helper_trial_usage
          months,  \* helper_memberships: months left, 0 when expired or absent
          events,  \* helper_download_events
          op,      \* the downloads the helper is asked for
          call     \* the consume call of each download at each stage

vars == <<used, months, events, op, call>>

OpStates == {"asking", "starting", "downloading", "refused"}
CallStates == {"none", "sent", "allowed", "refused"}
Downloads == [pc : OpStates, user : Users, count : Counts, flow : Flows,
              stage : Stages]
NoDownload == [pc |-> "idle"]
\* The site does not keep op and stage: they tell whose events these are.
Events == [op : Ops, stage : Stages, user : Users, device : Devices,
           video_count : Counts, event_type : {"member_download", "trial_download"}]

TypeOK ==
  /\ used \in [Users -> [Devices -> Nat]]
  /\ months \in [Users -> 0 .. MaxMonths]
  /\ events \subseteq Events
  /\ op \in [Ops -> Downloads \cup {NoDownload}]
  /\ call \in [Ops -> [Stages -> CallStates]]

Init ==
  /\ used = [u \in Users |-> [d \in Devices |-> 0]]
  /\ months = [u \in Users |-> 0]
  /\ events = {}
  /\ op = [o \in Ops |-> NoDownload]
  /\ call = [o \in Ops |-> [s \in Stages |-> "none"]]

-----------------------------------------------------------------------------
(* The helper *)

\* A page's request goes straight to the handler.  So does the api_call of the
\* cloud that carries the key of a download: the connector does not ask for it.
FirstStage(flow) ==
  CASE flow = "console" -> "console"
    [] flow = "cloud"   -> "connector"
    [] flow = "page"    -> "helper"

\* The connector consumes a single video.
RequestDownload(o, u, n, flow) ==
  /\ op[o].pc = "idle"
  /\ flow = "cloud" => n = 1
  /\ op' = [op EXCEPT ![o] = [pc |-> "asking", user |-> u, count |-> n,
                              flow |-> flow, stage |-> FirstStage(flow)]]
  /\ call' = [call EXCEPT ![o][FirstStage(flow)] = "sent"]
  /\ UNCHANGED <<used, months, events>>

\* A permission that only leads to the request that asks again.
PassedOn(o, stage) ==
  /\ op[o].pc = "asking"
  /\ op[o].stage = stage
  /\ call[o][stage] = "allowed"
  /\ op' = [op EXCEPT ![o].stage = "helper"]
  /\ call' = [call EXCEPT ![o]["helper"] = "sent"]
  /\ UNCHANGED <<used, months, events>>

\* The console sends batch_start.
AllowedInConsole(o) == PassedOn(o, "console")

\* The connector calls a page, which posts download_video to the helper.
AllowedInConnector(o) == PassedOn(o, "connector")

AllowedInHelper(o) ==
  /\ op[o].pc = "asking"
  /\ op[o].stage = "helper"
  /\ call[o]["helper"] = "allowed"
  /\ op' = [op EXCEPT ![o].pc = "starting"]
  /\ UNCHANGED <<used, months, events, call>>

Refused(o) ==
  /\ op[o].pc = "asking"
  /\ call[o][op[o].stage] = "refused"
  /\ op' = [op EXCEPT ![o].pc = "refused"]
  /\ UNCHANGED <<used, months, events, call>>

\* Mutant of GivesUp: an unreachable site does not block the download.
GivesUp_Lenient(o) ==
  /\ Lossy
  /\ op[o].pc = "asking"
  /\ op' = [op EXCEPT ![o].pc = "downloading"]
  /\ UNCHANGED <<used, months, events, call>>

\* Mutant of GivesUp: the client goes on to the helper without an answer.
GivesUp_AsksHelper(o) ==
  /\ Lossy
  /\ op[o].pc = "asking"
  /\ op' = [op EXCEPT ![o].stage = "helper"]
  /\ call' = [call EXCEPT ![o]["helper"] = "sent"]
  /\ UNCHANGED <<used, months, events>>

\* The call, or its answer, is lost or late; it may still reach the site.  Or
\* the page is gone that was to send the connector's permission on.
GivesUp(o) ==
  /\ Lossy
  /\ op[o].pc = "asking"
  /\ op' = [op EXCEPT ![o].pc = "refused"]
  /\ UNCHANGED <<used, months, events, call>>

\* HandleBatchStart looks whether it is busy only after it has asked, the
\* handler of a single video whether it is being downloaded.
Starts(o) ==
  /\ op[o].pc = "starting"
  /\ \E pc \in {"downloading"} \cup (IF MayBeBusy THEN {"refused"} ELSE {}) :
       op' = [op EXCEPT ![o].pc = pc]
  /\ UNCHANGED <<used, months, events, call>>

-----------------------------------------------------------------------------
(* The site *)

Event(o, s, type) ==
  [op |-> o, stage |-> s, user |-> op[o].user, device |-> DeviceOf(s),
   video_count |-> op[o].count, event_type |-> type]

trialRemaining(u, d) ==
  IF used[u][d] < HELPER_TRIAL_LIMIT THEN HELPER_TRIAL_LIMIT - used[u][d] ELSE 0

isMember(u) == months[u] > 0

Valid(o) == op[o].count <= MaxVideoCount

\* Mutant of Enough: status.canDownload is asked instead of the number.
Enough_Any(o, s) == trialRemaining(op[o].user, DeviceOf(s)) > 0

Enough(o, s) == trialRemaining(op[o].user, DeviceOf(s)) >= op[o].count

\* The route reads the status and writes without an await in between.
ConsumeAsMember(o, s) ==
  /\ call[o][s] = "sent"
  /\ Valid(o)
  /\ isMember(op[o].user)
  /\ events' = events \cup {Event(o, s, "member_download")}
  /\ call' = [call EXCEPT ![o][s] = "allowed"]
  /\ UNCHANGED <<used, months, op>>

\* Mutant of ConsumeTrial: the usage is not part of the transaction.
ConsumeTrial_EventOnly(o, s) ==
  /\ call[o][s] = "sent"
  /\ Valid(o)
  /\ ~isMember(op[o].user)
  /\ Enough(o, s)
  /\ events' = events \cup {Event(o, s, "trial_download")}
  /\ call' = [call EXCEPT ![o][s] = "allowed"]
  /\ UNCHANGED <<used, months, op>>

ConsumeTrial(o, s) ==
  /\ call[o][s] = "sent"
  /\ Valid(o)
  /\ ~isMember(op[o].user)
  /\ Enough(o, s)
  /\ used' = [used EXCEPT ![op[o].user][DeviceOf(s)] = @ + op[o].count]
  /\ events' = events \cup {Event(o, s, "trial_download")}
  /\ call' = [call EXCEPT ![o][s] = "allowed"]
  /\ UNCHANGED <<months, op>>

ConsumeRefused(o, s) ==
  /\ call[o][s] = "sent"
  /\ ~Valid(o) \/ (~isMember(op[o].user) /\ ~Enough(o, s))
  /\ call' = [call EXCEPT ![o][s] = "refused"]
  /\ UNCHANGED <<used, months, events, op>>

\* A renewal is added to what is left of the membership.
MockActivate(u, m) ==
  /\ ~Production
  /\ months[u] + m <= MaxMonths
  /\ months' = [months EXCEPT ![u] = @ + m]
  /\ UNCHANGED <<used, events, op, call>>

MonthPasses ==
  /\ \E u \in Users : isMember(u)
  /\ months' = [u \in Users |-> IF isMember(u) THEN months[u] - 1 ELSE 0]
  /\ UNCHANGED <<used, events, op, call>>

-----------------------------------------------------------------------------
HelperStep ==
  \/ \E o \in Ops, u \in Users, n \in Counts, flow \in Flows :
       RequestDownload(o, u, n, flow)
  \/ \E o \in Ops : \/ AllowedInConsole(o) \/ AllowedInConnector(o)
                    \/ AllowedInHelper(o) \/ Refused(o) \/ GivesUp(o) \/ Starts(o)

SiteStep ==
  \/ \E o \in Ops, s \in Stages :
       ConsumeAsMember(o, s) \/ ConsumeTrial(o, s) \/ ConsumeRefused(o, s)
  \/ \E u \in Users, m \in PlanMonths : MockActivate(u, m)
  \/ MonthPasses

Next == HelperStep \/ SiteStep

Spec == Init /\ [][Next]_vars

-----------------------------------------------------------------------------
(* Properties *)

\* Whatever the order of calls, a device gets its three free videos and not one
\* more: the check of consume counts the videos of this very call.
TrialLimit == \A u \in Users, d \in Devices : used[u][d] <= HELPER_TRIAL_LIMIT

TrialEvents(u, d) ==
  {e \in events : e.user = u /\ e.device = d /\ e.event_type = "trial_download"}

\* The usage row is the sum of the trial's event log.
UsageIsLogged ==
  \A u \in Users, d \in Devices :
    used[u][d] = MapThenSumSet(LAMBDA e : e.video_count, TrialEvents(u, d))

\* Strict mode: nothing is downloaded that the site has not logged for it,
\* however many calls are lost on the way.
DownloadsAreLicensed ==
  \A o \in Ops : op[o].pc = "downloading" =>
    \E e \in events : e.op = o /\ e.stage = "helper"

\* What a download is charged.  No lost answer, late call or refusal makes a
\* stage charge it twice, and none is charged before the one its flow asks first
\* has allowed it.  Each device is charged at most once, except for a download
\* from the cloud: the connector and the handler each charge the machine's.
ChargedInOrder ==
  \A o \in Ops : LET first == FirstStage(op[o].flow) IN
    \A e \in {e \in events : e.op = o} :
      /\ e.stage # first => \E f \in events : f.op = o /\ f.stage = first
      /\ \A f \in {f \in events : f.op = o} : f # e =>
           /\ f.stage # e.stage
           /\ f.device = e.device => op[o].flow = "cloud"
=============================================================================
