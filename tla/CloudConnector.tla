--------------------------- MODULE CloudConnector ---------------------------
(***************************************************************************)
(* The helper's connection to the cloud hub (internal/cloud/connector.go): *)
(* one loop that dials, reads and dials again, a goroutine per command,    *)
(* and a heartbeat.  A download is checked against the licence; a command  *)
(* becomes a call of a page (Hub, here its result) and is answered on      *)
(* whatever connection there is by then.  A page that is called to         *)
(* download posts the download to the helper, whose handler checks the     *)
(* licence itself: for a page's request it knows no earlier check.         *)
(***************************************************************************)
EXTENDS Integers, FiniteSets

CONSTANTS Commands,     \* commands the cloud sends
          Kinds,        \* what they may be: see CommandKinds
          Width,        \* bits of a Duration: 64
          BaseDelay,    \* baseDelay: 1 s
          MaxDelay,     \* maxDelay: 2 min
          MaxFailures,  \* bound: failed dials in a row
          MaxConns,     \* bound: connections made
          HelperEnabled \* cfg.HelperEnabled: commands need a licence

\* Actions and their parameters: a download may come with parameters that cannot
\* be mapped.  An api_call names the page's call itself, which may be that of a
\* download too, or cannot be parsed.
CommandKinds == {"search", "download", "badDownload",
                 "apiCall", "apiDownload", "badApiCall", "unknown"}
Checked == {"download", "badDownload"}
Downloads == {"download", "apiDownload"}
Served == {"search", "apiCall"} \cup Downloads

ASSUME DelaysAssumption ==
  /\ Width \in Nat \ {0} /\ MaxFailures \in Nat /\ MaxConns \in Nat \ {0}
  /\ BaseDelay \in Nat \ {0} /\ MaxDelay \in Nat
ASSUME KindsAssumption == Kinds \subseteq CommandKinds /\ HelperEnabled \in BOOLEAN

VARIABLES loop,       \* connectLoop and handleConnection
          retryCount, \* c.retryCount
          current,    \* which connection c.conn is; 0 is nil
          link,       \* the connections made
          stopped,    \* c.ctx is cancelled
          command,    \* the goroutines of processMessage
          page,       \* a page's work on the download of a command
          charged,    \* history: downloads the site has deducted for a command
          answers     \* history: the answers that reached a live connection

vars == <<loop, retryCount, current, link, stopped, command, page, charged,
          answers>>

Conns == 1 .. MaxConns
LoopStates == {"top", "dialing", "sleeping", "connected", "ended", "panicked"}
LinkStates == {"none", "open", "dead", "closed"}  \* dead: the peer is gone unnoticed
CommandStates == {"unsent", "received", "consuming", "mapping", "calling",
                  "answering", "done"}
PageStates == {"none", "called", "posted", "admitted", "refused"}
Unsent == [pc |-> "unsent", kind |-> "search"]

TypeOK ==
  /\ loop \in LoopStates
  /\ retryCount \in 0 .. MaxFailures + 1
  /\ current \in 0 .. MaxConns
  /\ link \in [Conns -> LinkStates]
  /\ stopped \in BOOLEAN
  /\ command \in [Commands -> [pc : CommandStates, kind : CommandKinds]]
  /\ page \in [Commands -> PageStates]
  /\ charged \in [Commands -> Nat]
  /\ answers \in [Commands -> Nat]
  /\ \A n \in Conns : link[n] \in {"open", "dead"} => n = current

Init ==
  /\ loop = "top"
  /\ retryCount = 0
  /\ current = 0
  /\ link = [n \in Conns |-> "none"]
  /\ stopped = FALSE
  /\ command = [c \in Commands |-> Unsent]
  /\ page = [c \in Commands |-> "none"]
  /\ charged = [c \in Commands |-> 0]
  /\ answers = [c \in Commands |-> 0]

\* Whether c.conn takes a message
Open == current # 0 /\ link[current] = "open"

-----------------------------------------------------------------------------
(* Back-off *)

\* The value of an integer in a signed word of Width bits.
Wrapped(n) ==
  LET low == n % 2^Width
  IN  IF low < 2^(Width - 1) THEN low ELSE low - 2^Width

\* calculateBackoff before the jitter
Delay(n) ==
  LET delay == Wrapped(BaseDelay * 2^(n - 1))
  IN  IF delay > MaxDelay THEN MaxDelay ELSE delay

\* rand.Int63n panics unless its argument is positive.
JitterPanics(n) == Delay(n) \div 4 <= 0

-----------------------------------------------------------------------------
(* The loop *)

unchangedCommands == UNCHANGED <<command, page, charged, answers>>

LoopBegins ==
  /\ loop = "top"
  /\ loop' = IF stopped THEN "ended" ELSE "dialing"
  /\ UNCHANGED <<retryCount, current, link, stopped>> /\ unchangedCommands

\* No recover covers connectLoop: a panic there ends the helper.
DialFails ==
  /\ loop = "dialing"
  /\ retryCount < MaxFailures \/ stopped
  /\ retryCount' = retryCount + 1
  /\ loop' = IF JitterPanics(retryCount') THEN "panicked" ELSE "sleeping"
  /\ UNCHANGED <<current, link, stopped>> /\ unchangedCommands

\* connect stores the connection, and handleConnection begins; a Stop may have
\* come in between.
DialSucceeds ==
  /\ loop = "dialing"
  /\ current < MaxConns
  /\ current' = current + 1
  /\ link' = [link EXCEPT ![current'] = "open"]
  /\ retryCount' = 0
  /\ loop' = "connected"
  /\ UNCHANGED stopped /\ unchangedCommands

Wakes ==
  /\ loop = "sleeping"
  /\ loop' = "top"
  /\ UNCHANGED <<retryCount, current, link, stopped>> /\ unchangedCommands

\* Mutant of ReadFails: no deadline for a read.
ReadFails_NoDeadline ==
  /\ loop = "connected"
  /\ link[current] = "closed" \/ stopped
  /\ link' = [link EXCEPT ![current] = "closed"]
  /\ loop' = "sleeping"
  /\ UNCHANGED <<retryCount, current, stopped>> /\ unchangedCommands

\* Mutant of ReadFails: reads that the connector's context does not end.
ReadFails_Background ==
  /\ loop = "connected"
  /\ link[current] \in {"closed", "dead"}
  /\ link' = [link EXCEPT ![current] = "closed"]
  /\ loop' = "sleeping"
  /\ UNCHANGED <<retryCount, current, stopped>> /\ unchangedCommands

\* handleConnection returns when its read fails: the peer or Stop has closed
\* the connection, nothing has come for 150 s, or the context is cancelled.
ReadFails ==
  /\ loop = "connected"
  /\ link[current] \in {"closed", "dead"} \/ stopped
  /\ link' = [link EXCEPT ![current] = "closed"]
  /\ loop' = "sleeping"
  /\ UNCHANGED <<retryCount, current, stopped>> /\ unchangedCommands

\* The network: the peer closes the connection, or is gone without a word.  The
\* last connection is kept, so that a run with MaxConns does not end here.
ConnBreaks ==
  /\ Open /\ current < MaxConns
  /\ \E state \in {"closed", "dead"} : link' = [link EXCEPT ![current] = state]
  /\ UNCHANGED <<loop, retryCount, current, stopped>> /\ unchangedCommands

\* heartbeatLoop on a connection whose peer is gone: a write that fails closes
\* it, so that the three misses it waits for are never needed.
HeartbeatFails ==
  /\ loop = "connected" /\ link[current] = "dead"
  /\ link' = [link EXCEPT ![current] = "closed"]
  /\ UNCHANGED <<loop, retryCount, current, stopped>> /\ unchangedCommands

Stop ==
  /\ ~stopped
  /\ stopped' = TRUE
  /\ link' = IF current = 0 THEN link ELSE [link EXCEPT ![current] = "closed"]
  /\ UNCHANGED <<loop, retryCount, current>> /\ unchangedCommands

-----------------------------------------------------------------------------
(* A command: processMessage and handleAPICall *)

unchangedLoop == UNCHANGED <<loop, retryCount, current, link, stopped>>

CommandArrives(c) ==
  /\ loop = "connected" /\ Open
  /\ command[c].pc = "unsent"
  /\ \E kind \in Kinds :
       command' = [command EXCEPT ![c].pc = "received", ![c].kind = kind]
  /\ UNCHANGED <<page, charged, answers>> /\ unchangedLoop

\* Only the action of a download asks for the licence, and an api_call with its
\* key does not; a helper without a login refuses it.
CommandChecked(c) ==
  /\ command[c].pc = "received"
  /\ \E pc \in IF HelperEnabled /\ command[c].kind \in Checked
               THEN {"consuming", "answering"} ELSE {"mapping"} :
       command' = [command EXCEPT ![c].pc = pc]
  /\ UNCHANGED <<page, charged, answers>> /\ unchangedLoop

\* HelperLicense, seen from here: the site deducts and its answer arrives or is
\* lost, or it deducts nothing.  Anything but a permission ends the command.
ConsumeEnds(c) ==
  /\ command[c].pc = "consuming"
  /\ \E deducted, allowed \in BOOLEAN :
       /\ allowed => deducted
       /\ charged' = [charged EXCEPT ![c] = IF deducted THEN @ + 1 ELSE @]
       /\ command' = [command EXCEPT ![c].pc = IF allowed THEN "mapping" ELSE "answering"]
  /\ UNCHANGED <<page, answers>> /\ unchangedLoop

\* What reaches a page when its call begins
Called(c) ==
  IF command[c].kind \in Downloads THEN [page EXCEPT ![c] = "called"] ELSE page

\* Mutant of CommandMapped: an error is answered, and the command goes on.
CommandMapped_GoesOn(c) ==
  /\ command[c].pc = "mapping"
  /\ command' = [command EXCEPT ![c].pc = "calling"]
  /\ page' = Called(c)
  /\ answers' = IF command[c].kind \in Served THEN answers
                ELSE [answers EXCEPT ![c] = @ + 1]
  /\ UNCHANGED charged /\ unchangedLoop

\* mapCommandToAPICall, the switch on what it does not know, and handleAPICall
\* up to its call of Hub
CommandMapped(c) ==
  /\ command[c].pc = "mapping"
  /\ \/ /\ command[c].kind \in Served
        /\ command' = [command EXCEPT ![c].pc = "calling"]
        /\ page' = Called(c)
     \/ /\ command[c].kind \notin Served
        /\ command' = [command EXCEPT ![c].pc = "answering"]
        /\ UNCHANGED page
  /\ UNCHANGED <<charged, answers>> /\ unchangedLoop

\* Hub.CallAPI ends with an answer, an error or its timeout, whatever happens to
\* the cloud and however far the page has come.  All are answered in one way.
PageAnswers(c) ==
  /\ command[c].pc = "calling"
  /\ command' = [command EXCEPT ![c].pc = "answering"]
  /\ UNCHANGED <<page, charged, answers>> /\ unchangedLoop

\* Mutant of CommandAnswered: it is answered once a connection takes it.
CommandAnswered_WhenOpen(c) ==
  /\ command[c].pc = "answering"
  /\ Open
  /\ command' = [command EXCEPT ![c].pc = "done"]
  /\ answers' = [answers EXCEPT ![c] = @ + 1]
  /\ UNCHANGED <<page, charged>> /\ unchangedLoop

\* sendResponse and sendError: one write on the connection of the moment; an
\* error is logged and the answer is gone.
CommandAnswered(c) ==
  /\ command[c].pc = "answering"
  /\ command' = [command EXCEPT ![c].pc = "done"]
  /\ answers' = IF Open THEN [answers EXCEPT ![c] = @ + 1] ELSE answers
  /\ UNCHANGED <<page, charged>> /\ unchangedLoop

-----------------------------------------------------------------------------
(* A page, and the handler of its download: HandleDownloadVideo *)

\* Mutant of PagePosts: the handler takes the connector's check for its own.
PagePosts_Trusting(c) ==
  /\ page[c] = "called"
  /\ page' = [page EXCEPT ![c] = "admitted"]
  /\ UNCHANGED <<command, charged, answers>> /\ unchangedLoop

\* The page posts download_video, perhaps after CallAPI has given it up; one that
\* is gone never does.
PagePosts(c) ==
  /\ page[c] = "called"
  /\ page' = [page EXCEPT ![c] = IF HelperEnabled THEN "posted" ELSE "admitted"]
  /\ UNCHANGED <<command, charged, answers>> /\ unchangedLoop

\* requireHelperLicense asks the site (as ConsumeEnds does) for every request.
HandlerConsumes(c) ==
  /\ page[c] = "posted"
  /\ \E deducted, allowed \in BOOLEAN :
       /\ allowed => deducted
       /\ charged' = [charged EXCEPT ![c] = IF deducted THEN @ + 1 ELSE @]
       /\ page' = [page EXCEPT ![c] = IF allowed THEN "admitted" ELSE "refused"]
  /\ UNCHANGED <<command, answers>> /\ unchangedLoop

-----------------------------------------------------------------------------

PageStep(c) == PagePosts(c) \/ HandlerConsumes(c)

LoopStep == LoopBegins \/ DialFails \/ DialSucceeds \/ Wakes \/ ReadFails

CommandStep(c) ==
  CommandChecked(c) \/ ConsumeEnds(c) \/ CommandMapped(c) \/ PageAnswers(c) \/ CommandAnswered(c)

Next ==
  \/ loop # "panicked" /\ LoopStep
  \/ loop # "panicked" /\ (ConnBreaks \/ HeartbeatFails \/ Stop)
  \/ loop # "panicked" /\ \E c \in Commands : CommandArrives(c) \/ CommandStep(c) \/ PageStep(c)

Spec == Init /\ [][Next]_vars

\* Goroutines run, sleeps and deadlines end, the page's call returns (CallsEnd
\* of Hub), the site answers or the client gives up; dials do not fail for ever.
Fairness == WF_vars(LoopStep) /\ \A c \in Commands : WF_vars(CommandStep(c))

FairSpec == Spec /\ Fairness

-----------------------------------------------------------------------------
(* Properties *)

\* How often the licence is checked on the way of a command
Checks(kind) ==
  CASE kind = "download"                       -> 2
    [] kind \in {"badDownload", "apiDownload"} -> 1
    [] OTHER                                   -> 0

\* The handler admits a download the cloud asks for only when the site has
\* deducted it, and not on an answer that never came: an api_call passes the
\* connector unchecked, but not the handler.  The deductions are those of the
\* checks on the way and no more, so that a download_video takes two.
DownloadsAreLicensed ==
  HelperEnabled => \A c \in Commands :
    /\ charged[c] <= Checks(command[c].kind)
    /\ page[c] = "admitted" => charged[c] = Checks(command[c].kind) /\ charged[c] > 0

\* A command gets one answer at most, over all connections: never an error and
\* then a result, as a missing return after sendError would give.
AnsweredOnce ==
  \A c \in Commands :
    /\ answers[c] <= 1
    /\ answers[c] = 1 => command[c].pc = "done"

\* Every command ends, though its connection may break meanwhile.
CommandsEnd == \A c \in Commands : command[c].pc = "received" ~> command[c].pc = "done"

\* A connection that is lost, noticed or not, is replaced, unless Stop comes.
Reconnects ==
  (current # 0 /\ ~Open) ~> (stopped \/ Open)

\* After Stop the loop ends and leaves no connection, even if a dial succeeded
\* while Stop was closing the one before.
StopsForGood ==
  stopped ~> [](loop = "ended" /\ \A n \in Conns : link[n] \in {"none", "closed"})

\* maxRetries is 0 and 0 means to retry without limit, says NewConnector.
RetriesForEver == loop # "panicked"
=============================================================================
