--------------------------- MODULE SingleDownload ---------------------------
(***************************************************************************)
(* The downloads a page asks the helper for one by one (upload.go,         *)
(* HandleDownloadVideo and HandleCancelDownload).                          *)
(*                                                                         *)
(* A request is a handler that checks and answers, and the goroutine it    *)
(* leaves behind: Gopeed downloads into a temporary file named after the   *)
(* video, which is decrypted in place and renamed to its final name.       *)
(* Every video here has the same title, so that final names collide; its   *)
(* numbers stand for "name.mp4", "name(1).mp4", ...  Every video is        *)
(* encrypted.  A file another goroutine has open may or may not be removed *)
(* or renamed: that differs between the systems the helper runs on.        *)
(***************************************************************************)
EXTENDS Naturals, FiniteSets

CONSTANTS Requests, Videos, NoRequest,
          Wants,     \* the video of a request
          Forced,    \* the requests with forceSave
          Names,     \* final names, 1 .. at least the number of requests
          MaxCancels \* bound: cancellations of one video half done at once

ASSUME DownloadAssumption ==
  /\ Forced \subseteq Requests /\ NoRequest \notin Requests
  /\ Wants \in [Requests -> Videos]
  /\ Names \subseteq Nat \ {0} /\ 1 \in Names
  /\ IsFiniteSet(Requests) /\ MaxCancels \in Nat
  /\ IsFiniteSet(Names) => Cardinality(Requests) <= Cardinality(Names)

VARIABLES req,      \* the requests
          active,   \* h.activeDownloads: whose cancel function a video has
          cancels,  \* for every video, how many cancellations are half done
          files,    \* the files
          records,  \* the file of a video's download record, or 0
          raced     \* history: requests that ran beside one of their video or
                    \* started while it was being cancelled, or that chose their
                    \* final name while another was about to take it

vars == <<req, active, cancels, files, records, raced>>

\* tmpPath, the path Gopeed takes when that one exists, and the final names
TmpPath(r) == [kind |-> "tmp", name |-> req[r].name, video |-> Wants[r]]
OwnPath(r) == [kind |-> "own", request |-> r]
Final(n) == [kind |-> "final", name |-> n]
Temporary == [kind : {"tmp"}, name : Names, video : Videos] \cup {OwnPath(r) : r \in Requests}
Paths == Temporary \cup {Final(n) : n \in Names}

NoFile == [by |-> NoRequest, state |-> "none"]
Contents == {NoFile} \cup [by : Requests, state : {"partial", "encrypted", "clear"}]

Running == {"started", "downloading", "fetched", "decrypted", "placing", "moved", "ending"}
Statuses == Running \cup {"idle", "checked", "free", "refused", "done"}
Idle == [pc |-> "idle", name |-> 0, path |-> OwnPath(NoRequest),
         final |-> 0, cancelled |-> FALSE]

TypeOK ==
  /\ req \in [Requests -> [pc : Statuses, name : Names \cup {0},
                           path : Temporary \cup {OwnPath(NoRequest)},
                           final : Names \cup {0}, cancelled : BOOLEAN]]
  /\ active \in [Videos -> Requests \cup {NoRequest}]
  /\ cancels \in [Videos -> 0 .. MaxCancels]
  /\ files \in [Paths -> Contents]
  /\ records \in [Videos -> Names \cup {0}]
  /\ raced \subseteq Requests
  \* An entry is of a goroutine of that video: none is left to refuse the
  \* video for ever.
  /\ \A v \in Videos : active[v] # NoRequest =>
       Wants[active[v]] = v /\ req[active[v]].pc \in Running

Init ==
  /\ req = [r \in Requests |-> Idle]
  /\ active = [v \in Videos |-> NoRequest]
  /\ cancels = [v \in Videos |-> 0]
  /\ files = [p \in Paths |-> NoFile]
  /\ records = [v \in Videos |-> 0]
  /\ raced = {}

Exists(p) == files[p] # NoFile
FreeName == CHOOSE n \in Names : ~Exists(Final(n)) /\ \A m \in Names : m < n => Exists(Final(m))

\* os.Remove of some paths by request r: one that somebody else writes to may
\* stay.  The outcomes are the possible next values of files.
Written(p) == files[p].state = "partial"
Removed(r, paths) ==
  LET sure == {p \in paths : ~Written(p) \/ files[p].by = r} IN
  {[p \in Paths |-> IF p \in gone THEN NoFile ELSE files[p]] :
     gone \in {sure \cup some : some \in SUBSET (paths \ sure)}}

-----------------------------------------------------------------------------
(* The handler *)

\* Without forceSave a video whose recorded file is there is skipped, and the
\* name is the first that is free.
Asks(r) ==
  /\ req[r].pc = "idle"
  /\ LET saved == records[Wants[r]]
         skipped == r \notin Forced /\ saved # 0 /\ Exists(Final(saved)) IN
     req' = [req EXCEPT ![r].pc = IF skipped THEN "refused" ELSE "checked",
                        ![r].name = IF skipped THEN 0 ELSE IF r \in Forced THEN 1 ELSE FreeName]
  /\ UNCHANGED <<active, cancels, files, records, raced>>

\* activeDownloads.Load: "already started" is the answer when there is an entry.
LooksUp(r) ==
  /\ req[r].pc = "checked"
  /\ req' = [req EXCEPT ![r] = IF active[Wants[r]] = NoRequest
                                THEN [@ EXCEPT !.pc = "free"] ELSE [Idle EXCEPT !.pc = "refused"]]
  /\ UNCHANGED <<active, cancels, files, records, raced>>

Beside(r) == {q \in Requests \ {r} : Wants[q] = Wants[r] /\ req[q].pc \in Running}
Alone(r) == Beside(r) = {} /\ cancels[Wants[r]] = 0

\* Mutant of Starts: a request with forceSave does not enter its cancel function.
Starts_NotForced(r) ==
  /\ req[r].pc = "free"
  /\ active' = IF r \in Forced THEN active ELSE [active EXCEPT ![Wants[r]] = r]
  /\ req' = [req EXCEPT ![r].pc = "started"]
  /\ raced' = raced \cup Beside(r) \cup IF Alone(r) THEN {} ELSE {r}
  /\ UNCHANGED <<cancels, files, records>>

\* activeDownloads.Store, then the goroutine
Starts(r) ==
  /\ req[r].pc = "free"
  /\ active' = [active EXCEPT ![Wants[r]] = r]
  /\ req' = [req EXCEPT ![r].pc = "started"]
  /\ raced' = raced \cup Beside(r) \cup IF Alone(r) THEN {} ELSE {r}
  /\ UNCHANGED <<cancels, files, records>>

\* HandleCancelDownload, in two steps: the cancel function that is found is
\* called, and then the entry deleted that is there by now.  Two of one video may
\* both have found it.
Cancels(v) ==
  /\ active[v] # NoRequest /\ cancels[v] < MaxCancels
  /\ req' = [req EXCEPT ![active[v]].cancelled = TRUE]
  /\ cancels' = [cancels EXCEPT ![v] = @ + 1]
  /\ UNCHANGED <<active, files, records, raced>>

CancelDeletes(v) ==
  /\ cancels[v] > 0
  /\ cancels' = [cancels EXCEPT ![v] = @ - 1]
  /\ active' = [active EXCEPT ![v] = NoRequest]
  /\ UNCHANGED <<req, files, records, raced>>

-----------------------------------------------------------------------------
(* The goroutine *)

\* What a failure leaves: the files in paths are removed.
Fails(r, paths) ==
  /\ req' = [req EXCEPT ![r] = [Idle EXCEPT !.pc = "ending", !.cancelled = req[r].cancelled]]
  /\ files' \in Removed(r, paths)
  /\ UNCHANGED <<active, cancels, records, raced>>

\* The temporary file is removed and Gopeed gets its task.  Gopeed takes
\* another path when there is still a file, or writes over it.
Fetches(r) ==
  /\ req[r].pc = "started"
  /\ \E cleared \in Removed(r, {TmpPath(r)}) :
     \E p \in {TmpPath(r), OwnPath(r)} :
       /\ cleared[TmpPath(r)] = NoFile => p = TmpPath(r)
       /\ files' = [cleared EXCEPT ![p] = [by |-> r, state |-> "partial"]]
       /\ req' = [req EXCEPT ![r].pc = "downloading", ![r].path = p]
  /\ UNCHANGED <<active, cancels, records, raced>>

CreateTaskFails(r) == req[r].pc = "started" /\ Fails(r, {TmpPath(r)})

\* WaitTask sees that Gopeed has finished.
Fetched(r) ==
  /\ req[r].pc = "downloading"
  /\ LET p == req[r].path IN
       files' = IF files[p].by = r THEN [files EXCEPT ![p].state = "encrypted"] ELSE files
  /\ req' = [req EXCEPT ![r].pc = "fetched"]
  /\ UNCHANGED <<active, cancels, records, raced>>

\* Mutant of FetchFails: there is no deadline.
FetchFails_NoDeadline(r) ==
  req[r].pc = "downloading" /\ req[r].cancelled /\ Fails(r, {TmpPath(r), req[r].path})

\* Mutant of FetchFails: an error of Gopeed is taken for its end.
FetchFails_GoesOn(r) ==
  /\ req[r].pc = "downloading"
  /\ req' = [req EXCEPT ![r].pc = "fetched"]
  /\ UNCHANGED <<active, cancels, files, records, raced>>

\* Gopeed reports an error, the download is cancelled, or thirty minutes have
\* passed: DownloadSync deletes the task with its file, the goroutine removes
\* the path it is told of, which without an answer of Gopeed is tmpPath.
FetchFails(r) ==
  /\ req[r].pc = "downloading"
  /\ Fails(r, {req[r].path}) \/ Fails(r, {TmpPath(r), req[r].path})

\* DecryptFileInPlace checks the header it has made and puts the old one back
\* when it is no video's: a file that is clear stays clear.
Decrypted(state) == IF state = "encrypted" THEN "clear" ELSE state

\* A clear file passes too: its header may have been read before another
\* goroutine decrypted it.
Decrypts(r) ==
  /\ req[r].pc = "fetched" /\ Exists(req[r].path)
  /\ files' = [files EXCEPT ![req[r].path].state = Decrypted(@)]
  /\ req' = [req EXCEPT ![r].pc = "decrypted"]
  /\ UNCHANGED <<active, cancels, records, raced>>

\* Mutant of DecryptFails: the file is left behind.
DecryptFails_Leaves(r) == req[r].pc = "fetched" /\ Fails(r, {})

\* The file is gone or empty, the key is no number or does not fit the file.
DecryptFails(r) == req[r].pc = "fetched" /\ Fails(r, {req[r].path})

\* Mutant of Available: the name chosen at the start is still free.
Available_Trusted(r) == req[r].name

\* MoveFileToAvailablePath: the name that was meant, or the first free one
Available(r) == IF Exists(Final(req[r].name)) THEN FreeName ELSE req[r].name

ChoosesName(r) ==
  /\ req[r].pc = "decrypted"
  /\ req' = [req EXCEPT ![r].pc = "placing", ![r].final = Available(r)]
  /\ LET others == {q \in Requests \ {r} : req[q].pc = "placing" /\ req[q].final = Available(r)} IN
       raced' = IF others = {} THEN raced ELSE raced \cup {r} \cup others
  /\ UNCHANGED <<active, cancels, files, records>>

\* os.Rename replaces a file that has appeared under that name.
Moves(r) ==
  /\ req[r].pc = "placing" /\ Exists(req[r].path)
  /\ files' = [files EXCEPT ![Final(req[r].final)] = files[req[r].path], ![req[r].path] = NoFile]
  /\ req' = [req EXCEPT ![r] = [Idle EXCEPT !.pc = "moved", !.final = req[r].final,
                                            !.cancelled = req[r].cancelled]]
  /\ UNCHANGED <<active, cancels, records, raced>>

\* The temporary file is gone, or open elsewhere: another name is tried when
\* the name is taken by now (a thousand times at most), or the download fails.
MoveFails(r) ==
  /\ req[r].pc = "placing" /\ (~Exists(req[r].path) \/ Written(req[r].path))
  /\ Fails(r, {req[r].path})

\* The record of the video is inserted or replaced; an error is only logged.
Records(r) ==
  /\ req[r].pc = "moved"
  /\ req' = [req EXCEPT ![r].pc = "ending"]
  /\ \/ records' = [records EXCEPT ![Wants[r]] = req[r].final]
     \/ UNCHANGED records
  /\ UNCHANGED <<active, cancels, files, raced>>

\* Mutant of Ends: the entry of a download that failed stays.
Ends_OnlySuccess(r) ==
  /\ req[r].pc = "ending"
  /\ active' = IF req[r].final = 0 THEN active ELSE [active EXCEPT ![Wants[r]] = NoRequest]
  /\ req' = [req EXCEPT ![r] = [Idle EXCEPT !.pc = "done", !.final = req[r].final]]
  /\ UNCHANGED <<cancels, files, records, raced>>

\* The deferred functions: the video's entry is deleted, whosever it is.
Ends(r) ==
  /\ req[r].pc = "ending"
  /\ active' = [active EXCEPT ![Wants[r]] = NoRequest]
  /\ req' = [req EXCEPT ![r] = [Idle EXCEPT !.pc = "done", !.final = req[r].final]]
  /\ UNCHANGED <<cancels, files, records, raced>>

-----------------------------------------------------------------------------

\* What needs no answer of Gopeed
Goroutine(r) ==
  \/ Fetches(r) \/ CreateTaskFails(r) \/ FetchFails(r) \/ Decrypts(r) \/ DecryptFails(r)
  \/ ChoosesName(r) \/ Moves(r) \/ MoveFails(r) \/ Records(r) \/ Ends(r)

Handler(r) == Asks(r) \/ LooksUp(r) \/ Starts(r)

Next ==
  \/ \E r \in Requests : Handler(r) \/ Goroutine(r) \/ Fetched(r)
  \/ \E v \in Videos : Cancels(v) \/ CancelDeletes(v)

Spec == Init /\ [][Next]_vars

\* A goroutine goes on when it can, and the deadline of a download passes.
\* Gopeed need not finish, a page need not ask or cancel.
Fairness == \A r \in Requests : WF_vars(Goroutine(r))

FairSpec == Spec /\ Fairness

-----------------------------------------------------------------------------
(* Properties *)

\* A download that ran alone and that nobody cancelled has its entry for as
\* long as it runs: a cancellation finds it, and a second request is refused.
Findable ==
  \A r \in Requests :
    req[r].pc \in Running /\ r \notin raced /\ ~req[r].cancelled => active[Wants[r]] = r

\* A download that ran alone and reached its end left a whole, decrypted file
\* of its own: neither an aborted attempt nor a video of the same title, which
\* was saved before it or after it, takes its place.
SavedIsWhole ==
  \A r \in Requests \ raced :
    req[r].pc \in {"moved", "ending", "done"} /\ req[r].final # 0 =>
      files[Final(req[r].final)] = [by |-> r, state |-> "clear"]

\* A download that ran alone leaves no temporary file, however it ended.
NothingLeft ==
  \A r \in Requests \ raced :
    req[r].pc = "done" => \A p \in Temporary : files[p].by # r

\* Every download that was started ends, and the video can be asked for again:
\* Gopeed need not finish, nor fail.
DownloadsEnd == \A r \in Requests : req[r].pc = "started" ~> req[r].pc = "done"
=============================================================================
