------------------------ MODULE SingleDownloadProofs ------------------------
(***************************************************************************)
(* For every number of requests, of videos and of names: a download that   *)
(* ran alone can be found while it runs, leaves a whole file of its own    *)
(* under its final name and nothing else.                                  *)
(***************************************************************************)
EXTENDS SingleDownload, FiniteSetTheorems, WellFoundedInduction, TLAPS

Downloading == {"downloading", "fetched", "decrypted", "placing"}
Saved == {"moved", "ending", "done"}

RequestRecords == [pc : Statuses, name : Names \cup {0},
                   path : Temporary \cup {OwnPath(NoRequest)},
                   final : Names \cup {0}, cancelled : BOOLEAN]

Types ==
  /\ req \in [Requests -> RequestRecords]
  /\ active \in [Videos -> Requests \cup {NoRequest}]
  /\ cancels \in [Videos -> 0 .. MaxCancels]
  /\ files \in [Paths -> Contents]
  /\ records \in [Videos -> Names \cup {0}]
  /\ raced \subseteq Requests

\* What is known of request r in state s, by where it is
GoodRequest(r, s) ==
  /\ s.pc \in {"checked", "free", "started"} \cup Downloading => s.name \in Names
  /\ s.pc \in Downloading =>
       s.path \in {[kind |-> "tmp", name |-> s.name, video |-> Wants[r]], OwnPath(r)}
  /\ s.pc \in {"placing", "moved"} => s.final \in Names
  /\ s.pc \notin Saved \cup {"placing"} => s.final = 0

RequestsOK == \A r \in Requests : GoodRequest(r, req[r])

IsRunning(r) == req[r].pc \in Running

\* Two goroutines of one video race, and so does one that is cancelled before
\* it has begun.
ActiveOK ==
  \A v \in Videos : active[v] # NoRequest => Wants[active[v]] = v /\ IsRunning(active[v])
AloneOK ==
  \A r, q \in Requests :
    r # q /\ Wants[r] = Wants[q] /\ IsRunning(r) /\ IsRunning(q) => r \in raced
CancelOK ==
  \A r \in Requests \ raced : IsRunning(r) /\ cancels[Wants[r]] # 0 => req[r].cancelled
Control == ActiveOK /\ AloneOK /\ CancelOK /\ Findable

\* A final name that is taken was taken by a request, and one that is about to
\* be taken is not that of a request that did not race.
TakenOK ==
  \A n \in Names : Exists(Final(n)) =>
    \E r \in Requests : req[r].pc \in Saved /\ req[r].final = n
NoClash ==
  \A r \in Requests \ raced : \A q \in Requests \ {r} :
    req[q].pc = "placing" /\ req[r].pc \in Saved \cup {"placing"} => req[q].final # req[r].final

\* The one file a request that did not race has, by where it is
StateOf(pc) ==
  IF pc = "downloading" THEN "partial" ELSE IF pc = "fetched" THEN "encrypted" ELSE "clear"
HasFile(s) == s.pc \in Downloading \/ (s.pc \in Saved /\ s.final # 0)
Place(s) == IF s.pc \in Downloading THEN s.path ELSE Final(s.final)
OwnFile(r, s, f) ==
  /\ HasFile(s) => f[Place(s)] = [by |-> r, state |-> StateOf(s.pc)]
  /\ \A p \in Paths : f[p].by = r => HasFile(s) /\ p = Place(s)
FilesOK == \A r \in Requests \ raced : OwnFile(r, req[r], files)

IInv == Types /\ RequestsOK /\ Control /\ TakenOK /\ NoClash /\ FilesOK

-----------------------------------------------------------------------------
(* Names and paths *)

LEMMA LeastNumber ==
  ASSUME NEW S, S \subseteq Nat, S # {}
  PROVE  \E n \in S : \A m \in S : ~(m < n)
  <1>1. PICK n \in S : \A m \in S : ~(<<m, n>> \in OpToRel(<, Nat))
    BY NatLessThanWellFounded, WFMin
  <1>2. QED  BY <1>1 DEF OpToRel

\* While a request has not ended, there is a free name.
LEMMA NameIsFree ==
  ASSUME Types, TakenOK, NEW r \in Requests, req[r].pc \notin Saved
  PROVE  FreeName \in Names /\ ~Exists(Final(FreeName))
  <1> DEFINE Free == {n \in Names : ~Exists(Final(n))}
             Others == {q \in Requests : req[q].pc \in Saved /\ req[q].final \in Names}
             f == [q \in Others |-> req[q].final]
             Taken == {f[q] : q \in Others}
  <1>1. Free # {}
    <2> SUFFICES ASSUME Free = {} PROVE FALSE
      OBVIOUS
    <2>1. Taken = Names
      BY DEF TakenOK
    <2>2. f \in Surjection(Others, Names)
      <3>1. f \in [Others -> Names]  OBVIOUS
      <3>2. \A n \in Names : \E q \in Others : f[q] = n  BY <2>1
      <3>3. QED  BY <3>1, <3>2 DEF Surjection
    <2>3. Others \subseteq Requests \ {r}  OBVIOUS
    <2>4. IsFiniteSet(Requests \ {r}) /\ Cardinality(Requests \ {r}) = Cardinality(Requests) - 1
      BY DownloadAssumption, FS_RemoveElement
    <2>5. IsFiniteSet(Others) /\ Cardinality(Others) <= Cardinality(Requests) - 1
      BY <2>3, <2>4, FS_Subset
    <2>6. IsFiniteSet(Names) /\ Cardinality(Names) <= Cardinality(Others)
      BY <2>2, <2>5, FS_Surjection
    <2>7. Cardinality(Requests) \in Nat /\ Cardinality(Names) \in Nat /\ Cardinality(Others) \in Nat
      BY <2>5, <2>6, DownloadAssumption, FS_CardinalityType
    <2>8. QED  BY <2>5, <2>6, <2>7, DownloadAssumption
  <1>2. PICK n \in Free : \A m \in Free : ~(m < n)
    BY <1>1, LeastNumber, DownloadAssumption
  <1>3. ~Exists(Final(n)) /\ \A m \in Names : m < n => Exists(Final(m))
    BY <1>2
  <1>4. QED  BY <1>3 DEF FreeName

\* Temporary paths are no final ones, and those of two requests differ unless
\* both are of one video.
LEMMA PathsDiffer ==
  /\ \A r \in Requests : OwnPath(r) \in Temporary
  /\ \A n \in Names, v \in Videos : [kind |-> "tmp", name |-> n, video |-> v] \in Temporary
  /\ \A n \in Names : Final(n) \in Paths /\ Final(n) \notin Temporary
  /\ \A n, m \in Names : Final(n) = Final(m) => n = m
  /\ Temporary \subseteq Paths
  BY DEF Temporary, Paths, Final, OwnPath

LEMMA RequestPathsDiffer ==
  ASSUME NEW r \in Requests, NEW q \in Requests, Wants[r] # Wants[q], NEW n, NEW m
  PROVE  {[kind |-> "tmp", name |-> n, video |-> Wants[r]], OwnPath(r)} \cap
         {[kind |-> "tmp", name |-> m, video |-> Wants[q]], OwnPath(q)} = {}
  <1>1. r # q  OBVIOUS
  <1>2. OwnPath(r) # OwnPath(q)
    BY <1>1 DEF OwnPath
  <1>3. [kind |-> "tmp", name |-> n, video |-> Wants[r]] #
        [kind |-> "tmp", name |-> m, video |-> Wants[q]]
    OBVIOUS
  <1>4. QED  BY <1>2, <1>3 DEF OwnPath
-----------------------------------------------------------------------------
(* Steps of one request *)

\* Where two requests of one video run, each has raced.
LEMMA OthersAreElsewhere ==
  ASSUME IInv, NEW r \in Requests, NEW q \in Requests \ raced, q # r,
         IsRunning(r), req[q].pc \in Downloading
  PROVE  req[q].path \notin {TmpPath(r), OwnPath(r)} /\ req[q].path \in Temporary
  <1>1. IsRunning(q)
    BY DEF IsRunning, Running, Downloading
  <1>2. Wants[q] # Wants[r]
    BY <1>1 DEF IInv, Control, AloneOK
  <1>3. /\ req[q].path \in {[kind |-> "tmp", name |-> req[q].name, video |-> Wants[q]], OwnPath(q)}
        /\ req[q].name \in Names
    BY DEF IInv, RequestsOK, GoodRequest
  <1>4. Wants[q] \in Videos
    BY DownloadAssumption
  <1>5. req[q].path \notin {TmpPath(r), OwnPath(r)}
    BY <1>2, <1>3, RequestPathsDiffer DEF TmpPath
  <1>6. QED  BY <1>3, <1>4, <1>5, PathsDiffer

\* One request changes, and keeps its entry and its cancellation.
LEMMA ControlKeeps ==
  ASSUME IInv, NEW r \in Requests, NEW s \in RequestRecords, req' = [req EXCEPT ![r] = s],
         IsRunning(r) <=> s.pc \in Running, s.cancelled = req[r].cancelled,
         UNCHANGED <<active, cancels>>, raced \subseteq raced'
  PROVE  Control'
  <1>1. /\ \A q \in Requests : IsRunning(q)' <=> IsRunning(q)
        /\ \A q \in Requests : req'[q].cancelled = req[q].cancelled
    BY DEF IInv, Types, IsRunning
  <1>2. \A v \in Videos : active[v] \in Requests \cup {NoRequest}
    BY DEF IInv, Types
  <1>3. ActiveOK'
    BY <1>1, <1>2 DEF IInv, Control, ActiveOK
  <1>4. AloneOK' /\ CancelOK'
    BY <1>1 DEF IInv, Control, AloneOK, CancelOK
  <1>5. Findable'
    <2>1. \A q \in Requests : req'[q].pc \in Running <=> req[q].pc \in Running
      BY <1>1 DEF IsRunning
    <2>2. QED  BY <1>1, <2>1 DEF IInv, Control, Findable
  <1>6. QED  BY <1>3, <1>4, <1>5 DEF Control

\* One request, which changes none but its own temporary files, takes no name
\* and gives none back.
LEMMA QuietKeeps ==
  ASSUME IInv, NEW r \in Requests, NEW s \in RequestRecords, req' = [req EXCEPT ![r] = s],
         GoodRequest(r, s), s.pc # "placing",
         req[r].pc \in Saved => s.pc \in Saved /\ s.final = req[r].final,
         req[r].pc \notin Saved => s.final = 0,
         files' \in [Paths -> Contents],
         \A p \in Paths : files'[p] # files[p] =>
           /\ IsRunning(r) /\ p \in {TmpPath(r), OwnPath(r)}
           /\ files'[p].by \in {files[p].by, r, NoRequest},
         raced \subseteq raced', r \notin raced => OwnFile(r, s, files')
  PROVE  RequestsOK' /\ TakenOK' /\ NoClash' /\ FilesOK'
  <1>1. /\ req'[r] = s /\ \A q \in Requests \ {r} : req'[q] = req[q]
        /\ req' \in [Requests -> RequestRecords]
    BY DEF IInv, Types
  <1>2. RequestsOK'
    BY <1>1 DEF IInv, RequestsOK, GoodRequest, OwnPath
  <1>3. \A n \in Names : files'[Final(n)] = files[Final(n)]
    <2>1. \A n \in Names : TmpPath(r) # Final(n) /\ OwnPath(r) # Final(n)
      BY DEF TmpPath, OwnPath, Final
    <2>2. QED  BY <2>1, PathsDiffer
  <1>4. TakenOK'
    <2>1. \A n \in Names : Exists(Final(n))' <=> Exists(Final(n))
      BY <1>3 DEF Exists, NoFile, Final
    <2>2. SUFFICES ASSUME NEW n \in Names, Exists(Final(n))
                   PROVE  \E q \in Requests : req'[q].pc \in Saved /\ req'[q].final = n
      BY <2>1 DEF TakenOK
    <2>3. PICK q \in Requests : req[q].pc \in Saved /\ req[q].final = n
      BY <2>2 DEF IInv, TakenOK
    <2>4. QED  BY <1>1, <2>3
  <1>5. NoClash'
    <2>1. SUFFICES ASSUME NEW x \in Requests \ raced', NEW q \in Requests \ {x},
                          req'[q].pc = "placing", req'[x].pc \in Saved \cup {"placing"}
                   PROVE  req'[q].final # req'[x].final
      BY DEF NoClash
    <2>2. q # r /\ req'[q] = req[q] /\ x \notin raced
      BY <1>1, <2>1
    <2>3. req[q].final \in Names /\ req[q].final # 0
      BY <2>1, <2>2, DownloadAssumption DEF IInv, RequestsOK, GoodRequest
    <2>4. CASE x = r
      BY <1>1, <2>1, <2>2, <2>3, <2>4 DEF IInv, NoClash
    <2>5. CASE x # r
      BY <1>1, <2>1, <2>2, <2>5 DEF IInv, NoClash
    <2>6. QED  BY <2>4, <2>5
  <1>6. FilesOK'
    <2>1. SUFFICES ASSUME NEW q \in Requests \ raced' PROVE OwnFile(q, req'[q], files')
      BY DEF FilesOK, OwnFile, HasFile, Place, Final, StateOf
    <2>2. q \notin raced  BY <2>1
    <2>3. CASE q = r
      BY <1>1, <2>2, <2>3
    <2>4. CASE q # r
      <3>1. req'[q] = req[q] /\ OwnFile(q, req[q], files)
        BY <1>1, <2>2, <2>4 DEF IInv, FilesOK
      <3>2. HasFile(req[q]) => files'[Place(req[q])] = files[Place(req[q])]
        <4>1. CASE req[q].pc \in Downloading /\ IsRunning(r)
          BY <2>2, <2>4, <4>1, OthersAreElsewhere, PathsDiffer DEF Place
        <4>2. CASE req[q].pc \in Downloading /\ ~IsRunning(r)
          <5>1. req[q].path \in {[kind |-> "tmp", name |-> req[q].name, video |-> Wants[q]], OwnPath(q)}
                /\ req[q].name \in Names /\ Wants[q] \in Videos
            BY <4>2, DownloadAssumption DEF IInv, RequestsOK, GoodRequest
          <5>2. req[q].path \in Paths
            BY <5>1, PathsDiffer
          <5>3. QED  BY <4>2, <5>2 DEF Place
        <4>3. CASE req[q].pc \notin Downloading
          <5>1. req[q].final \in Names \cup {0}
            BY DEF IInv, Types, RequestRecords
          <5>2. QED  BY <1>3, <4>3, <5>1 DEF Place, HasFile
        <4>4. QED  BY <4>1, <4>2, <4>3
      <3>3. ASSUME NEW p \in Paths, files'[p].by = q
            PROVE  files[p].by = q
        BY <2>4, <3>3, DownloadAssumption
      <3>4. QED  BY <3>1, <3>2, <3>3 DEF OwnFile
    <2>5. QED  BY <2>3, <2>4
  <1>7. QED  BY <1>2, <1>4, <1>5, <1>6

\* What is removed is gone or is somebody else's, and nothing else changes.
LEMMA RemovedEffect ==
  ASSUME Types, NEW r \in Requests, NEW paths \in SUBSET Paths, NEW g \in Removed(r, paths)
  PROVE  /\ g \in [Paths -> Contents]
         /\ \A p \in Paths : g[p] = files[p] \/ (p \in paths /\ g[p] = NoFile)
         /\ \A p \in paths : files[p].by = r => g[p] = NoFile
  <1>1. PICK gone \in SUBSET paths :
          /\ g = [p \in Paths |-> IF p \in gone THEN NoFile ELSE files[p]]
          /\ \A p \in paths : files[p].by = r => p \in gone
    BY DEF Removed
  <1>2. NoFile \in Contents /\ files \in [Paths -> Contents]
    BY DEF Contents, Types
  <1>3. QED  BY <1>1, <1>2

LEMMA FailKeeps ==
  ASSUME IInv, NEW r \in Requests, req[r].pc \in {"started"} \cup Downloading,
         NEW paths \in SUBSET {TmpPath(r), OwnPath(r)},
         req[r].pc \in Downloading => req[r].path \in paths, Fails(r, paths)
  PROVE  IInv'
  <1>1. PICK s : s = [Idle EXCEPT !.pc = "ending", !.cancelled = req[r].cancelled]
    OBVIOUS
  <1>2. req' = [req EXCEPT ![r] = s] /\ files' \in Removed(r, paths)
        /\ UNCHANGED <<active, cancels, records, raced>>
    BY <1>1 DEF Fails
  <1>3. req[r] \in RequestRecords
    BY DEF IInv, Types
  <1>4. s \in RequestRecords
    BY <1>1, <1>3 DEF Idle, RequestRecords, Statuses, Running
  <1>5. s.pc = "ending" /\ s.final = 0 /\ s.cancelled = req[r].cancelled
    BY <1>1 DEF Idle
  <1>6. IsRunning(r) /\ req[r].pc \notin Saved
    BY DEF IsRunning, Running, Downloading, Saved
  <1>7. req[r].name \in Names /\ Wants[r] \in Videos
    BY DownloadAssumption DEF IInv, RequestsOK, GoodRequest
  <1>8. TmpPath(r) \in Paths /\ OwnPath(r) \in Paths
    BY <1>7, PathsDiffer DEF TmpPath
  <1>9. /\ files' \in [Paths -> Contents]
        /\ \A p \in Paths : files'[p] = files[p] \/ (p \in paths /\ files'[p] = NoFile)
        /\ \A p \in paths : files[p].by = r => files'[p] = NoFile
    BY <1>2, <1>8, RemovedEffect DEF IInv
  <1>10. GoodRequest(r, s)
    BY <1>5 DEF GoodRequest, Downloading, Saved
  <1>11. r \notin raced => OwnFile(r, s, files')
    <2>1. SUFFICES ASSUME r \notin raced PROVE OwnFile(r, s, files')
      OBVIOUS
    <2>2. OwnFile(r, req[r], files)
      BY <2>1 DEF IInv, FilesOK
    <2>3. \A p \in Paths : files[p].by = r => req[r].pc \in Downloading /\ p = req[r].path
      BY <1>6, <2>2 DEF OwnFile, HasFile, Place
    <2>4. \A p \in Paths : files'[p].by # r
      BY <1>9, <2>3, DownloadAssumption DEF NoFile
    <2>5. ~HasFile(s)
      BY <1>5 DEF HasFile, Downloading
    <2>6. QED  BY <2>4, <2>5 DEF OwnFile
  <1>12. \A p \in Paths : files'[p] # files[p] =>
           /\ IsRunning(r) /\ p \in {TmpPath(r), OwnPath(r)}
           /\ files'[p].by \in {files[p].by, r, NoRequest}
    BY <1>6, <1>9 DEF NoFile
  <1>13. RequestsOK' /\ TakenOK' /\ NoClash' /\ FilesOK'
    BY <1>2, <1>4, <1>5, <1>6, <1>9, <1>10, <1>11, <1>12, QuietKeeps
  <1>14. Control'
    BY <1>2, <1>4, <1>5, <1>6, ControlKeeps DEF Running
  <1>15. Types'
    BY <1>2, <1>4, <1>9 DEF IInv, Types
  <1>16. QED  BY <1>13, <1>14, <1>15 DEF IInv

\* A goroutine goes on with its temporary file.
LEMMA GoesOn ==
  ASSUME IInv, NEW r \in Requests, NEW s \in RequestRecords, req' = [req EXCEPT ![r] = s],
         IsRunning(r), GoodRequest(r, s), s.pc \in Running \ {"placing"},
         s.cancelled = req[r].cancelled,
         req[r].pc \in Saved => s.pc \in Saved /\ s.final = req[r].final,
         req[r].pc \notin Saved => s.final = 0,
         files' \in [Paths -> Contents],
         \A p \in Paths : files'[p] # files[p] =>
           p \in {TmpPath(r), OwnPath(r)} /\ files'[p].by \in {files[p].by, r, NoRequest},
         records' \in [Videos -> Names \cup {0}],
         UNCHANGED <<active, cancels, raced>>,
         r \notin raced => OwnFile(r, s, files')
  PROVE  IInv'
  <1>1. RequestsOK' /\ TakenOK' /\ NoClash' /\ FilesOK'
    BY QuietKeeps
  <1>2. Control'
    BY ControlKeeps
  <1>3. Types'
    BY DEF IInv, Types
  <1>4. QED  BY <1>1, <1>2, <1>3 DEF IInv

LEMMA OwnPaths ==
  ASSUME IInv, NEW r \in Requests
  PROVE  /\ req[r].pc \in {"started"} \cup Downloading =>
              TmpPath(r) \in Temporary /\ OwnPath(r) \in Temporary /\ IsRunning(r)
         /\ req[r].pc \in Downloading => req[r].path \in {TmpPath(r), OwnPath(r)}
         /\ Temporary \subseteq Paths
  <1>1. req[r].pc \in {"started"} \cup Downloading => req[r].name \in Names
    BY DEF IInv, RequestsOK, GoodRequest
  <1>2. Wants[r] \in Videos  BY DownloadAssumption
  <1>3. req[r].pc \in Downloading => req[r].path \in {TmpPath(r), OwnPath(r)}
    BY DEF IInv, RequestsOK, GoodRequest, TmpPath
  <1>4. QED
    BY <1>1, <1>2, <1>3, PathsDiffer DEF TmpPath, IsRunning, Running, Downloading

LEMMA FetchesKeeps ==
  ASSUME IInv, NEW r \in Requests, Fetches(r)
  PROVE  IInv'
  <1>1. PICK cleared \in Removed(r, {TmpPath(r)}), p \in {TmpPath(r), OwnPath(r)} :
          /\ files' = [cleared EXCEPT ![p] = [by |-> r, state |-> "partial"]]
          /\ req' = [req EXCEPT ![r].pc = "downloading", ![r].path = p]
    BY DEF Fetches
  <1>2. req[r].pc = "started" /\ UNCHANGED <<active, cancels, records, raced>>
    BY DEF Fetches
  <1>3. IsRunning(r) /\ p \in Temporary /\ TmpPath(r) \in Paths /\ p \in Paths
    BY <1>2, OwnPaths
  <1>4. /\ cleared \in [Paths -> Contents]
        /\ \A q \in Paths : cleared[q] = files[q] \/ (q = TmpPath(r) /\ cleared[q] = NoFile)
    BY <1>3, RemovedEffect DEF IInv
  <1>5. PICK s : s = [req[r] EXCEPT !.pc = "downloading", !.path = p]
    OBVIOUS
  <1>6. req[r] \in RequestRecords /\ req \in [Requests -> RequestRecords]
    BY DEF IInv, Types
  <1>7. /\ s \in RequestRecords /\ s.pc = "downloading" /\ s.path = p
        /\ s.name = req[r].name /\ s.final = req[r].final /\ s.cancelled = req[r].cancelled
    BY <1>3, <1>5, <1>6 DEF RequestRecords, Statuses, Running
  <1>8. req' = [req EXCEPT ![r] = s]
    BY <1>1, <1>5, <1>6
  <1>9. [by |-> r, state |-> "partial"] \in Contents
    BY DEF Contents
  <1>10. /\ files' \in [Paths -> Contents] /\ files'[p] = [by |-> r, state |-> "partial"]
         /\ \A q \in Paths \ {p} : files'[q] = cleared[q]
    BY <1>1, <1>3, <1>4, <1>9
  <1>11. req[r].name \in Names /\ req[r].final = 0
    BY <1>2 DEF IInv, RequestsOK, GoodRequest, Saved
  <1>12. GoodRequest(r, s)
    BY <1>7, <1>11 DEF GoodRequest, TmpPath, Saved
  <1>13. \A q \in Paths : files'[q] # files[q] =>
           q \in {TmpPath(r), OwnPath(r)} /\ files'[q].by \in {files[q].by, r, NoRequest}
    BY <1>3, <1>4, <1>10 DEF NoFile
  <1>14. r \notin raced => OwnFile(r, s, files')
    <2>1. SUFFICES ASSUME r \notin raced PROVE OwnFile(r, s, files')
      OBVIOUS
    <2>2. \A q \in Paths : files[q].by # r
      BY <1>2, <2>1 DEF IInv, FilesOK, OwnFile, HasFile, Downloading, Saved
    <2>3. \A q \in Paths : files'[q].by = r => q = p
      BY <1>4, <1>10, <2>2, DownloadAssumption DEF NoFile
    <2>4. QED  BY <1>7, <1>10, <2>3 DEF OwnFile, HasFile, Place, StateOf, Downloading
  <1>15. QED
    BY <1>2, <1>3, <1>7, <1>8, <1>10, <1>11, <1>12, <1>13, <1>14, GoesOn
    DEF IInv, Types, Running, Saved

\* The file of a goroutine takes its next state.
LEMMA FileGoesOn ==
  ASSUME IInv, NEW r \in Requests, req[r].pc \in Downloading, NEW pc \in Downloading \ {"placing"},
         req' = [req EXCEPT ![r].pc = pc], UNCHANGED <<active, cancels, records, raced>>,
         NEW c \in Contents, c.by = files[req[r].path].by,
         files' = [files EXCEPT ![req[r].path] = c],
         files[req[r].path] = [by |-> r, state |-> StateOf(req[r].pc)] =>
           c = [by |-> r, state |-> StateOf(pc)],
         req[r].pc # "placing"
  PROVE  IInv'
  <1>1. /\ IsRunning(r) /\ req[r].path \in {TmpPath(r), OwnPath(r)} /\ req[r].path \in Paths
    BY OwnPaths
  <1>2. PICK s : s = [req[r] EXCEPT !.pc = pc]
    OBVIOUS
  <1>3. req[r] \in RequestRecords /\ req \in [Requests -> RequestRecords] /\ pc \in Statuses
    BY DEF IInv, Types, Downloading, Statuses, Running
  <1>4. /\ s \in RequestRecords /\ s.pc = pc /\ s.path = req[r].path
        /\ s.name = req[r].name /\ s.final = req[r].final /\ s.cancelled = req[r].cancelled
    BY <1>2, <1>3 DEF RequestRecords
  <1>5. req' = [req EXCEPT ![r] = s]
    BY <1>2, <1>3
  <1>6. /\ files' \in [Paths -> Contents] /\ files'[req[r].path] = c
        /\ \A q \in Paths \ {req[r].path} : files'[q] = files[q]
    BY <1>1 DEF IInv, Types
  <1>7. req[r].final = 0 /\ GoodRequest(r, req[r])
    BY DEF IInv, RequestsOK, GoodRequest, Saved, Downloading
  <1>8. GoodRequest(r, s)
    BY <1>4, <1>7 DEF GoodRequest, Saved, Downloading
  <1>9. r \notin raced => OwnFile(r, s, files')
    <2>1. SUFFICES ASSUME r \notin raced PROVE OwnFile(r, s, files')
      OBVIOUS
    <2>2. OwnFile(r, req[r], files)
      BY <2>1 DEF IInv, FilesOK
    <2>3. files[req[r].path] = [by |-> r, state |-> StateOf(req[r].pc)]
      BY <2>2 DEF OwnFile, HasFile, Place
    <2>4. \A p \in Paths : files'[p].by = r => p = req[r].path
      BY <1>6, <2>2 DEF OwnFile, HasFile, Place
    <2>5. QED  BY <1>4, <1>6, <2>3, <2>4 DEF OwnFile, HasFile, Place
  <1>10. \A q \in Paths : files'[q] # files[q] =>
           q \in {TmpPath(r), OwnPath(r)} /\ files'[q].by \in {files[q].by, r, NoRequest}
    BY <1>1, <1>6
  <1>11. s.pc \in Running \ {"placing"} /\ s.pc \notin Saved /\ req[r].pc \notin Saved
    BY <1>4 DEF Running, Downloading, Saved
  <1>12. records' \in [Videos -> Names \cup {0}]
    BY DEF IInv, Types
  <1>13. QED
    BY <1>1, <1>4, <1>5, <1>6, <1>7, <1>8, <1>9, <1>10, <1>11, <1>12, GoesOn

LEMMA FetchedKeeps ==
  ASSUME IInv, NEW r \in Requests, Fetched(r)
  PROVE  IInv'
  <1>1. req[r].pc \in Downloading /\ req[r].pc = "downloading"
    BY DEF Fetched, Downloading
  <1>2. req[r].path \in Paths
    BY <1>1, OwnPaths
  <1>3. files[req[r].path] \in Contents /\ files \in [Paths -> Contents]
    BY <1>2 DEF IInv, Types
  <1>4. PICK c : c = IF files[req[r].path].by = r THEN [files[req[r].path] EXCEPT !.state = "encrypted"]
                     ELSE files[req[r].path]
    OBVIOUS
  <1>5. files' = [files EXCEPT ![req[r].path] = c]
    BY <1>2, <1>3, <1>4 DEF Fetched
  <1>6. c \in Contents /\ c.by = files[req[r].path].by
    BY <1>3, <1>4, DownloadAssumption DEF Contents, NoFile
  <1>7. files[req[r].path] = [by |-> r, state |-> StateOf(req[r].pc)] =>
          c = [by |-> r, state |-> StateOf("fetched")]
    BY <1>4 DEF StateOf
  <1>8. QED
    BY <1>1, <1>5, <1>6, <1>7, FileGoesOn DEF Fetched, Downloading

LEMMA DecryptsKeeps ==
  ASSUME IInv, NEW r \in Requests, Decrypts(r)
  PROVE  IInv'
  <1>1. req[r].pc \in Downloading /\ req[r].pc = "fetched"
    BY DEF Decrypts, Downloading
  <1>2. req[r].path \in Paths
    BY <1>1, OwnPaths
  <1>3. files[req[r].path] \in Contents /\ files \in [Paths -> Contents]
    BY <1>2 DEF IInv, Types
  <1>4. PICK c : c = [files[req[r].path] EXCEPT !.state = Decrypted(files[req[r].path].state)]
    OBVIOUS
  <1>5. files' = [files EXCEPT ![req[r].path] = c]
    BY <1>2, <1>3, <1>4 DEF Decrypts
  <1>6. files[req[r].path] \in [by : Requests, state : {"partial", "encrypted", "clear"}]
    BY <1>3 DEF Decrypts, Exists, Contents
  <1>7. c \in Contents /\ c.by = files[req[r].path].by
    BY <1>4, <1>6 DEF Contents, Decrypted
  <1>8. files[req[r].path] = [by |-> r, state |-> StateOf(req[r].pc)] =>
          c = [by |-> r, state |-> StateOf("decrypted")]
    BY <1>1, <1>4 DEF StateOf, Decrypted
  <1>9. QED
    BY <1>1, <1>5, <1>7, <1>8, FileGoesOn DEF Decrypts, Downloading

LEMMA RecordsKeeps ==
  ASSUME IInv, NEW r \in Requests, Records(r)
  PROVE  IInv'
  <1>1. PICK s : s = [req[r] EXCEPT !.pc = "ending"]
    OBVIOUS
  <1>2. req[r] \in RequestRecords /\ req \in [Requests -> RequestRecords]
    BY DEF IInv, Types
  <1>3. /\ s \in RequestRecords /\ s.pc = "ending" /\ s.final = req[r].final
        /\ s.cancelled = req[r].cancelled
    BY <1>1, <1>2 DEF RequestRecords, Statuses, Running
  <1>4. /\ req' = [req EXCEPT ![r] = s] /\ req[r].pc = "moved"
        /\ UNCHANGED <<active, cancels, files, raced>>
    BY <1>1, <1>2 DEF Records
  <1>5. req[r].final \in Names
    BY <1>4 DEF IInv, RequestsOK, GoodRequest
  <1>6. records' \in [Videos -> Names \cup {0}]
    BY <1>5, DownloadAssumption DEF Records, IInv, Types
  <1>7. GoodRequest(r, s)
    BY <1>3 DEF GoodRequest, Saved, Downloading
  <1>8. r \notin raced => OwnFile(r, s, files')
    BY <1>3, <1>4 DEF IInv, FilesOK, OwnFile, HasFile, Place, Saved, Downloading, StateOf
  <1>9. files' \in [Paths -> Contents]
    BY <1>4 DEF IInv, Types
  <1>10. QED
    BY <1>3, <1>4, <1>6, <1>7, <1>8, <1>9, GoesOn DEF IsRunning, Running, Saved

-----------------------------------------------------------------------------
(* The handler *)

LEMMA AsksKeeps ==
  ASSUME IInv, NEW r \in Requests, Asks(r)
  PROVE  IInv'
  <1>1. PICK skipped \in BOOLEAN :
          req' = [req EXCEPT ![r].pc = IF skipped THEN "refused" ELSE "checked",
                             ![r].name = IF skipped THEN 0 ELSE IF r \in Forced THEN 1 ELSE FreeName]
    BY DEF Asks
  <1>2. req[r].pc = "idle" /\ UNCHANGED <<active, cancels, files, records, raced>>
    BY DEF Asks
  <1>3. FreeName \in Names
    BY <1>2, NameIsFree DEF IInv, Saved
  <1>4. PICK s : s = [req[r] EXCEPT !.pc = IF skipped THEN "refused" ELSE "checked",
                                    !.name = IF skipped THEN 0 ELSE IF r \in Forced THEN 1 ELSE FreeName]
    OBVIOUS
  <1>5. req[r] \in RequestRecords /\ req \in [Requests -> RequestRecords]
    BY DEF IInv, Types
  <1>6. /\ s \in RequestRecords /\ s.pc \in {"refused", "checked"} /\ s.final = req[r].final
        /\ s.cancelled = req[r].cancelled
        /\ s.pc = "checked" => s.name \in Names
    BY <1>3, <1>4, <1>5, DownloadAssumption DEF RequestRecords, Statuses, Running
  <1>7. req' = [req EXCEPT ![r] = s]
    BY <1>1, <1>4, <1>5
  <1>8. req[r].final = 0
    BY <1>2 DEF IInv, RequestsOK, GoodRequest, Saved
  <1>9. GoodRequest(r, s)
    BY <1>6, <1>8 DEF GoodRequest, Saved, Downloading
  <1>10. files \in [Paths -> Contents] /\ records \in [Videos -> Names \cup {0}]
    BY DEF IInv, Types
  <1>11. r \notin raced => OwnFile(r, s, files')
    BY <1>2, <1>6 DEF IInv, FilesOK, OwnFile, HasFile, Saved, Downloading
  <1>12. RequestsOK' /\ TakenOK' /\ NoClash' /\ FilesOK'
    BY <1>2, <1>6, <1>7, <1>8, <1>9, <1>10, <1>11, QuietKeeps DEF Saved
  <1>13. Control'
    BY <1>2, <1>6, <1>7, ControlKeeps DEF IsRunning, Running
  <1>14. Types'
    BY <1>2, <1>6, <1>7 DEF IInv, Types
  <1>15. QED  BY <1>12, <1>13, <1>14 DEF IInv

LEMMA LooksUpKeeps ==
  ASSUME IInv, NEW r \in Requests, LooksUp(r)
  PROVE  IInv'
  <1>1. req[r].pc = "checked" /\ UNCHANGED <<active, cancels, files, records, raced>>
    BY DEF LooksUp
  <1>2. PICK s : s = IF active[Wants[r]] = NoRequest
                     THEN [req[r] EXCEPT !.pc = "free"] ELSE [Idle EXCEPT !.pc = "refused"]
    OBVIOUS
  <1>3. req[r] \in RequestRecords /\ req \in [Requests -> RequestRecords]
    BY DEF IInv, Types
  <1>4. /\ s \in RequestRecords /\ s.pc \in {"refused", "free"} /\ s.final \in {0, req[r].final}
        /\ s.pc = "free" => s.name = req[r].name
    BY <1>2, <1>3 DEF RequestRecords, Statuses, Running, Idle
  <1>5. req' = [req EXCEPT ![r] = s]
    BY <1>2, <1>3 DEF LooksUp
  <1>6. req[r].final = 0 /\ req[r].name \in Names
    BY <1>1 DEF IInv, RequestsOK, GoodRequest, Saved
  <1>7. GoodRequest(r, s)
    BY <1>4, <1>6 DEF GoodRequest, Saved, Downloading
  <1>8. files \in [Paths -> Contents] /\ records \in [Videos -> Names \cup {0}]
    BY DEF IInv, Types
  <1>9. r \notin raced => OwnFile(r, s, files')
    BY <1>1, <1>4 DEF IInv, FilesOK, OwnFile, HasFile, Saved, Downloading
  <1>10. RequestsOK' /\ TakenOK' /\ NoClash' /\ FilesOK'
    BY <1>1, <1>4, <1>5, <1>6, <1>7, <1>8, <1>9, QuietKeeps DEF Saved
  <1>11. Control'
    <2>1. /\ \A q \in Requests : IsRunning(q)' <=> IsRunning(q)
          /\ \A q \in Requests : IsRunning(q) => req'[q] = req[q]
      BY <1>1, <1>3, <1>4, <1>5 DEF IsRunning, Running
    <2>2. \A v \in Videos : active[v] \in Requests \cup {NoRequest}
      BY DEF IInv, Types
    <2>3. \A q \in Requests : req'[q].pc \in Running <=> req[q].pc \in Running
      BY <2>1 DEF IsRunning
    <2>4. ActiveOK'
      BY <1>1, <2>1, <2>2 DEF IInv, Control, ActiveOK
    <2>5. AloneOK' /\ CancelOK'
      BY <1>1, <2>1 DEF IInv, Control, AloneOK, CancelOK
    <2>6. Findable'
      BY <1>1, <2>1, <2>3 DEF IInv, Control, Findable, IsRunning
    <2>7. QED  BY <2>4, <2>5, <2>6 DEF Control
  <1>12. Types'
    BY <1>1, <1>4, <1>5 DEF IInv, Types
  <1>13. QED  BY <1>10, <1>11, <1>12 DEF IInv

\* Whoever starts beside another of its video makes both of them race.
LEMMA StartsKeeps ==
  ASSUME IInv, NEW r \in Requests, Starts(r)
  PROVE  IInv'
  <1>1. /\ req[r].pc = "free" /\ UNCHANGED <<cancels, files, records>>
        /\ active' = [active EXCEPT ![Wants[r]] = r]
        /\ raced' = raced \cup Beside(r) \cup IF Alone(r) THEN {} ELSE {r}
    BY DEF Starts
  <1>2. PICK s : s = [req[r] EXCEPT !.pc = "started"]
    OBVIOUS
  <1>3. req[r] \in RequestRecords /\ req \in [Requests -> RequestRecords]
    BY DEF IInv, Types
  <1>4. /\ s \in RequestRecords /\ s.pc = "started" /\ s.final = req[r].final /\ s.name = req[r].name
    BY <1>2, <1>3 DEF RequestRecords, Statuses, Running
  <1>5. req' = [req EXCEPT ![r] = s]
    BY <1>2, <1>3 DEF Starts
  <1>6. req[r].final = 0 /\ req[r].name \in Names
    BY <1>1 DEF IInv, RequestsOK, GoodRequest, Saved
  <1>7. GoodRequest(r, s)
    BY <1>4, <1>6 DEF GoodRequest, Saved, Downloading
  <1>8. files \in [Paths -> Contents] /\ records \in [Videos -> Names \cup {0}]
    BY DEF IInv, Types
  <1>9. r \notin raced => OwnFile(r, s, files')
    BY <1>1, <1>4 DEF IInv, FilesOK, OwnFile, HasFile, Saved, Downloading
  <1>10. RequestsOK' /\ TakenOK' /\ NoClash' /\ FilesOK'
    BY <1>1, <1>4, <1>5, <1>6, <1>7, <1>8, <1>9, QuietKeeps DEF Saved
  <1>11. Wants[r] \in Videos /\ active \in [Videos -> Requests \cup {NoRequest}]
    BY DownloadAssumption DEF IInv, Types
  <1>12. /\ active'[Wants[r]] = r
         /\ \A v \in Videos \ {Wants[r]} : active'[v] = active[v]
    BY <1>1, <1>11
  <1>13. /\ IsRunning(r)' /\ ~IsRunning(r)
         /\ \A q \in Requests \ {r} : req'[q] = req[q] /\ (IsRunning(q)' <=> IsRunning(q))
    BY <1>1, <1>3, <1>4, <1>5 DEF IsRunning, Running
  <1>14. \A q \in Requests \ {r} : Wants[q] = Wants[r] /\ IsRunning(q) => q \in raced' /\ r \in raced'
    BY <1>1 DEF Beside, Alone, IsRunning
  <1>15. cancels[Wants[r]] # 0 => r \in raced'
    BY <1>1 DEF Alone
  <1>16. ActiveOK'
    BY <1>11, <1>12, <1>13 DEF IInv, Control, ActiveOK
  <1>17. AloneOK'
    BY <1>1, <1>13, <1>14 DEF IInv, Control, AloneOK
  <1>18. CancelOK'
    BY <1>1, <1>13, <1>15 DEF IInv, Control, CancelOK
  <1>19. Findable'
    <2>1. SUFFICES ASSUME NEW q \in Requests, IsRunning(q)', q \notin raced', ~req'[q].cancelled
                   PROVE  active'[Wants[q]] = q
      BY DEF Findable, IsRunning
    <2>2. CASE q = r
      BY <1>12, <2>2
    <2>3. CASE q # r
      <3>1. IsRunning(q) /\ q \notin raced /\ ~req[q].cancelled /\ Wants[q] # Wants[r]
        BY <1>1, <1>13, <1>14, <2>1, <2>3
      <3>2. active[Wants[q]] = q
        BY <3>1 DEF IInv, Control, Findable, IsRunning
      <3>3. QED  BY <1>12, <3>1, <3>2, DownloadAssumption
    <2>4. QED  BY <2>2, <2>3
  <1>20. Types'
    BY <1>1, <1>4, <1>5, <1>11 DEF IInv, Types, Beside
  <1>21. QED
    BY <1>10, <1>16, <1>17, <1>18, <1>19, <1>20 DEF IInv, Control

\* A cancellation marks the request it finds, which is the only one that runs
\* unless they raced.
LEMMA CancelsKeeps ==
  ASSUME IInv, NEW v \in Videos, Cancels(v)
  PROVE  IInv'
  <1>1. /\ active[v] # NoRequest /\ req' = [req EXCEPT ![active[v]].cancelled = TRUE]
        /\ cancels' = [cancels EXCEPT ![v] = @ + 1] /\ cancels[v] < MaxCancels
        /\ UNCHANGED <<active, files, records, raced>>
    BY DEF Cancels
  <1>2. PICK r \in Requests : r = active[v]
    BY <1>1 DEF IInv, Types
  <1>3. PICK s : s = [req[r] EXCEPT !.cancelled = TRUE]
    OBVIOUS
  <1>4. req[r] \in RequestRecords /\ req \in [Requests -> RequestRecords]
    BY DEF IInv, Types
  <1>5. /\ s \in RequestRecords /\ s.pc = req[r].pc /\ s.final = req[r].final
        /\ s.name = req[r].name /\ s.path = req[r].path /\ s.cancelled
    BY <1>3, <1>4 DEF RequestRecords
  <1>6. /\ req' = [req EXCEPT ![r] = s] /\ req'[r] = s
        /\ \A q \in Requests \ {r} : req'[q] = req[q]
    BY <1>1, <1>2, <1>3, <1>4
  <1>7. \A q \in Requests :
          /\ req'[q].pc = req[q].pc /\ req'[q].final = req[q].final
          /\ req'[q].name = req[q].name /\ req'[q].path = req[q].path
          /\ req[q].cancelled => req'[q].cancelled
    BY <1>5, <1>6
  <1>8. RequestsOK'
    BY <1>7 DEF IInv, RequestsOK, GoodRequest, OwnPath
  <1>9. TakenOK' /\ NoClash'
    BY <1>1, <1>7 DEF IInv, TakenOK, NoClash, Exists, Final, NoFile
  <1>10. FilesOK'
    BY <1>1, <1>7 DEF IInv, FilesOK, OwnFile, HasFile, Place, StateOf, Final
  <1>11. Types'
    <2>1. cancels[v] \in 0 .. MaxCancels  BY DEF IInv, Types
    <2>2. cancels[v] + 1 \in 0 .. MaxCancels  BY <1>1, <2>1, DownloadAssumption
    <2>3. cancels' \in [Videos -> 0 .. MaxCancels]  BY <1>1, <2>2 DEF IInv, Types
    <2>4. QED  BY <1>1, <1>5, <1>6, <2>3 DEF IInv, Types
  <1>12. ActiveOK' /\ AloneOK'
    BY <1>1, <1>2, <1>7 DEF IInv, Types, Control, ActiveOK, AloneOK, IsRunning
  <1>13. Findable'
    BY <1>1, <1>7 DEF IInv, Control, Findable
  <1>14. CancelOK'
    <2>1. SUFFICES ASSUME NEW q \in Requests \ raced, IsRunning(q), cancels'[Wants[q]] # 0
                   PROVE  req'[q].cancelled
      BY <1>1, <1>7 DEF CancelOK, IsRunning
    <2>2. CASE Wants[q] = v
      <3>1. req[q].cancelled \/ active[v] = q
        BY <2>1, <2>2 DEF IInv, Control, Findable, IsRunning
      <3>2. QED  BY <1>2, <1>5, <1>6, <1>7, <3>1
    <2>3. CASE Wants[q] # v
      <3>1. cancels'[Wants[q]] = cancels[Wants[q]]
        BY <1>1, <2>3, DownloadAssumption DEF IInv, Types
      <3>2. QED  BY <1>7, <2>1, <3>1 DEF IInv, Control, CancelOK
    <2>4. QED  BY <2>2, <2>3
  <1>15. QED
    BY <1>8, <1>9, <1>10, <1>11, <1>12, <1>13, <1>14 DEF IInv, Control

LEMMA CancelDeletesKeeps ==
  ASSUME IInv, NEW v \in Videos, CancelDeletes(v)
  PROVE  IInv'
  <1>1. /\ cancels[v] > 0 /\ cancels' = [cancels EXCEPT ![v] = @ - 1]
        /\ active' = [active EXCEPT ![v] = NoRequest]
        /\ UNCHANGED <<req, files, records, raced>>
    BY DEF CancelDeletes
  <1>2. /\ active \in [Videos -> Requests \cup {NoRequest}] /\ active'[v] = NoRequest
        /\ \A w \in Videos \ {v} : active'[w] = active[w]
    BY <1>1 DEF IInv, Types
  <1>3. RequestsOK' /\ TakenOK' /\ NoClash' /\ FilesOK'
    BY <1>1 DEF IInv, RequestsOK, GoodRequest, OwnPath, TakenOK, NoClash, Exists, Final,
                NoFile, FilesOK, OwnFile, HasFile, Place, StateOf
  <1>4. Types' /\ \A w \in Videos : cancels'[w] # 0 => cancels[w] # 0
    <2>1. cancels[v] \in 0 .. MaxCancels /\ cancels \in [Videos -> 0 .. MaxCancels]
      BY DEF IInv, Types
    <2>2. cancels[v] - 1 \in 0 .. MaxCancels  BY <1>1, <2>1, DownloadAssumption
    <2>3. cancels' \in [Videos -> 0 .. MaxCancels]  BY <1>1, <2>1, <2>2
    <2>4. \A w \in Videos : cancels'[w] # 0 => cancels[w] # 0  BY <1>1, <2>1
    <2>5. QED  BY <1>1, <1>2, <2>3, <2>4 DEF IInv, Types
  <1>5. ActiveOK' /\ AloneOK' /\ CancelOK'
    <2>1. ActiveOK' /\ AloneOK'
      BY <1>1, <1>2 DEF IInv, Control, ActiveOK, AloneOK, IsRunning
    <2>2. CancelOK'
      BY <1>1, <1>4, DownloadAssumption DEF IInv, Control, CancelOK, IsRunning
    <2>3. QED  BY <2>1, <2>2
  <1>6. Findable'
    <2>1. SUFFICES ASSUME NEW q \in Requests, IsRunning(q), q \notin raced, ~req[q].cancelled
                   PROVE  active'[Wants[q]] = q
      BY <1>1 DEF Findable, IsRunning
    <2>2. active[Wants[q]] = q /\ cancels[Wants[q]] = 0
      BY <2>1 DEF IInv, Control, Findable, CancelOK, IsRunning
    <2>3. QED  BY <1>1, <1>2, <2>2, DownloadAssumption
  <1>7. QED
    BY <1>3, <1>4, <1>5, <1>6 DEF IInv, Control

-----------------------------------------------------------------------------
(* The end of a download *)

\* A name is chosen that is free, and nobody who did not race is about to take it.
LEMMA ChoosesNameKeeps ==
  ASSUME IInv, NEW r \in Requests, ChoosesName(r)
  PROVE  IInv'
  <1> DEFINE n == Available(r)
             others == {q \in Requests \ {r} : req[q].pc = "placing" /\ req[q].final = n}
  <1>1. /\ req[r].pc = "decrypted" /\ UNCHANGED <<active, cancels, files, records>>
        /\ req' = [req EXCEPT ![r].pc = "placing", ![r].final = n]
        /\ raced' = IF others = {} THEN raced ELSE raced \cup {r} \cup others
    BY DEF ChoosesName
  <1>2. req[r].name \in Names /\ FreeName \in Names /\ ~Exists(Final(FreeName))
    BY <1>1, NameIsFree DEF IInv, RequestsOK, GoodRequest, Downloading, Saved
  <1>3. n \in Names /\ ~Exists(Final(n))
    BY <1>2 DEF Available
  <1> HIDE DEF n
  <1>4. PICK s : s = [req[r] EXCEPT !.pc = "placing", !.final = n]
    OBVIOUS
  <1>5. req[r] \in RequestRecords /\ req \in [Requests -> RequestRecords]
    BY DEF IInv, Types
  <1>6. /\ s \in RequestRecords /\ s.pc = "placing" /\ s.final = n /\ s.path = req[r].path
        /\ s.name = req[r].name /\ s.cancelled = req[r].cancelled
    BY <1>3, <1>4, <1>5 DEF RequestRecords, Statuses, Running
  <1>7. req' = [req EXCEPT ![r] = s] /\ req'[r] = s /\ \A q \in Requests \ {r} : req'[q] = req[q]
    BY <1>1, <1>4, <1>5
  <1>8. raced \subseteq raced' /\ raced' \subseteq Requests
    BY <1>1 DEF IInv, Types
  <1>9. Control'
    BY <1>1, <1>6, <1>7, <1>8, ControlKeeps DEF IsRunning, Running
  <1>10. Types'
    BY <1>1, <1>6, <1>7, <1>8 DEF IInv, Types
  <1>11. RequestsOK'
    <2>1. GoodRequest(r, req[r])
      BY DEF IInv, RequestsOK
    <2>2. GoodRequest(r, s)
      BY <1>1, <1>3, <1>6, <2>1 DEF GoodRequest, Saved, Downloading
    <2>3. QED  BY <1>7, <2>2 DEF IInv, RequestsOK, GoodRequest, OwnPath
  <1>12. TakenOK'
    BY <1>1, <1>7 DEF IInv, TakenOK, Exists, Final, NoFile, Saved
  <1>13. FilesOK'
    <2>1. \A q \in Requests \ raced' : OwnFile(q, req[q], files)
      BY <1>8 DEF IInv, FilesOK
    <2>2. r \notin raced' => OwnFile(r, s, files)
      BY <1>1, <1>6, <2>1 DEF OwnFile, HasFile, Place, StateOf, Downloading, Saved
    <2>3. \A q \in Requests \ raced' : OwnFile(q, req'[q], files')
      BY <1>1, <1>7, <2>1, <2>2
    <2>4. QED
      BY <2>3 DEF FilesOK, OwnFile, HasFile, Place, StateOf, Final
  <1>14. NoClash'
    <2>1. SUFFICES ASSUME NEW x \in Requests \ raced', NEW q \in Requests \ {x},
                          req'[q].pc = "placing", req'[x].pc \in Saved \cup {"placing"},
                          req'[q].final = req'[x].final
                   PROVE  FALSE
      BY DEF NoClash
    <2>2. x \notin raced
      BY <1>8
    <2>3. CASE q # r /\ x # r
      BY <1>7, <2>1, <2>2, <2>3 DEF IInv, NoClash
    <2>4. CASE x = r
      <3>1. q \in others
        BY <1>6, <1>7, <2>1, <2>4
      <3>2. QED  BY <1>1, <2>4, <3>1
    <2>5. CASE q = r
      <3>1. x # r /\ req'[x] = req[x] /\ req[x].final = n
        BY <1>6, <1>7, <2>1, <2>5
      <3>2. CASE req[x].pc = "placing"
        BY <1>1, <3>1, <3>2
      <3>3. CASE req[x].pc \in Saved
        <4>1. HasFile(req[x]) /\ Place(req[x]) = Final(n)
          BY <1>3, <3>1, <3>3, DownloadAssumption DEF HasFile, Place, Saved, Downloading
        <4>2. files[Final(n)].by = x
          <5>1. OwnFile(x, req[x], files)
            BY <2>2 DEF IInv, FilesOK
          <5>2. files[Place(req[x])] = [by |-> x, state |-> StateOf(req[x].pc)]
            BY <4>1, <5>1 DEF OwnFile
          <5>3. QED  BY <4>1, <5>2
        <4>3. x \in Requests  BY <2>1
        <4>4. files[Final(n)].by = NoRequest  BY <1>3 DEF Exists, NoFile
        <4>5. QED  BY <4>2, <4>3, <4>4, DownloadAssumption
      <3>4. QED  BY <2>1, <3>1, <3>2, <3>3
    <2>6. QED  BY <2>3, <2>4, <2>5
  <1>15. QED
    BY <1>9, <1>10, <1>11, <1>12, <1>13, <1>14 DEF IInv

\* The file of a request gets its final name, over whatever is there: not the
\* file of a request that did not race.
LEMMA MovesKeeps ==
  ASSUME IInv, NEW r \in Requests, Moves(r)
  PROVE  IInv'
  <1> DEFINE n == req[r].final
             path == req[r].path
  <1>1. /\ req[r].pc = "placing" /\ files[path] # NoFile
        /\ files' = [files EXCEPT ![Final(n)] = files[path], ![path] = NoFile]
        /\ UNCHANGED <<active, cancels, records, raced>>
    BY DEF Moves, Exists
  <1>2. PICK s : s = [Idle EXCEPT !.pc = "moved", !.final = n, !.cancelled = req[r].cancelled]
    OBVIOUS
  <1>3. req[r] \in RequestRecords /\ req \in [Requests -> RequestRecords]
    BY DEF IInv, Types
  <1>4. /\ s \in RequestRecords /\ s.pc = "moved" /\ s.final = n /\ s.cancelled = req[r].cancelled
    BY <1>2, <1>3 DEF Idle, RequestRecords, Statuses, Running
  <1>5. req' = [req EXCEPT ![r] = s] /\ req'[r] = s /\ \A q \in Requests \ {r} : req'[q] = req[q]
    BY <1>2, <1>3, <1>4 DEF Moves
  <1>6. n \in Names /\ n # 0
    BY <1>1, DownloadAssumption DEF IInv, RequestsOK, GoodRequest
  <1>7. IsRunning(r) /\ path \in {TmpPath(r), OwnPath(r)} /\ path \in Temporary /\ path \in Paths
    BY <1>1, OwnPaths DEF Downloading
  <1>8. Final(n) \in Paths /\ Final(n) # path
    BY <1>6, <1>7, PathsDiffer
  <1>9. /\ files \in [Paths -> Contents] /\ files[path] \in Contents /\ NoFile \in Contents
    BY <1>7 DEF IInv, Types, Contents
  <1>10. /\ files' \in [Paths -> Contents]
         /\ files'[Final(n)] = files[path] /\ files'[path] = NoFile
         /\ \A p \in Paths \ {Final(n), path} : files'[p] = files[p]
    BY <1>1, <1>7, <1>8, <1>9
  <1>11. Control'
    BY <1>1, <1>4, <1>5, <1>7, ControlKeeps DEF Running
  <1>12. Types'
    BY <1>1, <1>4, <1>5, <1>10 DEF IInv, Types
  <1>13. RequestsOK'
    <2>1. GoodRequest(r, s)
      BY <1>4, <1>6 DEF GoodRequest, Saved, Downloading
    <2>2. QED  BY <1>5, <2>1 DEF IInv, RequestsOK, GoodRequest, OwnPath
  <1> HIDE DEF n, path
  <1>14. TakenOK'
    <2>1. SUFFICES ASSUME NEW m \in Names, files'[Final(m)] # NoFile
                   PROVE  \E q \in Requests : req'[q].pc \in Saved /\ req'[q].final = m
      BY DEF TakenOK, Exists, Final, NoFile
    <2>2. CASE m = n
      BY <1>4, <1>5, <2>2 DEF Saved
    <2>3. CASE m # n
      <3>1. Final(m) \in Paths \ {Final(n), path}
        BY <1>6, <1>7, <2>1, <2>3, PathsDiffer
      <3>2. files[Final(m)] # NoFile
        BY <1>10, <2>1, <3>1
      <3>3. PICK q \in Requests : req[q].pc \in Saved /\ req[q].final = m
        BY <2>1, <3>2 DEF IInv, TakenOK, Exists
      <3>4. q # r
        BY <1>1, <3>3 DEF Saved
      <3>5. QED  BY <1>5, <3>3, <3>4
    <2>4. QED  BY <2>2, <2>3
  <1>15. NoClash'
    <2>1. SUFFICES ASSUME NEW x \in Requests \ raced, NEW q \in Requests \ {x},
                          req'[q].pc = "placing", req'[x].pc \in Saved \cup {"placing"}
                   PROVE  req'[q].final # req'[x].final
      BY <1>1 DEF NoClash
    <2>2. q # r /\ req'[q] = req[q]
      BY <1>4, <1>5, <2>1
    <2>3. req'[x].final = req[x].final /\ req[x].pc \in Saved \cup {"placing"}
      BY <1>1, <1>4, <1>5, <2>1 DEF n
    <2>4. QED  BY <2>1, <2>2, <2>3 DEF IInv, NoClash
  <1>16. FilesOK'
    <2>1. SUFFICES ASSUME NEW q \in Requests, q \notin raced PROVE OwnFile(q, req'[q], files')
      BY <1>1 DEF FilesOK, OwnFile, HasFile, Place, Final, StateOf
    <2>2. OwnFile(q, req[q], files)
      BY <2>1 DEF IInv, FilesOK
    <2>3. CASE q = r
      <3>1. files[path] = [by |-> r, state |-> "clear"] /\ \A p \in Paths : files[p].by = r => p = path
        BY <1>1, <2>2, <2>3 DEF OwnFile, HasFile, Place, StateOf, Downloading, path
      <3>2. HasFile(s) /\ Place(s) = Final(n) /\ StateOf(s.pc) = "clear"
        BY <1>4, <1>6 DEF HasFile, Place, StateOf, Saved, Downloading
      <3>3. \A p \in Paths : files'[p].by = r => p = Final(n)
        BY <1>10, <3>1, DownloadAssumption DEF NoFile
      <3>4. QED  BY <1>5, <1>10, <2>3, <3>1, <3>2, <3>3 DEF OwnFile
    <2>4. CASE q # r
      <3>1. HasFile(req[q]) => Place(req[q]) \in Paths \ {Final(n), path}
        <4>1. CASE req[q].pc \in Downloading
          <5>1. req[q].path \notin {TmpPath(r), OwnPath(r)} /\ req[q].path \in Temporary
            BY <1>7, <2>1, <2>4, <4>1, OthersAreElsewhere
          <5>2. QED  BY <1>6, <1>7, <4>1, <5>1, PathsDiffer DEF Place
        <4>2. CASE req[q].pc \in Saved /\ req[q].final # 0
          <5>1. req[q].final \in Names
            BY <4>2 DEF IInv, Types, RequestRecords
          <5>2. req[q].final # n
            BY <1>1, <2>1, <2>4, <4>2 DEF IInv, NoClash, n
          <5>3. Place(req[q]) = Final(req[q].final)
            BY <4>2 DEF Place, Saved, Downloading
          <5>4. QED  BY <1>6, <1>7, <5>1, <5>2, <5>3, PathsDiffer
        <4>3. QED  BY <4>1, <4>2 DEF HasFile
      <3>2. HasFile(req[q]) => files'[Place(req[q])] = files[Place(req[q])]
        BY <1>10, <3>1
      <3>3. ASSUME NEW p \in Paths, files'[p].by = q PROVE files[p].by = q
        <4>1. CASE p = path
          BY <1>10, <2>1, <3>3, <4>1, DownloadAssumption DEF NoFile
        <4>2. CASE p = Final(n)
          <5>1. files[path].by = q
            BY <1>10, <3>3, <4>2
          <5>2. path = Place(req[q]) /\ HasFile(req[q])
            BY <1>7, <2>2, <5>1 DEF OwnFile
          <5>3. QED  BY <3>1, <5>2
        <4>3. QED  BY <1>10, <3>3, <4>1, <4>2
      <3>4. QED  BY <1>5, <2>2, <2>4, <3>2, <3>3 DEF OwnFile
    <2>5. QED  BY <2>3, <2>4
  <1>17. QED
    BY <1>11, <1>12, <1>13, <1>14, <1>15, <1>16 DEF IInv

LEMMA EndsKeeps ==
  ASSUME IInv, NEW r \in Requests, Ends(r)
  PROVE  IInv'
  <1>1. /\ req[r].pc = "ending" /\ UNCHANGED <<cancels, files, records, raced>>
        /\ active' = [active EXCEPT ![Wants[r]] = NoRequest]
    BY DEF Ends
  <1>2. PICK s : s = [Idle EXCEPT !.pc = "done", !.final = req[r].final]
    OBVIOUS
  <1>3. req[r] \in RequestRecords /\ req \in [Requests -> RequestRecords]
    BY DEF IInv, Types
  <1>4. /\ s \in RequestRecords /\ s.pc = "done" /\ s.final = req[r].final
    BY <1>2, <1>3 DEF Idle, RequestRecords, Statuses, Running
  <1>5. req' = [req EXCEPT ![r] = s] /\ req'[r] = s /\ \A q \in Requests \ {r} : req'[q] = req[q]
    BY <1>2, <1>3, <1>4 DEF Ends
  <1>6. GoodRequest(r, s)
    BY <1>4 DEF GoodRequest, Saved, Downloading
  <1>7. files \in [Paths -> Contents]
    BY DEF IInv, Types
  <1>8. r \notin raced => OwnFile(r, s, files')
    BY <1>1, <1>4 DEF IInv, FilesOK, OwnFile, HasFile, Place, Saved, Downloading, StateOf
  <1>9. RequestsOK' /\ TakenOK' /\ NoClash' /\ FilesOK'
    BY <1>1, <1>4, <1>5, <1>6, <1>7, <1>8, QuietKeeps DEF Saved
  <1>10. Wants[r] \in Videos /\ active \in [Videos -> Requests \cup {NoRequest}]
    BY DownloadAssumption DEF IInv, Types
  <1>11. /\ active'[Wants[r]] = NoRequest
         /\ \A v \in Videos \ {Wants[r]} : active'[v] = active[v]
    BY <1>1, <1>10
  <1>12. /\ ~IsRunning(r)' /\ IsRunning(r)
         /\ \A q \in Requests \ {r} : IsRunning(q)' <=> IsRunning(q)
    BY <1>1, <1>4, <1>5 DEF IsRunning, Running
  <1>13. ActiveOK'
    BY <1>10, <1>11, <1>12 DEF IInv, Control, ActiveOK
  <1>14. AloneOK' /\ CancelOK'
    BY <1>1, <1>5, <1>12 DEF IInv, Control, AloneOK, CancelOK
  <1>15. Findable'
    <2>1. SUFFICES ASSUME NEW q \in Requests, IsRunning(q)', q \notin raced, ~req'[q].cancelled
                   PROVE  active'[Wants[q]] = q
      BY <1>1 DEF Findable, IsRunning
    <2>2. q # r /\ IsRunning(q) /\ req'[q] = req[q]
      BY <1>5, <1>12, <2>1
    <2>3. active[Wants[q]] = q /\ Wants[q] # Wants[r]
      BY <1>12, <2>1, <2>2 DEF IInv, Control, Findable, AloneOK, IsRunning
    <2>4. QED  BY <1>11, <2>3, DownloadAssumption
  <1>16. Types'
    BY <1>1, <1>4, <1>5, <1>10 DEF IInv, Types
  <1>17. QED
    BY <1>9, <1>13, <1>14, <1>15, <1>16 DEF IInv, Control

-----------------------------------------------------------------------------
(* The theorems *)

LEMMA InitHolds == Init => IInv
  <1> SUFFICES ASSUME Init PROVE IInv
    OBVIOUS
  <1>1. Idle \in RequestRecords
    BY DEF Idle, RequestRecords, Statuses, Running
  <1>2. \A r \in Requests : req[r] = Idle
    BY DEF Init
  <1>3. Types
    <2>1. 0 \in 0 .. MaxCancels  BY DownloadAssumption
    <2>2. QED  BY <1>1, <2>1 DEF Init, Types, Contents
  <1>4. RequestsOK
    BY <1>2 DEF RequestsOK, GoodRequest, Idle, Saved, Downloading
  <1>5. Control
    BY <1>2 DEF Init, Control, ActiveOK, AloneOK, CancelOK, Findable, IsRunning, Idle, Running
  <1>6. \A p \in Paths : files[p] = NoFile
    BY DEF Init
  <1>7. TakenOK /\ NoClash
    BY <1>2, <1>6, PathsDiffer DEF TakenOK, NoClash, Exists, Idle, Saved
  <1>8. FilesOK
    <2>1. \A r \in Requests : ~HasFile(req[r])
      BY <1>2 DEF HasFile, Idle, Saved, Downloading
    <2>2. \A p \in Paths, r \in Requests : files[p].by # r
      BY <1>6, DownloadAssumption DEF NoFile
    <2>3. QED  BY <2>1, <2>2 DEF FilesOK, OwnFile
  <1>9. QED  BY <1>3, <1>4, <1>5, <1>7, <1>8 DEF IInv

LEMMA NextKeeps == IInv /\ [Next]_vars => IInv'
  <1> SUFFICES ASSUME IInv, [Next]_vars PROVE IInv'
    OBVIOUS
  <1>1. ASSUME NEW r \in Requests, Handler(r) PROVE IInv'
    BY <1>1, AsksKeeps, LooksUpKeeps, StartsKeeps DEF Handler
  <1>2. ASSUME NEW r \in Requests, Goroutine(r) PROVE IInv'
    <2>1. req[r].pc \in Downloading => req[r].path \in {TmpPath(r), OwnPath(r)}
      BY OwnPaths
    <2>2. CASE CreateTaskFails(r)
      BY <2>2, FailKeeps DEF CreateTaskFails, Downloading
    <2>3. CASE FetchFails(r)
      BY <2>1, <2>3, FailKeeps DEF FetchFails, Downloading
    <2>4. CASE DecryptFails(r)
      BY <2>1, <2>4, FailKeeps DEF DecryptFails, Downloading
    <2>5. CASE MoveFails(r)
      BY <2>1, <2>5, FailKeeps DEF MoveFails, Downloading
    <2>6. QED
      BY <1>2, <2>2, <2>3, <2>4, <2>5, FetchesKeeps, DecryptsKeeps, ChoosesNameKeeps,
         MovesKeeps, RecordsKeeps, EndsKeeps DEF Goroutine
  <1>3. ASSUME NEW v \in Videos, Cancels(v) \/ CancelDeletes(v) PROVE IInv'
    BY <1>3, CancelsKeeps, CancelDeletesKeeps
  <1>4. CASE UNCHANGED vars
    BY <1>4 DEF vars, IInv, Types, RequestsOK, GoodRequest, Control, ActiveOK, AloneOK, CancelOK,
                Findable, TakenOK, NoClash, FilesOK, OwnFile, HasFile, Place, StateOf, IsRunning,
                Exists, Final, OwnPath, NoFile
  <1>5. QED  BY <1>1, <1>2, <1>3, <1>4, FetchedKeeps DEF Next

LEMMA AlwaysInv == Spec => []IInv
  BY InitHolds, NextKeeps, PTL DEF Spec

\* Every variable has its type, and an entry of activeDownloads is of a
\* goroutine of that video that runs.
THEOREM DownloadTypeCorrect == Spec => []TypeOK
  <1>1. IInv => TypeOK
    BY DEF IInv, Types, RequestRecords, Control, ActiveOK, IsRunning, TypeOK
  <1>2. QED  BY <1>1, AlwaysInv, PTL

\* A download that ran alone, and that nobody cancelled, has its entry for as
\* long as it runs.
THEOREM DownloadsAreFindable == Spec => []Findable
  <1>1. IInv => Findable
    BY DEF IInv, Control
  <1>2. QED  BY <1>1, AlwaysInv, PTL

\* Where a download that ran alone reached its end there is its own file,
\* decrypted, under its final name.
THEOREM SavedFilesAreWhole == Spec => []SavedIsWhole
  <1>1. ASSUME IInv PROVE SavedIsWhole
    <2>1. SUFFICES ASSUME NEW r \in Requests \ raced,
                          req[r].pc \in {"moved", "ending", "done"}, req[r].final # 0
                   PROVE  files[Final(req[r].final)] = [by |-> r, state |-> "clear"]
      BY DEF SavedIsWhole
    <2>2. OwnFile(r, req[r], files)
      BY <1>1 DEF IInv, FilesOK
    <2>3. HasFile(req[r]) /\ Place(req[r]) = Final(req[r].final) /\ StateOf(req[r].pc) = "clear"
      BY <2>1 DEF HasFile, Place, StateOf, Saved, Downloading
    <2>4. QED  BY <2>2, <2>3 DEF OwnFile
  <1>2. QED  BY <1>1, AlwaysInv, PTL

\* A download that ran alone and is over has no temporary file.
THEOREM DownloadsLeaveNothing == Spec => []NothingLeft
  <1>1. ASSUME IInv PROVE NothingLeft
    <2>1. SUFFICES ASSUME NEW r \in Requests \ raced, req[r].pc = "done",
                          NEW p \in Temporary, files[p].by = r
                   PROVE  FALSE
      BY DEF NothingLeft
    <2>2. OwnFile(r, req[r], files) /\ p \in Paths
      BY <1>1, PathsDiffer DEF IInv, FilesOK
    <2>3. HasFile(req[r]) /\ p = Place(req[r])
      BY <2>1, <2>2 DEF OwnFile
    <2>4. p = Final(req[r].final) /\ req[r].final \in Names
      BY <1>1, <2>1, <2>3 DEF HasFile, Place, Saved, Downloading, IInv, Types, RequestRecords
    <2>5. QED  BY <2>1, <2>4, PathsDiffer
  <1>2. QED  BY <1>1, AlwaysInv, PTL
=============================================================================
