---------------------------- MODULE ChunkUpload ----------------------------
(***************************************************************************)
(* Uploads in parts (upload.go: init_upload, upload_chunk,                 *)
(* complete_upload).                                                       *)
(*                                                                         *)
(* A session is a directory of parts.  A page may send a part again when   *)
(* its answer is lost, and may ask for the merge more than once.  Nothing  *)
(* ties the requests of a session together but two counting semaphores:    *)
(* so many parts are written, and so many merges run, at a time.  All the  *)
(* merged files here have the same title.                                  *)
(***************************************************************************)
EXTENDS Naturals, Sequences, FiniteSets

CONSTANTS Sessions,
          Total,              \* the number of parts of every session
          Chunks, Merges,     \* requests of upload_chunk and complete_upload
          SessionOf, IndexOf, \* which session, and which part, a request is about
          ChunkConcurrency, MergeConcurrency,
          Names               \* final names, 1 .. at least the number of merges

ASSUME UploadAssumption ==
  /\ Total \in [Sessions -> Nat \ {0}]
  /\ SessionOf \in [Chunks \cup Merges -> Sessions]
  /\ \A c \in Chunks : IndexOf[c] \in 1 .. Total[SessionOf[c]]
  /\ ChunkConcurrency \in Nat \ {0} /\ MergeConcurrency \in Nat \ {0}
  /\ Names \subseteq Nat

VARIABLES opened,    \* the sessions that exist: their directories
          part,      \* the part files of every session
          chunk,     \* the requests of upload_chunk
          merge,     \* the requests of complete_upload
          file,      \* the merged files
          chunkSem, mergeSem,  \* the slots taken
          sound      \* history: merges that found every part whole, and no
                     \* part written again since

vars == <<opened, part, chunk, merge, file, chunkSem, mergeSem, sound>>

Parts(s) == 1 .. Total[s]
\* What a merged file can hold: the data of a part, what a part of a session
\* that is not whole happens to hold, or nothing where another merge has cut it.
Short == 0
Hole == <<>>
Data == {Hole} \cup UNION {{<<s, i>> : i \in {Short} \cup Parts(s)} : s \in Sessions}
NoFile == [exists |-> FALSE, data |-> <<>>]

ChunkStates == {"idle", "writing", "saved", "failed"}
MergeStates == {"idle", "named", "checking", "copying", "merged", "failed"}

TypeOK ==
  /\ opened \subseteq Sessions
  /\ DOMAIN part = Sessions
  /\ \A s \in Sessions : part[s] \in [Parts(s) -> {"none", "short", "whole"}]
  /\ chunk \in [Chunks -> ChunkStates]
  /\ merge \in [Merges -> [pc : MergeStates, name : Names \cup {0}, next : Nat]]
  /\ file \in [Names -> [exists : BOOLEAN, data : Seq(Data)]]
  /\ sound \subseteq Merges
  \* The slots are those of the requests that hold one.
  /\ chunkSem = Cardinality({c \in Chunks : chunk[c] = "writing"})
  /\ mergeSem = Cardinality({m \in Merges : merge[m].pc \notin {"idle", "merged", "failed"}})
  /\ chunkSem <= ChunkConcurrency /\ mergeSem <= MergeConcurrency

Init ==
  /\ opened = {}
  /\ part = [s \in Sessions |-> [i \in Parts(s) |-> "none"]]
  /\ chunk = [c \in Chunks |-> "idle"]
  /\ merge = [m \in Merges |-> [pc |-> "idle", name |-> 0, next |-> 1]]
  /\ file = [n \in Names |-> NoFile]
  /\ chunkSem = 0 /\ mergeSem = 0
  /\ sound = {}

\* init_upload: the id is random, and nobody else's.
Opens(s) ==
  /\ opened' = opened \cup {s}
  /\ s \notin opened /\ \A i \in Parts(s) : part[s][i] = "none"
  /\ \A m \in Merges : SessionOf[m] = s => merge[m].pc # "merged"
  /\ UNCHANGED <<part, chunk, merge, file, chunkSem, mergeSem, sound>>

-----------------------------------------------------------------------------
(* upload_chunk *)

Writing(s, i) == {c \in Chunks : SessionOf[c] = s /\ IndexOf[c] = i /\ chunk[c] = "writing"}

\* Mutant of ChunkRefused: the slot is kept.
ChunkRefused_KeepsSlot(c) ==
  /\ chunk[c] = "idle" /\ chunkSem < ChunkConcurrency
  /\ chunk' = [chunk EXCEPT ![c] = "failed"]
  /\ chunkSem' = chunkSem + 1
  /\ UNCHANGED <<opened, part, merge, file, mergeSem, sound>>

\* No such session, or one of the refusals before it: origin, token, fields.
\* The slot is taken and given back.
ChunkRefused(c) ==
  /\ chunk[c] = "idle" /\ chunkSem < ChunkConcurrency
  /\ chunk' = [chunk EXCEPT ![c] = "failed"]
  /\ UNCHANGED <<opened, part, merge, file, chunkSem, mergeSem, sound>>

\* With a slot: os.Create empties the part that was there.
ChunkCreates(c) ==
  LET s == SessionOf[c] IN
  /\ chunk[c] = "idle" /\ chunkSem < ChunkConcurrency /\ s \in opened
  /\ chunkSem' = chunkSem + 1
  /\ part' = [part EXCEPT ![s][IndexOf[c]] = "short"]
  /\ chunk' = [chunk EXCEPT ![c] = "writing"]
  /\ sound' = {m \in sound : SessionOf[m] # s \/ merge[m].pc # "copying"}
  /\ UNCHANGED <<opened, merge, file, mergeSem>>

\* Copied, and its checksum and size agree.  A file that somebody has removed
\* meanwhile stays away; one that another request writes to is whole when the
\* last of them is done.
ChunkSaved(c) ==
  LET s == SessionOf[c]  i == IndexOf[c] IN
  /\ chunk[c] = "writing"
  /\ part' = [part EXCEPT ![s][i] = IF @ = "short" /\ Writing(s, i) = {c} THEN "whole" ELSE @]
  /\ chunk' = [chunk EXCEPT ![c] = "saved"]
  /\ chunkSem' = chunkSem - 1
  /\ UNCHANGED <<opened, merge, file, mergeSem, sound>>

\* A wrong checksum or size: the part is removed.  An error of the copy, or an
\* unknown algorithm: what there is of it stays.
ChunkFails(c) ==
  LET s == SessionOf[c]  i == IndexOf[c] IN
  /\ chunk[c] = "writing"
  /\ part' \in {part, [part EXCEPT ![s][i] = "none"]}
  /\ chunk' = [chunk EXCEPT ![c] = "failed"]
  /\ chunkSem' = chunkSem - 1
  /\ UNCHANGED <<opened, merge, file, mergeSem, sound>>

-----------------------------------------------------------------------------
(* complete_upload *)

FirstFree(n) == ~file[n].exists /\ \A k \in Names : k < n => file[k].exists

\* Mutant of MergeBegins: no limit on merges.
MergeBegins_Unlimited(m) ==
  /\ merge[m].pc = "idle"
  /\ UNCHANGED mergeSem
  /\ \E n \in Names :
       FirstFree(n) /\ merge' = [merge EXCEPT ![m].pc = "named", ![m].name = n]
  /\ UNCHANGED <<opened, part, chunk, file, chunkSem, sound>>

\* With a slot: the licence is consumed, and the first free name is taken; it
\* is only known to be free.  That there is one is a bound: the code tries
\* 1000 and then overwrites the first.
MergeBegins(m) ==
  /\ merge[m].pc = "idle" /\ mergeSem < MergeConcurrency
  /\ mergeSem' = mergeSem + 1
  /\ \E n \in Names :
       FirstFree(n) /\ merge' = [merge EXCEPT ![m].pc = "named", ![m].name = n]
  /\ UNCHANGED <<opened, part, chunk, file, chunkSem, sound>>

\* Origin, token, licence, fields: the slot is taken and given back.
MergeRefused(m) ==
  /\ merge[m].pc = "idle" /\ mergeSem < MergeConcurrency
  /\ merge' = [merge EXCEPT ![m].pc = "failed"]
  /\ UNCHANGED <<opened, part, chunk, file, chunkSem, mergeSem, sound>>

\* The file is created, or emptied, before the parts are looked at.
MergeCreates(m) ==
  /\ merge[m].pc = "named"
  /\ file' = [file EXCEPT ![merge[m].name] = [exists |-> TRUE, data |-> <<>>]]
  /\ merge' = [merge EXCEPT ![m].pc = "checking"]
  /\ UNCHANGED <<opened, part, chunk, chunkSem, mergeSem, sound>>

Present(s) == \A i \in Parts(s) : part[s][i] # "none"

\* Mutant of MergeChecked: the last part is not looked for.
MergeChecked_AllButLast(m) ==
  LET s == SessionOf[m] IN
  /\ merge[m].pc = "checking"
  /\ \A i \in Parts(s) \ {Total[s]} : part[s][i] # "none"
  /\ merge' = [merge EXCEPT ![m].pc = "copying"]
  /\ sound' = sound \cup {m}
  /\ UNCHANGED <<opened, part, chunk, file, chunkSem, mergeSem>>

MergeChecked(m) ==
  LET s == SessionOf[m] IN
  /\ merge[m].pc = "checking" /\ Present(s)
  /\ merge' = [merge EXCEPT ![m].pc = "copying"]
  /\ sound' = IF \A i \in Parts(s) : part[s][i] = "whole" THEN sound \cup {m} ELSE sound
  /\ UNCHANGED <<opened, part, chunk, file, chunkSem, mergeSem>>

\* Data at a position of a file
Put(data, i, d) ==
  [k \in 1 .. (IF Len(data) < i THEN i ELSE Len(data)) |->
     IF k = i THEN d ELSE IF k <= Len(data) THEN data[k] ELSE Hole]

MergeCopies(m) ==
  LET s == SessionOf[m]  i == merge[m].next IN
  /\ merge[m].pc = "copying" /\ i <= Total[s] /\ part[s][i] # "none"
  /\ file' = [file EXCEPT ![merge[m].name].data =
                 Put(@, i, IF part[s][i] = "whole" THEN <<s, i>> ELSE <<s, Short>>)]
  /\ merge' = [merge EXCEPT ![m].next = i + 1]
  /\ UNCHANGED <<opened, part, chunk, chunkSem, mergeSem, sound>>

\* Mutant of MergeFails: the session is cleared away all the same.
MergeFails_Clears(m) ==
  /\ merge[m].pc \in {"checking", "copying"} /\ ~Present(SessionOf[m])
  /\ merge' = [merge EXCEPT ![m].pc = "failed"]
  /\ mergeSem' = mergeSem - 1
  /\ opened' = opened \ {SessionOf[m]}
  /\ part' = [part EXCEPT ![SessionOf[m]] = [i \in Parts(SessionOf[m]) |-> "none"]]
  /\ UNCHANGED <<chunk, file, chunkSem, sound>>

\* The file cannot be created, a part is missing, or the copy fails.  The parts
\* stay, and so does the file.
MergeFails(m) ==
  /\ \/ merge[m].pc \in {"named", "copying"}
     \/ merge[m].pc = "checking" /\ ~Present(SessionOf[m])
  /\ merge' = [merge EXCEPT ![m].pc = "failed"]
  /\ mergeSem' = mergeSem - 1
  /\ UNCHANGED <<opened, part, chunk, file, chunkSem, sound>>

\* Everything is copied: RemoveAll, whose error is ignored; it may stop at a
\* part that is being written.
MergeDone(m) ==
  LET s == SessionOf[m] IN
  /\ merge[m].pc = "copying" /\ merge[m].next > Total[s]
  /\ merge' = [merge EXCEPT ![m].pc = "merged"]
  /\ mergeSem' = mergeSem - 1
  /\ \E kept \in SUBSET {i \in Parts(s) : Writing(s, i) # {}} :
       /\ part' = [part EXCEPT ![s] = [i \in Parts(s) |-> IF i \in kept THEN @[i] ELSE "none"]]
       /\ opened' = IF kept = {} THEN opened \ {s} ELSE opened
  /\ UNCHANGED <<chunk, file, chunkSem, sound>>

-----------------------------------------------------------------------------

ChunkStep(c) == \/ ChunkRefused(c) \/ ChunkCreates(c) \/ ChunkSaved(c) \/ ChunkFails(c)
MergeStep(m) == \/ MergeBegins(m) \/ MergeRefused(m) \/ MergeCreates(m) \/ MergeChecked(m)
                \/ MergeCopies(m) \/ MergeFails(m) \/ MergeDone(m)

Next ==
  \/ \E s \in Sessions : Opens(s)
  \/ \E c \in Chunks : ChunkStep(c)
  \/ \E m \in Merges : MergeStep(m)

Spec == Init /\ [][Next]_vars

\* A handler that has started goes on; one that waits for a slot gets it when
\* there is one.
Fairness == /\ \A c \in Chunks : WF_vars(ChunkStep(c))
            /\ \A m \in Merges : WF_vars(MergeStep(m))

FairSpec == Spec /\ Fairness

-----------------------------------------------------------------------------
(* Properties *)

\* A merge answered with success has made a file of all the parts in order, if
\* it found them whole and the page sent none of them again meanwhile: no other
\* merge, of this session or of one with the same title, gets into its file.
MergedIsWhole ==
  \A m \in sound :
    merge[m].pc = "merged" =>
      file[merge[m].name].data = [i \in Parts(SessionOf[m]) |-> <<SessionOf[m], i>>]

\* A part that was answered with success stays whole until a merge of its
\* session succeeds, if no other request has touched it: a merge that fails
\* can be asked for again, and only what is missing sent again.
SavedPartsStay ==
  \A c \in Chunks :
    /\ chunk[c] = "saved"
    /\ \A d \in Chunks : SessionOf[d] = SessionOf[c] /\ IndexOf[d] = IndexOf[c] =>
         chunk[d] \in {"idle", "saved"}
    => \/ part[SessionOf[c]][IndexOf[c]] = "whole"
       \/ \E m \in Merges : SessionOf[m] = SessionOf[c] /\ merge[m].pc = "merged"

\* Every request is answered: no way out of a handler keeps its slot, and
\* whoever waits for one gets it.
RequestsEnd ==
  /\ \A c \in Chunks : <>(chunk[c] \in {"saved", "failed"})
  /\ \A m \in Merges : <>(merge[m].pc \in {"merged", "failed"})
=============================================================================
