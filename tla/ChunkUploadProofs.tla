-------------------------- MODULE ChunkUploadProofs --------------------------
(***************************************************************************)
(* For every number of sessions, parts, requests and slots: the slots are  *)
(* those of the requests that hold one, a part once saved stays, and with  *)
(* one merge at a time what a merge answers with success is whole.         *)
(***************************************************************************)
EXTENDS ChunkUpload, TLAPS, FiniteSetTheorems, SequenceTheorems

PartStates == {"none", "short", "whole"}
MergeRecords == [pc : MergeStates, name : Names \cup {0}, next : Nat \ {0}]

\* The merges that hold a slot, and the chunks
MergeActive(m) == merge[m].pc \notin {"idle", "merged", "failed"}
Active == {m \in Merges : MergeActive(m)}
AllWriting == {c \in Chunks : chunk[c] = "writing"}

StateOK ==
  /\ opened \subseteq Sessions
  /\ DOMAIN part = Sessions
  /\ \A s \in Sessions : part[s] \in [Parts(s) -> PartStates]
  /\ chunk \in [Chunks -> ChunkStates]
  /\ merge \in [Merges -> MergeRecords]
  /\ \A m \in Merges : merge[m].pc \notin {"idle", "failed"} => merge[m].name \in Names
  /\ file \in [Names -> [exists : BOOLEAN, data : Seq(Data)]]
  /\ sound \subseteq Merges

ChunkSlots ==
  /\ IsFiniteSet(AllWriting) /\ chunkSem = Cardinality(AllWriting)
  /\ chunkSem <= ChunkConcurrency

MergeSlots ==
  /\ IsFiniteSet(Active) /\ mergeSem = Cardinality(Active)
  /\ mergeSem <= MergeConcurrency

IInv == StateOK /\ ChunkSlots /\ MergeSlots

-----------------------------------------------------------------------------
(* Slots, parts, data *)

LEMMA SlotTaken ==
  ASSUME NEW S, IsFiniteSet(S), NEW x, x \notin S, NEW n, n = Cardinality(S),
         NEW k \in Nat, n < k
  PROVE  IsFiniteSet(S \cup {x}) /\ n + 1 = Cardinality(S \cup {x}) /\ n + 1 <= k
  <1>1. n \in Nat  BY FS_CardinalityType
  <1>2. QED  BY <1>1, FS_AddElement

LEMMA SlotGivenBack ==
  ASSUME NEW S, IsFiniteSet(S), NEW x \in S, NEW n, n = Cardinality(S),
         NEW k \in Nat, n <= k
  PROVE  IsFiniteSet(S \ {x}) /\ n - 1 = Cardinality(S \ {x}) /\ n - 1 <= k
  <1>1. n \in Nat  BY FS_CardinalityType
  <1>2. QED  BY <1>1, FS_RemoveElement

\* Where one part file changes
LEMMA PartChanges ==
  ASSUME StateOK, NEW s \in Sessions, NEW i \in Parts(s), NEW v \in PartStates,
         part' = [part EXCEPT ![s][i] = v]
  PROVE  /\ DOMAIN part' = Sessions
         /\ \A t \in Sessions : part'[t] \in [Parts(t) -> PartStates]
         /\ part'[s][i] = v
         /\ \A t \in Sessions : \A j \in Parts(t) :
              t # s \/ j # i => part'[t][j] = part[t][j]
  <1>1. part[s] \in [Parts(s) -> PartStates] /\ DOMAIN part = Sessions  BY DEF StateOK
  <1>2. PICK f \in [Parts(s) -> PartStates] : f = [part[s] EXCEPT ![i] = v]
    BY <1>1
  <1>3. part' = [part EXCEPT ![s] = f]  BY <1>1, <1>2
  <1>4. f[i] = v /\ \A j \in Parts(s) : j # i => f[j] = part[s][j]
    BY <1>1, <1>2
  <1>5. DOMAIN part' = Sessions /\ part'[s] = f /\ \A t \in Sessions : t # s => part'[t] = part[t]
    BY <1>1, <1>3
  <1>6. QED  BY <1>4, <1>5 DEF StateOK

\* Where a whole session is cleared, but for some parts
LEMMA SessionCleared ==
  ASSUME StateOK, NEW s \in Sessions, NEW kept,
         part' = [part EXCEPT ![s] = [i \in Parts(s) |-> IF i \in kept THEN @[i] ELSE "none"]]
  PROVE  /\ DOMAIN part' = Sessions
         /\ \A t \in Sessions : part'[t] \in [Parts(t) -> PartStates]
         /\ \A i \in Parts(s) : part'[s][i] \in {part[s][i], "none"}
         /\ \A t \in Sessions : t # s => part'[t] = part[t]
  <1>1. part[s] \in [Parts(s) -> PartStates] /\ DOMAIN part = Sessions  BY DEF StateOK
  <1>2. PICK f : f = [i \in Parts(s) |-> IF i \in kept THEN part[s][i] ELSE "none"]
    OBVIOUS
  <1>3. part' = [part EXCEPT ![s] = f]  BY <1>1, <1>2
  <1>4. /\ f \in [Parts(s) -> PartStates]
        /\ \A i \in Parts(s) : f[i] \in {part[s][i], "none"}
    BY <1>1, <1>2 DEF PartStates
  <1>5. DOMAIN part' = Sessions /\ part'[s] = f /\ \A t \in Sessions : t # s => part'[t] = part[t]
    BY <1>1, <1>3
  <1>6. QED  BY <1>4, <1>5 DEF StateOK

\* What is put into a file is there, and all before it stays.
LEMMA PutEffect ==
  ASSUME NEW data \in Seq(Data), NEW i \in Nat \ {0}, NEW d \in Data
  PROVE  /\ Put(data, i, d) \in Seq(Data)
         /\ Len(data) < i => Put(data, i, d) = [k \in 1 .. i |->
              IF k = i THEN d ELSE IF k <= Len(data) THEN data[k] ELSE Hole]
  <1>1. Len(data) \in Nat /\ \A k \in 1 .. Len(data) : data[k] \in Data
    BY LenProperties, ElementOfSeq
  <1>2. PICK n \in Nat : n = IF Len(data) < i THEN i ELSE Len(data)  BY <1>1
  <1>3. Put(data, i, d) = [k \in 1 .. n |->
          IF k = i THEN d ELSE IF k <= Len(data) THEN data[k] ELSE Hole]
    BY <1>2 DEF Put
  <1>4. Hole \in Data  BY DEF Data
  <1>5. Put(data, i, d) \in [1 .. n -> Data]
    BY <1>1, <1>3, <1>4
  <1>6. Put(data, i, d) \in Seq(Data)  BY <1>5, SeqDef
  <1>7. QED  BY <1>2, <1>3, <1>6

LEMMA PartsNumbered ==
  ASSUME NEW s \in Sessions
  PROVE  Total[s] \in Nat \ {0} /\ Parts(s) = 1 .. Total[s]
  BY UploadAssumption DEF Parts

LEMMA PartIsData ==
  ASSUME NEW s \in Sessions, NEW i \in Parts(s)
  PROVE  <<s, i>> \in Data /\ <<s, Short>> \in Data
  BY DEF Data

LEMMA RequestsAreOf ==
  /\ \A c \in Chunks : SessionOf[c] \in Sessions /\ IndexOf[c] \in Parts(SessionOf[c])
  /\ \A m \in Merges : SessionOf[m] \in Sessions
  BY UploadAssumption DEF Parts

-----------------------------------------------------------------------------
(* The types and the slots *)

LEMMA InitHolds == Init => IInv
  <1> SUFFICES ASSUME Init PROVE IInv
    OBVIOUS
  <1>1. StateOK
    <2>1. file \in [Names -> [exists : BOOLEAN, data : Seq(Data)]]
      <3>1. <<>> \in Seq(Data)  BY EmptySeq
      <3>2. QED  BY <3>1 DEF Init, NoFile
    <2>2. QED
      BY <2>1 DEF Init, StateOK, PartStates, ChunkStates, MergeRecords, MergeStates
  <1>2. AllWriting = {} /\ Active = {}
    BY DEF Init, AllWriting, Active, MergeActive
  <1>3. ChunkSlots /\ MergeSlots
    BY <1>2, FS_EmptySet, UploadAssumption DEF Init, ChunkSlots, MergeSlots
  <1>4. QED  BY <1>1, <1>3 DEF IInv

LEMMA OpensKeeps ==
  ASSUME IInv, NEW s \in Sessions, Opens(s)
  PROVE  IInv'
  <1>1. /\ opened' = opened \cup {s}
        /\ UNCHANGED <<part, chunk, merge, file, chunkSem, mergeSem, sound>>
    BY DEF Opens
  <1>2. AllWriting' = AllWriting /\ Active' = Active
    BY <1>1 DEF AllWriting, Active, MergeActive
  <1>3. QED  BY <1>1, <1>2 DEF IInv, StateOK, ChunkSlots, MergeSlots

LEMMA ChunkKeeps ==
  ASSUME IInv, NEW c \in Chunks, ChunkStep(c)
  PROVE  IInv'
  <1>1. UNCHANGED <<merge, file, mergeSem>> /\ opened' = opened /\ sound' \subseteq sound
    BY DEF ChunkStep, ChunkRefused, ChunkCreates, ChunkSaved, ChunkFails
  <1>2. MergeSlots'  BY <1>1 DEF IInv, MergeSlots, Active, MergeActive
  <1>3. PICK s \in Sessions : s = SessionOf[c] /\ IndexOf[c] \in Parts(s)
    BY RequestsAreOf
  <1>4. PICK i \in Parts(s) : i = IndexOf[c]  BY <1>3
  <1>5. part[s][i] \in PartStates  BY <1>4 DEF IInv, StateOK
  <1>6. part' = part \/ \E v \in PartStates : part' = [part EXCEPT ![s][i] = v]
    BY <1>3, <1>4, <1>5
    DEF ChunkStep, ChunkRefused, ChunkCreates, ChunkSaved, ChunkFails, PartStates
  <1>7. DOMAIN part' = Sessions /\ \A t \in Sessions : part'[t] \in [Parts(t) -> PartStates]
    <2>1. CASE part' = part  BY <2>1 DEF IInv, StateOK
    <2>2. CASE part' # part
      <3>1. StateOK  BY DEF IInv
      <3>2. PICK v \in PartStates : part' = [part EXCEPT ![s][i] = v]  BY <1>6, <2>2
      <3>3. QED  BY <3>1, <3>2, PartChanges
    <2>3. QED  BY <2>1, <2>2
  <1>8. PICK new \in ChunkStates :
          chunk' = [chunk EXCEPT ![c] = new] /\ new \in {"writing", "saved", "failed"}
    BY DEF ChunkStep, ChunkRefused, ChunkCreates, ChunkSaved, ChunkFails, ChunkStates
  <1>9. chunk' \in [Chunks -> ChunkStates] /\ chunk'[c] = new
        /\ \A d \in Chunks : d # c => chunk'[d] = chunk[d]
    BY <1>8 DEF IInv, StateOK
  <1>10. StateOK'
    BY <1>1, <1>7, <1>9 DEF IInv, StateOK
  <1>11. ChunkSlots'
    <2>1. CASE ChunkCreates(c)
      <3>1. chunk[c] = "idle" /\ chunkSem < ChunkConcurrency /\ chunkSem' = chunkSem + 1
            /\ chunk'[c] = "writing"
        BY <2>1 DEF ChunkCreates, IInv, StateOK
      <3>2. AllWriting' = AllWriting \cup {c} /\ c \notin AllWriting
        BY <1>9, <3>1 DEF AllWriting
      <3>3. QED  BY <3>1, <3>2, SlotTaken, UploadAssumption DEF IInv, ChunkSlots
    <2>2. CASE ChunkSaved(c) \/ ChunkFails(c)
      <3>1. chunk[c] = "writing" /\ chunkSem' = chunkSem - 1 /\ chunk'[c] # "writing"
        BY <2>2 DEF ChunkSaved, ChunkFails, IInv, StateOK
      <3>2. AllWriting' = AllWriting \ {c} /\ c \in AllWriting
        BY <1>9, <3>1 DEF AllWriting
      <3>3. QED  BY <3>1, <3>2, SlotGivenBack, UploadAssumption DEF IInv, ChunkSlots
    <2>3. CASE ChunkRefused(c)
      <3>1. chunk[c] = "idle" /\ chunk'[c] = "failed" /\ UNCHANGED chunkSem
        BY <2>3 DEF ChunkRefused, IInv, StateOK
      <3>2. AllWriting' = AllWriting
        BY <1>9, <3>1 DEF AllWriting
      <3>3. QED  BY <3>1, <3>2 DEF IInv, ChunkSlots
    <2>4. QED  BY <2>1, <2>2, <2>3 DEF ChunkStep
  <1>12. QED  BY <1>2, <1>10, <1>11 DEF IInv

\* A merge goes from one record to another, its slot with it.
LEMMA MergeMoves ==
  ASSUME IInv, NEW m \in Merges, NEW new \in MergeRecords,
         merge' = [merge EXCEPT ![m] = new],
         new.pc \notin {"idle", "failed"} => new.name \in Names,
         LET was == MergeActive(m)
             is == new.pc \notin {"idle", "merged", "failed"} IN
           \/ (was <=> is) /\ mergeSem' = mergeSem
           \/ ~was /\ is /\ mergeSem < MergeConcurrency /\ mergeSem' = mergeSem + 1
           \/ was /\ ~is /\ mergeSem' = mergeSem - 1,
         file' \in [Names -> [exists : BOOLEAN, data : Seq(Data)]],
         DOMAIN part' = Sessions,
         \A s \in Sessions : part'[s] \in [Parts(s) -> PartStates],
         opened' \subseteq Sessions, sound' \subseteq Merges,
         UNCHANGED <<chunk, chunkSem>>
  PROVE  IInv'
  <1>1. /\ merge' \in [Merges -> MergeRecords] /\ merge'[m] = new
        /\ \A n \in Merges : n # m => merge'[n] = merge[n]
    BY DEF IInv, StateOK
  <1>2. StateOK'
    BY <1>1 DEF IInv, StateOK
  <1>3. AllWriting' = AllWriting  BY DEF AllWriting
  <1>4. ChunkSlots'  BY <1>3 DEF IInv, ChunkSlots
  <1>5. MergeSlots'
    <2>1. CASE (MergeActive(m) <=> new.pc \notin {"idle", "merged", "failed"})
               /\ mergeSem' = mergeSem
      <3>1. Active' = Active  BY <1>1, <2>1 DEF Active, MergeActive
      <3>2. QED  BY <2>1, <3>1 DEF IInv, MergeSlots
    <2>2. CASE /\ ~MergeActive(m) /\ new.pc \notin {"idle", "merged", "failed"}
               /\ mergeSem < MergeConcurrency /\ mergeSem' = mergeSem + 1
      <3>1. Active' = Active \cup {m} /\ m \notin Active
        BY <1>1, <2>2 DEF Active, MergeActive
      <3>2. QED  BY <2>2, <3>1, SlotTaken, UploadAssumption DEF IInv, MergeSlots
    <2>3. CASE /\ MergeActive(m) /\ new.pc \in {"idle", "merged", "failed"}
               /\ mergeSem' = mergeSem - 1
      <3>1. Active' = Active \ {m} /\ m \in Active
        BY <1>1, <2>3 DEF Active, MergeActive
      <3>2. QED  BY <2>3, <3>1, SlotGivenBack, UploadAssumption DEF IInv, MergeSlots
    <2>4. QED  BY <2>1, <2>2, <2>3
  <1>6. QED  BY <1>2, <1>4, <1>5 DEF IInv

\* The file a merge works on
LEMMA FileChanges ==
  ASSUME StateOK, NEW n \in Names, NEW data \in Seq(Data), NEW exists \in BOOLEAN,
         file' = [file EXCEPT ![n] = [exists |-> exists, data |-> data]]
  PROVE  /\ file' \in [Names -> [exists : BOOLEAN, data : Seq(Data)]]
         /\ file'[n].exists = exists /\ file'[n].data = data
         /\ \A k \in Names : k # n => file'[k] = file[k]
  BY DEF StateOK

\* What a copy puts at the place of a part
LEMMA CopyIsData ==
  ASSUME StateOK, NEW m \in Merges, MergeCopies(m)
  PROVE  LET s == SessionOf[m]  i == merge[m].next  n == merge[m].name IN
         \E d \in Data :
           /\ i \in Parts(s) /\ n \in Names
           /\ part[s][i] = "whole" => d = <<s, i>>
           /\ file' = [file EXCEPT ![n] = [exists |-> file[n].exists,
                                           data |-> Put(file[n].data, i, d)]]
           /\ file[n].data \in Seq(Data) /\ file[n].exists \in BOOLEAN
           /\ Put(file[n].data, i, d) \in Seq(Data)
  <1>1. PICK P \in MergeRecords : merge[m] = P /\ P.pc = "copying" /\ P.name \in Names
    BY DEF StateOK, MergeCopies
  <1>2. PICK s \in Sessions : s = SessionOf[m]  BY RequestsAreOf
  <1>3. PICK i \in Parts(s) : i = P.next
    BY <1>1, <1>2, PartsNumbered DEF MergeCopies, MergeRecords
  <1>4. PICK F \in [exists : BOOLEAN, data : Seq(Data)] : file[P.name] = F
    BY <1>1 DEF StateOK
  <1>5. PICK d \in Data : d = IF part[s][i] = "whole" THEN <<s, i>> ELSE <<s, Short>>
    BY PartIsData
  <1>6. file' = [file EXCEPT ![P.name].data = Put(F.data, i, d)]
    BY <1>1, <1>2, <1>3, <1>4, <1>5 DEF MergeCopies, StateOK
  <1>7. file' = [file EXCEPT ![P.name] = [exists |-> F.exists, data |-> Put(F.data, i, d)]]
    <2>1. [F EXCEPT !.data = Put(F.data, i, d)] = [exists |-> F.exists, data |-> Put(F.data, i, d)]
      OBVIOUS
    <2>2. file' = [file EXCEPT ![P.name] = [F EXCEPT !.data = Put(F.data, i, d)]]
      BY <1>1, <1>4, <1>6 DEF StateOK
    <2>3. QED  BY <2>1, <2>2
  <1>8. i \in Nat \ {0}  BY PartsNumbered
  <1>9. Put(F.data, i, d) \in Seq(Data)  BY <1>8, PutEffect
  <1>10. QED  BY <1>1, <1>2, <1>3, <1>4, <1>5, <1>7, <1>9

LEMMA MergeKeeps ==
  ASSUME IInv, NEW m \in Merges, MergeStep(m)
  PROVE  IInv'
  <1>1. PICK P \in MergeRecords : merge[m] = P  BY DEF IInv, StateOK
  <1>2. P.pc \notin {"idle", "failed"} => P.name \in Names
    BY <1>1 DEF IInv, StateOK
  <1>3. MergeActive(m) <=> P.pc \notin {"idle", "merged", "failed"}
    BY <1>1 DEF MergeActive
  <1>4. UNCHANGED <<chunk, chunkSem>>
    BY DEF MergeStep, MergeBegins, MergeRefused, MergeCreates, MergeChecked, MergeCopies,
           MergeFails, MergeDone
  <1>5. /\ file \in [Names -> [exists : BOOLEAN, data : Seq(Data)]]
        /\ DOMAIN part = Sessions /\ \A s \in Sessions : part[s] \in [Parts(s) -> PartStates]
        /\ opened \subseteq Sessions /\ sound \subseteq Merges
        /\ \A new : [merge EXCEPT ![m] = new][m] = new
    BY DEF IInv, StateOK
  <1>6. CASE MergeBegins(m)
    <2>1. PICK n \in Names : merge' = [merge EXCEPT ![m].pc = "named", ![m].name = n]
      BY <1>6 DEF MergeBegins
    <2>2. PICK new : new = [P EXCEPT !.pc = "named", !.name = n]  OBVIOUS
    <2>2a. new \in MergeRecords /\ new.pc = "named" /\ new.name = n
      BY <2>2, <2>2 DEF MergeRecords, MergeStates
    <2>3. merge' = [merge EXCEPT ![m] = new]
      BY <1>1, <2>1, <2>2 DEF IInv, StateOK
    <2>4. /\ P.pc = "idle" /\ mergeSem < MergeConcurrency /\ mergeSem' = mergeSem + 1
          /\ UNCHANGED <<opened, part, file, sound>>
      BY <1>1, <1>6 DEF MergeBegins
    <2>5. QED  BY <1>3, <1>4, <1>5, <2>2, <2>2a, <2>3, <2>4, MergeMoves
  <1>7. CASE MergeRefused(m) \/ MergeFails(m)
    <2>1. PICK new : new = [P EXCEPT !.pc = "failed"]  OBVIOUS
    <2>1a. new \in MergeRecords /\ new.pc = "failed"
      BY <2>1 DEF MergeRecords, MergeStates
    <2>2. merge' = [merge EXCEPT ![m] = new]
      BY <1>1, <1>7, <2>1 DEF MergeRefused, MergeFails, IInv, StateOK
    <2>3. /\ \/ P.pc = "idle" /\ UNCHANGED mergeSem
             \/ P.pc \in {"named", "checking", "copying"} /\ mergeSem' = mergeSem - 1
          /\ UNCHANGED <<opened, part, file, sound>>
      BY <1>1, <1>7 DEF MergeRefused, MergeFails
    <2>4. QED  BY <1>3, <1>4, <1>5, <2>1, <2>1a, <2>2, <2>3, MergeMoves
  <1>8. CASE MergeCreates(m)
    <2>1. PICK new : new = [P EXCEPT !.pc = "checking"]  OBVIOUS
    <2>1a. new \in MergeRecords /\ new.pc = "checking" /\ new.name = P.name
      BY <2>1 DEF MergeRecords, MergeStates
    <2>2. merge' = [merge EXCEPT ![m] = new]
      BY <1>1, <1>8, <2>1 DEF MergeCreates, IInv, StateOK
    <2>3. /\ P.pc = "named" /\ UNCHANGED <<opened, part, mergeSem, sound>>
          /\ file' = [file EXCEPT ![P.name] = [exists |-> TRUE, data |-> <<>>]]
      BY <1>1, <1>8 DEF MergeCreates
    <2>4. <<>> \in Seq(Data)  BY EmptySeq
    <2>5. file' \in [Names -> [exists : BOOLEAN, data : Seq(Data)]]
      BY <1>2, <2>3, <2>4, FileChanges DEF IInv
    <2>6. QED  BY <1>2, <1>3, <1>4, <1>5, <2>1, <2>1a, <2>2, <2>3, <2>5, MergeMoves
  <1>9. CASE MergeChecked(m)
    <2>1. PICK new : new = [P EXCEPT !.pc = "copying"]  OBVIOUS
    <2>1a. new \in MergeRecords /\ new.pc = "copying" /\ new.name = P.name
      BY <2>1 DEF MergeRecords, MergeStates
    <2>2. merge' = [merge EXCEPT ![m] = new]
      BY <1>1, <1>9, <2>1 DEF MergeChecked, IInv, StateOK
    <2>3. /\ P.pc = "checking" /\ UNCHANGED <<opened, part, file, mergeSem>>
          /\ sound' \in {sound, sound \cup {m}}
      BY <1>1, <1>9 DEF MergeChecked
    <2>4. QED  BY <1>2, <1>3, <1>4, <1>5, <2>1, <2>1a, <2>2, <2>3, MergeMoves
  <1>10. CASE MergeCopies(m)
    <2>1. P.pc = "copying" /\ UNCHANGED <<opened, part, mergeSem, sound>>
      BY <1>1, <1>10 DEF MergeCopies
    <2>2. P.next + 1 \in Nat \ {0}  BY DEF MergeRecords
    <2>3. PICK new : new = [P EXCEPT !.next = P.next + 1]  OBVIOUS
    <2>3a. new \in MergeRecords /\ new.pc = P.pc /\ new.name = P.name
      BY <2>2, <2>3 DEF MergeRecords
    <2>4. merge' = [merge EXCEPT ![m] = new]
      BY <1>1, <1>10, <2>3 DEF MergeCopies, IInv, StateOK
    <2>5. file' \in [Names -> [exists : BOOLEAN, data : Seq(Data)]]
      BY <1>10, CopyIsData, FileChanges DEF IInv
    <2>6. QED  BY <1>2, <1>3, <1>4, <1>5, <2>1, <2>3, <2>3a, <2>4, <2>5, MergeMoves
  <1>11. CASE MergeDone(m)
    <2> DEFINE s == SessionOf[m]
    <2>1. s \in Sessions  BY RequestsAreOf
    <2>2. /\ P.pc = "copying" /\ mergeSem' = mergeSem - 1 /\ UNCHANGED <<file, sound>>
          /\ opened' \subseteq opened
      BY <1>1, <1>11 DEF MergeDone
    <2>3. PICK kept : part' = [part EXCEPT ![s] =
                                 [i \in Parts(s) |-> IF i \in kept THEN @[i] ELSE "none"]]
      BY <1>11 DEF MergeDone
    <2>4. DOMAIN part' = Sessions /\ \A t \in Sessions : part'[t] \in [Parts(t) -> PartStates]
      BY <2>1, <2>3, SessionCleared DEF IInv
    <2>5. PICK new : new = [P EXCEPT !.pc = "merged"]  OBVIOUS
    <2>5a. new \in MergeRecords /\ new.pc = "merged" /\ new.name = P.name
      BY <2>5 DEF MergeRecords, MergeStates
    <2>6. merge' = [merge EXCEPT ![m] = new]
      BY <1>1, <1>11, <2>5 DEF MergeDone, IInv, StateOK
    <2>7. QED  BY <1>2, <1>3, <1>4, <1>5, <2>2, <2>4, <2>5, <2>5a, <2>6, MergeMoves
  <1>12. QED
    BY <1>6, <1>7, <1>8, <1>9, <1>10, <1>11 DEF MergeStep

LEMMA NextKeeps == IInv /\ [Next]_vars => IInv'
  <1> SUFFICES ASSUME IInv, [Next]_vars PROVE IInv'
    OBVIOUS
  <1>1. CASE UNCHANGED vars
    <2>1. UNCHANGED <<opened, part, chunk, merge, file, chunkSem, mergeSem, sound>>
      BY <1>1 DEF vars
    <2>2. AllWriting' = AllWriting /\ Active' = Active
      BY <2>1 DEF AllWriting, Active, MergeActive
    <2>3. QED  BY <2>1, <2>2 DEF IInv, StateOK, ChunkSlots, MergeSlots
  <1>2. QED  BY <1>1, OpensKeeps, ChunkKeeps, MergeKeeps DEF Next

LEMMA Invariant == Spec => []IInv
  BY InitHolds, NextKeeps, PTL DEF Spec

\* The slots taken are those of the requests that hold one, however requests
\* are refused, fail or succeed; names, parts and files keep their types.
THEOREM UploadTypeCorrect == Spec => []TypeOK
  <1>1. IInv => TypeOK
    <2> SUFFICES ASSUME IInv PROVE TypeOK
      OBVIOUS
    <2>1. merge \in [Merges -> [pc : MergeStates, name : Names \cup {0}, next : Nat]]
      <3>1. MergeRecords \subseteq [pc : MergeStates, name : Names \cup {0}, next : Nat]
        BY DEF MergeRecords
      <3>2. QED  BY <3>1 DEF IInv, StateOK
    <2>2. QED
      BY <2>1 DEF IInv, StateOK, ChunkSlots, MergeSlots, AllWriting, Active, MergeActive,
                  PartStates, TypeOK
  <1>2. QED  BY <1>1, Invariant, PTL

-----------------------------------------------------------------------------
(* Parts that were saved *)

\* No request for part i of session s has failed; a merge of s has succeeded.
Untouched(s, i) == \A c \in Chunks : SessionOf[c] = s /\ IndexOf[c] = i => chunk[c] # "failed"
Merged(s) == \E m \in Merges : SessionOf[m] = s /\ merge[m].pc = "merged"

\* A part somebody writes is not whole.  It is only begun until the last
\* request that writes it is done, and whole from then on.
PartOK(s, i) ==
  /\ Writing(s, i) # {} => part[s][i] # "whole"
  /\ Untouched(s, i) /\ ~Merged(s) =>
       /\ Writing(s, i) # {} => part[s][i] = "short"
       /\ \A c \in Chunks : SessionOf[c] = s /\ IndexOf[c] = i /\ chunk[c] = "saved"
            => part[s][i] = IF Writing(s, i) = {} THEN "whole" ELSE "short"

PartsOK == \A s \in Sessions : \A i \in Parts(s) : PartOK(s, i)

LEMMA PartStays ==
  ASSUME NEW s, NEW i, PartOK(s, i), part'[s][i] = part[s][i],
         \A c \in Chunks : SessionOf[c] = s /\ IndexOf[c] = i => chunk'[c] = chunk[c],
         Merged(s) => Merged(s)'
  PROVE  PartOK(s, i)'
  <1>1. Writing(s, i)' = Writing(s, i)  BY DEF Writing
  <1>2. Untouched(s, i)' <=> Untouched(s, i)  BY DEF Untouched
  <1>3. QED  BY <1>1, <1>2 DEF PartOK

\* A request for a part bothers no other part, and this one as it may.
LEMMA ChunkKeepsParts ==
  ASSUME IInv, PartsOK, NEW c \in Chunks, ChunkStep(c)
  PROVE  PartsOK'
  <1>1. PICK s \in Sessions : s = SessionOf[c] /\ IndexOf[c] \in Parts(s)
    BY RequestsAreOf
  <1>2. PICK i \in Parts(s) : i = IndexOf[c]  BY <1>1
  <1>3. \A t : Merged(t) => Merged(t)'
    BY DEF Merged, ChunkStep, ChunkRefused, ChunkCreates, ChunkSaved, ChunkFails
  <1>4. /\ \A d \in Chunks : d # c => chunk'[d] = chunk[d]
        /\ part[s][i] \in PartStates
    BY <1>2 DEF IInv, StateOK, ChunkStep, ChunkRefused, ChunkCreates, ChunkSaved, ChunkFails
  <1>5. part' = part \/ \E v \in PartStates : part' = [part EXCEPT ![s][i] = v]
    BY <1>1, <1>2, <1>4
    DEF ChunkStep, ChunkRefused, ChunkCreates, ChunkSaved, ChunkFails, PartStates
  <1>6. StateOK  BY DEF IInv
  <1>7. \A t \in Sessions : \A j \in Parts(t) : t # s \/ j # i => part'[t][j] = part[t][j]
    BY <1>5, <1>6, PartChanges
  <1>8. ASSUME NEW t \in Sessions, NEW j \in Parts(t), t # s \/ j # i
        PROVE  PartOK(t, j)'
    BY <1>1, <1>2, <1>3, <1>4, <1>7, <1>8, PartStays DEF PartsOK
  <1>9. PartOK(s, i)'
    <2>1. PartOK(s, i)  BY DEF PartsOK
    <2>2. CASE ChunkRefused(c) \/ ChunkFails(c)
      <3>1. chunk'[c] = "failed"
        BY <2>2 DEF ChunkRefused, ChunkFails, IInv, StateOK
      <3>2. ~Untouched(s, i)'  BY <1>1, <1>2, <3>1 DEF Untouched
      <3>3. Writing(s, i)' \subseteq Writing(s, i)
        BY <1>4, <3>1 DEF Writing
      <3>4. part'[s][i] \in {part[s][i], "none"}
        BY <1>1, <1>2, <1>6, <2>2, PartChanges DEF ChunkRefused, ChunkFails, PartStates
      <3>5. QED  BY <2>1, <3>2, <3>3, <3>4 DEF PartOK
    <2>3. CASE ChunkCreates(c)
      <3>1. chunk'[c] = "writing" /\ part' = [part EXCEPT ![s][i] = "short"]
        BY <1>1, <1>2, <2>3 DEF ChunkCreates, IInv, StateOK
      <3>2. part'[s][i] = "short"  BY <1>6, <3>1, PartChanges DEF PartStates
      <3>3. Writing(s, i)' # {}  BY <1>1, <1>2, <3>1 DEF Writing
      <3>4. QED  BY <3>2, <3>3 DEF PartOK
    <2>4. CASE ChunkSaved(c)
      <3>1. /\ chunk[c] = "writing" /\ chunk'[c] = "saved" /\ UNCHANGED merge
            /\ part' = [part EXCEPT ![s][i] =
                 IF part[s][i] = "short" /\ Writing(s, i) = {c} THEN "whole" ELSE part[s][i]]
        BY <1>1, <1>2, <2>4 DEF ChunkSaved, IInv, StateOK
      <3>2. part'[s][i] =
              IF part[s][i] = "short" /\ Writing(s, i) = {c} THEN "whole" ELSE part[s][i]
        BY <1>4, <1>6, <3>1, PartChanges DEF PartStates
      <3>3. c \in Writing(s, i) /\ Writing(s, i)' = Writing(s, i) \ {c}
        BY <1>1, <1>2, <1>4, <3>1 DEF Writing
      <3>4. Untouched(s, i)' => Untouched(s, i)
        BY <1>4, <3>1 DEF Untouched
      <3>5. Merged(s)' <=> Merged(s)  BY <3>1 DEF Merged
      <3>6. QED  BY <2>1, <3>2, <3>3, <3>4, <3>5 DEF PartOK
    <2>5. QED  BY <2>2, <2>3, <2>4 DEF ChunkStep
  <1>10. QED  BY <1>8, <1>9 DEF PartsOK

\* A merge that succeeds is the only one to touch the parts.
LEMMA MergeKeepsParts ==
  ASSUME IInv, PartsOK, NEW m \in Merges, MergeStep(m)
  PROVE  PartsOK'
  <1>1. UNCHANGED chunk
    BY DEF MergeStep, MergeBegins, MergeRefused, MergeCreates, MergeChecked, MergeCopies,
           MergeFails, MergeDone
  <1>2. PICK P \in MergeRecords : merge[m] = P  BY DEF IInv, StateOK
  <1>3. P.pc # "merged" /\ \A n \in Merges : n # m => merge'[n] = merge[n]
    BY <1>2 DEF MergeStep, MergeBegins, MergeRefused, MergeCreates, MergeChecked, MergeCopies,
                MergeFails, MergeDone, IInv, StateOK
  <1>4. \A t : Merged(t) => Merged(t)'  BY <1>2, <1>3 DEF Merged
  <1>5. CASE ~MergeDone(m)
    <2>1. UNCHANGED part
      BY <1>5 DEF MergeStep, MergeBegins, MergeRefused, MergeCreates, MergeChecked,
                  MergeCopies, MergeFails
    <2>2. QED  BY <1>1, <1>4, <2>1, PartStays DEF PartsOK
  <1>6. CASE MergeDone(m)
    <2> DEFINE s == SessionOf[m]
    <2>1. s \in Sessions  BY RequestsAreOf
    <2>2. PICK kept : part' = [part EXCEPT ![s] =
                                 [i \in Parts(s) |-> IF i \in kept THEN @[i] ELSE "none"]]
      BY <1>6 DEF MergeDone
    <2>3. StateOK  BY DEF IInv
    <2>4. /\ \A i \in Parts(s) : part'[s][i] \in {part[s][i], "none"}
          /\ \A t \in Sessions : t # s => part'[t] = part[t]
      BY <2>1, <2>2, <2>3, SessionCleared
    <2>5. merge'[m].pc = "merged"
      BY <1>2, <1>6 DEF MergeDone, IInv, StateOK, MergeRecords
    <2>6. Merged(s)'  BY <2>5 DEF Merged
    <2> HIDE DEF s
    <2>7. ASSUME NEW t \in Sessions, NEW j \in Parts(t) PROVE PartOK(t, j)'
      <3>1. CASE t = s
        <4>1. PartOK(s, j) /\ part'[s][j] \in {part[s][j], "none"}
          BY <2>1, <2>4, <2>7, <3>1 DEF PartsOK
        <4>2. Writing(s, j)' = Writing(s, j)  BY <1>1 DEF Writing
        <4>3. QED  BY <2>6, <3>1, <4>1, <4>2 DEF PartOK
      <3>2. CASE t # s
        BY <1>1, <1>4, <2>4, <2>7, <3>2, PartStays DEF PartsOK
      <3>3. QED  BY <3>1, <3>2
    <2>8. QED  BY <2>7 DEF PartsOK
  <1>7. QED  BY <1>5, <1>6

LEMMA PartsKept == IInv /\ PartsOK /\ [Next]_vars => PartsOK'
  <1> SUFFICES ASSUME IInv, PartsOK, [Next]_vars PROVE PartsOK'
    OBVIOUS
  <1>1. ASSUME UNCHANGED <<part, chunk, merge>> PROVE PartsOK'
    <2>1. \A t : Merged(t) => Merged(t)'  BY <1>1 DEF Merged
    <2>2. QED  BY <1>1, <2>1, PartStays DEF PartsOK
  <1>2. ASSUME NEW s \in Sessions, Opens(s) PROVE PartsOK'
    BY <1>1, <1>2 DEF Opens
  <1>3. CASE UNCHANGED vars  BY <1>1, <1>3 DEF vars
  <1>4. QED  BY <1>2, <1>3, ChunkKeepsParts, MergeKeepsParts DEF Next

\* A part that was answered with success stays whole until a merge of its
\* session succeeds, unless another request for it fails or still writes it: a
\* merge that fails takes nothing away, so that it can be asked for again.
THEOREM SavedPartsAreKept == Spec => []SavedPartsStay
  <1>1. Init => PartsOK
    <2> SUFFICES ASSUME Init, NEW s \in Sessions, NEW i \in Parts(s) PROVE PartOK(s, i)
      BY DEF PartsOK
    <2>1. \A c \in Chunks : chunk[c] = "idle"  BY DEF Init
    <2>2. QED  BY <2>1 DEF PartOK, Writing
  <1>2. PartsOK => SavedPartsStay
    <2> SUFFICES ASSUME PartsOK, NEW c \in Chunks, chunk[c] = "saved",
                        \A d \in Chunks :
                          SessionOf[d] = SessionOf[c] /\ IndexOf[d] = IndexOf[c] =>
                            chunk[d] \in {"idle", "saved"}
                 PROVE  \/ part[SessionOf[c]][IndexOf[c]] = "whole"
                        \/ \E m \in Merges : SessionOf[m] = SessionOf[c]
                                             /\ merge[m].pc = "merged"
      BY DEF SavedPartsStay
    <2>1. PartOK(SessionOf[c], IndexOf[c])  BY RequestsAreOf DEF PartsOK
    <2>2. Writing(SessionOf[c], IndexOf[c]) = {}  BY DEF Writing
    <2>3. Untouched(SessionOf[c], IndexOf[c])  BY DEF Untouched
    <2>4. QED  BY <2>1, <2>2, <2>3 DEF PartOK, Merged
  <1>3. Spec => [](IInv /\ PartsOK)
    BY <1>1, InitHolds, NextKeeps, PartsKept, PTL DEF Spec
  <1>4. QED  BY <1>2, <1>3, PTL

-----------------------------------------------------------------------------
(* Merged files, with one merge at a time *)

\* The file of merge m: not there when its name is chosen, emptied before the
\* parts are looked at, and then the parts in order, if they were whole and
\* are not sent again.
FileOK(m) ==
  LET s == SessionOf[m]
      data == file[merge[m].name].data
      next == merge[m].next IN
  /\ merge[m].pc = "named" => ~file[merge[m].name].exists
  /\ merge[m].pc \in {"checking", "copying", "merged"} => file[merge[m].name].exists
  /\ merge[m].pc \in {"idle", "named", "checking"} => next = 1
  /\ merge[m].pc = "checking" => data = <<>>
  /\ m \in sound =>
       /\ merge[m].pc \in {"copying", "merged", "failed"}
       /\ merge[m].pc = "copying" =>
            /\ \A i \in Parts(s) : part[s][i] = "whole"
            /\ next <= Total[s] + 1 /\ Len(data) = next - 1
       /\ merge[m].pc = "merged" => Len(data) = Total[s]
       /\ merge[m].pc \in {"copying", "merged"} => \A i \in 1 .. Len(data) : data[i] = <<s, i>>

\* No merge works on the file of one that has succeeded.
NamesOK ==
  \A m, n \in Merges : MergeActive(m) /\ merge[n].pc = "merged" => merge[m].name # merge[n].name

FilesOK == (\A m \in Merges : FileOK(m)) /\ NamesOK

LEMMA OneActive ==
  ASSUME IInv, MergeConcurrency = 1, NEW m \in Merges, MergeActive(m)
  PROVE  mergeSem = 1 /\ \A n \in Merges : MergeActive(n) => n = m
  <1>1. IsFiniteSet(Active) /\ Cardinality(Active) <= 1 /\ m \in Active
    BY DEF IInv, MergeSlots, Active
  <1>2. Cardinality(Active) \in Nat /\ Cardinality(Active) # 0
    BY <1>1, FS_CardinalityType, FS_EmptySet
  <1>3. Cardinality(Active) = 1  BY <1>1, <1>2
  <1>4. PICK x : Active = {x}  BY <1>1, <1>3, FS_Singleton
  <1>5. QED  BY <1>1, <1>3, <1>4 DEF IInv, MergeSlots, Active

LEMMA SameLength ==
  ASSUME NEW data \in Seq(Data), NEW n \in Nat, DOMAIN data = 1 .. n
  PROVE  Len(data) = n
  <1>1. Len(data) \in Nat /\ DOMAIN data = 1 .. Len(data)  BY LenProperties
  <1>2. PICK k \in Nat : k = Len(data) /\ 1 .. n = 1 .. k  BY <1>1
  <1>3. n = k  BY <1>2
  <1>4. QED  BY <1>2, <1>3

\* The request of a part only bothers merges that are no longer sound.
LEMMA ChunkKeepsFiles ==
  ASSUME IInv, PartsOK, FilesOK, NEW c \in Chunks, ChunkStep(c)
  PROVE  FilesOK'
  <1>1. UNCHANGED <<merge, file>> /\ sound' \subseteq sound
    BY DEF ChunkStep, ChunkRefused, ChunkCreates, ChunkSaved, ChunkFails
  <1>2. NamesOK'  BY <1>1 DEF FilesOK, NamesOK, MergeActive
  <1>3. PICK s \in Sessions : s = SessionOf[c] /\ IndexOf[c] \in Parts(s)
    BY RequestsAreOf
  <1>4. PICK i \in Parts(s) : i = IndexOf[c]  BY <1>3
  <1>5. part[s][i] \in PartStates /\ StateOK  BY <1>4 DEF IInv, StateOK
  <1>6. part' = part \/ \E v \in PartStates : part' = [part EXCEPT ![s][i] = v]
    BY <1>3, <1>4, <1>5
    DEF ChunkStep, ChunkRefused, ChunkCreates, ChunkSaved, ChunkFails, PartStates
  <1>7. \A t \in Sessions : \A j \in Parts(t) : t # s => part'[t][j] = part[t][j]
    BY <1>5, <1>6, PartChanges
  <1>8. ASSUME NEW m \in Merges, m \in sound', merge[m].pc = "copying"
        PROVE  \A j \in Parts(SessionOf[m]) :
                 part'[SessionOf[m]][j] = part[SessionOf[m]][j]
    <2>1. CASE SessionOf[m] # s  BY <1>7, <2>1, RequestsAreOf
    <2>2. CASE SessionOf[m] = s /\ UNCHANGED part  BY <2>2
    <2>3. CASE SessionOf[m] = s /\ ChunkCreates(c)
      BY <1>3, <1>8, <2>3 DEF ChunkCreates
    <2>4. CASE SessionOf[m] = s /\ (ChunkSaved(c) \/ ChunkFails(c))
      <3>1. c \in Writing(s, i)
        BY <1>3, <1>4, <2>4 DEF ChunkSaved, ChunkFails, Writing
      <3>2. part[s][i] # "whole"  BY <3>1 DEF PartsOK, PartOK
      <3>3. FileOK(m) /\ m \in sound  BY <1>1, <1>8 DEF FilesOK
      <3>4. QED  BY <1>8, <2>4, <3>2, <3>3 DEF FileOK
    <2>5. QED  BY <2>1, <2>2, <2>3, <2>4 DEF ChunkStep, ChunkRefused
  <1>9. ASSUME NEW m \in Merges PROVE FileOK(m)'
    <2>1. FileOK(m)  BY DEF FilesOK
    <2>2. QED  BY <1>1, <1>8, <1>9, <2>1 DEF FileOK
  <1>10. QED  BY <1>2, <1>9 DEF FilesOK

\* Merges that do not run are left alone by the one that does.
LEMMA OthersKeepFiles ==
  ASSUME IInv, FilesOK, MergeConcurrency = 1, NEW m \in Merges, MergeStep(m),
         NEW n \in Merges, n # m
  PROVE  FileOK(n)' /\ merge'[n] = merge[n] /\ ~MergeActive(n)
  <1>1. merge'[n] = merge[n] /\ (n \in sound' <=> n \in sound)
    BY DEF MergeStep, MergeBegins, MergeRefused, MergeCreates, MergeChecked, MergeCopies,
           MergeFails, MergeDone, IInv, StateOK
  <1>2. ~MergeActive(n)
    <2>1. CASE MergeActive(m)  BY <2>1, OneActive
    <2>2. CASE ~MergeActive(m)
      <3>1. mergeSem < 1
        BY <2>2 DEF MergeActive, MergeStep, MergeBegins, MergeRefused, MergeCreates,
                    MergeChecked, MergeCopies, MergeFails, MergeDone
      <3>2. ~(mergeSem = 1)  BY <3>1
      <3>3. QED  BY <3>2, OneActive
    <2>3. QED  BY <2>1, <2>2
  <1>3. FileOK(n)  BY DEF FilesOK
  <1>4. CASE merge[n].pc = "merged"
    <2>1. merge[n].name \in Names  BY <1>4 DEF IInv, StateOK
    <2>2. MergeActive(m) => merge[m].name # merge[n].name
      BY <1>4 DEF FilesOK, NamesOK
    <2>3. file'[merge[n].name] = file[merge[n].name]
      BY <2>1, <2>2 DEF MergeStep, MergeBegins, MergeRefused, MergeCreates, MergeChecked,
                        MergeCopies, MergeFails, MergeDone, MergeActive, IInv, StateOK
    <2>4. QED  BY <1>1, <1>2, <1>3, <1>4, <2>3 DEF FileOK
  <1>5. CASE merge[n].pc # "merged"
    <2>1. merge[n].pc \in {"idle", "failed"}
      BY <1>2, <1>5 DEF MergeActive
    <2>2. QED  BY <1>1, <1>2, <1>3, <2>1 DEF FileOK
  <1>6. QED  BY <1>4, <1>5

\* What a merge copies it puts behind what it has copied.
LEMMA CopyKeepsFile ==
  ASSUME IInv, FilesOK, NEW m \in Merges, MergeCopies(m)
  PROVE  FileOK(m)' /\ merge'[m].pc = "copying" /\ merge'[m].name = merge[m].name
  <1> DEFINE s == SessionOf[m]
             n == merge[m].name
             i == merge[m].next
             old == file[n].data
  <1>1. PICK d \in Data :
          /\ i \in Parts(s) /\ n \in Names
          /\ part[s][i] = "whole" => d = <<s, i>>
          /\ file' = [file EXCEPT ![n] = [exists |-> file[n].exists, data |-> Put(old, i, d)]]
          /\ old \in Seq(Data) /\ file[n].exists \in BOOLEAN
          /\ Put(old, i, d) \in Seq(Data)
    BY CopyIsData DEF IInv
  <1>2. file'[n].exists = file[n].exists /\ file'[n].data = Put(old, i, d)
    BY <1>1, FileChanges DEF IInv
  <1>3. /\ merge'[m].pc = "copying" /\ merge'[m].name = n /\ merge'[m].next = i + 1
        /\ merge[m].pc = "copying" /\ UNCHANGED <<part, sound>>
    <2>1. PICK P \in MergeRecords : merge[m] = P  BY DEF IInv, StateOK
    <2>2. merge'[m] = [P EXCEPT !.next = P.next + 1]
      BY <2>1 DEF MergeCopies, IInv, StateOK
    <2>3. QED  BY <2>1, <2>2 DEF MergeCopies, MergeRecords
  <1>4. FileOK(m)  BY DEF FilesOK
  <1>5. s \in Sessions  BY RequestsAreOf
  <1>6. Total[s] \in Nat \ {0} /\ i \in 1 .. Total[s] /\ i \in Nat \ {0}
    BY <1>1, <1>5, PartsNumbered
  <1>7. ASSUME m \in sound
        PROVE  /\ Len(file'[n].data) = i
               /\ \A k \in 1 .. i : file'[n].data[k] = <<s, k>>
               /\ \A j \in Parts(s) : part[s][j] = "whole"
    <2>1. /\ \A j \in Parts(s) : part[s][j] = "whole"
          /\ Len(old) = i - 1 /\ \A k \in 1 .. Len(old) : old[k] = <<s, k>>
      BY <1>3, <1>4, <1>7 DEF FileOK
    <2>2. d = <<s, i>>  BY <1>1, <2>1
    <2>3. Len(old) < i  BY <1>6, <2>1
    <2>4. Put(old, i, d) = [k \in 1 .. i |->
            IF k = i THEN d ELSE IF k <= Len(old) THEN old[k] ELSE Hole]
      <3>1. old \in Seq(Data) /\ i \in Nat \ {0} /\ Len(old) < i  BY <1>1, <1>6, <2>3
      <3> HIDE DEF s, n, i, old
      <3>2. QED  BY <3>1, PutEffect
    <2>5. \A k \in 1 .. i : Put(old, i, d)[k] = <<s, k>>
      <3>1. \A k \in 1 .. i : k = i \/ (k <= Len(old) /\ k \in 1 .. Len(old))
        BY <1>6, <2>1
      <3>2. QED  BY <2>1, <2>2, <2>4, <3>1
    <2>6. Len(Put(old, i, d)) = i
      <3>1. DOMAIN Put(old, i, d) = 1 .. i  BY <2>4
      <3>2. QED  BY <1>1, <1>6, <3>1, SameLength
    <2>7. QED  BY <1>2, <2>1, <2>5, <2>6
  <1>8. FileOK(m)'
    <2>1. i + 1 <= Total[s] + 1 /\ (i + 1) - 1 = i  BY <1>6
    <2> HIDE DEF n, i, old
    <2>2. file[n].exists  BY <1>3, <1>4 DEF FileOK, n
    <2>3. merge'[m].pc = "copying" /\ file'[merge'[m].name].exists
      BY <1>2, <1>3, <2>2
    <2>4. ASSUME m \in sound'
          PROVE  /\ \A k \in Parts(s) : part'[s][k] = "whole"
                 /\ merge'[m].next <= Total[s] + 1
                 /\ Len(file'[merge'[m].name].data) = merge'[m].next - 1
                 /\ \A k \in 1 .. Len(file'[merge'[m].name].data) :
                      file'[merge'[m].name].data[k] = <<s, k>>
      BY <1>2, <1>3, <1>7, <2>1, <2>4
    <2>5. QED  BY <2>3, <2>4 DEF FileOK
  <1>9. QED  BY <1>3, <1>8

\* What the other steps of a merge do to its file
LEMMA MergeKeepsFile ==
  ASSUME IInv, FilesOK, MergeConcurrency = 1, NEW m \in Merges, MergeStep(m)
  PROVE  /\ FileOK(m)'
         /\ MergeActive(m)' => \A n \in Merges : merge[n].pc = "merged" =>
                                 merge'[m].name # merge[n].name
  <1>1. PICK P \in MergeRecords : merge[m] = P  BY DEF IInv, StateOK
  <1>2. FileOK(m) /\ \A n \in Merges : FileOK(n)  BY DEF FilesOK
  <1>3. \A n \in Merges : MergeActive(m) /\ merge[n].pc = "merged" => merge[m].name # merge[n].name
    BY DEF FilesOK, NamesOK
  <1>4. SessionOf[m] \in Sessions  BY RequestsAreOf
  <1>5. Total[SessionOf[m]] \in Nat \ {0} /\ Parts(SessionOf[m]) = 1 .. Total[SessionOf[m]]
    BY <1>4, PartsNumbered
  <1>6. CASE MergeBegins(m)
    <2>1. PICK n \in Names : FirstFree(n)
                             /\ merge' = [merge EXCEPT ![m].pc = "named", ![m].name = n]
      BY <1>6 DEF MergeBegins
    <2>2. merge'[m].pc = "named" /\ merge'[m].name = n /\ merge'[m].next = P.next
      BY <1>1, <2>1 DEF IInv, StateOK, MergeRecords
    <2>3. P.pc = "idle" /\ UNCHANGED <<file, sound>>  BY <1>1, <1>6 DEF MergeBegins
    <2>4. P.next = 1 /\ m \notin sound  BY <1>1, <1>2, <2>3 DEF FileOK
    <2>5. ~file[n].exists  BY <2>1 DEF FirstFree
    <2>6. FileOK(m)'  BY <2>2, <2>3, <2>4, <2>5 DEF FileOK
    <2>7. \A k \in Merges : merge[k].pc = "merged" => merge[k].name # n
      BY <1>2, <2>5 DEF FileOK
    <2>8. QED  BY <2>2, <2>6, <2>7
  <1>7. CASE MergeRefused(m) \/ MergeFails(m)
    <2>1. merge'[m].pc = "failed"
      BY <1>1, <1>7 DEF MergeRefused, MergeFails, IInv, StateOK, MergeRecords
    <2>2. QED  BY <2>1 DEF FileOK, MergeActive
  <1>8. CASE MergeCreates(m)
    <2>1. /\ merge'[m].pc = "checking" /\ merge'[m].name = P.name /\ merge'[m].next = P.next
          /\ P.pc = "named" /\ P.name \in Names
          /\ file' = [file EXCEPT ![P.name] = [exists |-> TRUE, data |-> <<>>]]
          /\ UNCHANGED sound
      BY <1>1, <1>8 DEF MergeCreates, IInv, StateOK, MergeRecords
    <2>2. <<>> \in Seq(Data)  BY EmptySeq
    <2>3. file'[P.name].exists /\ file'[P.name].data = <<>>
      BY <2>1, <2>2, FileChanges DEF IInv
    <2>4. P.next = 1 /\ m \notin sound  BY <1>1, <1>2, <2>1 DEF FileOK
    <2>5. FileOK(m)'  BY <2>1, <2>3, <2>4 DEF FileOK
    <2>6. MergeActive(m) /\ merge[m].name = P.name  BY <1>1, <2>1 DEF MergeActive
    <2>7. QED  BY <1>3, <2>1, <2>5, <2>6
  <1>9. CASE MergeChecked(m)
    <2>1. /\ merge'[m].pc = "copying" /\ merge'[m].name = P.name /\ merge'[m].next = P.next
          /\ P.pc = "checking" /\ UNCHANGED <<file, part>>
      BY <1>1, <1>9 DEF MergeChecked, IInv, StateOK, MergeRecords
    <2>2. P.next = 1 /\ file[P.name].exists /\ file[P.name].data = <<>> /\ m \notin sound
      BY <1>1, <1>2, <2>1 DEF FileOK
    <2>3. m \in sound' => \A i \in Parts(SessionOf[m]) : part[SessionOf[m]][i] = "whole"
      BY <1>9, <2>2 DEF MergeChecked
    <2>4. Len(<<>>) = 0 /\ 1 <= Total[SessionOf[m]] + 1  BY <1>5, EmptySeq
    <2>5. FileOK(m)'  BY <2>1, <2>2, <2>3, <2>4 DEF FileOK
    <2>6. MergeActive(m) /\ merge[m].name = P.name  BY <1>1, <2>1 DEF MergeActive
    <2>7. QED  BY <1>3, <2>1, <2>5, <2>6
  <1>10. CASE MergeCopies(m)
    <2>1. FileOK(m)' /\ merge'[m].pc = "copying" /\ merge'[m].name = merge[m].name
      BY <1>10, CopyKeepsFile
    <2>2. MergeActive(m)  BY <1>10 DEF MergeActive, MergeCopies
    <2>3. QED  BY <1>3, <2>1, <2>2
  <1>11. CASE MergeDone(m)
    <2>1. /\ merge'[m].pc = "merged" /\ merge'[m].name = P.name
          /\ P.pc = "copying" /\ P.next > Total[SessionOf[m]]
          /\ UNCHANGED <<file, sound>>
      BY <1>1, <1>11 DEF MergeDone, IInv, StateOK, MergeRecords
    <2>2. file[P.name].exists  BY <1>1, <1>2, <2>1 DEF FileOK
    <2>3. ASSUME m \in sound
          PROVE  /\ Len(file[P.name].data) = Total[SessionOf[m]]
                 /\ \A i \in 1 .. Len(file[P.name].data) :
                      file[P.name].data[i] = <<SessionOf[m], i>>
      <3>1. /\ P.next <= Total[SessionOf[m]] + 1 /\ Len(file[P.name].data) = P.next - 1
            /\ \A i \in 1 .. Len(file[P.name].data) :
                 file[P.name].data[i] = <<SessionOf[m], i>>
        BY <1>1, <1>2, <2>1, <2>3 DEF FileOK
      <3>2. P.next - 1 = Total[SessionOf[m]]
        BY <1>5, <2>1, <3>1 DEF MergeRecords
      <3>3. QED  BY <3>1, <3>2
    <2>4. FileOK(m)'  BY <2>1, <2>2, <2>3 DEF FileOK
    <2>5. QED  BY <2>1, <2>4 DEF MergeActive
  <1>12. QED
    BY <1>6, <1>7, <1>8, <1>9, <1>10, <1>11 DEF MergeStep

LEMMA MergeKeepsFiles ==
  ASSUME IInv, FilesOK, MergeConcurrency = 1, NEW m \in Merges, MergeStep(m)
  PROVE  FilesOK'
  <1>1. \A n \in Merges : FileOK(n)'
    BY OthersKeepFiles, MergeKeepsFile
  <1>2. \A n \in Merges : n # m => merge'[n] = merge[n] /\ ~MergeActive(n)
    BY OthersKeepFiles
  <1>3. MergeActive(m)' => \A n \in Merges : merge[n].pc = "merged" =>
                             merge'[m].name # merge[n].name
    BY MergeKeepsFile
  <1>4. NamesOK'
    <2> SUFFICES ASSUME NEW k \in Merges, NEW n \in Merges, MergeActive(k)',
                        merge'[n].pc = "merged"
                 PROVE  merge'[k].name # merge'[n].name
      BY DEF NamesOK
    <2>1. k = m  BY <1>2 DEF MergeActive
    <2>2. n # m  BY <2>1 DEF MergeActive
    <2>3. QED  BY <1>2, <1>3, <2>1, <2>2
  <1>5. QED  BY <1>1, <1>4 DEF FilesOK

LEMMA FilesKept ==
  MergeConcurrency = 1 => (IInv /\ PartsOK /\ FilesOK /\ [Next]_vars => FilesOK')
  <1> SUFFICES ASSUME MergeConcurrency = 1, IInv, PartsOK, FilesOK, [Next]_vars PROVE FilesOK'
    OBVIOUS
  <1>1. ASSUME UNCHANGED <<part, merge, file, sound>> PROVE FilesOK'
    BY <1>1 DEF FilesOK, FileOK, NamesOK, MergeActive
  <1>2. ASSUME NEW s \in Sessions, Opens(s) PROVE FilesOK'
    BY <1>1, <1>2 DEF Opens
  <1>3. CASE UNCHANGED vars  BY <1>1, <1>3 DEF vars
  <1>4. QED  BY <1>2, <1>3, ChunkKeepsFiles, MergeKeepsFiles DEF Next

\* With one merge at a time, as the helper is set up by default: a merge that
\* found its parts whole, none of which was sent again, and was answered with
\* success has made a file of all the parts in order, whatever other merges of
\* the same session or the same title were asked for, failed or came after it.
THEOREM MergedIsAlwaysWhole == MergeConcurrency = 1 => (Spec => []MergedIsWhole)
  <1>1. Init => PartsOK /\ FilesOK
    <2> SUFFICES ASSUME Init PROVE PartsOK /\ FilesOK
      OBVIOUS
    <2>1. \A c \in Chunks : chunk[c] = "idle"  BY DEF Init
    <2>2. \A m \in Merges : merge[m].pc = "idle" /\ merge[m].next = 1 /\ m \notin sound
      BY DEF Init
    <2>3. QED
      BY <2>1, <2>2 DEF PartsOK, PartOK, Writing, FilesOK, FileOK, NamesOK, MergeActive
  <1>2. IInv /\ FilesOK => MergedIsWhole
    <2> SUFFICES ASSUME IInv, FilesOK, NEW m \in sound, merge[m].pc = "merged"
                 PROVE  file[merge[m].name].data =
                          [i \in Parts(SessionOf[m]) |-> <<SessionOf[m], i>>]
      BY DEF MergedIsWhole
    <2> DEFINE data == file[merge[m].name].data
    <2>1. m \in Merges  BY DEF IInv, StateOK
    <2>2. merge[m].name \in Names  BY <2>1 DEF IInv, StateOK
    <2>3. data \in Seq(Data)  BY <2>2 DEF IInv, StateOK
    <2>4. /\ Len(data) = Total[SessionOf[m]]
          /\ \A i \in 1 .. Len(data) : data[i] = <<SessionOf[m], i>>
      BY <2>1 DEF FilesOK, FileOK
    <2>5. Parts(SessionOf[m]) = 1 .. Total[SessionOf[m]]
      BY <2>1, RequestsAreOf, PartsNumbered
    <2> HIDE DEF data
    <2>6. data \in [1 .. Len(data) -> Data]  BY <2>3, LenProperties
    <2>7. data = [i \in 1 .. Len(data) |-> <<SessionOf[m], i>>]
      BY <2>4, <2>6
    <2>8. QED  BY <2>4, <2>5, <2>7 DEF data
  <1>3. MergeConcurrency = 1 => (Spec => [](IInv /\ PartsOK /\ FilesOK))
    <2> SUFFICES ASSUME MergeConcurrency = 1 PROVE Spec => [](IInv /\ PartsOK /\ FilesOK)
      OBVIOUS
    <2>1. IInv /\ PartsOK /\ FilesOK /\ [Next]_vars => IInv' /\ PartsOK' /\ FilesOK'
      BY NextKeeps, PartsKept, FilesKept
    <2>2. QED  BY <1>1, <2>1, InitHolds, PTL DEF Spec
  <1>4. QED
    <2> SUFFICES ASSUME MergeConcurrency = 1 PROVE Spec => []MergedIsWhole
      OBVIOUS
    <2>1. Spec => [](IInv /\ PartsOK /\ FilesOK)  BY <1>3
    <2>2. QED  BY <1>2, <2>1, PTL
=============================================================================
