------------------------ MODULE CloudConnectorProofs ------------------------
(***************************************************************************)
(* For every number of commands, connections and failures, whatever breaks *)
(* and whenever Stop comes: the handler admits no download from the cloud  *)
(* that the site has not deducted for it, nothing is deducted beyond the   *)
(* checks on a command's way, a command is answered at most once, and a    *)
(* loop that has ended has left no connection and makes no other.          *)
(***************************************************************************)
EXTENDS CloudConnector, TLAPS

\* The connections the loop has made, one of them at most still in use.  After
\* Stop one more dial may fail, and the loop then ends.
LoopInv ==
  /\ retryCount <= MaxFailures \/ (stopped /\ loop \notin {"dialing", "connected"})
  /\ loop # "connected" => \A n \in Conns : link[n] \notin {"open", "dead"}
  /\ loop = "connected" => current # 0

\* What the connector's own check deducts for a command it lets through
AtConnector(kind) == IF kind \in Checked THEN 1 ELSE 0

\* Where a command and the page's work on it are tells what has been deducted: n.
Deducted(r, state, n) ==
  /\ r.pc = "consuming" => r.kind \in Checked
  /\ state # "none" => r.kind \in Downloads /\ r.pc \in {"calling", "answering", "done"}
  /\ HelperEnabled =>
       /\ r.pc \in {"unsent", "received", "consuming"} => n = 0
       /\ r.pc = "mapping" => n = AtConnector(r.kind)
       /\ state = "none" => n <= AtConnector(r.kind)
       /\ state = "none" /\ r.pc = "calling" => n = AtConnector(r.kind)
       /\ state \in {"called", "posted"} => n = AtConnector(r.kind)
       /\ state = "admitted" => n = AtConnector(r.kind) + 1
       /\ state = "refused" => n <= AtConnector(r.kind) + 1

\* A command has had no answer before it is done, and one at most.
CommandInv ==
  \A c \in Commands :
    /\ Deducted(command[c], page[c], charged[c])
    /\ answers[c] <= 1
    /\ command[c].pc # "done" => answers[c] = 0

LoopTypeOK ==
  /\ loop \in LoopStates
  /\ retryCount \in 0 .. MaxFailures + 1
  /\ current \in 0 .. MaxConns
  /\ link \in [Conns -> LinkStates]
  /\ stopped \in BOOLEAN
  /\ \A n \in Conns : link[n] \in {"open", "dead"} => n = current

CommandRecords == [pc : CommandStates, kind : CommandKinds]

CommandTypeOK ==
  /\ command \in [Commands -> CommandRecords]
  /\ page \in [Commands -> PageStates]
  /\ charged \in [Commands -> Nat]
  /\ answers \in [Commands -> Nat]

LEMMA TypeParts == TypeOK <=> LoopTypeOK /\ CommandTypeOK
  BY DEF TypeOK, LoopTypeOK, CommandTypeOK, CommandRecords

LoopOK == LoopTypeOK /\ LoopInv
CommandOK == CommandTypeOK /\ CommandInv
IInv == LoopOK /\ CommandOK

-----------------------------------------------------------------------------
(* The loop *)

LEMMA InitHolds == Init => IInv
  <1> SUFFICES ASSUME Init PROVE IInv
    OBVIOUS
  <1>1. LoopTypeOK
    <2>1. 0 \in 0 .. MaxFailures + 1 /\ 0 \in 0 .. MaxConns  BY DelaysAssumption
    <2>2. link \in [Conns -> LinkStates]  BY DEF Init, LinkStates
    <2>3. \A n \in Conns : link[n] \notin {"open", "dead"}  BY DEF Init
    <2>4. QED  BY <2>1, <2>2, <2>3 DEF Init, LoopTypeOK, LoopStates
  <1>2. LoopInv  BY DelaysAssumption DEF Init, LoopInv, Conns
  <1>3. CommandTypeOK
    BY DEF Init, CommandTypeOK, CommandRecords, Unsent, CommandStates, CommandKinds, PageStates
  <1>4. CommandInv  BY DEF Init, CommandInv, Deducted, Unsent, AtConnector
  <1>5. QED  BY <1>1, <1>2, <1>3, <1>4 DEF IInv, LoopOK, CommandOK

\* The current connection changes to a state; the others are not in use.
LEMMA LinkKeeps ==
  ASSUME LoopOK, current # 0, NEW state \in LinkStates,
         link' = [link EXCEPT ![current] = state], UNCHANGED current
  PROVE  /\ link' \in [Conns -> LinkStates]
         /\ \A n \in Conns : link'[n] \in {"open", "dead"} => n = current'
         /\ state \notin {"open", "dead"}
              => \A n \in Conns : link'[n] \notin {"open", "dead"}
  BY DEF LoopOK, LoopTypeOK, Conns

LEMMA LoopKeeps ==
  ASSUME LoopOK,
         loop # "panicked" /\ (LoopStep \/ ConnBreaks \/ HeartbeatFails \/ Stop)
  PROVE  LoopOK'
  <1> USE DelaysAssumption DEF LoopStates
  <1>1. CASE LoopBegins
    BY <1>1 DEF LoopBegins, LoopOK, LoopTypeOK, LoopInv
  <1>2. CASE DialFails
    BY <1>2 DEF DialFails, LoopOK, LoopTypeOK, LoopInv
  <1>3. CASE DialSucceeds
    <2>1. /\ loop = "dialing" /\ loop' = "connected" /\ retryCount' = 0
          /\ current \in 0 .. MaxConns /\ current < MaxConns /\ current' = current + 1
          /\ link' = [link EXCEPT ![current'] = "open"] /\ UNCHANGED stopped
      BY <1>3 DEF DialSucceeds, LoopOK, LoopTypeOK
    <2>2. current' \in 0 .. MaxConns /\ current' \in Conns /\ current' # 0
      BY <2>1 DEF Conns
    <2>3. \A n \in Conns : link[n] \notin {"open", "dead"}
      BY <2>1 DEF LoopOK, LoopInv
    <2>4. link' \in [Conns -> LinkStates]
      BY <2>1 DEF LoopOK, LoopTypeOK, LinkStates
    <2>5. \A n \in Conns : link'[n] \in {"open", "dead"} => n = current'
      BY <2>1, <2>2, <2>3 DEF LoopOK, LoopTypeOK
    <2>6. QED  BY <2>1, <2>2, <2>4, <2>5 DEF LoopOK, LoopTypeOK, LoopInv
  <1>4. CASE Wakes
    BY <1>4 DEF Wakes, LoopOK, LoopTypeOK, LoopInv
  <1>5. CASE ReadFails
    <2>1. /\ loop = "connected" /\ loop' = "sleeping" /\ current # 0
          /\ link' = [link EXCEPT ![current] = "closed"]
          /\ UNCHANGED <<retryCount, current, stopped>>
      BY <1>5 DEF ReadFails, LoopOK, LoopInv
    <2>2. "closed" \in LinkStates  BY DEF LinkStates
    <2>3. /\ link' \in [Conns -> LinkStates]
          /\ \A n \in Conns : link'[n] \notin {"open", "dead"}
      BY <2>1, <2>2, LinkKeeps
    <2>4. QED  BY <2>1, <2>3 DEF LoopOK, LoopTypeOK, LoopInv
  <1>6. CASE ConnBreaks \/ HeartbeatFails
    <2>1. /\ loop = "connected" /\ UNCHANGED <<loop, retryCount, current, stopped>>
          /\ current # 0
          /\ \E state \in LinkStates : link' = [link EXCEPT ![current] = state]
      <3>1. CASE ConnBreaks
        <4>1. current \in Conns /\ link[current] = "open"
          BY <3>1 DEF ConnBreaks, Open, LoopOK, LoopTypeOK, Conns
        <4>2. loop = "connected"  BY <4>1 DEF LoopOK, LoopInv
        <4>3. QED  BY <3>1, <4>2 DEF ConnBreaks, Open, LinkStates
      <3>2. CASE HeartbeatFails
        BY <3>2 DEF HeartbeatFails, LoopOK, LoopInv, LinkStates
      <3>3. QED  BY <1>6, <3>1, <3>2
    <2>2. /\ link' \in [Conns -> LinkStates]
          /\ \A n \in Conns : link'[n] \in {"open", "dead"} => n = current'
      BY <2>1, LinkKeeps
    <2>3. QED  BY <2>1, <2>2 DEF LoopOK, LoopTypeOK, LoopInv
  <1>7. CASE Stop
    <2>1. stopped' = TRUE /\ UNCHANGED <<loop, retryCount, current>>
      BY <1>7 DEF Stop
    <2>2. /\ link' \in [Conns -> LinkStates]
          /\ \A n \in Conns : link'[n] \notin {"open", "dead"}
      <3>1. CASE current = 0
        BY <1>7, <3>1 DEF Stop, LoopOK, LoopTypeOK, Conns
      <3>2. CASE current # 0
        <4>1. "closed" \in LinkStates /\ link' = [link EXCEPT ![current] = "closed"]
          BY <1>7, <3>2 DEF Stop, LinkStates
        <4>2. QED  BY <2>1, <3>2, <4>1, LinkKeeps
      <3>3. QED  BY <3>1, <3>2
    <2>3. QED  BY <1>7, <2>1, <2>2 DEF Stop, LoopOK, LoopTypeOK, LoopInv
  <1>8. QED
    BY <1>1, <1>2, <1>3, <1>4, <1>5, <1>6, <1>7 DEF LoopStep

-----------------------------------------------------------------------------
(* The commands *)

\* One command changes, and what is kept of it: to new values in agreement.
LEMMA CommandMoves ==
  ASSUME CommandOK, NEW c \in Commands, NEW new \in CommandRecords,
         NEW state \in PageStates, NEW n \in Nat, NEW a \in {0, 1},
         Deducted(new, state, n),
         new.pc # "done" => a = 0,
         command' = [command EXCEPT ![c] = new],
         page' = [page EXCEPT ![c] = state],
         charged' = [charged EXCEPT ![c] = n],
         answers' = [answers EXCEPT ![c] = a]
  PROVE  CommandOK'
  <1>1. CommandTypeOK'  BY DEF CommandOK, CommandTypeOK
  <1>2. ASSUME NEW d \in Commands, d # c
        PROVE  /\ command'[d] = command[d] /\ page'[d] = page[d]
               /\ charged'[d] = charged[d] /\ answers'[d] = answers[d]
    BY <1>2 DEF CommandOK, CommandTypeOK
  <1>3. command'[c] = new /\ page'[c] = state /\ charged'[c] = n /\ answers'[c] = a
    BY DEF CommandOK, CommandTypeOK
  <1>4. CommandInv'  BY <1>2, <1>3 DEF CommandOK, CommandInv
  <1>5. QED  BY <1>1, <1>4 DEF CommandOK

\* What a command is before its step, as values
LEMMA CommandIs ==
  ASSUME CommandOK, NEW c \in Commands
  PROVE  \E old \in CommandRecords, state \in PageStates, n \in Nat, a \in {0, 1} :
           /\ command[c] = old /\ page[c] = state /\ charged[c] = n /\ answers[c] = a
           /\ Deducted(old, state, n)
           /\ old.pc # "done" => a = 0
  <1>1. command[c] \in CommandRecords /\ page[c] \in PageStates /\ charged[c] \in Nat
    BY DEF CommandOK, CommandTypeOK
  <1>2. PICK a \in Nat : answers[c] = a  BY DEF CommandOK, CommandTypeOK
  <1>3. answers[c] \in {0, 1}  BY <1>2 DEF CommandOK, CommandInv
  <1>4. /\ Deducted(command[c], page[c], charged[c])
        /\ command[c].pc # "done" => answers[c] = 0
    BY DEF CommandOK, CommandInv
  <1>5. QED  BY <1>1, <1>3, <1>4

\* What a check of the licence deducts: one or nothing, and one when it permits
LEMMA CheckDeducts ==
  ASSUME NEW c \in Commands, NEW n \in Nat, charged \in [Commands -> Nat], charged[c] = n,
         NEW deducted \in BOOLEAN, NEW allowed \in BOOLEAN, allowed => deducted,
         charged' = [charged EXCEPT ![c] = IF deducted THEN @ + 1 ELSE @]
  PROVE  \E m \in Nat : /\ charged' = [charged EXCEPT ![c] = m]
                        /\ n <= m /\ m <= n + 1
                        /\ allowed => m = n + 1
  <1>1. CASE deducted
    <2>1. PICK m \in Nat : m = n + 1  OBVIOUS
    <2>2. charged' = [charged EXCEPT ![c] = m]  BY <1>1, <2>1
    <2>3. n <= m /\ m <= n + 1 /\ (allowed => m = n + 1)  BY <2>1
    <2>4. QED  BY <2>2, <2>3
  <1>2. CASE ~deducted
    <2>1. charged' = [charged EXCEPT ![c] = n]  BY <1>2
    <2>2. ~allowed /\ n <= n /\ n <= n + 1  BY <1>2
    <2>3. QED  BY <2>1, <2>2
  <1>3. QED  BY <1>1, <1>2

LEMMA CommandKeeps ==
  ASSUME CommandOK, NEW c \in Commands, CommandArrives(c) \/ CommandStep(c)
  PROVE  CommandOK'
  <1>1. PICK old \in CommandRecords, state \in PageStates, n \in Nat, a \in {0, 1} :
          /\ command[c] = old /\ page[c] = state /\ charged[c] = n /\ answers[c] = a
          /\ Deducted(old, state, n)
          /\ old.pc # "done" => a = 0
    BY CommandIs
  <1>2. /\ command \in [Commands -> CommandRecords] /\ page \in [Commands -> PageStates]
        /\ charged \in [Commands -> Nat] /\ answers \in [Commands -> Nat]
    BY DEF CommandOK, CommandTypeOK
  <1>3. /\ UNCHANGED page => page' = [page EXCEPT ![c] = state]
        /\ UNCHANGED charged => charged' = [charged EXCEPT ![c] = n]
        /\ UNCHANGED answers => answers' = [answers EXCEPT ![c] = a]
    BY <1>1, <1>2
  <1>4. ASSUME NEW pc \in CommandStates
        PROVE  [old EXCEPT !.pc = pc] \in CommandRecords
    BY DEF CommandRecords
  <1>5. CASE CommandArrives(c)
    <2>1. PICK kind \in Kinds :
            command' = [command EXCEPT ![c].pc = "received", ![c].kind = kind]
      BY <1>5 DEF CommandArrives
    <2> DEFINE new == [old EXCEPT !.pc = "received", !.kind = kind]
    <2>2. new \in CommandRecords /\ new.pc = "received" /\ new.kind = kind
      BY KindsAssumption DEF CommandRecords, CommandStates
    <2>3. command' = [command EXCEPT ![c] = new]  BY <1>1, <1>2, <2>1
    <2>4. old.pc = "unsent" /\ UNCHANGED <<page, charged, answers>>
      BY <1>1, <1>5 DEF CommandArrives
    <2> HIDE DEF new
    <2>5. Deducted(new, state, n)
      BY <1>1, <2>2, <2>4 DEF Deducted, AtConnector
    <2>6. a = 0  BY <1>1, <2>4
    <2>7. QED  BY <1>3, <2>2, <2>3, <2>4, <2>5, <2>6, CommandMoves
  <1>6. CASE CommandChecked(c)
    <2>1. PICK pc \in {"consuming", "answering", "mapping"} :
            /\ command' = [command EXCEPT ![c].pc = pc]
            /\ HelperEnabled /\ old.kind \in Checked => pc # "mapping"
            /\ ~(HelperEnabled /\ old.kind \in Checked) => pc = "mapping"
      BY <1>1, <1>6 DEF CommandChecked
    <2> DEFINE new == [old EXCEPT !.pc = pc]
    <2>2. new \in CommandRecords /\ new.pc = pc /\ new.kind = old.kind
      BY DEF CommandRecords, CommandStates
    <2>3. command' = [command EXCEPT ![c] = new]  BY <1>1, <1>2, <2>1
    <2>4. old.pc = "received" /\ UNCHANGED <<page, charged, answers>>
      BY <1>1, <1>6 DEF CommandChecked
    <2> HIDE DEF new
    <2>5. Deducted(new, state, n)
      BY <1>1, <2>1, <2>2, <2>4 DEF Deducted, AtConnector
    <2>6. a = 0  BY <1>1, <2>4
    <2>7. QED  BY <1>3, <2>2, <2>3, <2>4, <2>5, <2>6, CommandMoves
  <1>7. CASE ConsumeEnds(c)
    <2>1. PICK deducted \in BOOLEAN, allowed \in BOOLEAN :
            /\ allowed => deducted
            /\ charged' = [charged EXCEPT ![c] = IF deducted THEN @ + 1 ELSE @]
            /\ command' = [command EXCEPT ![c].pc = IF allowed THEN "mapping" ELSE "answering"]
      BY <1>7 DEF ConsumeEnds
    <2>2. old.pc = "consuming" /\ UNCHANGED <<page, answers>>
      BY <1>1, <1>7 DEF ConsumeEnds
    <2>3. PICK m \in Nat : /\ charged' = [charged EXCEPT ![c] = m]
                           /\ n <= m /\ m <= n + 1
                           /\ allowed => m = n + 1
      BY <1>1, <1>2, <2>1, CheckDeducts
    <2>4. PICK pc \in {"mapping", "answering"} :
            /\ command' = [command EXCEPT ![c].pc = pc]
            /\ pc = "mapping" => allowed
      BY <2>1
    <2> DEFINE new == [old EXCEPT !.pc = pc]
    <2>5. new \in CommandRecords /\ new.pc = pc /\ new.kind = old.kind
      BY DEF CommandRecords, CommandStates
    <2>6. command' = [command EXCEPT ![c] = new]  BY <1>1, <1>2, <2>4
    <2> HIDE DEF new
    <2>7. Deducted(new, state, m)
      BY <1>1, <2>2, <2>3, <2>4, <2>5 DEF Deducted, AtConnector
    <2>8. a = 0  BY <1>1, <2>2
    <2>9. QED  BY <1>3, <2>2, <2>3, <2>5, <2>6, <2>7, <2>8, CommandMoves
  <1>8. CASE CommandMapped(c)
    <2>1. PICK pc \in {"calling", "answering"}, now \in {state, "called"} :
            /\ command' = [command EXCEPT ![c].pc = pc]
            /\ page' = [page EXCEPT ![c] = now]
            /\ now # state => pc = "calling" /\ old.kind \in Downloads
      <3>1. CASE old.kind \in Served /\ old.kind \in Downloads
        BY <1>1, <1>8, <3>1 DEF CommandMapped, Called
      <3>2. CASE old.kind \in Served /\ old.kind \notin Downloads
        BY <1>1, <1>3, <1>8, <3>2 DEF CommandMapped, Called
      <3>3. CASE old.kind \notin Served
        BY <1>1, <1>3, <1>8, <3>3 DEF CommandMapped
      <3>4. QED  BY <3>1, <3>2, <3>3
    <2>2. old.pc = "mapping" /\ UNCHANGED <<charged, answers>>
      BY <1>1, <1>8 DEF CommandMapped
    <2> DEFINE new == [old EXCEPT !.pc = pc]
    <2>3. new \in CommandRecords /\ new.pc = pc /\ new.kind = old.kind
      BY DEF CommandRecords, CommandStates
    <2>4. command' = [command EXCEPT ![c] = new]  BY <1>1, <1>2, <2>1
    <2>5. now \in PageStates  BY DEF PageStates
    <2> HIDE DEF new
    <2>6. Deducted(new, now, n)
      BY <1>1, <2>1, <2>2, <2>3 DEF Deducted, AtConnector
    <2>7. a = 0  BY <1>1, <2>2
    <2>8. QED  BY <1>3, <2>1, <2>2, <2>3, <2>4, <2>5, <2>6, <2>7, CommandMoves
  <1>9. CASE PageAnswers(c)
    <2>1. /\ command' = [command EXCEPT ![c].pc = "answering"]
          /\ old.pc = "calling" /\ UNCHANGED <<page, charged, answers>>
      BY <1>1, <1>9 DEF PageAnswers
    <2> DEFINE new == [old EXCEPT !.pc = "answering"]
    <2>2. new \in CommandRecords /\ new.pc = "answering" /\ new.kind = old.kind
      BY DEF CommandRecords, CommandStates
    <2>3. command' = [command EXCEPT ![c] = new]  BY <1>1, <1>2, <2>1
    <2> HIDE DEF new
    <2>4. Deducted(new, state, n)
      BY <1>1, <2>1, <2>2 DEF Deducted, AtConnector
    <2>5. a = 0  BY <1>1, <2>1
    <2>6. QED  BY <1>3, <2>1, <2>2, <2>3, <2>4, <2>5, CommandMoves
  <1>10. CASE CommandAnswered(c)
    <2>1. /\ command' = [command EXCEPT ![c].pc = "done"]
          /\ old.pc = "answering" /\ UNCHANGED <<page, charged>>
          /\ answers' = IF Open THEN [answers EXCEPT ![c] = @ + 1] ELSE answers
      BY <1>1, <1>10 DEF CommandAnswered
    <2>2. PICK b \in {0, 1} : answers' = [answers EXCEPT ![c] = b]
      <3>1. CASE Open
        <4>1. answers' = [answers EXCEPT ![c] = 1]  BY <1>1, <2>1, <3>1
        <4>2. QED  BY <4>1
      <3>2. CASE ~Open
        BY <1>1, <1>3, <2>1, <3>2
      <3>3. QED  BY <3>1, <3>2
    <2> DEFINE new == [old EXCEPT !.pc = "done"]
    <2>3. new \in CommandRecords /\ new.pc = "done" /\ new.kind = old.kind
      BY DEF CommandRecords, CommandStates
    <2>4. command' = [command EXCEPT ![c] = new]  BY <1>1, <1>2, <2>1
    <2> HIDE DEF new
    <2>5. Deducted(new, state, n)
      BY <1>1, <2>1, <2>3 DEF Deducted, AtConnector
    <2>6. QED  BY <1>3, <2>1, <2>2, <2>3, <2>4, <2>5, CommandMoves
  <1>11. QED  BY <1>5, <1>6, <1>7, <1>8, <1>9, <1>10 DEF CommandStep

\* The page's request is checked by itself: what it adds to the deductions does
\* not depend on how the connector let the command through.
LEMMA PageKeeps ==
  ASSUME CommandOK, NEW c \in Commands, PageStep(c)
  PROVE  CommandOK'
  <1>1. PICK old \in CommandRecords, state \in PageStates, n \in Nat, a \in {0, 1} :
          /\ command[c] = old /\ page[c] = state /\ charged[c] = n /\ answers[c] = a
          /\ Deducted(old, state, n)
          /\ old.pc # "done" => a = 0
    BY CommandIs
  <1>2. /\ command \in [Commands -> CommandRecords] /\ page \in [Commands -> PageStates]
        /\ charged \in [Commands -> Nat] /\ answers \in [Commands -> Nat]
    BY DEF CommandOK, CommandTypeOK
  <1>3. UNCHANGED <<command, answers>>
    BY DEF PageStep, PagePosts, HandlerConsumes
  <1>4. command' = [command EXCEPT ![c] = old] /\ answers' = [answers EXCEPT ![c] = a]
    BY <1>1, <1>2, <1>3
  <1>5. CASE PagePosts(c)
    <2>1. PICK now \in {"posted", "admitted"} :
            page' = [page EXCEPT ![c] = now] /\ (HelperEnabled => now = "posted")
      BY <1>5 DEF PagePosts
    <2>2. state = "called" /\ charged' = [charged EXCEPT ![c] = n]
      BY <1>1, <1>2, <1>5 DEF PagePosts
    <2>3. now \in PageStates  BY DEF PageStates
    <2>4. Deducted(old, now, n)
      BY <1>1, <2>1, <2>2 DEF Deducted, AtConnector
    <2>5. QED  BY <1>1, <1>4, <2>1, <2>2, <2>3, <2>4, CommandMoves
  <1>6. CASE HandlerConsumes(c)
    <2>1. PICK deducted \in BOOLEAN, allowed \in BOOLEAN :
            /\ allowed => deducted
            /\ charged' = [charged EXCEPT ![c] = IF deducted THEN @ + 1 ELSE @]
            /\ page' = [page EXCEPT ![c] = IF allowed THEN "admitted" ELSE "refused"]
      BY <1>6 DEF HandlerConsumes
    <2>2. state = "posted"  BY <1>1, <1>6 DEF HandlerConsumes
    <2>3. PICK m \in Nat : /\ charged' = [charged EXCEPT ![c] = m]
                           /\ n <= m /\ m <= n + 1
                           /\ allowed => m = n + 1
      BY <1>1, <1>2, <2>1, CheckDeducts
    <2>4. PICK now \in {"admitted", "refused"} :
            page' = [page EXCEPT ![c] = now] /\ (now = "admitted" => allowed)
      BY <2>1
    <2>5. now \in PageStates  BY DEF PageStates
    <2>6. Deducted(old, now, m)
      BY <1>1, <2>2, <2>3, <2>4 DEF Deducted, AtConnector
    <2>7. QED  BY <1>1, <1>4, <2>3, <2>4, <2>5, <2>6, CommandMoves
  <1>7. QED  BY <1>5, <1>6 DEF PageStep

-----------------------------------------------------------------------------
(* The theorems *)

LEMMA NextKeeps == IInv /\ [Next]_vars => IInv'
  <1> SUFFICES ASSUME IInv, [Next]_vars PROVE IInv'
    OBVIOUS
  <1>1. ASSUME loop # "panicked", LoopStep \/ ConnBreaks \/ HeartbeatFails \/ Stop
        PROVE  IInv'
    <2>1. UNCHANGED <<command, page, charged, answers>>
      BY <1>1 DEF LoopStep, LoopBegins, DialFails, DialSucceeds, Wakes, ReadFails, ConnBreaks,
                  HeartbeatFails, Stop, unchangedCommands
    <2>2. CommandOK'  BY <2>1 DEF IInv, CommandOK, CommandTypeOK, CommandInv
    <2>3. LoopOK'  BY <1>1, LoopKeeps DEF IInv
    <2>4. QED  BY <2>2, <2>3 DEF IInv
  <1>2. ASSUME NEW c \in Commands, CommandArrives(c) \/ CommandStep(c) \/ PageStep(c)
        PROVE  IInv'
    <2>1. UNCHANGED <<loop, retryCount, current, link, stopped>>
      BY <1>2 DEF CommandStep, CommandArrives, CommandChecked, ConsumeEnds, CommandMapped,
                  PageAnswers, CommandAnswered, PageStep, PagePosts, HandlerConsumes, unchangedLoop
    <2>2. LoopOK'  BY <2>1 DEF IInv, LoopOK, LoopTypeOK, LoopInv
    <2>3. CommandOK'  BY <1>2, CommandKeeps, PageKeeps DEF IInv
    <2>4. QED  BY <2>2, <2>3 DEF IInv
  <1>3. CASE UNCHANGED vars
    BY <1>3 DEF vars, IInv, LoopOK, LoopTypeOK, LoopInv, CommandOK, CommandTypeOK, CommandInv
  <1>4. QED  BY <1>1, <1>2, <1>3 DEF Next

LEMMA Invariant == Spec => []IInv
  BY InitHolds, NextKeeps, PTL DEF Spec

\* The loop, its connections and the commands keep their types; in particular
\* one connection at most is in use, however often the loop dials again while
\* Stop or a heartbeat closes the one before.
THEOREM ConnectorTypeCorrect == Spec => []TypeOK
  <1>1. IInv => TypeOK  BY TypeParts DEF IInv, LoopOK, CommandOK
  <1>2. QED  BY <1>1, Invariant, PTL

\* A download the cloud asks for is admitted only when the site has deducted it
\* at every check on its way, and it is never deducted more often: whatever
\* answers of the site are lost, and whichever check its command avoids.
THEOREM CloudDownloadsAreLicensed == Spec => []DownloadsAreLicensed
  <1>1. IInv => DownloadsAreLicensed
    <2> SUFFICES ASSUME IInv, HelperEnabled, NEW c \in Commands
                 PROVE  /\ charged[c] <= Checks(command[c].kind)
                        /\ page[c] = "admitted"
                             => charged[c] = Checks(command[c].kind) /\ charged[c] > 0
      BY DEF DownloadsAreLicensed
    <2>1. PICK old \in CommandRecords, state \in PageStates, n \in Nat, a \in {0, 1} :
            /\ command[c] = old /\ page[c] = state /\ charged[c] = n /\ answers[c] = a
            /\ Deducted(old, state, n)
            /\ old.pc # "done" => a = 0
      BY CommandIs DEF IInv
    <2>2. state # "none" => old.kind \in Downloads /\ Checks(old.kind) = AtConnector(old.kind) + 1
      BY <2>1 DEF Deducted, Downloads, Checked, Checks, AtConnector
    <2>3. AtConnector(old.kind) <= Checks(old.kind) /\ AtConnector(old.kind) \in Nat
      BY DEF Checked, Checks, AtConnector
    <2>4. n <= Checks(old.kind)
      <3>1. PICK k \in Nat, m \in Nat : k = AtConnector(old.kind) /\ m = Checks(old.kind)
        BY <2>3 DEF Checks
      <3>2. CASE state = "none"  BY <2>1, <2>3, <3>1, <3>2 DEF Deducted
      <3>3. CASE state # "none"  BY <2>1, <2>2, <3>1, <3>3 DEF Deducted, PageStates
      <3>4. QED  BY <3>2, <3>3
    <2>5. state = "admitted" => n = Checks(old.kind) /\ n > 0
      BY <2>1, <2>2, <2>3 DEF Deducted
    <2>6. QED  BY <2>1, <2>4, <2>5
  <1>2. QED  BY <1>1, Invariant, PTL

\* A command gets one answer at most, over all connections, and none before it
\* is done.
THEOREM CommandsAnsweredOnce == Spec => []AnsweredOnce
  <1>1. IInv => AnsweredOnce
    BY DEF IInv, CommandOK, CommandInv, AnsweredOnce
  <1>2. QED  BY <1>1, Invariant, PTL

\* Once the loop has ended it never dials again and has left no connection: so
\* nothing but its reaching that end, which is a matter of fairness, is needed
\* for Stop to be for good.  No dial, break, heartbeat or late command undoes it.
THEOREM StopIsForGood == Spec => ((stopped ~> loop = "ended") => StopsForGood)
  <1> DEFINE Left == \A n \in Conns : link[n] \in {"none", "closed"}
             Ended == loop = "ended"
             EndedForGood == Ended /\ Left
  <1>1. IInv /\ Ended => Left
    BY DEF IInv, LoopOK, LoopInv, LoopTypeOK, LinkStates
  <1>2. IInv /\ [Next]_vars /\ Ended => Ended'
    <2> SUFFICES ASSUME IInv, [Next]_vars, Ended PROVE loop' = "ended"
      OBVIOUS
    <2>1. ASSUME LoopStep  PROVE  FALSE
      BY <2>1 DEF LoopStep, LoopBegins, DialFails, DialSucceeds, Wakes, ReadFails
    <2>2. ASSUME NEW c \in Commands, CommandArrives(c) \/ CommandStep(c) \/ PageStep(c)
          PROVE  UNCHANGED loop
      BY <2>2 DEF CommandStep, CommandArrives, CommandChecked, ConsumeEnds, CommandMapped,
                  PageAnswers, CommandAnswered, PageStep, PagePosts, HandlerConsumes, unchangedLoop
    <2>3. QED  BY <2>1, <2>2 DEF Next, vars, ConnBreaks, HeartbeatFails, Stop
  <1>3. StopsForGood <=> (stopped ~> []EndedForGood)
    BY PTL DEF StopsForGood
  <1> HIDE DEF Left, Ended
  <1>4. QED  BY <1>1, <1>2, <1>3, Invariant, PTL DEF Spec, Ended
=============================================================================
