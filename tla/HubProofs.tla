----------------------------- MODULE HubProofs -----------------------------
(***************************************************************************)
(* For every number of calls, pages and workers and every size of the      *)
(* buffers: a call gets its own answer or none, and the hub's tables are   *)
(* exactly the calls in flight, whatever pages leave and whenever answers  *)
(* come.                                                                   *)
(***************************************************************************)
EXTENDS Hub, TLAPS, FiniteSetTheorems, SequenceTheorems

Sent == {"waiting", "returning", "deregistered", "done"}

\* The requests, and answers, there may be among the calls cs: each carries
\* the id its call was given.
MessagesOf(cs) == {m \in Messages : cs[m.of].pc \in Sent /\ m.id = cs[m.of].id}

\* The connections there may be among the calls cs.
PagesOf(cs) ==
  [conn : {"away", "up", "down"},
   reader : {"none", "reading", "answering", "draining", "gone"},
   closed : BOOLEAN, ready : BOOLEAN, load : Nat,
   send : Seq(MessagesOf(cs)), msgChan : Seq(MessagesOf(cs))]

AnswerRecords == [waiter : SUBSET Calls, of : Calls \cup {NoCall}]

\* No two requests share an id, so that an id is one call's for ever.
CallsOK ==
  /\ call \in [Calls -> CallRecords] /\ reqSeq \in Nat
  /\ \A c \in Calls : call[c].pc # "idle" => call[c].page \in Pages
  /\ \A c \in Calls : call[c].pc \in Sent => call[c].id \in 1 .. reqSeq
  /\ \A c, d \in Calls :
       call[c].pc \in Sent /\ call[d].pc \in Sent /\ call[c].id = call[d].id => c = d
  /\ AnswersMatch

\* What is in a call's channel is for that call.
ChansOK == \A c \in Calls : chan[c] \in Seq({c}) /\ Len(chan[c]) <= 2

PagesOK ==
  /\ clients \subseteq Pages
  /\ page \in [Pages -> PagesOf(call)]
  /\ \A p \in Pages : /\ Len(page[p].send) <= SendBuffer
                      /\ Len(page[p].msgChan) <= QueueSize

\* The only waiter an answer can have found is the call it answers.
AnswersOK ==
  /\ answering \in [Pages -> [Goroutines -> AnswerRecords]]
  /\ \A p \in Pages, g \in Goroutines :
       answering[p][g].waiter \subseteq {answering[p][g].of}

AskedOK == asked \subseteq MessagesOf(call)

ChanFunction == chan = [c \in Calls |-> chan[c]]

Flight(p, cs) == {c \in Calls : cs[c].page = p /\ cs[c].pc \in InFlight}

LoadOK ==
  \A p \in Pages :
    IsFiniteSet(Flight(p, call)) /\ page[p].load = Cardinality(Flight(p, call))

IInv ==
  /\ CallsOK /\ TableIsCalls /\ ChansOK /\ ChanFunction
  /\ PagesOK /\ AnswersOK /\ AskedOK /\ LoadOK

-----------------------------------------------------------------------------
(* Bounded queues *)

LEMMA AppendFits ==
  ASSUME NEW S, NEW s \in Seq(S), NEW e \in S, NEW n \in Nat, Len(s) < n
  PROVE  Append(s, e) \in Seq(S) /\ Len(Append(s, e)) <= n
  <1>1. Append(s, e) \in Seq(S) /\ Len(Append(s, e)) = Len(s) + 1
    BY AppendProperties
  <1>2. PICK k \in Nat : k = Len(s)  BY LenProperties
  <1>3. k + 1 <= n  BY <1>2
  <1>4. QED  BY <1>1, <1>2, <1>3

LEMMA TailFits ==
  ASSUME NEW S, NEW s \in Seq(S), s # <<>>, NEW n \in Nat, Len(s) <= n
  PROVE  Head(s) \in S /\ Tail(s) \in Seq(S) /\ Len(Tail(s)) <= n
  <1>1. Head(s) \in S /\ Tail(s) \in Seq(S) /\ Len(Tail(s)) = Len(s) - 1
    BY HeadTailProperties
  <1>2. PICK k \in Nat : k = Len(s)  BY LenProperties
  <1>3. k - 1 <= n  BY <1>2
  <1>4. QED  BY <1>1, <1>2, <1>3

LEMMA NoneFits ==
  ASSUME NEW S, NEW n \in Nat
  PROVE  <<>> \in Seq(S) /\ Len(<<>>) <= n
  BY EmptySeq

LEMMA Sizes == SendBuffer \in Nat /\ QueueSize \in Nat
  BY HubAssumption

-----------------------------------------------------------------------------
(* The parts that one kind of step leaves alone *)

\* As calls go on, their requests stay theirs.
LEMMA PagesGrow ==
  ASSUME NEW cs, NEW ds, MessagesOf(cs) \subseteq MessagesOf(ds)
  PROVE  PagesOf(cs) \subseteq PagesOf(ds)
  <1>1. Seq(MessagesOf(cs)) \subseteq Seq(MessagesOf(ds))  BY SeqMonotonic
  <1>2. QED  BY <1>1 DEF PagesOf

LEMMA PagesKeep ==
  ASSUME PagesOK, MessagesOf(call) \subseteq MessagesOf(call'), UNCHANGED <<page, clients>>
  PROVE  PagesOK'
  <1>1. PagesOf(call) \subseteq PagesOf(call')  BY PagesGrow
  <1>2. QED  BY <1>1 DEF PagesOK

\* A page changes, and no call.
LEMMA PageMoves ==
  ASSUME IInv, NEW p \in Pages, NEW new \in PagesOf(call),
         new.load = page[p].load,
         Len(new.send) <= SendBuffer, Len(new.msgChan) <= QueueSize,
         page' = [page EXCEPT ![p] = new],
         clients' \subseteq Pages, UNCHANGED <<call, requests, reqSeq>>
  PROVE  CallsOK' /\ TableIsCalls' /\ PagesOK' /\ LoadOK'
  <1>1. PagesOK'  BY DEF IInv, PagesOK
  <1>2. CallsOK' /\ TableIsCalls'
    BY DEF IInv, CallsOK, AnswersMatch, TableIsCalls
  <1>3. \A q \in Pages : page'[q].load = page[q].load
    BY DEF IInv, PagesOK
  <1>4. LoadOK'  BY <1>3 DEF IInv, LoadOK, Flight
  <1>5. QED  BY <1>1, <1>2, <1>4

\* A call that keeps its id, and has been sent or not as before, takes nothing
\* from the requests there may be.
LEMMA CallMoves ==
  ASSUME IInv, NEW c \in Calls, NEW new \in CallRecords,
         new.id = call[c].id,
         call[c].pc \in Sent <=> new.pc \in Sent,
         new.pc # "idle" => new.page \in Pages,
         new.answer \in {NoCall, c},
         call' = [call EXCEPT ![c] = new], UNCHANGED reqSeq
  PROVE  CallsOK' /\ MessagesOf(call) \subseteq MessagesOf(call')
  <1>1. /\ call' \in [Calls -> CallRecords] /\ call'[c] = new
        /\ \A d \in Calls : d # c => call'[d] = call[d]
    BY DEF IInv, CallsOK
  <1>2. \A d \in Calls : call'[d].id = call[d].id /\ (call'[d].pc \in Sent <=> call[d].pc \in Sent)
    BY <1>1
  <1>3. MessagesOf(call) \subseteq MessagesOf(call')
    BY <1>2 DEF MessagesOf, Messages
  <1>4. CallsOK'
    BY <1>1, <1>2 DEF IInv, CallsOK, AnswersMatch
  <1>5. QED  BY <1>3, <1>4

\* Nobody joins or leaves the calls in flight.
LEMMA LoadKeeps ==
  ASSUME IInv, NEW c \in Calls, NEW new \in CallRecords,
         call' = [call EXCEPT ![c] = new], UNCHANGED page,
         call[c].pc \in InFlight <=> new.pc \in InFlight,
         new.pc \in InFlight => new.page = call[c].page
  PROVE  LoadOK'
  <1>1. \A p \in Pages : Flight(p, call') = Flight(p, call)
    BY DEF IInv, CallsOK, Flight
  <1>2. QED  BY <1>1 DEF IInv, LoadOK

\* Nobody joins or leaves the calls that wait for an answer.
LEMMA TableKeeps ==
  ASSUME IInv, NEW c \in Calls, NEW new \in CallRecords,
         call' = [call EXCEPT ![c] = new], UNCHANGED requests,
         call[c].pc \in Registered <=> new.pc \in Registered,
         new.id = call[c].id
  PROVE  TableIsCalls'
  <1>1. \A d \in Calls : call'[d].id = call[d].id
                         /\ (call'[d].pc \in Registered <=> call[d].pc \in Registered)
    BY DEF IInv, CallsOK
  <1>2. QED  BY <1>1 DEF IInv, TableIsCalls

-----------------------------------------------------------------------------
(* The calls *)

LEMMA InitHolds == Init => IInv
  <1> SUFFICES ASSUME Init PROVE IInv
    OBVIOUS
  <1>1. CallsOK
    BY DEF Init, CallsOK, CallRecords, Idle, InFlight, Registered, Sent, AnswersMatch
  <1>2. TableIsCalls
    BY DEF Init, TableIsCalls, Idle, Registered
  <1>3. ChansOK /\ ChanFunction
    BY DEF Init, ChansOK, ChanFunction
  <1>4. PagesOK
    <2>1. Away \in PagesOf(call)  BY DEF Away, PagesOf
    <2>2. Len(Away.send) = 0 /\ Len(Away.msgChan) = 0  BY DEF Away
    <2>3. QED  BY <2>1, <2>2, HubAssumption DEF Init, PagesOK
  <1>5. AnswersOK
    BY DEF Init, AnswersOK, AnswerRecords, NoAnswer
  <1>6. AskedOK  BY DEF Init, AskedOK
  <1>7. LoadOK
    <2>1. \A p \in Pages : Flight(p, call) = {}
      BY DEF Init, Flight, Idle, InFlight, Registered
    <2>2. \A p \in Pages : page[p].load = 0  BY DEF Init, Away
    <2>3. QED  BY <2>1, <2>2, FS_EmptySet DEF LoadOK
  <1>8. QED  BY <1>1, <1>2, <1>3, <1>4, <1>5, <1>6, <1>7 DEF IInv

\* What every step of a call but its sending leaves of the pages' side.
LEMMA OthersKeep ==
  ASSUME IInv, MessagesOf(call) \subseteq MessagesOf(call'),
         UNCHANGED <<answering, asked>>
  PROVE  AnswersOK' /\ AskedOK'
  BY DEF IInv, AnswersOK, AskedOK

LEMMA CallSelectsKeeps ==
  ASSUME IInv, NEW c \in Calls, CallSelects(c)
  PROVE  IInv'
  <1>1. PICK p \in Pages :
          call' = [call EXCEPT ![c].pc = "selected", ![c].page = p]
    BY DEF CallSelects, LeastLoaded, Ready, IInv, PagesOK
  <1>2. PICK old \in CallRecords : call[c] = old
    BY DEF IInv, CallsOK
  <1>3. old.pc = "idle" /\ old.answer \in {NoCall, c}
    BY <1>2 DEF CallSelects, IInv, CallsOK, AnswersMatch
  <1> DEFINE new == [old EXCEPT !.pc = "selected", !.page = p]
  <1>4. /\ new \in CallRecords /\ new.pc = "selected" /\ new.page = p
        /\ new.id = old.id /\ new.answer = old.answer
    BY DEF CallRecords
  <1>5. call' = [call EXCEPT ![c] = new]
    BY <1>1, <1>2 DEF IInv, CallsOK
  <1> HIDE DEF new
  <1>6. UNCHANGED <<chan, requests, reqSeq, clients, page, answering, asked>>
    BY DEF CallSelects
  <1>7. CallsOK' /\ MessagesOf(call) \subseteq MessagesOf(call')
    BY <1>2, <1>3, <1>4, <1>5, <1>6, CallMoves DEF Sent
  <1>8. TableIsCalls'
    BY <1>2, <1>3, <1>4, <1>5, <1>6, TableKeeps DEF Registered
  <1>9. LoadOK'
    BY <1>2, <1>3, <1>4, <1>5, <1>6, LoadKeeps DEF Registered, InFlight
  <1>10. PagesOK' /\ AnswersOK' /\ AskedOK'
    BY <1>6, <1>7, PagesKeep, OthersKeep DEF IInv
  <1>11. ChansOK' /\ ChanFunction'  BY <1>6 DEF IInv, ChansOK, ChanFunction
  <1>12. QED  BY <1>7, <1>8, <1>9, <1>10, <1>11 DEF IInv

\* Giving up, or taking an answer, which is the call's own.
LEMMA CallReturnsKeeps ==
  ASSUME IInv, NEW c \in Calls, CallReceives(c) \/ CallTimesOut(c)
  PROVE  IInv'
  <1>1. PICK old \in CallRecords : call[c] = old
    BY DEF IInv, CallsOK
  <1>2. /\ old.pc = "waiting" /\ old.answer \in {NoCall, c} /\ old.page \in Pages
        /\ UNCHANGED <<requests, reqSeq, clients, page, answering, asked>>
    BY <1>1 DEF CallReceives, CallTimesOut, IInv, CallsOK, AnswersMatch
  <1>3. chan[c] \in Seq({c}) /\ Len(chan[c]) <= 2 /\ ChanFunction
    BY DEF IInv, ChansOK
  <1>4. /\ \E answer \in {NoCall, c} :
             call' = [call EXCEPT ![c] = [old EXCEPT !.pc = "returning", !.answer = answer]]
        /\ ChansOK' /\ ChanFunction'
    <2>1. CASE CallReceives(c)
      <3>1. /\ chan[c] # <<>> /\ chan' = [chan EXCEPT ![c] = Tail(chan[c])]
            /\ call' = [call EXCEPT ![c].pc = "returning", ![c].answer = Head(chan[c])]
        BY <2>1 DEF CallReceives
      <3>2. Head(chan[c]) \in {c} /\ Tail(chan[c]) \in Seq({c}) /\ Len(Tail(chan[c])) <= 2
        BY <1>3, <3>1, TailFits
      <3>3. PICK rest \in Seq({c}) : chan' = [chan EXCEPT ![c] = rest] /\ Len(rest) <= 2
        BY <3>1, <3>2
      <3>4. ChansOK' /\ ChanFunction'
        BY <1>3, <3>3 DEF IInv, ChansOK, ChanFunction
      <3>5. call' = [call EXCEPT ![c] = [old EXCEPT !.pc = "returning", !.answer = c]]
        BY <1>1, <3>1, <3>2 DEF IInv, CallsOK
      <3>6. QED  BY <3>4, <3>5
    <2>2. CASE CallTimesOut(c)
      <3>1. call' = [call EXCEPT ![c] = [old EXCEPT !.pc = "returning", !.answer = old.answer]]
        BY <1>1, <2>2 DEF CallTimesOut, IInv, CallsOK, CallRecords
      <3>2. UNCHANGED chan  BY <2>2 DEF CallTimesOut
      <3>3. QED  BY <1>2, <3>1, <3>2 DEF IInv, ChansOK, ChanFunction
    <2>3. QED  BY <2>1, <2>2
  <1>5. PICK answer \in {NoCall, c} :
          call' = [call EXCEPT ![c] = [old EXCEPT !.pc = "returning", !.answer = answer]]
    BY <1>4
  <1> DEFINE new == [old EXCEPT !.pc = "returning", !.answer = answer]
  <1>6. /\ new \in CallRecords /\ new.pc = "returning" /\ new.page = old.page
        /\ new.id = old.id /\ new.answer = answer
    BY DEF CallRecords, InFlight, Registered
  <1>7. call' = [call EXCEPT ![c] = new]  BY <1>5
  <1> HIDE DEF new
  <1>8. CallsOK' /\ MessagesOf(call) \subseteq MessagesOf(call')
    BY <1>1, <1>2, <1>6, <1>7, CallMoves DEF Sent
  <1>9. TableIsCalls'
    BY <1>1, <1>2, <1>6, <1>7, TableKeeps DEF Registered
  <1>10. LoadOK'
    BY <1>1, <1>2, <1>6, <1>7, LoadKeeps DEF Registered, InFlight
  <1>11. PagesOK' /\ AnswersOK' /\ AskedOK'
    BY <1>2, <1>8, PagesKeep, OthersKeep DEF IInv
  <1>12. QED  BY <1>4, <1>8, <1>9, <1>10, <1>11 DEF IInv

\* The id is the call's alone, so that only its own waiter is removed.
LEMMA CallDeregistersKeeps ==
  ASSUME IInv, NEW c \in Calls, CallDeregisters(c)
  PROVE  IInv'
  <1>1. PICK old \in CallRecords : call[c] = old
    BY DEF IInv, CallsOK
  <1>2. /\ old.pc = "returning" /\ old.answer \in {NoCall, c} /\ old.page \in Pages
        /\ UNCHANGED <<chan, reqSeq, clients, page, answering, asked>>
        /\ requests' = {r \in requests : r.id # old.id}
    BY <1>1 DEF CallDeregisters, IInv, CallsOK, AnswersMatch
  <1> DEFINE new == [old EXCEPT !.pc = "deregistered"]
  <1>3. /\ new \in CallRecords /\ new.pc = "deregistered" /\ new.page = old.page
        /\ new.id = old.id /\ new.answer = old.answer
    BY DEF CallRecords, InFlight
  <1>4. call' = [call EXCEPT ![c] = new]
    BY <1>1 DEF CallDeregisters, IInv, CallsOK
  <1> HIDE DEF new
  <1>5. CallsOK' /\ MessagesOf(call) \subseteq MessagesOf(call')
    BY <1>1, <1>2, <1>3, <1>4, CallMoves DEF Sent
  <1>6. TableIsCalls'
    <2>1. call'[c] = new /\ \A d \in Calls : d # c => call'[d] = call[d]
      BY <1>4 DEF IInv, CallsOK
    <2>2. \A d \in Calls : call[d].pc \in Registered /\ call[d].id = old.id => d = c
      BY <1>1, <1>2 DEF IInv, CallsOK, Sent, Registered
    <2>3. requests = {[id |-> call[d].id, call |-> d] :
                        d \in {e \in Calls : call[e].pc \in Registered}}
      BY DEF IInv, TableIsCalls
    <2>4. \A d \in Calls : call'[d].pc \in Registered <=> call[d].pc \in Registered /\ d # c
      BY <1>3, <2>1 DEF Registered
    <2>5. requests' = {[id |-> call[d].id, call |-> d] :
                         d \in {e \in Calls : call[e].pc \in Registered /\ e # c}}
      BY <1>1, <1>2, <2>2, <2>3
    <2>6. {e \in Calls : call'[e].pc \in Registered} = {e \in Calls : call[e].pc \in Registered /\ e # c}
      BY <2>4
    <2>7. \A d \in Calls : call'[d].id = call[d].id
      BY <1>1, <1>3, <2>1
    <2>8. QED  BY <2>5, <2>6, <2>7 DEF TableIsCalls
  <1>7. LoadOK'
    BY <1>1, <1>2, <1>3, <1>4, LoadKeeps DEF Registered, InFlight
  <1>8. PagesOK' /\ AnswersOK' /\ AskedOK'
    BY <1>2, <1>5, PagesKeep, OthersKeep DEF IInv
  <1>9. ChansOK' /\ ChanFunction'  BY <1>2 DEF IInv, ChansOK, ChanFunction
  <1>10. QED  BY <1>5, <1>6, <1>7, <1>8, <1>9 DEF IInv

\* The call leaves the calls in flight, and its page has one less.
LEMMA CallClosesKeeps ==
  ASSUME IInv, NEW c \in Calls, CallCloses(c)
  PROVE  IInv'
  <1>1. PICK old \in CallRecords : call[c] = old
    BY DEF IInv, CallsOK
  <1>2. /\ old.pc = "deregistered" /\ old.answer \in {NoCall, c} /\ old.page \in Pages
        /\ UNCHANGED <<chan, requests, reqSeq, clients, answering, asked>>
    BY <1>1 DEF CallCloses, IInv, CallsOK, AnswersMatch
  <1> DEFINE new == [old EXCEPT !.pc = "done"]
  <1>3. /\ new \in CallRecords /\ new.pc = "done" /\ new.page = old.page
        /\ new.id = old.id /\ new.answer = old.answer
    BY DEF CallRecords
  <1>4. call' = [call EXCEPT ![c] = new]
    BY <1>1 DEF CallCloses, IInv, CallsOK
  <1> HIDE DEF new
  <1>5. CallsOK' /\ MessagesOf(call) \subseteq MessagesOf(call')
    BY <1>1, <1>2, <1>3, <1>4, CallMoves DEF Sent
  <1>6. TableIsCalls'
    BY <1>1, <1>2, <1>3, <1>4, TableKeeps DEF Registered
  <1>7. PICK p \in Pages : p = old.page  BY <1>2
  <1>8. PICK P \in PagesOf(call) : page[p] = P  BY DEF IInv, PagesOK
  <1>9. P \in PagesOf(call')  BY <1>5, PagesGrow
  <1>10. PICK n \in Nat :
           /\ n = (IF P.load = 0 THEN 0 ELSE P.load - 1)
           /\ page' = [page EXCEPT ![p].load = n]
    <2>1. P.load \in Nat  BY DEF PagesOf
    <2>2. (IF P.load = 0 THEN 0 ELSE P.load - 1) \in Nat  BY <2>1
    <2>3. page' = [page EXCEPT ![p].load = IF P.load = 0 THEN 0 ELSE P.load - 1]
      BY <1>1, <1>7, <1>8 DEF CallCloses
    <2>4. QED  BY <2>2, <2>3
  <1> DEFINE newPage == [P EXCEPT !.load = n]
  <1>11. /\ newPage \in PagesOf(call') /\ newPage.load = n
         /\ newPage.send = P.send /\ newPage.msgChan = P.msgChan
    BY <1>9 DEF PagesOf
  <1>12. page' = [page EXCEPT ![p] = newPage]
    BY <1>8, <1>10 DEF IInv, PagesOK
  <1> HIDE DEF newPage
  <1>13. PagesOK'
    <2>1. page \in [Pages -> PagesOf(call')]
      BY <1>5, PagesGrow DEF IInv, PagesOK
    <2>2. page' \in [Pages -> PagesOf(call')]  BY <1>11, <1>12, <2>1
    <2>3. \A q \in Pages : page'[q].send = page[q].send /\ page'[q].msgChan = page[q].msgChan
      BY <1>8, <1>11, <1>12, <2>1
    <2>4. QED  BY <1>2, <2>2, <2>3 DEF IInv, PagesOK
  <1>14. LoadOK'
    <2>1. call'[c] = new /\ \A d \in Calls : d # c => call'[d] = call[d]
      BY <1>4 DEF IInv, CallsOK
    <2>2. \A q \in Pages : q # p => page'[q] = page[q] /\ Flight(q, call') = Flight(q, call)
      BY <1>1, <1>3, <1>7, <1>12, <2>1 DEF Flight, InFlight, IInv, PagesOK, Registered
    <2>3. Flight(p, call') = Flight(p, call) \ {c} /\ c \in Flight(p, call)
      BY <1>1, <1>2, <1>3, <1>7, <2>1 DEF Flight, InFlight, Registered
    <2>4. IsFiniteSet(Flight(p, call)) /\ P.load = Cardinality(Flight(p, call))
      BY <1>8 DEF IInv, LoadOK
    <2>5. P.load # 0  BY <2>3, <2>4, FS_EmptySet
    <2>6. /\ IsFiniteSet(Flight(p, call'))
          /\ Cardinality(Flight(p, call')) = Cardinality(Flight(p, call)) - 1
      BY <2>3, <2>4, FS_RemoveElement
    <2>7. page'[p].load = n  BY <1>11, <1>12 DEF IInv, PagesOK
    <2>8. n = P.load - 1  BY <1>10, <2>5
    <2>9. QED  BY <2>2, <2>4, <2>6, <2>7, <2>8 DEF IInv, LoadOK
  <1>15. AnswersOK' /\ AskedOK'  BY <1>2, <1>5, OthersKeep
  <1>16. ChansOK' /\ ChanFunction'  BY <1>2 DEF IInv, ChansOK, ChanFunction
  <1>17. QED  BY <1>5, <1>6, <1>13, <1>14, <1>15, <1>16 DEF IInv

\* A call is sent under an id no request has had before; it joins the calls in
\* flight and the table, whether or not its page takes the message.
LEMMA CallSendsKeeps ==
  ASSUME IInv, NEW c \in Calls, CallSends(c)
  PROVE  IInv'
  <1>1. PICK old \in CallRecords : call[c] = old
    BY DEF IInv, CallsOK
  <1>2. /\ old.pc = "selected" /\ old.answer \in {NoCall, c} /\ old.page \in Pages
        /\ UNCHANGED <<chan, clients, answering, asked>>
        /\ reqSeq \in Nat
    BY <1>1 DEF CallSends, IInv, CallsOK, AnswersMatch
  <1>3. PICK id \in Nat : id = reqSeq + 1  BY <1>2
  <1>4. PICK p \in Pages : p = old.page  BY <1>2
  <1>5. PICK P \in PagesOf(call) : page[p] = P  BY DEF IInv, PagesOK
  <1>6. PICK pc \in Registered :
          /\ call' = [call EXCEPT ![c].pc = pc, ![c].id = id]
          /\ page' = [page EXCEPT ![p].load = @ + 1,
                                  ![p].send = IF Room(p) THEN Append(P.send, [id |-> id, of |-> c])
                                                         ELSE P.send]
    BY <1>1, <1>3, <1>4, <1>5 DEF CallSends, NextId, Registered
  <1> DEFINE new == [old EXCEPT !.pc = pc, !.id = id]
  <1>7. /\ new \in CallRecords /\ new.pc = pc /\ new.page = p
        /\ new.id = id /\ new.answer = old.answer
    BY <1>4 DEF CallRecords, InFlight
  <1>8. call' = [call EXCEPT ![c] = new]
    BY <1>1, <1>6 DEF IInv, CallsOK
  <1> HIDE DEF new
  <1>9. /\ call' \in [Calls -> CallRecords] /\ call'[c] = new
        /\ \A d \in Calls : d # c => call'[d] = call[d]
    BY <1>7, <1>8 DEF IInv, CallsOK
  <1>10. reqSeq' = id /\ requests' = {r \in requests : r.id # id} \cup {[id |-> id, call |-> c]}
    BY <1>3 DEF CallSends, NextId
  <1>11. \A d \in Calls : call[d].pc \in Sent => call[d].id \in 1 .. reqSeq /\ call[d].id # id
    BY <1>2, <1>3 DEF IInv, CallsOK
  <1>12. pc \in Sent /\ pc \in InFlight /\ old.pc \notin Sent
         /\ old.pc \notin InFlight /\ old.pc \notin Registered
    BY <1>2 DEF Sent, InFlight, Registered
  <1>13. CallsOK'
    <2>1. reqSeq' \in Nat /\ id \in 1 .. reqSeq'  BY <1>2, <1>3, <1>10
    <2>2. \A d \in Calls : call'[d].pc # "idle" => call'[d].page \in Pages
      BY <1>7, <1>9 DEF IInv, CallsOK
    <2>3. \A d \in Calls : call'[d].pc \in Sent => call'[d].id \in 1 .. reqSeq'
      BY <1>2, <1>3, <1>7, <1>9, <1>10, <1>11, <2>1
    <2>4. \A d, e \in Calls :
            call'[d].pc \in Sent /\ call'[e].pc \in Sent /\ call'[d].id = call'[e].id => d = e
      BY <1>7, <1>9, <1>11 DEF IInv, CallsOK
    <2>5. AnswersMatch'  BY <1>2, <1>7, <1>9 DEF IInv, CallsOK, AnswersMatch
    <2>6. QED  BY <1>9, <2>1, <2>2, <2>3, <2>4, <2>5 DEF CallsOK
  <1>14. MessagesOf(call) \subseteq MessagesOf(call')
    BY <1>1, <1>9, <1>12 DEF MessagesOf, Messages
  <1>15. TableIsCalls'
    <2>1. requests = {[id |-> call[d].id, call |-> d] :
                        d \in {e \in Calls : call[e].pc \in Registered}}
      BY DEF IInv, TableIsCalls
    <2>2. {r \in requests : r.id # id} = requests
      BY <1>11, <2>1 DEF Sent, Registered
    <2>3. {e \in Calls : call'[e].pc \in Registered}
            = {e \in Calls : call[e].pc \in Registered} \cup {c}
      BY <1>7, <1>9
    <2>4. \A d \in Calls : call[d].pc \in Registered => call'[d].id = call[d].id
      BY <1>1, <1>9, <1>12
    <2>5. QED  BY <1>7, <1>9, <1>10, <2>1, <2>2, <2>3, <2>4 DEF TableIsCalls
  <1>16. P \in PagesOf(call')  BY <1>14, PagesGrow
  <1>17. PICK send \in Seq(MessagesOf(call')) :
           /\ send = IF Room(p) THEN Append(P.send, [id |-> id, of |-> c]) ELSE P.send
           /\ Len(send) <= SendBuffer
    <2>1. P.send \in Seq(MessagesOf(call')) /\ Len(P.send) <= SendBuffer
      BY <1>5, <1>16 DEF PagesOf, IInv, PagesOK
    <2>2. [id |-> id, of |-> c] \in MessagesOf(call')
      BY <1>7, <1>9, <1>12 DEF MessagesOf, Messages
    <2>3. CASE Room(p)
      <3>1. Len(P.send) < SendBuffer  BY <1>5, <2>3 DEF Room
      <3>2. /\ Append(P.send, [id |-> id, of |-> c]) \in Seq(MessagesOf(call'))
            /\ Len(Append(P.send, [id |-> id, of |-> c])) <= SendBuffer
        BY <2>1, <2>2, <3>1, AppendFits, Sizes
      <3>3. QED  BY <2>3, <3>2
    <2>4. CASE ~Room(p)  BY <2>1, <2>4
    <2>5. QED  BY <2>3, <2>4
  <1>18. PICK n \in Nat : n = P.load + 1  BY DEF PagesOf
  <1> DEFINE newPage == [P EXCEPT !.load = n, !.send = send]
  <1>19. /\ newPage \in PagesOf(call') /\ newPage.load = n
         /\ newPage.send = send /\ newPage.msgChan = P.msgChan
    BY <1>16 DEF PagesOf
  <1>20. page' = [page EXCEPT ![p] = newPage]
    BY <1>5, <1>6, <1>17, <1>18 DEF IInv, PagesOK
  <1> HIDE DEF newPage
  <1>21. PagesOK'
    <2>1. page \in [Pages -> PagesOf(call')]
      BY <1>14, PagesGrow DEF IInv, PagesOK
    <2>2. page' \in [Pages -> PagesOf(call')]  BY <1>19, <1>20, <2>1
    <2>3. /\ page'[p] = newPage
          /\ \A q \in Pages : q # p => page'[q] = page[q]
      BY <1>20, <2>1
    <2>4. Len(P.msgChan) <= QueueSize  BY <1>5 DEF IInv, PagesOK
    <2>5. QED  BY <1>2, <1>17, <1>19, <2>2, <2>3, <2>4 DEF IInv, PagesOK
  <1>22. LoadOK'
    <2>1. \A q \in Pages : q # p => page'[q] = page[q] /\ Flight(q, call') = Flight(q, call)
      BY <1>1, <1>7, <1>9, <1>12, <1>20 DEF Flight, IInv, PagesOK
    <2>2. Flight(p, call') = Flight(p, call) \cup {c} /\ c \notin Flight(p, call)
      BY <1>1, <1>7, <1>9, <1>12 DEF Flight
    <2>3. IsFiniteSet(Flight(p, call)) /\ P.load = Cardinality(Flight(p, call))
      BY <1>5 DEF IInv, LoadOK
    <2>4. /\ IsFiniteSet(Flight(p, call'))
          /\ Cardinality(Flight(p, call')) = Cardinality(Flight(p, call)) + 1
      BY <2>2, <2>3, FS_AddElement
    <2>5. page'[p].load = n  BY <1>19, <1>20 DEF IInv, PagesOK
    <2>6. QED  BY <1>18, <2>1, <2>3, <2>4, <2>5 DEF IInv, LoadOK
  <1>23. AnswersOK' /\ AskedOK'  BY <1>2, <1>14, OthersKeep
  <1>24. ChansOK' /\ ChanFunction'  BY <1>2 DEF IInv, ChansOK, ChanFunction
  <1>25. QED  BY <1>13, <1>15, <1>21, <1>22, <1>23, <1>24 DEF IInv

-----------------------------------------------------------------------------
(* The pages *)

\* Whoever waits for the id of a request is the call the request is of.
LEMMA FoundIsOwn ==
  ASSUME IInv, NEW m \in MessagesOf(call)
  PROVE  Found(m) \in AnswerRecords /\ Found(m).waiter \subseteq {Found(m).of}
  <1>1. m.of \in Calls /\ call[m.of].pc \in Sent /\ m.id = call[m.of].id
    BY DEF MessagesOf, Messages
  <1>2. \A r \in requests : /\ r.call \in Calls /\ call[r.call].pc \in Sent
                            /\ r.id = call[r.call].id
    BY DEF IInv, TableIsCalls, Registered, Sent
  <1>3. Waiter(m.id) \subseteq {m.of}
    BY <1>1, <1>2 DEF Waiter, IInv, CallsOK
  <1>4. QED  BY <1>1, <1>3 DEF Found, AnswerRecords, NoAnswer

LEMMA AnswerMoves ==
  ASSUME AnswersOK, NEW p \in Pages, NEW g \in Goroutines, NEW a \in AnswerRecords,
         a.waiter \subseteq {a.of}, answering' = [answering EXCEPT ![p][g] = a]
  PROVE  AnswersOK'
  BY DEF AnswersOK

LEMMA NothingFound ==
  NoAnswer \in AnswerRecords /\ NoAnswer.waiter \subseteq {NoAnswer.of}
  BY DEF NoAnswer, AnswerRecords

\* The steps that change a connection and nothing else.
LEMMA PageAloneKeeps ==
  ASSUME IInv, NEW p \in Pages,
         PageConnects(p) \/ PageLeaves(p) \/ StateArrives(p) \/ ReaderStops(p)
           \/ PageUnregisters(p)
  PROVE  IInv'
  <1>1. PICK P \in PagesOf(call) : page[p] = P  BY DEF IInv, PagesOK
  <1>2. /\ UNCHANGED <<call, chan, requests, reqSeq, answering, asked>>
        /\ clients' \subseteq Pages
    BY DEF PageConnects, PageLeaves, StateArrives, ReaderStops, PageUnregisters, IInv, PagesOK
  <1>3. Len(P.send) <= SendBuffer /\ Len(P.msgChan) <= QueueSize
    BY <1>1 DEF IInv, PagesOK
  <1>4. PICK new \in PagesOf(call) :
          /\ page' = [page EXCEPT ![p] = new] /\ new.load = P.load
          /\ Len(new.send) <= SendBuffer /\ Len(new.msgChan) <= QueueSize
    <2>1. CASE PageConnects(p)
      <3> DEFINE new == [P EXCEPT !.conn = "up", !.reader = "reading"]
      <3>1. page' = [page EXCEPT ![p] = new]
        BY <1>1, <2>1 DEF PageConnects, IInv, PagesOK
      <3>2. /\ new \in PagesOf(call) /\ new.load = P.load
            /\ new.send = P.send /\ new.msgChan = P.msgChan
        BY DEF PagesOf
      <3> HIDE DEF new
      <3>3. QED  BY <1>3, <3>1, <3>2
    <2>2. CASE PageLeaves(p)
      <3> DEFINE new == [P EXCEPT !.conn = "down"]
      <3>1. page' = [page EXCEPT ![p] = new]
        BY <1>1, <2>2 DEF PageLeaves, IInv, PagesOK
      <3>2. /\ new \in PagesOf(call) /\ new.load = P.load
            /\ new.send = P.send /\ new.msgChan = P.msgChan
        BY DEF PagesOf
      <3> HIDE DEF new
      <3>3. QED  BY <1>3, <3>1, <3>2
    <2>3. CASE StateArrives(p)
      <3> DEFINE new == [P EXCEPT !.ready = ~@]
      <3>1. page' = [page EXCEPT ![p] = new]
        BY <1>1, <2>3 DEF StateArrives, IInv, PagesOK
      <3>2. /\ new \in PagesOf(call) /\ new.load = P.load
            /\ new.send = P.send /\ new.msgChan = P.msgChan
        BY DEF PagesOf
      <3> HIDE DEF new
      <3>3. QED  BY <1>3, <3>1, <3>2
    <2>4. CASE ReaderStops(p)
      <3> DEFINE new == [P EXCEPT !.reader = "draining"]
      <3>1. page' = [page EXCEPT ![p] = new]
        BY <1>1, <2>4 DEF ReaderStops, IInv, PagesOK
      <3>2. /\ new \in PagesOf(call) /\ new.load = P.load
            /\ new.send = P.send /\ new.msgChan = P.msgChan
        BY DEF PagesOf
      <3> HIDE DEF new
      <3>3. QED  BY <1>3, <3>1, <3>2
    <2>5. CASE PageUnregisters(p)
      <3> DEFINE new == [P EXCEPT !.reader = "gone", !.closed = TRUE,
                                  !.conn = "down", !.ready = FALSE, !.send = <<>>]
      <3>1. page' = [page EXCEPT ![p] = new]
        BY <1>1, <2>5 DEF PageUnregisters, IInv, PagesOK
      <3>2. <<>> \in Seq(MessagesOf(call)) /\ Len(<<>>) <= SendBuffer
        BY NoneFits, Sizes
      <3>3. /\ new \in PagesOf(call) /\ new.load = P.load
            /\ new.send = <<>> /\ new.msgChan = P.msgChan
        BY <3>2 DEF PagesOf
      <3> HIDE DEF new
      <3>4. QED  BY <1>3, <3>1, <3>2, <3>3
    <2>6. QED  BY <2>1, <2>2, <2>3, <2>4, <2>5
  <1>5. CallsOK' /\ TableIsCalls' /\ PagesOK' /\ LoadOK'
    BY <1>1, <1>2, <1>4, PageMoves
  <1>6. AnswersOK' /\ AskedOK'  BY <1>2, OthersKeep
  <1>7. ChansOK' /\ ChanFunction'  BY <1>2 DEF IInv, ChansOK, ChanFunction
  <1>8. QED  BY <1>5, <1>6, <1>7 DEF IInv

\* An answer comes in and is queued, or looked up at once.
LEMMA AnswerArrivesKeeps ==
  ASSUME IInv, NEW p \in Pages, AnswerArrives(p)
  PROVE  IInv'
  <1>1. PICK P \in PagesOf(call) : page[p] = P  BY DEF IInv, PagesOK
  <1>2. UNCHANGED <<call, chan, requests, reqSeq, clients>>
    BY DEF AnswerArrives
  <1>3. /\ Len(P.send) <= SendBuffer /\ Len(P.msgChan) <= QueueSize
        /\ clients \subseteq Pages
    BY <1>1 DEF IInv, PagesOK
  <1>4. PICK m \in asked :
          /\ asked' = asked \ {m}
          /\ IF Len(P.msgChan) < QueueSize
             THEN /\ page' = [page EXCEPT ![p].msgChan = Append(@, m)]
                  /\ UNCHANGED answering
             ELSE /\ page' = [page EXCEPT ![p].reader =
                                IF Waiter(m.id) = {} THEN @ ELSE "answering"]
                  /\ answering' = [answering EXCEPT ![p][Reader] = Found(m)]
    BY <1>1 DEF AnswerArrives
  <1>5. m \in MessagesOf(call)  BY DEF IInv, AskedOK
  <1>6. PICK new \in PagesOf(call) :
          /\ page' = [page EXCEPT ![p] = new] /\ new.load = P.load
          /\ Len(new.send) <= SendBuffer /\ Len(new.msgChan) <= QueueSize
    <2>1. CASE Len(P.msgChan) < QueueSize
      <3>1. P.msgChan \in Seq(MessagesOf(call))  BY DEF PagesOf
      <3>2. /\ Append(P.msgChan, m) \in Seq(MessagesOf(call))
            /\ Len(Append(P.msgChan, m)) <= QueueSize
        BY <1>5, <2>1, <3>1, AppendFits, Sizes
      <3>3. PICK queue \in Seq(MessagesOf(call)) :
              queue = Append(P.msgChan, m) /\ Len(queue) <= QueueSize
        BY <3>2
      <3> DEFINE new == [P EXCEPT !.msgChan = queue]
      <3>4. page' = [page EXCEPT ![p] = new]
        BY <1>1, <1>4, <2>1, <3>3 DEF IInv, PagesOK
      <3>5. /\ new \in PagesOf(call) /\ new.load = P.load
            /\ new.send = P.send /\ new.msgChan = queue
        BY DEF PagesOf
      <3> HIDE DEF new
      <3>6. QED  BY <1>3, <3>3, <3>4, <3>5
    <2>2. CASE ~(Len(P.msgChan) < QueueSize)
      <3>1. PICK reader \in {"none", "reading", "answering", "draining", "gone"} :
              page' = [page EXCEPT ![p].reader = reader]
        <4>1. P.reader \in {"none", "reading", "answering", "draining", "gone"}
          BY DEF PagesOf
        <4>2. QED  BY <1>1, <1>4, <2>2, <4>1
      <3> DEFINE new == [P EXCEPT !.reader = reader]
      <3>2. page' = [page EXCEPT ![p] = new]
        BY <1>1, <3>1 DEF IInv, PagesOK
      <3>3. /\ new \in PagesOf(call) /\ new.load = P.load
            /\ new.send = P.send /\ new.msgChan = P.msgChan
        BY DEF PagesOf
      <3> HIDE DEF new
      <3>4. QED  BY <1>3, <3>2, <3>3
    <2>3. QED  BY <2>1, <2>2
  <1>7. CallsOK' /\ TableIsCalls' /\ PagesOK' /\ LoadOK'
    BY <1>1, <1>2, <1>3, <1>6, PageMoves
  <1>8. AnswersOK'
    <2>1. CASE UNCHANGED answering  BY <2>1 DEF IInv, AnswersOK
    <2>2. CASE answering' = [answering EXCEPT ![p][Reader] = Found(m)]
      <3>1. PICK a \in AnswerRecords : a = Found(m) /\ a.waiter \subseteq {a.of}
        BY <1>5, FoundIsOwn
      <3>2. Reader \in Goroutines  BY DEF Goroutines
      <3>3. QED  BY <2>2, <3>1, <3>2, AnswerMoves DEF IInv
    <2>3. QED  BY <1>4, <2>1, <2>2
  <1>9. AskedOK'  BY <1>2, <1>4 DEF IInv, AskedOK
  <1>10. ChansOK' /\ ChanFunction'  BY <1>2 DEF IInv, ChansOK, ChanFunction
  <1>11. QED  BY <1>7, <1>8, <1>9, <1>10 DEF IInv

LEMMA WorkerTakesKeeps ==
  ASSUME IInv, NEW p \in Pages, NEW w \in Workers, WorkerTakes(p, w)
  PROVE  IInv'
  <1>1. PICK P \in PagesOf(call) : page[p] = P  BY DEF IInv, PagesOK
  <1>2. UNCHANGED <<call, chan, requests, reqSeq, clients, asked>>
    BY DEF WorkerTakes
  <1>3. /\ Len(P.send) <= SendBuffer /\ Len(P.msgChan) <= QueueSize
        /\ clients \subseteq Pages
    BY <1>1 DEF IInv, PagesOK
  <1>4. /\ P.msgChan # <<>> /\ P.msgChan \in Seq(MessagesOf(call))
        /\ page' = [page EXCEPT ![p].msgChan = Tail(P.msgChan)]
        /\ answering' = [answering EXCEPT ![p][w] = Found(Head(P.msgChan))]
    BY <1>1 DEF WorkerTakes, PagesOf
  <1>5. /\ Head(P.msgChan) \in MessagesOf(call)
        /\ Tail(P.msgChan) \in Seq(MessagesOf(call)) /\ Len(Tail(P.msgChan)) <= QueueSize
    BY <1>3, <1>4, TailFits, Sizes
  <1>6. PICK queue \in Seq(MessagesOf(call)) :
          queue = Tail(P.msgChan) /\ Len(queue) <= QueueSize
    BY <1>5
  <1> DEFINE new == [P EXCEPT !.msgChan = queue]
  <1>7. page' = [page EXCEPT ![p] = new]
    BY <1>1, <1>4, <1>6 DEF IInv, PagesOK
  <1>8. /\ new \in PagesOf(call) /\ new.load = P.load
        /\ new.send = P.send /\ new.msgChan = queue
    BY DEF PagesOf
  <1> HIDE DEF new
  <1>9. CallsOK' /\ TableIsCalls' /\ PagesOK' /\ LoadOK'
    BY <1>1, <1>2, <1>3, <1>6, <1>7, <1>8, PageMoves
  <1>10. AnswersOK'
    <2>1. PICK m \in MessagesOf(call) : m = Head(P.msgChan)  BY <1>5
    <2>2. PICK a \in AnswerRecords : a = Found(m) /\ a.waiter \subseteq {a.of}
      BY FoundIsOwn
    <2>3. w \in Goroutines  BY DEF Goroutines
    <2>4. QED  BY <1>4, <2>1, <2>2, <2>3, AnswerMoves DEF IInv
  <1>11. AskedOK'  BY <1>2 DEF IInv, AskedOK
  <1>12. ChansOK' /\ ChanFunction'  BY <1>2 DEF IInv, ChansOK, ChanFunction
  <1>13. QED  BY <1>9, <1>10, <1>11, <1>12 DEF IInv

\* An answer goes to its waiter, which is its own call, or panics.
LEMMA AnswerKeeps ==
  ASSUME IInv, NEW p \in Pages, NEW g \in Goroutines, AnswerStep(p, g)
  PROVE  IInv'
  <1>1. PICK P \in PagesOf(call) : page[p] = P  BY DEF IInv, PagesOK
  <1>2. /\ UNCHANGED <<call, requests, reqSeq, clients, asked>>
        /\ answering' = [answering EXCEPT ![p][g] = NoAnswer]
    BY DEF AnswerStep, AnswerSent, AnswerPanics
  <1>3. /\ Len(P.send) <= SendBuffer /\ Len(P.msgChan) <= QueueSize
        /\ clients \subseteq Pages
    BY <1>1 DEF IInv, PagesOK
  <1>4. PICK reader \in {"none", "reading", "answering", "draining", "gone"} :
          page' = [page EXCEPT ![p].reader = reader]
    <2>1. P.reader \in {"none", "reading", "answering", "draining", "gone"}
      BY DEF PagesOf
    <2>2. \/ page' = [page EXCEPT ![p].reader = IF g = Reader THEN "reading" ELSE P.reader]
          \/ page' = [page EXCEPT ![p].reader = IF g = Reader THEN "draining" ELSE P.reader]
      BY <1>1 DEF AnswerStep, AnswerSent, AnswerPanics
    <2>3. QED  BY <2>1, <2>2
  <1> DEFINE new == [P EXCEPT !.reader = reader]
  <1>5. page' = [page EXCEPT ![p] = new]
    BY <1>1, <1>4 DEF IInv, PagesOK
  <1>6. /\ new \in PagesOf(call) /\ new.load = P.load
        /\ new.send = P.send /\ new.msgChan = P.msgChan
    BY DEF PagesOf
  <1> HIDE DEF new
  <1>7. CallsOK' /\ TableIsCalls' /\ PagesOK' /\ LoadOK'
    BY <1>1, <1>2, <1>3, <1>5, <1>6, PageMoves
  <1>8. AnswersOK'  BY <1>2, NothingFound, AnswerMoves DEF IInv
  <1>9. AskedOK'  BY <1>2 DEF IInv, AskedOK
  <1>10. ChansOK' /\ ChanFunction'
    <2>1. CASE UNCHANGED chan  BY <2>1 DEF IInv, ChansOK, ChanFunction
    <2>2. CASE AnswerSent(p, g)
      <3>1. PICK c \in answering[p][g].waiter :
              /\ Len(chan[c]) < 2
              /\ chan' = [chan EXCEPT ![c] = Append(chan[c], answering[p][g].of)]
        BY <2>2 DEF AnswerSent
      <3>2. answering[p][g] \in AnswerRecords /\ answering[p][g].of = c
        BY DEF IInv, AnswersOK
      <3>3. c \in Calls  BY <3>2 DEF AnswerRecords
      <3>4. chan[c] \in Seq({c})  BY <3>3 DEF IInv, ChansOK
      <3>5. Append(chan[c], c) \in Seq({c}) /\ Len(Append(chan[c], c)) <= 2
        BY <3>1, <3>4, AppendFits
      <3>6. PICK s \in Seq({c}) : chan' = [chan EXCEPT ![c] = s] /\ Len(s) <= 2
        BY <3>1, <3>2, <3>5
      <3>7. QED  BY <3>3, <3>6 DEF IInv, ChansOK, ChanFunction
    <2>3. QED  BY <2>1, <2>2 DEF AnswerStep, AnswerPanics
  <1>11. QED  BY <1>7, <1>8, <1>9, <1>10 DEF IInv

LEMMA WriterSendsKeeps ==
  ASSUME IInv, NEW p \in Pages, WriterSends(p)
  PROVE  IInv'
  <1>1. PICK P \in PagesOf(call) : page[p] = P  BY DEF IInv, PagesOK
  <1>2. UNCHANGED <<call, chan, requests, reqSeq, clients, answering>>
    BY DEF WriterSends
  <1>3. /\ Len(P.send) <= SendBuffer /\ Len(P.msgChan) <= QueueSize
        /\ clients \subseteq Pages
    BY <1>1 DEF IInv, PagesOK
  <1>4. P.send # <<>> /\ P.send \in Seq(MessagesOf(call))
    BY <1>1 DEF WriterSends, PagesOf
  <1>5. /\ Head(P.send) \in MessagesOf(call)
        /\ Tail(P.send) \in Seq(MessagesOf(call)) /\ Len(Tail(P.send)) <= SendBuffer
    BY <1>3, <1>4, TailFits, Sizes
  <1>6. PICK new \in PagesOf(call) :
          /\ page' = [page EXCEPT ![p] = new] /\ new.load = P.load
          /\ Len(new.send) <= SendBuffer /\ Len(new.msgChan) <= QueueSize
    <2>1. CASE P.conn = "up"
      <3>1. PICK rest \in Seq(MessagesOf(call)) :
              rest = Tail(P.send) /\ Len(rest) <= SendBuffer
        BY <1>5
      <3> DEFINE new == [P EXCEPT !.send = rest]
      <3>2. page' = [page EXCEPT ![p] = new]
        BY <1>1, <2>1, <3>1 DEF WriterSends, IInv, PagesOK
      <3>3. /\ new \in PagesOf(call) /\ new.load = P.load
            /\ new.send = rest /\ new.msgChan = P.msgChan
        BY DEF PagesOf
      <3> HIDE DEF new
      <3>4. QED  BY <1>3, <3>1, <3>2, <3>3
    <2>2. CASE P.conn # "up"
      <3> DEFINE new == [P EXCEPT !.closed = TRUE, !.send = <<>>]
      <3>1. page' = [page EXCEPT ![p] = new]
        BY <1>1, <2>2 DEF WriterSends, IInv, PagesOK
      <3>2. <<>> \in Seq(MessagesOf(call)) /\ Len(<<>>) <= SendBuffer
        BY NoneFits, Sizes
      <3>3. /\ new \in PagesOf(call) /\ new.load = P.load
            /\ new.send = <<>> /\ new.msgChan = P.msgChan
        BY <3>2 DEF PagesOf
      <3> HIDE DEF new
      <3>4. QED  BY <1>3, <3>1, <3>2, <3>3
    <2>3. QED  BY <2>1, <2>2
  <1>7. CallsOK' /\ TableIsCalls' /\ PagesOK' /\ LoadOK'
    BY <1>1, <1>2, <1>3, <1>6, PageMoves
  <1>8. AskedOK'
    <2>1. asked' = asked \cup {Head(P.send)} \/ asked' = asked
      BY <1>1 DEF WriterSends
    <2>2. QED  BY <1>2, <1>5, <2>1 DEF IInv, AskedOK
  <1>9. AnswersOK'  BY <1>2 DEF IInv, AnswersOK
  <1>10. ChansOK' /\ ChanFunction'  BY <1>2 DEF IInv, ChansOK, ChanFunction
  <1>11. QED  BY <1>7, <1>8, <1>9, <1>10 DEF IInv

-----------------------------------------------------------------------------
(* The theorems *)

LEMMA NextKeeps == IInv /\ [Next]_vars => IInv'
  <1> SUFFICES ASSUME IInv, [Next]_vars PROVE IInv'
    OBVIOUS
  <1>1. ASSUME NEW c \in Calls, CallStep(c) PROVE IInv'
    BY <1>1, CallSelectsKeeps, CallSendsKeeps, CallReturnsKeeps, CallDeregistersKeeps,
       CallClosesKeeps DEF CallStep
  <1>2. ASSUME NEW p \in Pages, WorkerStep(p) PROVE IInv'
    BY <1>2, WorkerTakesKeeps, AnswerKeeps DEF WorkerStep, Goroutines
  <1>3. ASSUME NEW p \in Pages, ReaderStep(p) PROVE IInv'
    BY <1>3, PageAloneKeeps, AnswerKeeps DEF ReaderStep, Goroutines
  <1>4. ASSUME NEW p \in Pages, WriterSends(p) PROVE IInv'
    BY <1>4, WriterSendsKeeps
  <1>5. ASSUME NEW p \in Pages, BrowserStep(p) PROVE IInv'
    BY <1>5, PageAloneKeeps, AnswerArrivesKeeps DEF BrowserStep
  <1>6. CASE UNCHANGED vars
    <2>1. UNCHANGED <<call, chan, requests, reqSeq, clients, page, answering, asked>>
      BY <1>6 DEF vars
    <2>2. CallsOK' /\ TableIsCalls' /\ LoadOK'
      BY <2>1 DEF IInv, CallsOK, AnswersMatch, TableIsCalls, LoadOK, Flight
    <2>3. PagesOK' /\ AnswersOK' /\ AskedOK'
      BY <2>1, PagesKeep, OthersKeep DEF IInv
    <2>4. ChansOK' /\ ChanFunction'  BY <2>1 DEF IInv, ChansOK, ChanFunction
    <2>5. QED  BY <2>2, <2>3, <2>4 DEF IInv
  <1>7. QED  BY <1>1, <1>2, <1>3, <1>4, <1>5, <1>6 DEF Next

LEMMA Invariant == Spec => []IInv
  BY InitHolds, NextKeeps, PTL DEF Spec

\* Every part of the hub's state keeps its type; no buffer takes more than it
\* holds, and only calls of the hub are waited for.
THEOREM HubTypeCorrect == Spec => []TypeOK
  <1>1. ASSUME IInv PROVE TypeOK
    <2>1. MessagesOf(call) \subseteq Messages  BY DEF MessagesOf
    <2>2. Seq(MessagesOf(call)) \subseteq Seq(Messages)  BY <2>1, SeqMonotonic
    <2>3. PagesOf(call) \subseteq PageRecords  BY <2>2 DEF PagesOf, PageRecords
    <2>4. \A c \in Calls : chan[c] \in Seq(Calls) /\ Len(chan[c]) <= 2
      <3>1. ASSUME NEW c \in Calls PROVE Seq({c}) \subseteq Seq(Calls)
        BY <3>1, SeqMonotonic
      <3>2. QED  BY <1>1, <3>1 DEF IInv, ChansOK
    <2>5. chan \in [Calls -> Seq(Calls)]
      BY <1>1, <2>4 DEF IInv, ChanFunction
    <2>6. requests \subseteq [id : Nat, call : Calls]
      <3>1. \A c \in Calls : call[c].id \in Nat
        BY <1>1 DEF IInv, CallsOK, CallRecords
      <3>2. QED  BY <1>1, <3>1 DEF IInv, TableIsCalls
    <2>7. page \in [Pages -> PageRecords] /\ clients \subseteq Pages /\ asked \subseteq Messages
      BY <1>1, <2>1, <2>3 DEF IInv, PagesOK, AskedOK
    <2>8. QED
      BY <1>1, <2>4, <2>5, <2>6, <2>7
      DEF IInv, CallsOK, PagesOK, AnswersOK, AnswerRecords, TypeOK
  <1>2. QED  BY <1>1, Invariant, PTL

\* CallAPI never returns the answer to another call's request, on whatever
\* connection and however late answers come.
THEOREM CallsGetTheirOwnAnswers == Spec => []AnswersMatch
  <1>1. IInv => AnswersMatch  BY DEF IInv, CallsOK
  <1>2. QED  BY <1>1, Invariant, PTL

\* The pending table holds exactly the calls that wait, and the load of every
\* page is the number of its calls in flight: whatever fails or leaves, nothing
\* leaks and no page is shunned for calls it no longer has.
THEOREM TablesMatchCalls == Spec => [](TableIsCalls /\ LoadIsCalls)
  <1>1. IInv => TableIsCalls /\ LoadIsCalls
    BY DEF IInv, LoadOK, LoadIsCalls, Flight
  <1>2. QED  BY <1>1, Invariant, PTL
-----------------------------------------------------------------------------
(* Every request is in one place *)

\* A message of call c stands at position i of the queue s.
StandsAt(s, i, c) == i \in 1 .. Len(s) /\ s[i].of = c

\* The request or the answer of call c is in a send buffer, with the browser,
\* in an answer queue, in a goroutine's hand, or in the call's channel.
Holds(c, kind, x, y) ==
  \/ kind = "send"  /\ x \in Pages /\ StandsAt(page[x].send, y, c)
  \/ kind = "asked" /\ x = "browser" /\ y = 1 /\ \E m \in asked : m.of = c
  \/ kind = "queue" /\ x \in Pages /\ StandsAt(page[x].msgChan, y, c)
  \/ kind = "held"  /\ x \in Pages /\ y \in Goroutines
                    /\ answering[x][y].waiter # {} /\ answering[x][y].of = c
  \/ kind = "chan"  /\ x = c /\ y \in 1 .. Len(chan[c])

\* A call's request is in one place at most, and in none before it was sent.
PlacesOK ==
  \A c \in Calls :
    /\ \A k, x, y : Holds(c, k, x, y) => call[c].pc \in Sent
    /\ \A k, x, y, l, u, v :
         Holds(c, k, x, y) /\ Holds(c, l, u, v) => k = l /\ x = u /\ y = v

SentStay == \A c \in Calls : call[c].pc \in Sent => call'[c].pc \in Sent

LEMMA StandsInAppend ==
  ASSUME NEW S, NEW s \in Seq(S), NEW e \in S, NEW i, NEW c,
         StandsAt(Append(s, e), i, c)
  PROVE  StandsAt(s, i, c) \/ (i = Len(s) + 1 /\ e.of = c)
  <1>1. /\ Len(Append(s, e)) = Len(s) + 1
        /\ \A j \in 1 .. Len(s) : Append(s, e)[j] = s[j]
        /\ Append(s, e)[Len(s) + 1] = e
    BY AppendProperties
  <1>2. Len(s) \in Nat  BY LenProperties
  <1>3. i \in 1 .. Len(s) \/ i = Len(s) + 1
    BY <1>1, <1>2 DEF StandsAt
  <1>4. QED  BY <1>1, <1>3 DEF StandsAt

LEMMA StandsInTail ==
  ASSUME NEW S, NEW s \in Seq(S), s # <<>>, NEW i, NEW c,
         StandsAt(Tail(s), i, c)
  PROVE  i \in Nat \ {0} /\ StandsAt(s, i + 1, c)
  <1>1. /\ Len(Tail(s)) = Len(s) - 1
        /\ \A j \in 1 .. Len(Tail(s)) : Tail(s)[j] = s[j + 1]
    BY HeadTailProperties
  <1>2. Len(s) \in Nat  BY LenProperties
  <1>3. i \in Nat \ {0} /\ i + 1 \in 1 .. Len(s)
    BY <1>1, <1>2 DEF StandsAt
  <1>4. QED  BY <1>1, <1>3 DEF StandsAt

LEMMA StandsFirst ==
  ASSUME NEW S, NEW s \in Seq(S), s # <<>>
  PROVE  StandsAt(s, 1, Head(s).of)
  <1>1. Len(s) \in Nat /\ Len(s) # 0  BY EmptySeq, LenProperties
  <1>2. Head(s) = s[1]  OBVIOUS
  <1>3. QED  BY <1>1, <1>2 DEF StandsAt

LEMMA NoneStands ==
  ASSUME NEW i, NEW c
  PROVE  ~StandsAt(<<>>, i, c)
  BY EmptySeq DEF StandsAt

\* Requests stay where they are, or get lost.
LEMMA PlacesDrop ==
  ASSUME PlacesOK, SentStay,
         \A c \in Calls : \A k, x, y : Holds(c, k, x, y)' => Holds(c, k, x, y)
  PROVE  PlacesOK'
  BY DEF PlacesOK, SentStay

\* The request of call d moves from one place to another ...
Moved(d, k0, x0, y0, k1, x1, y1) ==
  \A c \in Calls : \A k, x, y : Holds(c, k, x, y)' =>
    \/ Holds(c, k, x, y) /\ ~(c = d /\ k = k0 /\ x = x0 /\ y = y0)
    \/ c = d /\ k = k1 /\ x = x1 /\ y = y1

\* ... or the first message of a queue, whosever it is, and the others move up.
Shifted(k0, x0, k1, x1, y1) ==
  \A c \in Calls : \A k, x, y : Holds(c, k, x, y)' =>
    \/ Holds(c, k, x, y) /\ ~(k = k0 /\ x = x0)
    \/ k = k0 /\ x = x0 /\ y \in Nat \ {0} /\ Holds(c, k0, x0, y + 1)
    \/ Holds(c, k0, x0, 1) /\ k = k1 /\ x = x1 /\ y = y1

LEMMA PlacesMove ==
  ASSUME PlacesOK, SentStay, NEW d \in Calls,
         NEW k0, NEW x0, NEW y0, NEW k1, NEW x1, NEW y1,
         Holds(d, k0, x0, y0), Moved(d, k0, x0, y0, k1, x1, y1)
  PROVE  PlacesOK'
  <1> SUFFICES ASSUME NEW c \in Calls, NEW k, NEW x, NEW y, NEW l, NEW u, NEW v,
                      Holds(c, k, x, y)'
               PROVE  /\ call'[c].pc \in Sent
                      /\ Holds(c, l, u, v)' => k = l /\ x = u /\ y = v
    BY DEF PlacesOK
  <1>1. CASE c # d  BY <1>1 DEF PlacesOK, SentStay, Moved
  <1>2. CASE c = d
    <2>1. call'[d].pc \in Sent  BY <1>2 DEF PlacesOK, SentStay
    <2>2. ASSUME Holds(d, l, u, v)' PROVE k = l /\ x = u /\ y = v
      BY <1>2, <2>2 DEF PlacesOK, Moved
    <2>3. QED  BY <1>2, <2>1, <2>2
  <1>3. QED  BY <1>1, <1>2

LEMMA PlacesShift ==
  ASSUME PlacesOK, SentStay,
         NEW k0, NEW x0, NEW k1, NEW x1, NEW y1, Shifted(k0, x0, k1, x1, y1)
  PROVE  PlacesOK'
  <1> SUFFICES ASSUME NEW c \in Calls, NEW k, NEW x, NEW y, NEW l, NEW u, NEW v,
                      Holds(c, k, x, y)'
               PROVE  /\ call'[c].pc \in Sent
                      /\ Holds(c, l, u, v)' => k = l /\ x = u /\ y = v
    BY DEF PlacesOK
  <1>1. call'[c].pc \in Sent  BY DEF PlacesOK, SentStay, Shifted
  <1>2. ASSUME Holds(c, l, u, v)' PROVE k = l /\ x = u /\ y = v
    <2>1. \A m, n \in Nat \ {0} :
            Holds(c, k0, x0, m + 1) /\ Holds(c, k0, x0, n + 1) => m = n
      <3>1. \A m, n \in Nat \ {0} : m + 1 = n + 1 => m = n  OBVIOUS
      <3>2. QED  BY <3>1 DEF PlacesOK
    <2>2. \A m \in Nat \ {0} : ~(Holds(c, k0, x0, m + 1) /\ Holds(c, k0, x0, 1))
      <3>1. \A m \in Nat \ {0} : m + 1 # 1  OBVIOUS
      <3>2. QED  BY <3>1 DEF PlacesOK
    <2>3. QED  BY <1>2, <2>1, <2>2 DEF PlacesOK, Shifted
  <1>3. QED  BY <1>1, <1>2

\* Queues are left alone or emptied, and nothing is put anywhere.
LEMMA PlacesStay ==
  ASSUME PlacesOK, SentStay, UNCHANGED chan, asked' \subseteq asked,
         \A p \in Pages : /\ page'[p].send \in {page[p].send, <<>>}
                          /\ page'[p].msgChan = page[p].msgChan,
         \A p \in Pages, g \in Goroutines : answering'[p][g] \in {answering[p][g], NoAnswer}
  PROVE  PlacesOK'
  <1>1. \A p \in Pages : \A i, c : StandsAt(page'[p].send, i, c) => StandsAt(page[p].send, i, c)
    BY NoneStands
  <1>2. \A p \in Pages, g \in Goroutines :
          answering'[p][g].waiter # {} => answering'[p][g] = answering[p][g]
    BY DEF NoAnswer
  <1>3. ASSUME NEW c \in Calls, NEW k, NEW x, NEW y, Holds(c, k, x, y)'
        PROVE  Holds(c, k, x, y)
    BY <1>1, <1>2, <1>3 DEF Holds
  <1>4. QED  BY <1>3, PlacesDrop

\* A call that was sent stays sent.
LEMMA SentStays ==
  ASSUME IInv, [Next]_vars
  PROVE  SentStay
  <1>1. CASE UNCHANGED call  BY <1>1 DEF SentStay
  <1>2. ASSUME NEW c \in Calls, CallStep(c) PROVE SentStay
    <2>1. \A d \in Calls : d # c => call'[d] = call[d]
      BY <1>2 DEF IInv, CallsOK, CallStep, CallSelects, CallSends, CallReceives,
                  CallTimesOut, CallDeregisters, CallCloses
    <2>2. PICK old \in CallRecords : call[c] = old  BY DEF IInv, CallsOK
    <2>3. CASE CallSelects(c)  BY <2>1, <2>3 DEF CallSelects, SentStay, Sent
    <2>4. CASE ~CallSelects(c)
      <3>1. call'[c].pc \in Sent
        BY <1>2, <2>2, <2>4
        DEF IInv, CallsOK, CallRecords, Sent, CallStep, CallSends, CallReceives, CallTimesOut,
            CallDeregisters, CallCloses
      <3>2. QED  BY <2>1, <3>1 DEF SentStay
    <2>5. QED  BY <2>3, <2>4
  <1>3. QED
    BY <1>1, <1>2
    DEF Next, vars, WorkerStep, ReaderStep, WriterSends, BrowserStep, WorkerTakes, AnswerStep,
        AnswerSent, AnswerPanics, ReaderStops, PageUnregisters, PageConnects, PageLeaves,
        StateArrives, AnswerArrives

\* A call takes an answer from its channel, or does nothing to its request.
LEMMA CallKeepsPlaces ==
  ASSUME IInv, PlacesOK, SentStay, NEW c \in Calls, CallStep(c), ~CallSends(c)
  PROVE  PlacesOK'
  <1>1. CASE CallReceives(c)
    <2>1. /\ chan[c] # <<>> /\ chan' = [chan EXCEPT ![c] = Tail(chan[c])]
          /\ UNCHANGED <<page, answering, asked>>
      BY <1>1 DEF CallReceives
    <2>2. chan[c] \in Seq({c}) /\ ChanFunction  BY DEF IInv, ChansOK
    <2>3. /\ Len(chan[c]) \in Nat /\ Len(Tail(chan[c])) = Len(chan[c]) - 1
      BY <2>1, <2>2, HeadTailProperties, LenProperties
    <2>4. chan'[c] = Tail(chan[c]) /\ \A d \in Calls : d # c => chan'[d] = chan[d]
      BY <2>1, <2>2 DEF ChanFunction
    <2>5. \A y : y \in 1 .. Len(chan'[c]) => y \in Nat \ {0} /\ y + 1 \in 1 .. Len(chan[c])
      BY <2>3, <2>4
    <2>6. ASSUME NEW d \in Calls, NEW k, NEW x, NEW y, Holds(d, k, x, y)'
          PROVE  \/ Holds(d, k, x, y) /\ ~(k = "chan" /\ x = c)
                 \/ k = "chan" /\ x = c /\ y \in Nat \ {0} /\ Holds(d, "chan", c, y + 1)
      <3>1. CASE k = "chan" /\ x = c  BY <2>5, <2>6, <3>1 DEF Holds
      <3>2. CASE ~(k = "chan" /\ x = c)  BY <2>1, <2>4, <2>6, <3>2 DEF Holds
      <3>3. QED  BY <3>1, <3>2
    <2>7. Shifted("chan", c, "taken", c, 1)  BY <2>6 DEF Shifted
    <2>8. QED  BY <2>7, PlacesShift
  <1>2. CASE ~CallReceives(c)
    <2>1. /\ UNCHANGED <<chan, answering, asked>>
          /\ UNCHANGED page \/ CallCloses(c)
      BY <1>2 DEF CallStep, CallSelects, CallTimesOut, CallDeregisters, CallCloses
    <2>2. ASSUME NEW p \in Pages
          PROVE  page'[p].send = page[p].send /\ page'[p].msgChan = page[p].msgChan
      <3>1. PICK P \in PagesOf(call) : page[p] = P  BY DEF IInv, PagesOK
      <3>2. page'[p] \in {P, [P EXCEPT !.load = IF @ = 0 THEN 0 ELSE @ - 1]}
        BY <2>1, <3>1 DEF CallCloses, IInv, PagesOK
      <3>3. QED  BY <3>1, <3>2 DEF PagesOf
    <2>3. QED  BY <2>1, <2>2, PlacesStay
  <1>3. QED  BY <1>1, <1>2

\* A call that is sent was nowhere before.
LEMMA CallSendsKeepsPlaces ==
  ASSUME IInv, PlacesOK, SentStay, NEW c \in Calls, CallSends(c)
  PROVE  PlacesOK'
  <1>1. /\ call[c].pc = "selected" /\ call[c].page \in Pages
        /\ call' = [call EXCEPT ![c].pc = IF Room(call[c].page) THEN "waiting" ELSE "returning",
                                ![c].id = NextId]
        /\ UNCHANGED <<chan, answering, asked>>
    BY DEF CallSends, IInv, CallsOK
  <1>2. PICK p \in Pages : p = call[c].page  BY <1>1
  <1>3. PICK e : e = [id |-> NextId, of |-> c]  OBVIOUS
  <1>4. PICK P \in PagesOf(call) : page[p] = P  BY <1>2 DEF IInv, PagesOK
  <1>5. /\ page'[p].send \in {P.send, Append(P.send, e)} /\ page'[p].msgChan = P.msgChan
        /\ \A q \in Pages : q # p => page'[q] = page[q]
    BY <1>2, <1>3, <1>4 DEF CallSends, IInv, PagesOK, PagesOf
  <1>6. \A i, d : StandsAt(page'[p].send, i, d) =>
                    StandsAt(P.send, i, d) \/ (i = Len(P.send) + 1 /\ d = c)
    <2>1. P.send \in Seq(MessagesOf(call) \cup {e})
      <3>1. Seq(MessagesOf(call)) \subseteq Seq(MessagesOf(call) \cup {e})
        BY SeqMonotonic
      <3>2. QED  BY <3>1 DEF PagesOf
    <2>2. \A i, d : StandsAt(Append(P.send, e), i, d) =>
                      StandsAt(P.send, i, d) \/ (i = Len(P.send) + 1 /\ e.of = d)
      BY <2>1, StandsInAppend
    <2>3. QED  BY <1>3, <1>5, <2>2
  <1>7. ASSUME NEW d \in Calls, NEW k, NEW x, NEW y, Holds(d, k, x, y)'
        PROVE  \/ Holds(d, k, x, y)
               \/ d = c /\ k = "send" /\ x = p /\ y = Len(P.send) + 1
    <2>1. CASE k = "send" /\ x = p  BY <1>4, <1>6, <1>7, <2>1 DEF Holds
    <2>2. CASE ~(k = "send" /\ x = p)  BY <1>1, <1>4, <1>5, <1>7, <2>2 DEF Holds
    <2>3. QED  BY <2>1, <2>2
  <1>8. \A k, x, y : ~Holds(c, k, x, y)
    BY <1>1 DEF PlacesOK, Sent
  <1>9. call'[c].pc \in Sent
    BY <1>1 DEF IInv, CallsOK, CallRecords, Sent
  <1>10. QED  BY <1>7, <1>8, <1>9 DEF PlacesOK, SentStay

-----------------------------------------------------------------------------
(* Where the pages' steps put it *)

\* What the browser and a page's own goroutines do to no request.
LEMMA PageAloneKeepsPlaces ==
  ASSUME IInv, PlacesOK, SentStay, NEW p \in Pages,
         PageConnects(p) \/ PageLeaves(p) \/ StateArrives(p) \/ ReaderStops(p)
           \/ PageUnregisters(p) \/ \E g \in Goroutines : AnswerPanics(p, g)
  PROVE  PlacesOK'
  <1>1. UNCHANGED <<chan, asked>>
    BY DEF PageConnects, PageLeaves, StateArrives, ReaderStops, PageUnregisters, AnswerPanics
  <1>2. PICK P \in PagesOf(call) : page[p] = P  BY DEF IInv, PagesOK
  <1>3. /\ page'[p].send \in {P.send, <<>>} /\ page'[p].msgChan = P.msgChan
        /\ \A q \in Pages : q # p => page'[q] = page[q]
    BY <1>2 DEF PageConnects, PageLeaves, StateArrives, ReaderStops, PageUnregisters,
                AnswerPanics, IInv, PagesOK, PagesOf
  <1>4. \A q \in Pages, g \in Goroutines : answering'[q][g] \in {answering[q][g], NoAnswer}
    BY DEF PageConnects, PageLeaves, StateArrives, ReaderStops, PageUnregisters, AnswerPanics,
           IInv, AnswersOK
  <1>5. QED  BY <1>1, <1>2, <1>3, <1>4, PlacesStay

\* WritePump passes the first message to the browser, or drops them all.
LEMMA WriterKeepsPlaces ==
  ASSUME IInv, PlacesOK, SentStay, NEW p \in Pages, WriterSends(p)
  PROVE  PlacesOK'
  <1>1. PICK P \in PagesOf(call) : page[p] = P  BY DEF IInv, PagesOK
  <1>2. UNCHANGED <<chan, answering>>  BY DEF WriterSends
  <1>3. CASE P.conn = "up"
    <2>1. /\ P.send # <<>> /\ P.send \in Seq(MessagesOf(call))
          /\ asked' = asked \cup {Head(P.send)}
          /\ page'[p].send = Tail(P.send) /\ page'[p].msgChan = P.msgChan
          /\ \A q \in Pages : q # p => page'[q] = page[q]
      BY <1>1, <1>3 DEF WriterSends, IInv, PagesOK, PagesOf
    <2>2. StandsAt(P.send, 1, Head(P.send).of)  BY <2>1, StandsFirst
    <2>3. \A i, d : StandsAt(Tail(P.send), i, d) => i \in Nat \ {0} /\ StandsAt(P.send, i + 1, d)
      BY <2>1, StandsInTail
    <2>4. ASSUME NEW d \in Calls, NEW k, NEW x, NEW y, Holds(d, k, x, y)'
          PROVE  \/ Holds(d, k, x, y) /\ ~(k = "send" /\ x = p)
                 \/ k = "send" /\ x = p /\ y \in Nat \ {0} /\ Holds(d, "send", p, y + 1)
                 \/ Holds(d, "send", p, 1) /\ k = "asked" /\ x = "browser" /\ y = 1
      <3>1. CASE k = "send" /\ x = p  BY <1>1, <2>1, <2>3, <2>4, <3>1 DEF Holds
      <3>2. CASE k = "asked"  BY <1>1, <2>1, <2>2, <2>4, <3>2 DEF Holds
      <3>3. CASE ~(k = "send" /\ x = p) /\ k # "asked"
        BY <1>1, <1>2, <2>1, <2>4, <3>3 DEF Holds
      <3>4. QED  BY <3>1, <3>2, <3>3
    <2>5. Shifted("send", p, "asked", "browser", 1)  BY <2>4 DEF Shifted
    <2>6. QED  BY <2>5, PlacesShift
  <1>4. CASE P.conn # "up"
    <2>1. /\ UNCHANGED asked /\ page'[p].send = <<>> /\ page'[p].msgChan = P.msgChan
          /\ \A q \in Pages : q # p => page'[q] = page[q]
      BY <1>1, <1>4 DEF WriterSends, IInv, PagesOK, PagesOf
    <2>2. QED  BY <1>1, <1>2, <2>1, PlacesStay
  <1>5. QED  BY <1>3, <1>4

\* A worker takes the first answer; what has no waiter any more ends there.
LEMMA WorkerKeepsPlaces ==
  ASSUME IInv, PlacesOK, SentStay, NEW p \in Pages, NEW w \in Workers, WorkerTakes(p, w)
  PROVE  PlacesOK'
  <1>1. PICK P \in PagesOf(call) : page[p] = P  BY DEF IInv, PagesOK
  <1>2. /\ P.msgChan # <<>> /\ P.msgChan \in Seq(MessagesOf(call))
        /\ page'[p].msgChan = Tail(P.msgChan) /\ page'[p].send = P.send
        /\ \A q \in Pages : q # p => page'[q] = page[q]
        /\ answering' = [answering EXCEPT ![p][w] = Found(Head(P.msgChan))]
        /\ UNCHANGED <<chan, asked>>
    BY <1>1 DEF WorkerTakes, IInv, PagesOK, PagesOf
  <1>3. /\ \A q \in Pages, g \in Goroutines :
              q # p \/ g # w => answering'[q][g] = answering[q][g]
        /\ answering'[p][w].waiter # {} => answering'[p][w].of = Head(P.msgChan).of
    BY <1>2 DEF IInv, AnswersOK, Goroutines, Found, NoAnswer
  <1>4. StandsAt(P.msgChan, 1, Head(P.msgChan).of)  BY <1>2, StandsFirst
  <1>5. \A i, d : StandsAt(Tail(P.msgChan), i, d) =>
                    i \in Nat \ {0} /\ StandsAt(P.msgChan, i + 1, d)
    BY <1>2, StandsInTail
  <1>6. ASSUME NEW d \in Calls, NEW k, NEW x, NEW y, Holds(d, k, x, y)'
        PROVE  \/ Holds(d, k, x, y) /\ ~(k = "queue" /\ x = p)
               \/ k = "queue" /\ x = p /\ y \in Nat \ {0} /\ Holds(d, "queue", p, y + 1)
               \/ Holds(d, "queue", p, 1) /\ k = "held" /\ x = p /\ y = w
    <2>1. CASE k = "queue" /\ x = p  BY <1>1, <1>2, <1>5, <1>6, <2>1 DEF Holds
    <2>2. CASE k = "held" /\ x = p /\ y = w  BY <1>1, <1>3, <1>4, <1>6, <2>2 DEF Holds
    <2>3. CASE k = "held" /\ ~(x = p /\ y = w)  BY <1>3, <1>6, <2>3 DEF Holds
    <2>4. CASE ~(k = "queue" /\ x = p) /\ k # "held"
      BY <1>1, <1>2, <1>6, <2>4 DEF Holds
    <2>5. QED  BY <2>1, <2>2, <2>3, <2>4
  <1>7. Shifted("queue", p, "held", p, w)  BY <1>6 DEF Shifted
  <1>8. QED  BY <1>7, PlacesShift

\* The browser answers each request once: the answer is queued, or held.
LEMMA ArrivalKeepsPlaces ==
  ASSUME IInv, PlacesOK, SentStay, NEW p \in Pages, AnswerArrives(p)
  PROVE  PlacesOK'
  <1>1. PICK P \in PagesOf(call) : page[p] = P  BY DEF IInv, PagesOK
  <1>2. PICK m \in asked :
          /\ asked' = asked \ {m}
          /\ IF Len(P.msgChan) < QueueSize
             THEN /\ page' = [page EXCEPT ![p].msgChan = Append(P.msgChan, m)]
                  /\ UNCHANGED answering
             ELSE /\ page' = [page EXCEPT ![p].reader =
                                IF Waiter(m.id) = {} THEN P.reader ELSE "answering"]
                  /\ answering' = [answering EXCEPT ![p][Reader] = Found(m)]
    BY <1>1 DEF AnswerArrives, IInv, PagesOK
  <1>3. UNCHANGED chan  BY DEF AnswerArrives
  <1>4. m \in MessagesOf(call) /\ m.of \in Calls
        /\ \A n \in asked : n.of = m.of => n = m
    BY <1>2 DEF IInv, AskedOK, MessagesOf, Messages
  <1>5. PICK o \in Calls : o = m.of  BY <1>4
  <1>6. Holds(o, "asked", "browser", 1)  BY <1>2, <1>5 DEF Holds
  <1>7. \A d : (\E n \in asked' : n.of = d) => d # o /\ \E n \in asked : n.of = d
    BY <1>2, <1>4, <1>5
  <1>8. CASE Len(P.msgChan) < QueueSize
    <2>1. /\ P.msgChan \in Seq(MessagesOf(call))
          /\ page'[p].msgChan = Append(P.msgChan, m) /\ page'[p].send = P.send
          /\ \A q \in Pages : q # p => page'[q] = page[q]
          /\ UNCHANGED answering
      BY <1>1, <1>2, <1>8 DEF IInv, PagesOK, PagesOf
    <2>2. \A i, d : StandsAt(Append(P.msgChan, m), i, d) =>
                      StandsAt(P.msgChan, i, d) \/ (i = Len(P.msgChan) + 1 /\ m.of = d)
      BY <1>4, <2>1, StandsInAppend
    <2>3. ASSUME NEW d \in Calls, NEW k, NEW x, NEW y, Holds(d, k, x, y)'
          PROVE  \/ Holds(d, k, x, y) /\ ~(d = o /\ k = "asked" /\ x = "browser" /\ y = 1)
                 \/ d = o /\ k = "queue" /\ x = p /\ y = Len(P.msgChan) + 1
      <3>1. CASE k = "queue" /\ x = p  BY <1>1, <1>5, <2>1, <2>2, <2>3, <3>1 DEF Holds
      <3>2. CASE k = "asked"  BY <1>7, <2>3, <3>2 DEF Holds
      <3>3. CASE ~(k = "queue" /\ x = p) /\ k # "asked"
        BY <1>1, <1>3, <2>1, <2>3, <3>3 DEF Holds
      <3>4. QED  BY <3>1, <3>2, <3>3
    <2>4. Moved(o, "asked", "browser", 1, "queue", p, Len(P.msgChan) + 1)
      BY <2>3 DEF Moved
    <2>5. QED  BY <1>6, <2>4, PlacesMove
  <1>9. CASE ~(Len(P.msgChan) < QueueSize)
    <2>1. /\ page'[p].send = P.send /\ page'[p].msgChan = P.msgChan
          /\ \A q \in Pages : q # p => page'[q] = page[q]
      BY <1>1, <1>2, <1>9 DEF IInv, PagesOK, PagesOf
    <2>2. /\ \A q \in Pages, g \in Goroutines :
                q # p \/ g # Reader => answering'[q][g] = answering[q][g]
          /\ answering'[p][Reader].waiter # {} => answering'[p][Reader].of = o
      BY <1>2, <1>5, <1>9 DEF IInv, AnswersOK, Goroutines, Found, NoAnswer
    <2>3. ASSUME NEW d \in Calls, NEW k, NEW x, NEW y, Holds(d, k, x, y)'
          PROVE  \/ Holds(d, k, x, y) /\ ~(d = o /\ k = "asked" /\ x = "browser" /\ y = 1)
                 \/ d = o /\ k = "held" /\ x = p /\ y = Reader
      <3>1. CASE k = "held"  BY <2>2, <2>3, <3>1 DEF Holds
      <3>2. CASE k = "asked"  BY <1>7, <2>3, <3>2 DEF Holds
      <3>3. CASE k \notin {"held", "asked"}
        BY <1>1, <1>3, <2>1, <2>3, <3>3 DEF Holds
      <3>4. QED  BY <3>1, <3>2, <3>3
    <2>4. Moved(o, "asked", "browser", 1, "held", p, Reader)  BY <2>3 DEF Moved
    <2>5. QED  BY <1>6, <2>4, PlacesMove
  <1>10. QED  BY <1>8, <1>9

\* A goroutine puts the answer it holds into the channel of its call.
LEMMA AnswerSentKeepsPlaces ==
  ASSUME IInv, PlacesOK, SentStay, NEW p \in Pages, NEW g \in Goroutines, AnswerSent(p, g)
  PROVE  PlacesOK'
  <1>1. PICK c \in answering[p][g].waiter :
          chan' = [chan EXCEPT ![c] = Append(chan[c], answering[p][g].of)]
    BY DEF AnswerSent
  <1>2. answering[p][g] \in AnswerRecords /\ answering[p][g].of = c
    BY DEF IInv, AnswersOK
  <1>3. c \in Calls  BY <1>2 DEF AnswerRecords
  <1>4. chan[c] \in Seq({c}) /\ ChanFunction  BY <1>3 DEF IInv, ChansOK
  <1>5. /\ chan'[c] = Append(chan[c], c) /\ \A d \in Calls : d # c => chan'[d] = chan[d]
    BY <1>1, <1>2, <1>3, <1>4 DEF ChanFunction
  <1>6. Len(chan[c]) \in Nat /\ Len(chan'[c]) = Len(chan[c]) + 1
    BY <1>4, <1>5, AppendProperties, LenProperties
  <1>7. \A y : y \in 1 .. Len(chan'[c]) => y \in 1 .. Len(chan[c]) \/ y = Len(chan[c]) + 1
    BY <1>6
  <1>8. Holds(c, "held", p, g)  BY <1>1, <1>2 DEF Holds
  <1>9. /\ \A q \in Pages, h \in Goroutines :
              q # p \/ h # g => answering'[q][h] = answering[q][h]
        /\ answering'[p][g].waiter = {}
        /\ UNCHANGED asked
    BY DEF AnswerSent, IInv, AnswersOK, NoAnswer
  <1>10. \A q \in Pages : page'[q].send = page[q].send /\ page'[q].msgChan = page[q].msgChan
    BY DEF AnswerSent, IInv, PagesOK, PagesOf
  <1>11. ASSUME NEW d \in Calls, NEW k, NEW x, NEW y, Holds(d, k, x, y)'
         PROVE  \/ Holds(d, k, x, y) /\ ~(d = c /\ k = "held" /\ x = p /\ y = g)
                \/ d = c /\ k = "chan" /\ x = c /\ y = Len(chan[c]) + 1
    <2>1. CASE k = "held"  BY <1>9, <1>11, <2>1 DEF Holds
    <2>2. CASE k = "chan"  BY <1>5, <1>7, <1>11, <2>2 DEF Holds
    <2>3. CASE k \notin {"held", "chan"}  BY <1>9, <1>10, <1>11, <2>3 DEF Holds
    <2>4. QED  BY <2>1, <2>2, <2>3
  <1>12. Moved(c, "held", p, g, "chan", c, Len(chan[c]) + 1)  BY <1>11 DEF Moved
  <1>13. QED  BY <1>3, <1>8, <1>12, PlacesMove

LEMMA PlacesKept == IInv /\ PlacesOK /\ [Next]_vars => PlacesOK'
  <1> SUFFICES ASSUME IInv, PlacesOK, [Next]_vars PROVE PlacesOK'
    OBVIOUS
  <1>1. SentStay  BY SentStays
  <1>2. ASSUME NEW c \in Calls, CallStep(c) PROVE PlacesOK'
    BY <1>1, <1>2, CallKeepsPlaces, CallSendsKeepsPlaces
  <1>3. ASSUME NEW p \in Pages, WorkerStep(p) PROVE PlacesOK'
    BY <1>1, <1>3, WorkerKeepsPlaces, AnswerSentKeepsPlaces, PageAloneKeepsPlaces
    DEF WorkerStep, AnswerStep, Goroutines
  <1>4. ASSUME NEW p \in Pages, ReaderStep(p) PROVE PlacesOK'
    BY <1>1, <1>4, AnswerSentKeepsPlaces, PageAloneKeepsPlaces
    DEF ReaderStep, AnswerStep, Goroutines
  <1>5. ASSUME NEW p \in Pages, WriterSends(p) PROVE PlacesOK'
    BY <1>1, <1>5, WriterKeepsPlaces
  <1>6. ASSUME NEW p \in Pages, BrowserStep(p) PROVE PlacesOK'
    BY <1>1, <1>6, ArrivalKeepsPlaces, PageAloneKeepsPlaces DEF BrowserStep
  <1>7. CASE UNCHANGED vars
    BY <1>1, <1>7, PlacesStay DEF vars
  <1>8. QED  BY <1>2, <1>3, <1>4, <1>5, <1>6, <1>7 DEF Next

\* The hub's tables are the calls in flight, for ever: the pending table holds
\* exactly the calls that wait, a page's load is the number of its calls, and
\* since a request or its answer is only ever in one place, no call's channel
\* takes two answers and no goroutine that answers waits for room in one.
THEOREM TablesAreAlwaysCalls == Spec => []TablesAreCalls
  <1>1. Init => PlacesOK
    <2>1. ASSUME Init, NEW c \in Calls, NEW k, NEW x, NEW y PROVE ~Holds(c, k, x, y)
      BY <2>1, NoneStands, EmptySeq DEF Init, Holds, Away, NoAnswer
    <2>2. QED  BY <2>1 DEF PlacesOK
  <1>2. IInv /\ PlacesOK => TablesAreCalls
    <2> SUFFICES ASSUME IInv, PlacesOK, NEW c \in Calls PROVE Len(chan[c]) <= 1
      BY DEF IInv, LoadOK, LoadIsCalls, Flight, ChannelsHaveRoom, TablesAreCalls
    <2>1. Len(chan[c]) \in Nat  BY LenProperties DEF IInv, ChansOK
    <2>2. CASE Len(chan[c]) > 1
      <3>1. Holds(c, "chan", c, 1) /\ Holds(c, "chan", c, 2)
        BY <2>1, <2>2 DEF Holds
      <3>2. 1 = 2  BY <3>1 DEF PlacesOK
      <3>3. QED  BY <3>2
    <2>3. QED  BY <2>1, <2>2
  <1>3. Spec => [](IInv /\ PlacesOK)
    BY <1>1, InitHolds, NextKeeps, PlacesKept, PTL DEF Spec
  <1>4. QED  BY <1>2, <1>3, PTL
=============================================================================
