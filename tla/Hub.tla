-------------------------------- MODULE Hub --------------------------------
(***************************************************************************)
(* The helper's hub (internal/websocket): calls of the helper's services   *)
(* answered by the pages the helper's script runs in.                      *)
(*                                                                         *)
(* A call is a goroutine in Hub.CallAPI.  A page is one WebSocket          *)
(* connection: WritePump empties its send buffer, ReadPump hands answers   *)
(* to workers through a bounded channel, or handles one itself when that   *)
(* channel is full.  An action is a section under one of the hub's locks,  *)
(* or one operation on a channel.                                          *)
(***************************************************************************)
EXTENDS Naturals, Sequences, FiniteSets

CONSTANTS Calls,        \* calls of CallAPI, one goroutine each
          Pages,        \* connections; a page that reconnects is another
          NoCall, NoPage,
          Workers,      \* numWorkers of every ReadPump
          Reader,       \* the goroutine of ReadPump itself
          SendBuffer,   \* capacity of Client.send
          QueueSize     \* capacity of msgChan

ASSUME HubAssumption ==
  /\ Reader \notin Workers /\ NoPage \notin Pages /\ NoCall \notin Calls
  /\ SendBuffer \in Nat \ {0} /\ QueueSize \in Nat

VARIABLES call,      \* the calls
          chan,      \* respChan of every call; it is closed when the call is done
          requests,  \* h.requests: who waits for the answer to an id
          reqSeq,    \* h.reqSeq
          clients,   \* h.clients
          page,      \* the connections with what their goroutines share
          answering, \* the answer each goroutine of a page has found a waiter for
          asked      \* requests the browser has got and has not answered

vars == <<call, chan, requests, reqSeq, clients, page, answering, asked>>

Goroutines == Workers \cup {Reader}
Registered == {"waiting", "returning"}
InFlight == Registered \cup {"deregistered"}
\* A request and its answer carry the id; their contents are known by the call.
Messages == [id : Nat, of : Calls]
Idle == [pc |-> "idle", page |-> NoPage, id |-> 0, answer |-> NoCall]
NoAnswer == [waiter |-> {}, of |-> NoCall]
Away == [conn |-> "away", reader |-> "none", closed |-> FALSE, ready |-> FALSE,
         load |-> 0, send |-> <<>>, msgChan |-> <<>>]

CallRecords == [pc : InFlight \cup {"idle", "selected", "done"},
                page : Pages \cup {NoPage}, id : Nat, answer : Calls \cup {NoCall}]
PageRecords == [conn : {"away", "up", "down"},
                reader : {"none", "reading", "answering", "draining", "gone"},
                closed : BOOLEAN, ready : BOOLEAN, load : Nat,
                send : Seq(Messages), msgChan : Seq(Messages)]

TypeOK ==
  /\ call \in [Calls -> CallRecords]
  /\ chan \in [Calls -> Seq(Calls)] /\ \A c \in Calls : Len(chan[c]) <= 2
  /\ requests \subseteq [id : Nat, call : Calls]
  /\ reqSeq \in Nat
  /\ clients \subseteq Pages
  /\ page \in [Pages -> PageRecords]
  /\ \A p \in Pages : /\ Len(page[p].send) <= SendBuffer
                      /\ Len(page[p].msgChan) <= QueueSize
  /\ answering \in [Pages -> [Goroutines -> [waiter : SUBSET Calls, of : Calls \cup {NoCall}]]]
  /\ asked \subseteq Messages

Init ==
  /\ call = [c \in Calls |-> Idle]
  /\ chan = [c \in Calls |-> <<>>]
  /\ requests = {}
  /\ reqSeq = 0
  /\ clients = {}
  /\ page = [p \in Pages |-> Away]
  /\ answering = [p \in Pages |-> [g \in Goroutines |-> NoAnswer]]
  /\ asked = {}

-----------------------------------------------------------------------------
(* A call: CallAPI *)

Ready == {p \in clients : page[p].ready}

\* LeastConnectionSelector.Select
LeastLoaded == {p \in Ready : \A q \in Ready : page[p].load <= page[q].load}

\* GetClientForKey; when no page is ready the call returns at once, and
\* nothing has changed.
CallSelects(c) ==
  /\ call[c].pc = "idle"
  /\ \E p \in LeastLoaded :
       call' = [call EXCEPT ![c].pc = "selected", ![c].page = p]
  /\ UNCHANGED <<chan, requests, reqSeq, clients, page, answering, asked>>

\* Mutant of NextId: an id is free again when its call has returned.
NextId_Reused == Cardinality(requests) + 1

NextId == reqSeq + 1

\* Client.Send: whether the message is taken
Room(p) == ~page[p].closed /\ Len(page[p].send) < SendBuffer

\* Mutant of CallSends: a call that cannot be sent returns without its
\* deferred functions.
CallSends_NoDefer(c) ==
  LET p == call[c].page IN
  /\ call[c].pc = "selected"
  /\ reqSeq' = reqSeq + 1
  /\ requests' = {r \in requests : r.id # NextId} \cup {[id |-> NextId, call |-> c]}
  /\ call' = [call EXCEPT ![c].pc = IF Room(p) THEN "waiting" ELSE "done", ![c].id = NextId]
  /\ page' = [page EXCEPT ![p].load = @ + 1,
                          ![p].send = IF Room(p) THEN Append(@, [id |-> NextId, of |-> c]) ELSE @]
  /\ UNCHANGED <<chan, clients, answering, asked>>

\* The page's load, a new id, the waiter for it, then the message.  Nobody can
\* tell these apart: the id is asked by no page before the message is sent.
CallSends(c) ==
  LET p == call[c].page IN
  /\ call[c].pc = "selected"
  /\ reqSeq' = reqSeq + 1
  /\ requests' = {r \in requests : r.id # NextId} \cup {[id |-> NextId, call |-> c]}
  /\ call' = [call EXCEPT ![c].pc = IF Room(p) THEN "waiting" ELSE "returning", ![c].id = NextId]
  /\ page' = [page EXCEPT ![p].load = @ + 1,
                          ![p].send = IF Room(p) THEN Append(@, [id |-> NextId, of |-> c]) ELSE @]
  /\ UNCHANGED <<chan, clients, answering, asked>>

CallReceives(c) ==
  /\ call[c].pc = "waiting" /\ chan[c] # <<>>
  /\ call' = [call EXCEPT ![c].pc = "returning", ![c].answer = Head(chan[c])]
  /\ chan' = [chan EXCEPT ![c] = Tail(@)]
  /\ UNCHANGED <<requests, reqSeq, clients, page, answering, asked>>

\* Mutant of CallTimesOut: only a page that is connected is given up on.
CallTimesOut_IfUp(c) ==
  /\ call[c].pc = "waiting" /\ page[call[c].page].conn = "up"
  /\ call' = [call EXCEPT ![c].pc = "returning"]
  /\ UNCHANGED <<chan, requests, reqSeq, clients, page, answering, asked>>

CallTimesOut(c) ==
  /\ call[c].pc = "waiting"
  /\ call' = [call EXCEPT ![c].pc = "returning"]
  /\ UNCHANGED <<chan, requests, reqSeq, clients, page, answering, asked>>

\* The deferred functions: the waiter is removed under the lock ...
CallDeregisters(c) ==
  /\ call[c].pc = "returning"
  /\ call' = [call EXCEPT ![c].pc = "deregistered"]
  /\ requests' = {r \in requests : r.id # call[c].id}
  /\ UNCHANGED <<chan, reqSeq, clients, page, answering, asked>>

\* ... then its channel is closed, without it, and the page has one call less.
CallCloses(c) ==
  /\ call[c].pc = "deregistered"
  /\ call' = [call EXCEPT ![c].pc = "done"]
  /\ page' = [page EXCEPT ![call[c].page].load = IF @ = 0 THEN 0 ELSE @ - 1]
  /\ UNCHANGED <<chan, requests, reqSeq, clients, answering, asked>>

-----------------------------------------------------------------------------
(* A page: the browser, ReadPump with its workers, WritePump *)

\* ServeHTTP, and Run when it takes the registration
PageConnects(p) ==
  /\ page[p].conn = "away"
  /\ page' = [page EXCEPT ![p].conn = "up", ![p].reader = "reading"]
  /\ clients' = clients \cup {p}
  /\ UNCHANGED <<call, chan, requests, reqSeq, answering, asked>>

\* The browser goes away, or its connection breaks.
PageLeaves(p) ==
  /\ page[p].conn = "up"
  /\ page' = [page EXCEPT ![p].conn = "down"]
  /\ UNCHANGED <<call, chan, requests, reqSeq, clients, answering, asked>>

Reads(p) == page[p].reader = "reading" /\ page[p].conn = "up" /\ ~page[p].closed

\* client_state: the functions of the page have appeared, or are gone.
StateArrives(p) ==
  /\ Reads(p)
  /\ page' = [page EXCEPT ![p].ready = ~@]
  /\ UNCHANGED <<call, chan, requests, reqSeq, clients, answering, asked>>

\* The lookup of handleAPIResponse: goroutine g of page p has found the
\* waiter for an id, or none, which ends it.
Waiter(id) == {r.call : r \in {r \in requests : r.id = id}}
Found(m) == IF Waiter(m.id) = {} THEN NoAnswer ELSE [waiter |-> Waiter(m.id), of |-> m.of]

\* The browser answers on its current connection what it was asked on this
\* one or on an earlier one, each id once.
AnswerArrives(p) ==
  /\ Reads(p)
  /\ \E m \in asked :
       /\ asked' = asked \ {m}
       /\ IF Len(page[p].msgChan) < QueueSize
          THEN /\ page' = [page EXCEPT ![p].msgChan = Append(@, m)]
               /\ UNCHANGED answering
          ELSE /\ page' = [page EXCEPT ![p].reader =
                             IF Waiter(m.id) = {} THEN @ ELSE "answering"]
               /\ answering' = [answering EXCEPT ![p][Reader] = Found(m)]
  /\ UNCHANGED <<call, chan, requests, reqSeq, clients>>

WorkerTakes(p, w) ==
  /\ answering[p][w] = NoAnswer /\ page[p].msgChan # <<>>
  /\ page' = [page EXCEPT ![p].msgChan = Tail(@)]
  /\ answering' = [answering EXCEPT ![p][w] = Found(Head(page[p].msgChan))]
  /\ UNCHANGED <<call, chan, requests, reqSeq, clients, asked>>

\* respChan <- resp.  Its buffer of two always has room (TablesAreCalls), so
\* that the five seconds after which the sender would give up never pass.
AnswerSent(p, g) ==
  /\ \E c \in answering[p][g].waiter :
       /\ call[c].pc # "done" /\ Len(chan[c]) < 2
       /\ chan' = [chan EXCEPT ![c] = Append(@, answering[p][g].of)]
  /\ answering' = [answering EXCEPT ![p][g] = NoAnswer]
  /\ page' = [page EXCEPT ![p].reader = IF g = Reader THEN "reading" ELSE @]
  /\ UNCHANGED <<call, requests, reqSeq, clients, asked>>

\* The waiter's channel has been closed since the lookup: the send panics.  A
\* worker recovers and goes on; ReadPump recovers too, but has left its loop.
AnswerPanics(p, g) ==
  /\ \E c \in answering[p][g].waiter : call[c].pc = "done"
  /\ answering' = [answering EXCEPT ![p][g] = NoAnswer]
  /\ page' = [page EXCEPT ![p].reader = IF g = Reader THEN "draining" ELSE @]
  /\ UNCHANGED <<call, chan, requests, reqSeq, clients, asked>>

\* Mutant of ReaderStops: a connection that breaks is only noticed by WritePump.
ReaderStops_WhenClosed(p) ==
  /\ page[p].reader = "reading" /\ page[p].closed
  /\ page' = [page EXCEPT ![p].reader = "draining"]
  /\ UNCHANGED <<call, chan, requests, reqSeq, clients, answering, asked>>

\* Conn.Read fails: ReadPump closes msgChan and waits for its workers.
ReaderStops(p) ==
  /\ page[p].reader = "reading" /\ (page[p].conn = "down" \/ page[p].closed)
  /\ page' = [page EXCEPT ![p].reader = "draining"]
  /\ UNCHANGED <<call, chan, requests, reqSeq, clients, answering, asked>>

\* The workers are done; Run takes the page out and closes it.
PageUnregisters(p) ==
  /\ page[p].reader = "draining" /\ page[p].msgChan = <<>>
  /\ \A w \in Workers : answering[p][w] = NoAnswer
  /\ clients' = clients \ {p}
  /\ page' = [page EXCEPT ![p].reader = "gone", ![p].closed = TRUE,
                          ![p].conn = "down", ![p].ready = FALSE, ![p].send = <<>>]
  /\ UNCHANGED <<call, chan, requests, reqSeq, answering, asked>>

\* WritePump; a write that fails closes the client.
WriterSends(p) ==
  /\ ~page[p].closed /\ page[p].send # <<>>
  /\ IF page[p].conn = "up"
     THEN /\ asked' = asked \cup {Head(page[p].send)}
          /\ page' = [page EXCEPT ![p].send = Tail(@)]
     ELSE /\ page' = [page EXCEPT ![p].closed = TRUE, ![p].send = <<>>]
          /\ UNCHANGED asked
  /\ UNCHANGED <<call, chan, requests, reqSeq, clients, answering>>

-----------------------------------------------------------------------------

CallStep(c) == \/ CallSelects(c) \/ CallSends(c) \/ CallReceives(c)
               \/ CallTimesOut(c) \/ CallDeregisters(c) \/ CallCloses(c)

\* What the goroutines of a page do by themselves
AnswerStep(p, g) == AnswerSent(p, g) \/ AnswerPanics(p, g)
WorkerStep(p) == \E w \in Workers : WorkerTakes(p, w) \/ AnswerStep(p, w)
ReaderStep(p) == AnswerStep(p, Reader) \/ ReaderStops(p) \/ PageUnregisters(p)

\* What the browser does
BrowserStep(p) == PageConnects(p) \/ PageLeaves(p) \/ StateArrives(p) \/ AnswerArrives(p)

Next ==
  \/ \E c \in Calls : CallStep(c)
  \/ \E p \in Pages : WorkerStep(p) \/ ReaderStep(p) \/ WriterSends(p) \/ BrowserStep(p)

Spec == Init /\ [][Next]_vars

\* The Go scheduler runs every goroutine that can go on, and time passes for a
\* call that waits.  No browser is obliged to come, to answer or to stay.
Fairness ==
  /\ \A c \in Calls : WF_vars(CallStep(c))
  /\ \A p \in Pages : WF_vars(WorkerStep(p)) /\ WF_vars(ReaderStep(p)) /\ WF_vars(WriterSends(p))

FairSpec == Spec /\ Fairness

-----------------------------------------------------------------------------
(* Properties *)

\* CallAPI returns the answer to its own request: however late the answer to
\* a call that gave up, and on whatever connection it comes, no later call
\* takes it for its own.
AnswersMatch == \A c \in Calls : call[c].answer \in {NoCall, c}

\* What the hub keeps of its calls is what is in flight.  The pending table
\* holds exactly the calls that wait: nothing leaks when a send fails or a page
\* is gone, and no waiter is dropped early.
TableIsCalls ==
  requests = {[id |-> call[c].id, call |-> c] : c \in {d \in Calls : call[d].pc \in Registered}}

\* The load the selector goes by is the number of calls a page has in flight,
\* for pages that have gone too: otherwise a page would be shunned for ever.
LoadIsCalls ==
  \A p \in Pages :
    page[p].load = Cardinality({c \in Calls : call[c].page = p /\ call[c].pc \in InFlight})

\* No request is answered twice: the channel of a call never fills up.
ChannelsHaveRoom == \A c \in Calls : Len(chan[c]) <= 1

TablesAreCalls == TableIsCalls /\ LoadIsCalls /\ ChannelsHaveRoom

\* Every call that has picked a page returns, whether the page answers or goes.
CallsEnd == \A c \in Calls : call[c].pc = "selected" ~> call[c].pc = "done"

\* A page whose connection is down leaves the hub, so that the selector stops
\* picking it; the answers its workers still hold do not keep it there.
DeadPagesLeave == \A p \in Pages : page[p].conn = "down" ~> p \notin clients
=============================================================================
