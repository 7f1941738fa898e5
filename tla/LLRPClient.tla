----------------------------- MODULE LLRPClient -----------------------------
(***************************************************************************)
(* One LLRPClient object (client.py) on its event loop: several tasks call *)
(* connect(), transact() and close() on it, a read loop serves the current *)
(* transport, consumers take from its three queues, and an LLRP reader at  *)
(* the other end answers, chatters, breaks the protocol or goes away.      *)
(*                                                                         *)
(* An action is what runs between two awaits.  A task that is cancelled    *)
(* or times out at an await leaves by the same handlers, so both are one   *)
(* action.  _abort() is one action although it awaits the read task: the   *)
(* cancelled read loop ends at once, two turns of the event loop later     *)
(* _abort() is back, and no connect() gets a socket in that time.          *)
(***************************************************************************)
EXTENDS DropOldest, Integers, FiniteSets

CONSTANTS
    Tasks,          \* tasks that share the client object
    MaxId,          \* largest message ID: 0xFFFFFFFF in the code
    Capacity,       \* maxsize of each queue
    Chatter,        \* kinds of unsolicited messages the reader sends
    MaxTransacts,   \* bound: transactions in the client's lifetime
    MaxConn,        \* bound: transports opened in the client's lifetime
    MaxSent,        \* bound: unsolicited messages the reader sends
    MaxInbox        \* bound: messages on their way to the client

Queues == {"reports", "events", "edges"}
ConnEvents == {"accepted", "refused"}
Kinds == ConnEvents \cup
           {"keepalive", "report", "gpi", "event", "response", "garbage", "eof"}

ASSUME MaxIdAssumption == MaxId \in Nat \ {0}
ASSUME CapacityAssumption == Capacity \in [Queues -> Nat \ {0}]
ASSUME ChatterAssumption == Chatter \subseteq Kinds \ {"response", "eof"}
ASSUME BoundsAssumption == /\ MaxTransacts \in Nat
                           /\ MaxConn \in Nat
                           /\ MaxSent \in Nat
                           /\ MaxInbox \in Nat
\* Message IDs do not wrap in the lifetime of the modelled client.
ASSUME NoWrapAssumption == MaxTransacts <= MaxId

VARIABLES
    \* the client object
    writer,      \* transport _reader/_writer refer to, 0 for None
    closeExc,    \* _close_exc: why the connection died
    closing,     \* _closing
    connEvent,   \* the future _conn_event
    readTask,    \* transport served by the task in _read_task, 0 for None
    pending,     \* _pending: message ID -> transaction whose future it is, or 0
    nextId,      \* _next_id
    queue,       \* reports, events, gpi_edges
    dropped,     \* dropped_reports, dropped_events; no counter for gpi_edges
    \* the tasks
    pc,          \* where each task is in connect/transact/close
    mid,         \* local mid of the transact the task is in
    tok,         \* the transaction the task is in, 0 if none
    fut,         \* the future the task awaits in transact
    got,         \* the transaction whose answer the future was set to
    \* the network and the reader
    sockets,     \* transports that are open on this side
    loops,       \* transports that a running _read_loop serves
    conn,        \* transports opened so far: the last one's number
    inbox,       \* messages from the reader, on the last transport
    wire,        \* requests on the last transport the reader has not answered
    \* history
    issued,      \* transactions so far: the last one's number
    arrived,     \* entries offered to each queue so far
    taken,       \* entries consumers took from each queue
    sent         \* unsolicited messages sent so far

object == <<writer, closeExc, closing, connEvent, readTask, pending, nextId>>
mailbox == <<queue, dropped, arrived, taken>>
calls == <<pc, mid, tok, fut, got, issued>>
network == <<sockets, loops, conn, inbox, wire, sent>>
vars == <<object, mailbox, calls, network>>

Ids == 1..MaxId
Toks == 0..MaxTransacts
Msg == [kind : Kinds, id : 0..MaxId, tok : Toks]

Init ==
    /\ writer = 0 /\ closeExc = "none" /\ closing = FALSE
    /\ connEvent = "none" /\ readTask = 0
    /\ pending = [i \in Ids |-> 0]
    /\ nextId = 0
    /\ queue = [q \in Queues |-> <<>>]
    /\ dropped = [q \in Queues |-> 0]
    /\ pc = [t \in Tasks |-> "idle"]
    /\ mid = [t \in Tasks |-> 0]
    /\ tok = [t \in Tasks |-> 0]
    /\ fut = [t \in Tasks |-> "none"]
    /\ got = [t \in Tasks |-> 0]
    /\ sockets = {} /\ loops = {} /\ conn = 0
    /\ inbox = <<>> /\ wire = {}
    /\ issued = 0 /\ sent = 0
    /\ arrived = [q \in Queues |-> 0]
    /\ taken = [q \in Queues |-> 0]

-----------------------------------------------------------------------------
\* What several calls share.

\* The property `connected`.
Connected == writer # 0 /\ closeExc = "none"

\* The reader has not hung up on the last transport.
PeerUp == /\ conn \in sockets
          /\ \A i \in 1..Len(inbox) : inbox[i].kind # "eof"

\* Futures after _shutdown() failed every one that is registered and not done.
FailRegistered ==
    [t \in Tasks |-> IF fut[t] = "undone" /\ \E i \in Ids : pending[i] = tok[t]
                     THEN "failed" ELSE fut[t]]

\* _shutdown(exc), futures excepted: they are FailRegistered, and the task
\* that runs it may be about to drop its own.
Shutdown(exc) ==
    /\ closeExc' = IF closeExc = "none" THEN exc ELSE closeExc
    /\ pending' = [i \in Ids |-> 0]
    /\ connEvent' = IF connEvent = "undone" THEN "failed" ELSE connEvent
    /\ sockets' = sockets \ {writer}
    /\ writer' = 0
    /\ inbox' = <<>>
    /\ wire' = {}

\* Mutant of Abort: the read task is not cancelled.
AbortKeepsTask ==
    /\ Shutdown("none")
    /\ UNCHANGED <<loops, readTask>>

\* _abort().
Abort ==
    /\ Shutdown("none")
    /\ loops' = loops \ {readTask}
    /\ readTask' = 0

\* Mutant of AllocId: IDs restart at 0.
AllocFromZero == nextId

\* _alloc_message_id().
AllocId == (nextId % MaxId) + 1

\* transact() up to its await: register the future, write the request.
Issue(t) ==
    /\ issued < MaxTransacts
    /\ nextId' = AllocId
    /\ issued' = issued + 1
    /\ mid' = [mid EXCEPT ![t] = AllocId]
    /\ tok' = [tok EXCEPT ![t] = issued + 1]
    /\ fut' = [fut EXCEPT ![t] = "undone"]
    /\ pending' = [pending EXCEPT ![AllocId] = issued + 1]
    /\ wire' = IF PeerUp THEN wire \cup {[id |-> AllocId, tok |-> issued + 1]}
                         ELSE wire
    /\ UNCHANGED got

\* A task returns from connect, transact or close; f is fut without its own.
Leave(t, f) ==
    /\ pc' = [pc EXCEPT ![t] = "idle"]
    /\ mid' = [mid EXCEPT ![t] = 0]
    /\ tok' = [tok EXCEPT ![t] = 0]
    /\ got' = [got EXCEPT ![t] = 0]
    /\ fut' = [f EXCEPT ![t] = "none"]

\* The task is scheduled to run because the future it awaits is done.
Woken(t) == fut[t] \in {"reply", "failed"}

-----------------------------------------------------------------------------
\* connect()

\* Callers connect one at a time: ManagedReader, the CLI and `async with` do.
ConnectStart(t) ==
    /\ pc[t] = "idle"
    /\ \A u \in Tasks : pc[u] \notin {"opening", "handshake"}
    /\ writer = 0
    /\ conn < MaxConn
    /\ closing' = FALSE
    /\ closeExc' = "none"
    /\ pc' = [pc EXCEPT ![t] = "opening"]
    /\ UNCHANGED <<writer, connEvent, readTask, pending, nextId, mailbox,
                   mid, tok, fut, got, issued, network>>

\* open_connection() raises, times out or is cancelled.
OpenFails(t) ==
    /\ pc[t] = "opening"
    /\ pc' = [pc EXCEPT ![t] = "idle"]
    /\ UNCHANGED <<object, mailbox, mid, tok, fut, got, issued, network>>

\* A task whose future is done is back before a socket can be.
OpenSucceeds(t) ==
    /\ pc[t] = "opening"
    /\ \A u \in Tasks : ~Woken(u)
    /\ conn' = conn + 1
    /\ writer' = conn + 1
    /\ sockets' = sockets \cup {conn + 1}
    /\ connEvent' = "undone"
    /\ readTask' = conn + 1
    /\ loops' = loops \cup {conn + 1}
    /\ pc' = [pc EXCEPT ![t] = "handshake"]
    /\ UNCHANGED <<closeExc, closing, pending, nextId, mailbox, mid, tok, fut,
                   got, issued, inbox, wire, sent>>

\* The reader accepted: connect() returns.
HandshakeAccepted(t) ==
    /\ pc[t] = "handshake"
    /\ connEvent = "accepted"
    /\ pc' = [pc EXCEPT ![t] = "idle"]
    /\ UNCHANGED <<object, mailbox, mid, tok, fut, got, issued, network>>

\* Mutant of HandshakeFails: raise without _abort().
HandshakeLeaks(t) ==
    /\ pc[t] = "handshake"
    /\ Leave(t, fut)
    /\ UNCHANGED <<object, mailbox, issued, network>>

\* Refused, failed by _shutdown, timed out or cancelled: _abort(), then raise.
HandshakeFails(t) ==
    /\ pc[t] = "handshake"
    /\ Abort
    /\ Leave(t, FailRegistered)
    /\ UNCHANGED <<closing, nextId, mailbox, issued, conn, sent>>

-----------------------------------------------------------------------------
\* transact() and close()

TransactStart(t) ==
    /\ pc[t] = "idle"
    /\ Connected
    /\ Issue(t)
    /\ pc' = [pc EXCEPT ![t] = "waiting"]
    /\ UNCHANGED <<writer, closeExc, closing, connEvent, readTask, mailbox,
                   sockets, loops, conn, inbox, sent>>

\* Mutant of Unregister: no `finally`.
StayRegistered(t) == UNCHANGED pending

\* The `finally` of transact: whoever leaves takes its registration along.
Unregister(t) == pending' = [pending EXCEPT ![mid[t]] = 0]

TransactReturns(t) ==
    /\ pc[t] = "waiting"
    /\ Woken(t)
    /\ Unregister(t)
    /\ Leave(t, fut)
    /\ UNCHANGED <<writer, closeExc, closing, connEvent, readTask, nextId,
                   mailbox, issued, network>>

\* Timeout, cancellation, or drain() raising: at any time, even when the
\* future has been set but the task has not run yet.
TransactGivesUp(t) ==
    /\ pc[t] = "waiting"
    /\ Unregister(t)
    /\ Leave(t, fut)
    /\ UNCHANGED <<writer, closeExc, closing, connEvent, readTask, nextId,
                   mailbox, issued, network>>

\* close() of a connected client says CLOSE_CONNECTION first.
CloseStart(t) ==
    /\ pc[t] = "idle"
    /\ Connected /\ ~closing
    /\ closing' = TRUE
    /\ Issue(t)
    /\ pc' = [pc EXCEPT ![t] = "goodbye"]
    /\ UNCHANGED <<writer, closeExc, connEvent, readTask, mailbox,
                   sockets, loops, conn, inbox, sent>>

\* Mutant of GoodbyeEnds: close() waits for the answer without a timeout.
GoodbyeAnswered(t) ==
    /\ pc[t] = "goodbye"
    /\ Woken(t)
    /\ Abort
    /\ Leave(t, FailRegistered)
    /\ UNCHANGED <<closing, nextId, mailbox, issued, conn, sent>>

\* Answered, failed, timed out or cancelled: `finally` aborts.
GoodbyeEnds(t) ==
    /\ pc[t] = "goodbye"
    /\ Abort
    /\ Leave(t, FailRegistered)
    /\ UNCHANGED <<closing, nextId, mailbox, issued, conn, sent>>

\* close() of a client that is not connected, or that another task is closing.
CloseNow(t) ==
    /\ pc[t] = "idle"
    /\ ~Connected \/ closing
    /\ Abort
    /\ fut' = FailRegistered
    /\ UNCHANGED <<closing, nextId, mailbox, pc, mid, tok, got, issued, conn, sent>>

-----------------------------------------------------------------------------
\* _read_loop() and _dispatch()

\* The message the read loop of a transport takes next.
Incoming == Head(inbox)

\* The read loop of transport c decodes a message of one of the given kinds.
Reads(c, kinds) ==
    /\ c \in loops /\ c = conn /\ c \in sockets
    /\ inbox # <<>> /\ Incoming.kind \in kinds
    /\ inbox' = Tail(inbox)

\* _offer a message, known by its number, to the queues in qs.  The drop count
\* of gpi_edges is thrown away by its caller.
Deliver(qs) ==
    /\ queue' = [q \in Queues |->
                   IF q \in qs
                   THEN Offer(queue[q], arrived[q] + 1, Capacity[q])
                   ELSE queue[q]]
    /\ dropped' = [q \in Queues |->
                     IF q \in qs \ {"edges"}
                     THEN dropped[q] + OfferDrops(queue[q], Capacity[q])
                     ELSE dropped[q]]
    /\ arrived' = [q \in Queues |-> IF q \in qs THEN arrived[q] + 1 ELSE arrived[q]]
    /\ UNCHANGED taken

\* Acknowledged; the acknowledgement changes nothing that is kept here.
DispatchKeepalive(c) ==
    /\ Reads(c, {"keepalive"})
    /\ UNCHANGED <<object, mailbox, calls, sockets, loops, conn, wire, sent>>

DispatchReport(c) ==
    /\ Reads(c, {"report"})
    /\ Deliver({"reports"})
    /\ UNCHANGED <<object, calls, sockets, loops, conn, wire, sent>>

\* The first connection event answers connect().
DispatchConnEvent(c) ==
    /\ Reads(c, ConnEvents)
    /\ connEvent = "undone"
    /\ connEvent' = Incoming.kind
    /\ UNCHANGED <<writer, closeExc, closing, readTask, pending, nextId,
                   mailbox, calls, sockets, loops, conn, wire, sent>>

\* Every other notification goes to the event queue, a GPI event to the
\* queue of edges too.
DispatchNotification(c) ==
    /\ \/ Reads(c, {"gpi", "event"})
       \/ Reads(c, ConnEvents) /\ connEvent # "undone"
    /\ Deliver({"events"} \cup (IF Incoming.kind = "gpi" THEN {"edges"} ELSE {}))
    /\ UNCHANGED <<object, calls, sockets, loops, conn, wire, sent>>

\* Mutant of Answers: the future is looked up without its ID.
AnswersAnyone(id, t) == fut[t] = "undone"

\* The transaction t is what a message with this ID answers.
Answers(id, t) == fut[t] = "undone" /\ pending[id] = tok[t]

\* A response whose transaction still waits ...
DispatchResponse(c) ==
    /\ Reads(c, {"response"})
    /\ pending' = [pending EXCEPT ![Incoming.id] = 0]
    /\ \E t \in Tasks :
         /\ Answers(Incoming.id, t)
         /\ fut' = [fut EXCEPT ![t] = "reply"]
         /\ got' = [got EXCEPT ![t] = Incoming.tok]
    /\ UNCHANGED <<writer, closeExc, closing, connEvent, readTask, nextId,
                   mailbox, pc, mid, tok, issued, sockets, loops, conn, wire, sent>>

\* ... and one that is too late, which becomes an event.
DispatchUnmatched(c) ==
    /\ Reads(c, {"response"})
    /\ \A t \in Tasks : ~Answers(Incoming.id, t)
    /\ pending' = [pending EXCEPT ![Incoming.id] = 0]
    /\ Deliver({"events"})
    /\ UNCHANGED <<writer, closeExc, closing, connEvent, readTask, nextId,
                   calls, sockets, loops, conn, wire, sent>>

\* The read loop of transport c ends in _shutdown(exc).
LoopStops(c, exc) ==
    /\ Shutdown(exc)
    /\ fut' = FailRegistered
    /\ loops' = loops \ {c}
    /\ UNCHANGED <<closing, readTask, nextId, mailbox, pc, mid, tok, got,
                   issued, conn, sent>>

\* Mutant of LoopEnds: the loop does not ask whether the client is closing.
LoopEndsAlarmed(c) ==
    /\ c \in loops
    /\ \/ c \notin sockets
       \/ c = conn /\ inbox # <<>> /\ Incoming.kind = "eof"
    /\ LoopStops(c, "lost")

\* The peer hung up, or the transport was closed under the loop.
LoopEnds(c) ==
    /\ c \in loops
    /\ \/ c \notin sockets
       \/ c = conn /\ inbox # <<>> /\ Incoming.kind = "eof"
    /\ LoopStops(c, IF closing THEN "none" ELSE "lost")

\* A message that cannot be framed or decoded.
LoopBreaks(c) ==
    /\ c \in loops /\ c = conn /\ c \in sockets
    /\ inbox # <<>> /\ Incoming.kind = "garbage"
    /\ LoopStops(c, "protocol")

ReadLoop(c) ==
    \/ DispatchKeepalive(c) \/ DispatchReport(c) \/ DispatchConnEvent(c)
    \/ DispatchNotification(c) \/ DispatchResponse(c) \/ DispatchUnmatched(c)
    \/ LoopEnds(c) \/ LoopBreaks(c)

-----------------------------------------------------------------------------
\* Consumers of the queues: inventory(), events(), gpi_events().
Take(q) ==
    /\ queue[q] # <<>>
    /\ queue' = [queue EXCEPT ![q] = Tail(@)]
    /\ taken' = [taken EXCEPT ![q] = @ + 1]
    /\ UNCHANGED <<object, dropped, arrived, calls, network>>

-----------------------------------------------------------------------------
\* The reader at the other end (external): it answers each request at most
\* once, in any order or never, and hangs up when it likes.

Send(m) == /\ PeerUp
           /\ Len(inbox) < MaxInbox
           /\ inbox' = Append(inbox, m)

PeerSends(kind) ==
    /\ sent < MaxSent
    /\ Send([kind |-> kind, id |-> 0, tok |-> 0])
    /\ sent' = sent + 1
    /\ UNCHANGED <<object, mailbox, calls, sockets, loops, conn, wire>>

PeerReplies(r) ==
    /\ Send([kind |-> "response", id |-> r.id, tok |-> r.tok])
    /\ wire' = wire \ {r}
    /\ UNCHANGED <<object, mailbox, calls, sockets, loops, conn, sent>>

PeerHangsUp ==
    /\ Send([kind |-> "eof", id |-> 0, tok |-> 0])
    /\ UNCHANGED <<object, mailbox, calls, sockets, loops, conn, wire, sent>>

-----------------------------------------------------------------------------
Connect(t) == \/ ConnectStart(t) \/ OpenFails(t) \/ OpenSucceeds(t)
              \/ HandshakeAccepted(t) \/ HandshakeFails(t)
Transact(t) == TransactStart(t) \/ TransactReturns(t) \/ TransactGivesUp(t)
Close(t) == CloseStart(t) \/ GoodbyeEnds(t) \/ CloseNow(t)

Peer == \/ \E kind \in Chatter : PeerSends(kind)
        \/ \E r \in wire : PeerReplies(r)
        \/ PeerHangsUp

Next == \/ \E t \in Tasks : Connect(t) \/ Transact(t) \/ Close(t)
        \/ \E c \in loops : ReadLoop(c)
        \/ \E q \in Queues : Take(q)
        \/ Peer

Spec == Init /\ [][Next]_vars

\* The event loop runs what is ready, and the timers of connect and transact
\* fire.  Nothing is assumed of the reader or of the consumers.
Fairness ==
    /\ \A t \in Tasks :
         /\ WF_vars(OpenFails(t) \/ OpenSucceeds(t))
         /\ WF_vars(HandshakeAccepted(t) \/ HandshakeFails(t))
         /\ WF_vars(TransactReturns(t) \/ TransactGivesUp(t))
         /\ WF_vars(GoodbyeEnds(t))
    /\ \A c \in 1..MaxConn : WF_vars(c \in loops /\ ReadLoop(c))

FairSpec == Spec /\ Fairness

-----------------------------------------------------------------------------
(***************************************************************************)
(* Properties                                                              *)
(***************************************************************************)

ObjectType ==
    /\ writer \in 0..conn /\ readTask \in 0..conn
    /\ closeExc \in {"none", "lost", "protocol"}
    /\ closing \in BOOLEAN
    /\ connEvent \in ConnEvents \cup {"none", "undone", "failed"}
    /\ pending \in [Ids -> Toks]
    /\ nextId \in 0..MaxId

MailboxType ==
    /\ queue \in [Queues -> Seq(Nat)]
    /\ \A q \in Queues : Len(queue[q]) <= Capacity[q]
    /\ dropped \in [Queues -> Nat]
    /\ arrived \in [Queues -> Nat]
    /\ taken \in [Queues -> Nat]

CallType ==
    /\ pc \in [Tasks -> {"idle", "opening", "handshake", "waiting", "goodbye"}]
    /\ mid \in [Tasks -> 0..MaxId]
    /\ tok \in [Tasks -> Toks]
    /\ got \in [Tasks -> Toks]
    /\ fut \in [Tasks -> {"none", "undone", "reply", "failed"}]
    /\ issued \in Toks

NetworkType ==
    /\ conn \in 0..MaxConn
    /\ sockets \subseteq 1..conn /\ loops \subseteq 1..conn
    /\ inbox \in Seq(Msg)
    /\ wire \subseteq [id : Ids, tok : Toks]
    /\ sent \in 0..MaxSent

\* Types: queues never outgrow their maxsize, a request on the wire never has
\* message ID 0, and the client refers to no transport it never opened.
TypeOK == ObjectType /\ MailboxType /\ CallType /\ NetworkType

\* transact() returns the answer to its own request and to no other: not to
\* one that timed out before, on this transport or an earlier one.  (A part of
\* the inductive invariant; Serves says more.)
Correlated == \A t \in Tasks : fut[t] = "reply" => got[t] = tok[t]

\* The transactions whose answer is still to come: requests that the reader has
\* not answered, and answers on their way.
Owed == {r.tok : r \in wire}
            \cup {inbox[i].tok : i \in {k \in 1..Len(inbox) : inbox[k].kind = "response"}}

\* The client as its callers see it.
Service == INSTANCE RequestService WITH
    link <- writer, links <- conn, requests <- issued,
    state <- fut, number <- tok, answer <- got, owed <- Owed

\* However calls, losses, timeouts, cancellations, late answers and reconnections
\* overlap: transact() returns the answer to its own request, which came over the
\* connection the request went out on; no answer reaches two tasks or a later
\* request; and the end of a connection is told to all who wait, at once.
Serves == Service!Spec

\* Nobody waits for what cannot come: a transact() whose future is not done
\* is registered where _dispatch and _shutdown look for it, a connect() waits
\* for a future that can still be set, and a read loop is there to do it.
WaitersReachable ==
    /\ \A t \in Tasks : fut[t] = "undone" => /\ pending[mid[t]] = tok[t]
                                             /\ writer \in loops
    /\ (\E t \in Tasks : pc[t] = "handshake") /\ connEvent = "undone"
         => writer \in loops

\* However a transaction ends, it leaves no entry in _pending behind that
\* could swallow a later response with the same ID.
NoLeakedRegistration ==
    \A i \in Ids : pending[i] # 0 =>
        \E t \in Tasks : mid[t] = i /\ tok[t] = pending[i] /\ fut[t] = "undone"

\* Whoever waits is registered where an answer or a failure finds it, and
\* nobody else is: an answer that comes late has nobody to reach.
Registrations == WaitersReachable /\ NoLeakedRegistration

\* `connected` tells the truth (QA-1): the client has a transport exactly when
\* one is open and served, there is never a second one, and no transport or
\* read loop outlives it.  So _ensure_open never finds a writer and a
\* _close_exc together.
OneTransport ==
    /\ sockets = IF writer = 0 THEN {} ELSE {writer}
    /\ loops = sockets
    /\ writer # 0 => closeExc = "none"

\* The end of stream that a polite close() provokes is not a lost connection.
CleanClose == closing => closeExc # "lost"

\* The entries of a queue are the last ones of the k that were offered to it.
Newest(entries, k) ==
    \A i \in 1..Len(entries) : entries[i] = k - Len(entries) + i

\* Drop-oldest: a queue holds the newest entries offered to it, in order,
\* with no gap, whatever its consumer took.
NewestKept == \A q \in Queues : Newest(queue[q], arrived[q])

\* Every report and event that neither reached a consumer nor waits for one
\* is in dropped_reports or dropped_events.
DropsCounted ==
    \A q \in Queues \ {"edges"} :
        arrived[q] = taken[q] + dropped[q] + Len(queue[q])

\* A consumer that does not keep up loses the oldest entries of a queue and
\* no others, and the client says how many (QA-2).
LossesAccounted == NewestKept /\ DropsCounted

\* A connect() that fails and a close(), however it ends, leave no transport
\* and no read loop behind (QA-10).
Releases ==
    [][\A t \in Tasks :
         /\ pc[t] # "idle" /\ pc'[t] = "idle"
         /\ pc[t] = "goodbye" \/ (pc[t] = "handshake" /\ connEvent # "accepted")
         => writer' = 0 /\ sockets' = {} /\ loops' = {}]_vars

\* Every connect(), transact() and close() returns or raises, whatever the
\* reader does.
CallsReturn == \A t \in Tasks : pc[t] # "idle" ~> pc[t] = "idle"

\* A client whose reader hung up does not stay connected to it.
HangUpNoticed ==
    (\E i \in 1..Len(inbox) : inbox[i].kind = "eof") ~> writer = 0

\* Neither a call nor a dead connection stays as it is for ever.
Progress == CallsReturn /\ HangUpNoticed
=============================================================================
