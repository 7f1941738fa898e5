---------------------------- MODULE ReaderSession ----------------------------
(***************************************************************************)
(* Reader.inventory() and the tag operations of reader.py, called by       *)
(* several tasks on one Reader, against the ROSpec and the AccessSpec the  *)
(* emulator keeps for them.  Both calls are scripts of LLRP requests: each *)
(* request is awaited, answered, refused, timed out, cancelled or cut off, *)
(* and the `finally` blocks send requests of their own.                    *)
(*                                                                         *)
(* transact() is what LLRPClient shows it to be: a request goes out, and   *)
(* its own answer, a timeout or the loss of the connection comes back.     *)
(* The reader serves requests in order.  A task runs as soon as its answer *)
(* is dispatched: asyncio wakes tasks in the order their futures were set. *)
(***************************************************************************)
EXTENDS ROSpecTable, DropOldest, Integers

CONSTANTS
    Tasks,
    QueueSize,      \* maxsize of the client's report queue
    Situations      \* what there is to expect: a set of records with the fields
                    \*   kinds     what each task may call: inventory, gated, access
                    \*   slow      may an answer come after the timeout?
                    \*   cancel    awaits at which a call may be cancelled
                    \*   calls, reports, conns   bounds: how many of each

\* The requests of the scripts, named for where they are sent.
Request == [delete0 |-> "DELETE", add |-> "ADD", gpi |-> "CONFIG",
            enable |-> "ENABLE", start |-> "START", stop |-> "STOP",
            delete |-> "DELETE", adelete |-> "ADEL", aadd |-> "AADD",
            aenable |-> "AENABLE", aclean |-> "ADEL"]
Awaits == DOMAIN Request

\* The `try` block of inventory().
Streaming == {"delete0", "add", "gpi", "enable", "start", "stream"}
\* Awaits whose response goes through check_status().
Checked == {"add", "gpi", "enable", "start", "aadd", "aenable"}
\* Awaits whose LLRPError is suppressed and the script goes on.
Suppressed == {"delete0", "adelete"}

ASSUME SessionAssumption ==
    /\ QueueSize \in Nat \ {0}
    /\ \A s \in Situations :
          /\ s.kinds \in [Tasks -> SUBSET {"inventory", "gated", "access"}]
          /\ s.slow \in BOOLEAN
          /\ s.cancel \subseteq Awaits
          /\ s.calls \in Nat /\ s.reports \in Nat /\ s.conns \in Nat \ {0}

VARIABLES
    active,         \* _inventory_active
    reports,        \* client.reports
    pc,             \* the await each task is at
    kind,           \* what it called
    call,           \* the number of that call, 0 if none
    born,           \* the connection it began on
    awaits,         \* the number of the request it awaits
    cancelled,      \* has it been cancelled?
    conn,           \* the connection, 0 for none
    outbox,         \* requests on their way to the reader
    inbox,          \* responses and reports on their way back
    rospecs,        \* the reader's _rospecs: the spec is its call and kind
    access,         \* its _accessspecs: the one of llrpkit, or NoAccess, with
                    \* its call and (history) the connection it came by
    calls, reqs, reported, conns,  \* counters
    situation       \* one of Situations, from the start

tasks == <<pc, kind, call, born, awaits, cancelled>>
reader == <<rospecs, access>>
svars == <<active, reports, tasks, conn, outbox, inbox, reader,
           calls, reqs, reported, conns, situation>>

RoId == 1
NoAccess == [call |-> 0, conn |-> 0, enabled |-> FALSE]

SessionInit ==
    /\ active = FALSE /\ reports = <<>>
    /\ pc = [t \in Tasks |-> "idle"] /\ kind = [t \in Tasks |-> "none"]
    /\ call = [t \in Tasks |-> 0] /\ born = [t \in Tasks |-> 0]
    /\ awaits = [t \in Tasks |-> 0] /\ cancelled = [t \in Tasks |-> FALSE]
    /\ conn = 1 /\ outbox = <<>> /\ inbox = <<>>
    /\ rospecs = NoROSpecs /\ access = NoAccess
    /\ calls = 0 /\ reqs = 0 /\ reported = 0 /\ conns = 1
    /\ situation \in Situations

-----------------------------------------------------------------------------
\* The scripts

\* Where a call goes when its inventory is over.
Out(t) == IF kind[t] = "access" THEN "aclean" ELSE "idle"

\* What follows an await that went well, or whose failure is suppressed.
Continue(t) ==
    CASE pc[t] = "delete0" -> "add"
      [] pc[t] = "add"     -> IF kind[t] = "gated" THEN "gpi" ELSE "enable"
      [] pc[t] = "gpi"     -> "enable"
      [] pc[t] = "enable"  -> IF kind[t] = "gated" THEN "stream" ELSE "start"
      [] pc[t] = "start"   -> "stream"
      [] pc[t] = "stop"    -> "delete"
      [] pc[t] = "delete"  -> Out(t)
      [] pc[t] = "adelete" -> "aadd"
      [] pc[t] = "aadd"    -> "aenable"
      [] pc[t] = "aenable" -> IF active THEN "aclean" ELSE "delete0"
      [] pc[t] = "aclean"  -> "idle"

\* Mutant of Unwind: a stream that did not get to START is not torn down.
UnwindStarted(t) ==
    CASE pc[t] \in {"start", "stream"} -> "stop"
      [] pc[t] = "aenable"             -> "aclean"
      [] pc[t] \in {"adelete", "aadd", "aclean"} -> "idle"
      [] OTHER                         -> Out(t)

\* Mutant of Unwind: the `finally` of a tag operation covers the inventory only.
UnwindInside(t) ==
    CASE pc[t] \in Streaming         -> "stop"
      [] pc[t] \in {"stop", "delete"} -> Out(t)
      [] OTHER                        -> "idle"

\* What follows one that did not: the `finally` blocks.
Unwind(t) ==
    CASE pc[t] \in Streaming         -> "stop"
      [] pc[t] \in {"stop", "delete"} -> Out(t)
      [] pc[t] = "aenable"            -> "aclean"
      [] OTHER                        -> "idle"

\* _inventory_active: raised on entry, lowered before the teardown.
Activate(t, s) ==
    active' = IF s = "delete0" THEN TRUE
              ELSE IF pc[t] \in Streaming /\ s \notin Streaming THEN FALSE
              ELSE active

\* Mutant of Drain: stale reports stay in the queue.
DrainNothing(t, s) == UNCHANGED reports

\* Reports are dropped once the stale ROSpec is gone.
Drain(t, s) == reports' = IF s = "add" THEN <<>> ELSE reports

\* The task goes on to s and sends the request that s awaits.
GoTo(t, s) ==
    /\ pc' = [pc EXCEPT ![t] = s]
    /\ Activate(t, s)
    /\ IF s \in Awaits
       THEN /\ reqs' = reqs + 1
            /\ awaits' = [awaits EXCEPT ![t] = reqs + 1]
            /\ outbox' = Append(outbox, [req |-> reqs + 1, op |-> Request[s],
                                         call |-> call'[t], gated |-> kind'[t] = "gated"])
       ELSE /\ awaits' = [awaits EXCEPT ![t] = 0]
            /\ UNCHANGED <<reqs, outbox>>

\* The call of t goes on to s.
Advance(t, s) ==
    /\ call' = [call EXCEPT ![t] = IF s = "idle" THEN 0 ELSE @]
    /\ kind' = [kind EXCEPT ![t] = IF s = "idle" THEN "none" ELSE @]
    /\ born' = [born EXCEPT ![t] = IF s = "idle" THEN 0 ELSE @]
    /\ GoTo(t, s)

Begin(t, k, s) ==
    /\ pc[t] = "idle" /\ conn # 0 /\ calls < situation.calls
    /\ k \in situation.kinds[t]
    /\ calls' = calls + 1
    /\ call' = [call EXCEPT ![t] = calls + 1]
    /\ kind' = [kind EXCEPT ![t] = k]
    /\ born' = [born EXCEPT ![t] = conn]
    /\ cancelled' = [cancelled EXCEPT ![t] = FALSE]
    /\ GoTo(t, s)
    /\ UNCHANGED <<reports, conn, inbox, reader, reported, conns>>

\* Mutant of StartInventory: a second stream is not refused.
StartSecond(t, k) == k # "access" /\ Begin(t, k, "delete0")

\* inventory(); a second one raises at once.
StartInventory(t, k) ==
    /\ ~active /\ k # "access"
    /\ Begin(t, k, "delete0")

\* read_memory(), write_memory(), kill_tag() ...: _run_access().
StartAccess(t) == Begin(t, "access", "adelete")

\* The answer to the request a task awaits is dispatched, and the task runs.
Answered(t) ==
    /\ pc[t] \in Awaits
    /\ inbox # <<>> /\ Head(inbox).kind = "response" /\ Head(inbox).req = awaits[t]
    /\ LET s == IF pc[t] \in Checked /\ ~Head(inbox).ok THEN Unwind(t) ELSE Continue(t)
       IN  Advance(t, s) /\ Drain(t, s)
    /\ inbox' = Tail(inbox)
    /\ UNCHANGED <<cancelled, conn, reader, calls, reported, conns>>

\* Mutant of TimesOut: the STOP of the teardown waits for its answer.
TimesOutNotStop(t) ==
    /\ situation.slow
    /\ pc[t] \in Awaits \ {"stop"}
    /\ LET s == IF pc[t] \in Suppressed THEN Continue(t) ELSE Unwind(t)
       IN  Advance(t, s) /\ Drain(t, s)
    /\ UNCHANGED <<cancelled, conn, inbox, reader, calls, reported, conns>>

\* The answer does not come in time.
TimesOut(t) ==
    /\ situation.slow
    /\ pc[t] \in Awaits
    /\ LET s == IF pc[t] \in Suppressed THEN Continue(t) ELSE Unwind(t)
       IN  Advance(t, s) /\ Drain(t, s)
    /\ UNCHANGED <<cancelled, conn, inbox, reader, calls, reported, conns>>

\* The task is cancelled at an await, once.
Cancel(t) ==
    /\ pc[t] \in situation.cancel /\ ~cancelled[t]
    /\ cancelled' = [cancelled EXCEPT ![t] = TRUE]
    /\ Advance(t, Unwind(t))
    /\ UNCHANGED <<reports, conn, inbox, reader, calls, reported, conns>>

\* Duration, max_tags, break, aclose(), an exception or a cancellation.
EndStream(t) ==
    /\ pc[t] = "stream" /\ conn # 0
    /\ Advance(t, Unwind(t))
    /\ UNCHANGED <<reports, cancelled, conn, inbox, reader, calls, reported, conns>>

\* A tag for the consumer.  The result of an operation ends _run_access().
TakeReport(t) ==
    /\ pc[t] = "stream" /\ reports # <<>>
    /\ reports' = Tail(reports)
    /\ IF kind[t] = "access" /\ Head(reports).op # 0
       THEN Advance(t, IF conn # 0 THEN Unwind(t) ELSE "idle")
       ELSE UNCHANGED <<active, pc, kind, call, born, awaits, outbox, reqs>>
    /\ UNCHANGED <<cancelled, conn, inbox, reader, calls, reported, conns>>

-----------------------------------------------------------------------------
\* The client's read loop, as far as no task is concerned

\* A report is queued; a full queue loses its oldest.
DispatchReport ==
    /\ inbox # <<>> /\ Head(inbox).kind = "report"
    /\ reports' = Offer(reports, [call |-> Head(inbox).call, op |-> Head(inbox).op], QueueSize)
    /\ inbox' = Tail(inbox)
    /\ UNCHANGED <<active, tasks, conn, outbox, reader, calls, reqs, reported, conns>>

\* The answer to a request that nobody awaits any more.
DispatchLate ==
    /\ inbox # <<>> /\ Head(inbox).kind = "response"
    /\ \A t \in Tasks : Head(inbox).req # awaits[t]
    /\ inbox' = Tail(inbox)
    /\ UNCHANGED <<active, reports, tasks, conn, outbox, reader, calls, reqs, reported, conns>>

\* The connection is lost: every transact() raises, every call but a stream
\* ends, since nothing can be sent any more.
Lose ==
    /\ conn # 0
    /\ conn' = 0 /\ outbox' = <<>> /\ inbox' = <<>>
    /\ LET Ends(t) == pc[t] # "stream"
       IN  /\ pc' = [t \in Tasks |-> IF Ends(t) THEN "idle" ELSE pc[t]]
           /\ call' = [t \in Tasks |-> IF Ends(t) THEN 0 ELSE call[t]]
           /\ kind' = [t \in Tasks |-> IF Ends(t) THEN "none" ELSE kind[t]]
           /\ born' = [t \in Tasks |-> IF Ends(t) THEN 0 ELSE born[t]]
           /\ awaits' = [t \in Tasks |-> 0]
           /\ active' = \E t \in Tasks : ~Ends(t)
           /\ reports' = IF \E t \in Tasks : pc[t] = "delete0" THEN <<>> ELSE reports
    /\ UNCHANGED <<cancelled, reader, calls, reqs, reported, conns>>

\* A stream whose client is gone ends: it sees it when its queue stays empty
\* for a tick, or because its consumer stops.
StreamLost(t) ==
    /\ pc[t] = "stream" /\ conn = 0
    /\ Advance(t, "idle")
    /\ UNCHANGED <<reports, cancelled, conn, inbox, reader, calls, reported, conns>>

\* connect() again.
Reconnect ==
    /\ conn = 0 /\ conns < situation.conns
    /\ conns' = conns + 1
    /\ conn' = conns + 1
    /\ rospecs' = NoROSpecs
    /\ UNCHANGED <<active, reports, tasks, outbox, inbox, access, calls, reqs, reported>>

-----------------------------------------------------------------------------
\* The reader

Respond(r, ok) == inbox' = Append(inbox, [kind |-> "response", req |-> r.req, ok |-> ok])

ServeROSpec(r) ==
    /\ r.op \in RoOps
    /\ rospecs' = After(rospecs, r.op, RoId, [call |-> r.call, gated |-> r.gated])
    /\ Respond(r, Accepts(rospecs, r.op, RoId))
    /\ UNCHANGED access

ServeAccessSpec(r) ==
    /\ \/ /\ r.op = "AADD"
          /\ access' = IF access = NoAccess THEN [call |-> r.call, conn |-> conn, enabled |-> FALSE]
                                                ELSE access
          /\ Respond(r, access = NoAccess)
       \/ /\ r.op = "AENABLE"
          /\ access' = IF access = NoAccess THEN access ELSE [access EXCEPT !.enabled = TRUE]
          /\ Respond(r, TRUE)
       \/ /\ r.op = "ADEL"
          /\ access' = NoAccess
          /\ Respond(r, TRUE)
    /\ UNCHANGED rospecs

ServeConfig(r) == r.op = "CONFIG" /\ Respond(r, TRUE) /\ UNCHANGED reader

Serve ==
    /\ outbox # <<>>
    /\ outbox' = Tail(outbox)
    /\ LET r == Head(outbox) IN ServeROSpec(r) \/ ServeAccessSpec(r) \/ ServeConfig(r)
    /\ UNCHANGED <<active, reports, tasks, conn, calls, reqs, reported, conns>>

\* An edge on the line of a gated ROSpec.
Edge(from, to) ==
    /\ RoId \in DOMAIN rospecs
    /\ rospecs[RoId].spec.gated /\ rospecs[RoId].state = from
    /\ rospecs' = [rospecs EXCEPT ![RoId].state = to]
    /\ UNCHANGED <<active, reports, tasks, conn, outbox, inbox, access,
                   calls, reqs, reported, conns>>

\* A tag is read and reported.  An enabled AccessSpec is executed on it if it
\* is a target, for the one time its stop trigger allows.
ReadTag ==
    /\ conn # 0 /\ IsActive(rospecs) /\ reported < situation.reports
    /\ reported' = reported + 1
    /\ \E executed \in {FALSE, access.enabled} :
          /\ inbox' = Append(inbox, [kind |-> "report", call |-> rospecs[RoId].spec.call,
                                     op |-> IF executed THEN access.call ELSE 0])
          /\ access' = IF executed THEN NoAccess ELSE access
    /\ UNCHANGED <<active, reports, tasks, conn, outbox, rospecs, calls, reqs, conns>>

-----------------------------------------------------------------------------
Call(t) == \/ \E k \in situation.kinds[t] : StartInventory(t, k)
           \/ StartAccess(t)
           \/ Answered(t) \/ TimesOut(t) \/ Cancel(t)
           \/ EndStream(t) \/ TakeReport(t) \/ StreamLost(t)

Network == DispatchReport \/ DispatchLate \/ Lose \/ Reconnect

Emulated == Serve \/ Edge("Enabled", "Active") \/ Edge("Active", "Enabled") \/ ReadTag

Next == /\ (\E t \in Tasks : Call(t)) \/ Network \/ Emulated
        /\ UNCHANGED situation

Spec == SessionInit /\ [][Next]_svars
\* The timeouts of transact() fire, and a stream polls its client.
FairSpec ==
    /\ Spec
    /\ \A t \in Tasks : /\ WF_svars(TimesOut(t) /\ UNCHANGED situation)
                        /\ WF_svars(StreamLost(t) /\ UNCHANGED situation)

-----------------------------------------------------------------------------
(***************************************************************************)
(* Properties                                                              *)
(***************************************************************************)

TypeOK ==
    /\ active \in BOOLEAN
    /\ Len(reports) <= QueueSize
    /\ pc \in [Tasks -> Awaits \cup {"idle", "stream"}]
    /\ kind \in [Tasks -> {"none", "inventory", "gated", "access"}]
    /\ call \in [Tasks -> 0..calls] /\ calls \in 0..situation.calls
    /\ born \in [Tasks -> 0..conns] /\ conns \in 1..situation.conns /\ conn \in {0, conns}
    /\ awaits \in [Tasks -> 0..reqs] /\ reqs \in Nat
    /\ cancelled \in [Tasks -> BOOLEAN]
    /\ \A i \in 1..Len(outbox) : outbox[i].req \in 1..reqs
    /\ \A i \in 1..Len(inbox) : inbox[i].kind \in {"response", "report"}
    /\ DOMAIN rospecs \subseteq {RoId} /\ access \in [call : 0..calls, conn : 0..conns, enabled : BOOLEAN]
    /\ reported \in 0..situation.reports

\* "One inventory stream per reader at a time": the flag is up exactly while
\* one task is in inventory(), and is never left up by one that is not.
OneStream ==
    /\ active = \E t \in Tasks : pc[t] \in Streaming
    /\ \A t, u \in Tasks : pc[t] \in Streaming /\ pc[u] \in Streaming => t = u

\* Nobody is calling and nothing is under way.
Quiet == conn # 0 /\ outbox = <<>> /\ \A t \in Tasks : pc[t] = "idle"

\* "The underlying ROSpec is created on entry and stopped and deleted on
\* exit, however the stream ends" (QA-4: no orphaned ROSpecs), if the reader
\* answers in time and no cancellation hits the STOP_ROSPEC of the teardown.
Cleaned ==
    Quiet /\ ~situation.slow /\ "stop" \notin situation.cancel => rospecs = NoROSpecs

\* A stream that streams on the connection it began on has its ROSpec on the
\* reader, enabled or active: the teardown of the stream before it, which may
\* still be under way, neither stops nor deletes it.
Served ==
    \A t \in Tasks : pc[t] = "stream" /\ born[t] = conn =>
        /\ RoId \in DOMAIN rospecs
        /\ rospecs[RoId].spec.call = call[t]
        /\ rospecs[RoId].state \in IF kind[t] = "gated" THEN {"Enabled", "Active"}
                                                        ELSE {"Active"}

\* One stream at a time, and a reader that answers in time runs it, in states
\* of the right type.
StreamRuns == TypeOK /\ OneStream /\ (~situation.slow => Served)

\* A stream yields what its own ROSpec reported, never what a stream before
\* it left in a queue or on the wire, unless the reader is late to delete the
\* old ROSpec.  A tag operation runs "one access op via the AccessSpec
\* lifecycle" and returns "its result", however late the reader is.
OwnAnswers ==
    [][\A t \in Tasks : TakeReport(t) =>
           /\ ~situation.slow /\ born[t] = conn => Head(reports).call = call[t]
           /\ kind[t] = "access" /\ Head(reports).op # 0 => Head(reports).op = call[t]]_svars

\* No tag is written or killed by a call that has returned, unless it was
\* cancelled so late that its DELETE_ACCESSSPEC is still on its way or lost the
\* connection, and with it the way to delete its AccessSpec.
NoLateExecution ==
    [][ReadTag /\ access.enabled /\ access.conn = conn =>
           \/ \E t \in Tasks : call[t] = access.call
           \/ \E i \in 1..Len(outbox) : outbox[i].op = "ADEL"]_svars

\* However late the reader is, a call that is not streaming comes to an end or
\* to its stream: stopping a stream does not hang.
CallsGetThrough ==
    \A t \in Tasks : situation.slow /\ pc[t] \in Awaits ~> pc[t] \in {"idle", "stream"}
=============================================================================
