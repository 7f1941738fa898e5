------------------------ MODULE ReaderSessionProofs ------------------------
(***************************************************************************)
(* ReaderSession proved for any tasks, any number of calls, reports and    *)
(* connections and any size of the report queue.                           *)
(***************************************************************************)
EXTENDS ReaderSession, SequenceTheorems, TLAPS

(***************************************************************************)
(* The inductive invariant.                                                *)
(***************************************************************************)

Ops == {"ADD", "DELETE", "ENABLE", "START", "STOP", "CONFIG", "ADEL", "AADD", "AENABLE"}
RequestMsg == [req : Nat, op : Ops, call : Nat, gated : BOOLEAN]
ResponseMsg == [kind : {"response"}, req : Nat, ok : BOOLEAN]
ReportMsg == [kind : {"report"}, call : Nat, op : Nat]
Report == [call : Nat, op : Nat]
ROSpecEntry == [spec : [call : Nat, gated : BOOLEAN], state : States]

Types ==
    /\ situation \in Situations
    /\ active \in BOOLEAN /\ reports \in Seq(Report)
    /\ pc \in [Tasks -> Awaits \cup {"idle", "stream"}]
    /\ kind \in [Tasks -> {"none", "inventory", "gated", "access"}]
    /\ call \in [Tasks -> Nat] /\ born \in [Tasks -> Nat] /\ awaits \in [Tasks -> Nat]
    /\ cancelled \in [Tasks -> BOOLEAN]
    /\ outbox \in Seq(RequestMsg) /\ inbox \in Seq(ResponseMsg \cup ReportMsg)
    /\ DOMAIN rospecs \subseteq {RoId} /\ rospecs \in [DOMAIN rospecs -> ROSpecEntry]
    /\ access \in [call : Nat, conn : Nat, enabled : BOOLEAN]
    /\ calls \in Nat /\ reqs \in Nat /\ reported \in Nat
    /\ conns \in Nat \ {0} /\ conn \in {0, conns}

\* The counters bound what they count.
Bounds ==
    /\ Len(reports) <= QueueSize
    /\ calls <= situation.calls /\ reported <= situation.reports /\ conns <= situation.conns
    /\ \A t \in Tasks : call[t] <= calls /\ born[t] <= conns /\ awaits[t] <= reqs
    /\ access.call <= calls /\ access.conn <= conns

\* What is on its way to the reader.
Sent == {outbox[i] : i \in 1..Len(outbox)}

\* The response to request n is the i-th on its way back.
Responds(i, n) == inbox[i].kind = "response" /\ inbox[i].req = n

\* Requests are sent, served and answered in the order of their numbers.
OrderInv ==
    /\ \A i, j \in 1..Len(outbox) : i < j => outbox[i].req < outbox[j].req
    /\ \A r \in Sent : r.req \in 1..reqs /\ r.call \in 1..calls
    /\ \A i, j \in 1..Len(inbox) :
          i < j /\ inbox[i].kind = "response" /\ inbox[j].kind = "response"
              => inbox[i].req < inbox[j].req
    /\ \A i \in 1..Len(inbox), r \in Sent : inbox[i].kind = "response" => inbox[i].req < r.req
    /\ \A i \in 1..Len(inbox) : inbox[i].kind = "response" => inbox[i].req <= reqs

\* A task that awaits a response has its request on the way, or its response.
TaskInv ==
    /\ \A t \in Tasks : /\ pc[t] = "idle" => call[t] = 0 /\ kind[t] = "none"
                        /\ pc[t] # "idle" =>
                              call[t] # 0 /\ born[t] # 0 /\ kind[t] \in situation.kinds[t]
                        /\ pc[t] \notin Awaits => awaits[t] = 0
                        /\ pc[t] \in {"adelete", "aadd", "aenable", "aclean"} => kind[t] = "access"
                        /\ pc[t] = "gpi" => kind[t] = "gated"
                        /\ pc[t] = "start" => kind[t] # "gated"
    /\ \A t \in Tasks : pc[t] \in Awaits =>
          /\ awaits[t] # 0
          /\ \/ \E r \in Sent : r.req = awaits[t]
             \/ \E i \in 1..Len(inbox) : Responds(i, awaits[t])
          /\ \A r \in Sent : r.req = awaits[t] =>
                r.op = Request[pc[t]] /\ r.call = call[t] /\ r.gated = (kind[t] = "gated")
    /\ \A t, u \in Tasks : awaits[t] = awaits[u] /\ awaits[t] # 0 => t = u
    /\ conn = 0 => /\ outbox = <<>> /\ inbox = <<>>
                   /\ \A t \in Tasks : pc[t] \in {"idle", "stream"}

\* Is the request that t awaits still to be served?
Unserved(t) == \E r \in Sent : r.req = awaits[t]

\* The ROSpec of the reader is that of t, in one of the states.
Mine(t, states) ==
    /\ RoId \in DOMAIN rospecs
    /\ rospecs[RoId].spec = [call |-> call[t], gated |-> kind[t] = "gated"]
    /\ rospecs[RoId].state \in states

\* While a reader answers in time: what a stream that begins finds and makes.
\* First, what is left of the streams before it goes ...
AtDelete0(t) ==
    pc[t] = "delete0" =>
        /\ \A u \in Tasks : pc[u] = "stop" => awaits[u] < awaits[t]
        /\ \A r \in Sent : r.req > awaits[t] => r.op \notin {"ADD", "ENABLE", "START"}
        /\ ~Unserved(t) => DOMAIN rospecs = {}
        /\ \A i, j \in 1..Len(inbox) : i < j /\ Responds(i, awaits[t]) => inbox[j].kind # "report"

\* ... then its own comes, and nobody touches that any more.
AtAdd(t) ==
    pc[t] = "add" =>
        /\ \A r \in Sent : /\ r.op = "ADD" => r.req = awaits[t]
                           /\ r.req > awaits[t] => r.op \notin RoOps
        /\ Unserved(t) => DOMAIN rospecs = {}
        /\ ~Unserved(t) => Mine(t, {"Disabled"})

AfterAdd(t) ==
    pc[t] \in {"gpi", "enable", "start", "stream"} =>
        /\ \A r \in Sent : r.op \in RoOps => r.req = awaits[t]
        /\ pc[t] = "gpi" => Mine(t, {"Disabled"})
        /\ pc[t] = "enable" /\ Unserved(t) => Mine(t, {"Disabled"})
        /\ pc[t] = "enable" /\ ~Unserved(t) =>
              Mine(t, IF kind[t] = "gated" THEN {"Enabled", "Active"} ELSE {"Enabled"})
        /\ pc[t] = "start" /\ Unserved(t) => Mine(t, {"Enabled"})
        /\ pc[t] = "start" /\ ~Unserved(t) => Mine(t, {"Active"})
        /\ pc[t] = "stream" =>
              Mine(t, IF kind[t] = "gated" THEN {"Enabled", "Active"} ELSE {"Active"})

\* From the moment the queue is drained, all reports are its own.
OwnReports(t) ==
    pc[t] \in {"add", "gpi", "enable", "start", "stream"} =>
        /\ \A u \in Tasks : pc[u] # "stop"
        /\ \A i \in 1..Len(reports) : reports[i].call = call[t]
        /\ \A i \in 1..Len(inbox) : inbox[i].kind = "report" => inbox[i].call = call[t]

Stage(t) == AtDelete0(t) /\ AtAdd(t) /\ AfterAdd(t) /\ OwnReports(t)

StageInv ==
    ~situation.slow /\ conn # 0 => \A t \in Tasks : born[t] = conn => Stage(t)

\* The table is empty once the reader has served what is on its way.
EndsEmpty ==
    \/ \E r \in Sent : r.op = "DELETE" /\ \A q \in Sent : q.req > r.req => q.op # "ADD"
    \/ DOMAIN rospecs = {} /\ \A r \in Sent : r.op # "ADD"

CleanInv ==
    ~situation.slow /\ "stop" \notin situation.cancel /\ conn # 0 =>
        EndsEmpty \/ \E t \in Tasks : pc[t] \in Streaming \cup {"stop"}

\* Only one task operates on tags.
OneOperator ==
    \A t, u \in Tasks : "access" \in situation.kinds[t] /\ "access" \in situation.kinds[u] => t = u

\* What is executed, and what is reported, is for the call of t or is nothing.
Its(t, op) == op \in {0, call[t]}

ItsAccess(t) ==
    /\ Its(t, access.call)
    /\ \A r \in Sent : r.op # "AADD"
    /\ \A i \in 1..Len(inbox) : inbox[i].kind = "report" => Its(t, inbox[i].op)

AtAadd(t) ==
    pc[t] = "aadd" =>
        /\ \A r \in Sent : r.req > awaits[t] => r.op # "AADD"
        /\ \A i \in 1..Len(inbox) : Responds(i, awaits[t]) /\ inbox[i].ok =>
              /\ Its(t, access.call)
              /\ \A j \in 1..Len(inbox) : i < j /\ inbox[j].kind = "report" => Its(t, inbox[j].op)

\* The calls that have an AccessSpec of their own.
Operating(t) == kind[t] = "access" /\ pc[t] \notin {"idle", "adelete", "aadd"}

OperatorInv(t) ==
    /\ AtAadd(t)
    /\ Operating(t) => ItsAccess(t)
    /\ kind[t] = "access" /\ pc[t] \in Streaming \ {"delete0"} =>
          \A i \in 1..Len(reports) : Its(t, reports[i].op)

AccessInv ==
    /\ access.enabled => access.call # 0
    /\ access.call = 0 => access = NoAccess
    /\ OneOperator => \A t \in Tasks : OperatorInv(t)

\* No AccessSpec of this connection stays enabled.
EndsDisarmed ==
    \/ \E r \in Sent : r.op = "ADEL" /\ \A q \in Sent : q.req > r.req => q.op # "AENABLE"
    \/ ~(access.enabled /\ access.conn = conn) /\ \A r \in Sent : r.op # "AENABLE"

DisarmInv ==
    conn # 0 => EndsDisarmed \/ \E t \in Tasks : Operating(t) /\ pc[t] # "aclean"

Inv ==
    /\ Types /\ Bounds /\ OrderInv /\ TaskInv /\ OneStream
    /\ StageInv /\ CleanInv /\ AccessInv /\ DisarmInv

(***************************************************************************)
(* The steps of a call.                                                    *)
(***************************************************************************)

\* Where a call may go from where it is.
Edges == [delete0 |-> {"add", "stop"}, add |-> {"gpi", "enable", "stop"},
          gpi |-> {"enable", "stop"}, enable |-> {"start", "stream", "stop"},
          start |-> {"stream", "stop"}, stream |-> {"stop", "idle"},
          stop |-> {"delete", "aclean", "idle"}, delete |-> {"aclean", "idle"},
          adelete |-> {"aadd", "idle"}, aadd |-> {"aenable", "idle"},
          aenable |-> {"delete0", "aclean"}, aclean |-> {"idle"}]

\* The response t awaits is taken from the wire.
Hears(t) ==
    /\ pc[t] \in Awaits
    /\ inbox # <<>> /\ Head(inbox).kind = "response" /\ Head(inbox).req = awaits[t]
    /\ inbox' = Tail(inbox)

\* A call begins.
Begins(t, k, s) ==
    /\ Begin(t, k, s)
    /\ \/ k = "access" /\ s = "adelete"
       \/ k # "access" /\ s = "delete0" /\ ~active

\* A call goes on to s.
Goes(t, s) ==
    /\ pc[t] # "idle" /\ s \in Edges[pc[t]] /\ Advance(t, s)
    /\ Hears(t) \/ inbox' = inbox
    /\ IF s = "add" THEN reports' = <<>>
       ELSE reports' = reports \/ (reports # <<>> /\ reports' = Tail(reports))
    /\ cancelled' \in [Tasks -> BOOLEAN]
    /\ pc[t] \in Checked /\ s \notin {"stop", "aclean", "idle"} => Hears(t) /\ Head(inbox).ok
    /\ s = "add" /\ ~situation.slow => Hears(t)
    /\ pc[t] = "stop" /\ s # "delete" => situation.slow \/ "stop" \in situation.cancel
    /\ s = "delete0" => ~active
    /\ s = "gpi" => kind[t] = "gated"
    /\ s = "start" => kind[t] # "gated"
    /\ pc[t] = "enable" /\ s = "stream" => kind[t] = "gated"
    /\ pc[t] \in {"stop", "delete"} => (s = "aclean" => kind[t] = "access") /\ (s = "idle" => kind[t] # "access")
    /\ pc[t] = "stream" => (s = "idle" <=> conn = 0)
    /\ UNCHANGED <<conn, reader, calls, reported, conns>>

\* A tag for the consumer, whose call goes on.
Yields(t) ==
    /\ reports # <<>> /\ reports' = Tail(reports)
    /\ UNCHANGED <<active, tasks, conn, outbox, inbox, reader, calls, reqs, reported, conns>>

\* Where an await that went well leads, and where one that did not.
LEMMA Onward ==
    ASSUME NEW t, pc[t] \in Awaits
    PROVE  /\ Continue(t) \in Edges[pc[t]]
           /\ pc[t] = "stop" => Continue(t) = "delete"
           /\ Continue(t) = "delete0" => ~active
           /\ Continue(t) = "gpi" => kind[t] = "gated"
           /\ Continue(t) = "start" => kind[t] # "gated"
           /\ pc[t] = "enable" /\ Continue(t) = "stream" => kind[t] = "gated"
           /\ pc[t] = "delete" => Continue(t) = Out(t)
           /\ pc[t] \in Suppressed => Continue(t) \in {"add", "aadd"}
<1> DEFINE n == Continue(t)
<1>1. /\ pc[t] = "delete0" => n = "add"
      /\ pc[t] = "add" => n = IF kind[t] = "gated" THEN "gpi" ELSE "enable"
      /\ pc[t] = "gpi" => n = "enable"
      /\ pc[t] = "enable" => n = IF kind[t] = "gated" THEN "stream" ELSE "start"
      /\ pc[t] = "start" => n = "stream"
      /\ pc[t] = "stop" => n = "delete"
      /\ pc[t] = "delete" => n = Out(t)
      /\ pc[t] = "adelete" => n = "aadd"
      /\ pc[t] = "aadd" => n = "aenable"
      /\ pc[t] = "aenable" => n = IF active THEN "aclean" ELSE "delete0"
      /\ pc[t] = "aclean" => n = "idle"
    BY DEF Continue
<1>2. pc[t] \in {"delete0", "add", "gpi", "enable", "start", "stop", "delete",
                 "adelete", "aadd", "aenable", "aclean"}
    BY DEF Awaits, Request
<1> HIDE DEF n
<1>3. n \in Edges[pc[t]]
    BY <1>1, <1>2 DEF Edges, Out
<1> QED
    BY <1>1, <1>2, <1>3 DEF Out, Suppressed, n

LEMMA Backward ==
    ASSUME NEW t, pc[t] \in Awaits
    PROVE  /\ Unwind(t) \in Edges[pc[t]] /\ Unwind(t) \in {"stop", "aclean", "idle"}
           /\ pc[t] \in {"stop", "delete"} => Unwind(t) = Out(t)
<1>1. pc[t] \in {"delete0", "add", "gpi", "enable", "start", "stop", "delete",
                 "adelete", "aadd", "aenable", "aclean"}
    BY DEF Awaits, Request
<1> QED
    BY <1>1 DEF Unwind, Streaming, Out, Edges

LEMMA AnswerGoes ==
    ASSUME Types, TaskInv, NEW t \in Tasks, Answered(t)
    PROVE  \E s : Goes(t, s)
<1> DEFINE s == IF pc[t] \in Checked /\ ~Head(inbox).ok THEN Unwind(t) ELSE Continue(t)
<1>1. /\ pc[t] \in Awaits /\ Hears(t) /\ Advance(t, s) /\ Drain(t, s)
      /\ UNCHANGED <<cancelled, conn, reader, calls, reported, conns>>
    BY DEF Answered, Hears
<1>2. /\ s \in Edges[pc[t]]
      /\ pc[t] \in Checked /\ s \notin {"stop", "aclean", "idle"} => Head(inbox).ok
      /\ pc[t] = "stop" => s = "delete"
      /\ s = "delete0" => ~active
      /\ s = "gpi" => kind[t] = "gated"
      /\ s = "start" => kind[t] # "gated"
      /\ pc[t] = "enable" /\ s = "stream" => kind[t] = "gated"
      /\ pc[t] = "delete" => (s = "aclean" => kind[t] = "access") /\ (s = "idle" => kind[t] # "access")
    <2>1. CASE s = Continue(t) /\ ~(pc[t] \in Checked /\ ~Head(inbox).ok)
        BY <1>1, <2>1, Onward DEF Out
    <2>2. CASE s = Unwind(t) /\ pc[t] \in Checked
        BY <1>1, <2>2, Backward DEF Checked
    <2> QED
        BY <2>1, <2>2
<1> HIDE DEF s
<1>3. pc[t] # "idle" /\ pc[t] # "stream"
    BY <1>1 DEF Awaits, Request
<1>4. cancelled' \in [Tasks -> BOOLEAN]
    BY <1>1 DEF Types
<1>5. IF s = "add" THEN reports' = <<>> ELSE reports' = reports
    BY <1>1 DEF Drain
<1>6. /\ pc[t] = "stop" /\ s # "delete" => situation.slow \/ "stop" \in situation.cancel
      /\ pc[t] \in {"stop", "delete"} =>
            (s = "aclean" => kind[t] = "access") /\ (s = "idle" => kind[t] # "access")
    BY <1>2
<1>7. IF s = "add" THEN reports' = <<>>
      ELSE reports' = reports \/ (reports # <<>> /\ reports' = Tail(reports))
    BY <1>5
<1> QED
    BY <1>1, <1>2, <1>3, <1>4, <1>6, <1>7, Zenon DEF Goes

LEMMA TimeoutGoes ==
    ASSUME Types, TaskInv, NEW t \in Tasks, TimesOut(t)
    PROVE  \E s : Goes(t, s)
<1> DEFINE s == IF pc[t] \in Suppressed THEN Continue(t) ELSE Unwind(t)
<1>1. /\ situation.slow /\ pc[t] \in Awaits /\ inbox' = inbox /\ Advance(t, s) /\ Drain(t, s)
      /\ UNCHANGED <<cancelled, conn, reader, calls, reported, conns>>
    BY DEF TimesOut
<1>2. /\ s \in Edges[pc[t]]
      /\ pc[t] \in Checked => s \in {"stop", "aclean", "idle"}
      /\ s \notin {"delete0", "gpi", "start"}
      /\ pc[t] = "enable" => s # "stream"
      /\ pc[t] \in {"stop", "delete"} =>
            (s = "aclean" => kind[t] = "access") /\ (s = "idle" => kind[t] # "access")
    <2>1. CASE s = Continue(t) /\ pc[t] \in Suppressed
        BY <1>1, <2>1, Onward DEF Out, Checked, Suppressed
    <2>2. CASE s = Unwind(t)
        BY <1>1, <2>2, Backward DEF Out
    <2> QED
        BY <2>1, <2>2
<1> HIDE DEF s
<1>3. pc[t] # "idle" /\ pc[t] # "stream"
    BY <1>1 DEF Awaits, Request
<1>4. cancelled' \in [Tasks -> BOOLEAN]
    BY <1>1 DEF Types
<1>5. IF s = "add" THEN reports' = <<>> ELSE reports' = reports
    BY <1>1 DEF Drain
<1>6. /\ pc[t] = "stop" /\ s # "delete" => situation.slow \/ "stop" \in situation.cancel
      /\ pc[t] \in Checked /\ s \notin {"stop", "aclean", "idle"} => Hears(t) /\ Head(inbox).ok
      /\ s = "add" /\ ~situation.slow => Hears(t)
      /\ s = "delete0" => ~active
      /\ s = "gpi" => kind[t] = "gated"
      /\ s = "start" => kind[t] # "gated"
      /\ pc[t] = "enable" /\ s = "stream" => kind[t] = "gated"
    BY <1>1, <1>2
<1>7. IF s = "add" THEN reports' = <<>>
      ELSE reports' = reports \/ (reports # <<>> /\ reports' = Tail(reports))
    BY <1>5
<1> QED
    BY <1>1, <1>2, <1>3, <1>4, <1>6, <1>7, Zenon DEF Goes

LEMMA CancelGoes ==
    ASSUME Types, TaskInv, SessionAssumption, NEW t \in Tasks, Cancel(t)
    PROVE  \E s : Goes(t, s)
<1> DEFINE s == Unwind(t)
<1>1. /\ pc[t] \in situation.cancel /\ inbox' = inbox /\ reports' = reports /\ Advance(t, s)
      /\ UNCHANGED <<conn, reader, calls, reported, conns>>
      /\ cancelled' = [cancelled EXCEPT ![t] = TRUE]
    BY DEF Cancel
<1>2. pc[t] \in Awaits
    BY <1>1 DEF SessionAssumption, Types
<1>3. /\ s \in Edges[pc[t]]
      /\ s \in {"stop", "aclean", "idle"}
      /\ pc[t] \in {"stop", "delete"} =>
            (s = "aclean" => kind[t] = "access") /\ (s = "idle" => kind[t] # "access")
    BY <1>2, Backward DEF Out
<1> HIDE DEF s
<1>4. pc[t] # "idle" /\ pc[t] # "stream"
    BY <1>2 DEF Awaits, Request
<1>5. cancelled' \in [Tasks -> BOOLEAN]
    BY <1>1 DEF Types
<1> QED
    BY <1>1, <1>2, <1>3, <1>4, <1>5, Zenon DEF Goes

LEMMA StreamGoes ==
    ASSUME Types, TaskInv, NEW t \in Tasks, EndStream(t) \/ StreamLost(t) \/ TakeReport(t)
    PROVE  Yields(t) \/ \E s : Goes(t, s)
<1>1. pc[t] = "stream" /\ "stream" \in Streaming /\ "stream" \notin Checked
    BY DEF EndStream, StreamLost, TakeReport, Streaming, Checked
<1>2. Unwind(t) = "stop"
    BY <1>1 DEF Unwind, Streaming
<1>3. /\ "stop" \in Edges["stream"] /\ "idle" \in Edges["stream"]
      /\ cancelled' \in [Tasks -> BOOLEAN]
    BY DEF Edges, EndStream, StreamLost, TakeReport, Types
<1>4. CASE EndStream(t) \/ StreamLost(t)
    <2> DEFINE s == IF conn = 0 THEN "idle" ELSE "stop"
    <2>1. /\ Advance(t, s) /\ inbox' = inbox /\ reports' = reports
          /\ UNCHANGED <<conn, reader, calls, reported, conns>>
        BY <1>2, <1>4 DEF EndStream, StreamLost
    <2>2. Goes(t, s)
        BY <1>1, <1>3, <2>1 DEF Goes
    <2> QED
        BY <2>2
<1>5. CASE TakeReport(t) /\ kind[t] = "access" /\ Head(reports).op # 0
    <2> DEFINE s == IF conn = 0 THEN "idle" ELSE "stop"
    <2>1. /\ Advance(t, s) /\ inbox' = inbox /\ reports # <<>> /\ reports' = Tail(reports)
          /\ UNCHANGED <<conn, reader, calls, reported, conns>>
        BY <1>2, <1>5 DEF TakeReport
    <2>2. Goes(t, s)
        BY <1>1, <1>3, <2>1 DEF Goes
    <2> QED
        BY <2>2
<1>6. CASE TakeReport(t) /\ ~(kind[t] = "access" /\ Head(reports).op # 0)
    BY <1>6 DEF TakeReport, Yields, tasks
<1> QED
    BY <1>4, <1>5, <1>6

\* A step of a call begins it, takes it on or hands its consumer a tag.
LEMMA CallCases ==
    ASSUME Types, TaskInv, SessionAssumption, NEW t \in Tasks, Call(t)
    PROVE  \/ \E k \in situation.kinds[t] : \E s : Begins(t, k, s)
           \/ \E s : Goes(t, s)
           \/ Yields(t)
<1>1. ASSUME NEW k \in situation.kinds[t], StartInventory(t, k)
      PROVE  Begins(t, k, "delete0")
    BY <1>1 DEF StartInventory, Begins
<1>2. ASSUME StartAccess(t)
      PROVE  "access" \in situation.kinds[t] /\ Begins(t, "access", "adelete")
    BY <1>2 DEF StartAccess, Begins, Begin
<1> QED
    BY <1>1, <1>2, AnswerGoes, TimeoutGoes, CancelGoes, StreamGoes DEF Call

(***************************************************************************)
(* What is on the wires.                                                   *)
(***************************************************************************)

Msg == ResponseMsg \cup ReportMsg

\* The request t sends as it goes on to s.
Message(t, s) == [req |-> reqs + 1, op |-> Request[s], call |-> call'[t],
                  gated |-> kind'[t] = "gated"]

LEMMA Appended ==
    ASSUME NEW S, NEW q \in Seq(S), NEW m \in S
    PROVE  /\ Append(q, m) \in Seq(S) /\ Len(q) \in Nat /\ Len(Append(q, m)) = Len(q) + 1
           /\ Append(q, m)[Len(q) + 1] = m
           /\ \A i \in 1..Len(q) : Append(q, m)[i] = q[i]
OBVIOUS

LEMMA Taken ==
    ASSUME NEW S, NEW q \in Seq(S), q # <<>>
    PROVE  /\ Tail(q) \in Seq(S) /\ Len(q) \in Nat \ {0} /\ Len(Tail(q)) = Len(q) - 1
           /\ Head(q) = q[1] /\ Head(q) \in S
           /\ \A i \in 1..Len(Tail(q)) : i + 1 \in 1..Len(q) /\ Tail(q)[i] = q[i + 1]
OBVIOUS

\* A request goes out.
LEMMA SentMore ==
    ASSUME outbox \in Seq(RequestMsg), NEW m \in RequestMsg, outbox' = Append(outbox, m)
    PROVE  Sent' = Sent \cup {m} /\ m \in Sent'
<1>1. /\ Len(outbox) \in Nat /\ Len(outbox') = Len(outbox) + 1
      /\ outbox'[Len(outbox) + 1] = m
      /\ \A i \in 1..Len(outbox) : outbox'[i] = outbox[i]
    BY Appended
<1>2. /\ \A i \in 1..Len(outbox) : i \in 1..Len(outbox')
      /\ Len(outbox) + 1 \in 1..Len(outbox')
      /\ \A i \in 1..Len(outbox') : i = Len(outbox) + 1 \/ i \in 1..Len(outbox)
    BY <1>1
<1>3. Sent' = {outbox'[i] : i \in 1..Len(outbox')}
    BY DEF Sent
<1> QED
    BY <1>1, <1>2, <1>3 DEF Sent

\* The oldest request is served.
LEMMA SentLess ==
    ASSUME outbox \in Seq(RequestMsg), OrderInv, outbox # <<>>, outbox' = Tail(outbox)
    PROVE  /\ Head(outbox) \in Sent /\ Head(outbox) \in RequestMsg
           /\ Sent' \subseteq Sent
           /\ \A q \in Sent : q \in Sent' \/ q = Head(outbox)
           /\ \A q \in Sent' : Head(outbox).req < q.req
<1>1. /\ Len(outbox) \in Nat \ {0} /\ Len(outbox') = Len(outbox) - 1
      /\ Head(outbox) = outbox[1] /\ Head(outbox) \in RequestMsg
      /\ \A i \in 1..Len(outbox') : i + 1 \in 1..Len(outbox) /\ outbox'[i] = outbox[i + 1]
    BY Taken
<1>2. 1 \in 1..Len(outbox) /\ \A i \in 1..Len(outbox) : i = 1 \/ i - 1 \in 1..Len(outbox')
    BY <1>1
<1>3. Sent' = {outbox'[i] : i \in 1..Len(outbox')}
    BY DEF Sent
<1>4. ASSUME NEW q \in Sent'
      PROVE  q \in Sent /\ Head(outbox).req < q.req
    <2>1. PICK i \in 1..Len(outbox') : q = outbox'[i]
        BY <1>3
    <2>2. i + 1 \in 1..Len(outbox) /\ q = outbox[i + 1] /\ 1 < i + 1
        BY <1>1, <2>1
    <2> QED
        BY <1>1, <1>2, <2>2 DEF Sent, OrderInv
<1>5. ASSUME NEW q \in Sent, q # Head(outbox)
      PROVE  q \in Sent'
    <2>1. PICK i \in 1..Len(outbox) : q = outbox[i]
        BY DEF Sent
    <2>2. i - 1 \in 1..Len(outbox') /\ q = outbox'[i - 1]
        BY <1>1, <1>2, <1>5, <2>1
    <2> QED
        BY <1>3, <2>2
<1> QED
    BY <1>1, <1>2, <1>4, <1>5 DEF Sent

LEMMA SentSame == outbox' = outbox => Sent' = Sent
BY DEF Sent

LEMMA SentNothing == outbox = <<>> => Sent = {}
BY DEF Sent

\* What Begins and Goes have in common.
Moves(t, s) ==
    /\ s \in Awaits \cup {"idle", "stream"} /\ GoTo(t, s)
    /\ call' = [call EXCEPT ![t] = call'[t]]
    /\ kind' = [kind EXCEPT ![t] = kind'[t]]
    /\ born' = [born EXCEPT ![t] = born'[t]]
    /\ calls' \in Nat /\ calls <= calls' /\ calls' <= situation.calls
    /\ IF s = "idle"
       THEN call'[t] = 0 /\ kind'[t] = "none" /\ born'[t] = 0
       ELSE /\ call'[t] \in 1..calls' /\ born'[t] \in 1..conns /\ conn # 0
            /\ kind'[t] \in situation.kinds[t]
    /\ s \in {"adelete", "aadd", "aenable", "aclean"} => kind'[t] = "access"
    /\ s = "gpi" => kind'[t] = "gated"
    /\ s = "start" => kind'[t] # "gated"
    /\ Hears(t) \/ inbox' = inbox
    /\ reports' \in {<<>>, reports} \/ (reports # <<>> /\ reports' = Tail(reports))
    /\ cancelled' \in [Tasks -> BOOLEAN]
    /\ UNCHANGED <<conn, reader, reported, conns>>

\* What kinds of calls there are.
LEMMA Kinds ==
    ASSUME SessionAssumption, Types, NEW t \in Tasks
    PROVE  /\ situation.kinds[t] \subseteq {"inventory", "gated", "access"}
           /\ situation.calls \in Nat /\ situation.reports \in Nat /\ situation.conns \in Nat
BY DEF SessionAssumption, Types

LEMMA BeginMoves ==
    ASSUME SessionAssumption, Types, Bounds, TaskInv, NEW t \in Tasks,
           NEW k \in situation.kinds[t], NEW s, Begins(t, k, s)
    PROVE  Moves(t, s)
<1>1. /\ pc[t] = "idle" /\ conn # 0 /\ calls < situation.calls /\ calls' = calls + 1
      /\ call' = [call EXCEPT ![t] = calls + 1] /\ kind' = [kind EXCEPT ![t] = k]
      /\ born' = [born EXCEPT ![t] = conn] /\ cancelled' = [cancelled EXCEPT ![t] = FALSE]
      /\ GoTo(t, s)
      /\ UNCHANGED <<reports, conn, inbox, reader, reported, conns>>
      /\ s \in {"adelete", "delete0"} /\ (s = "adelete" => k = "access")
    BY DEF Begins, Begin
<1>2. call'[t] = calls + 1 /\ kind'[t] = k /\ born'[t] = conn
    BY <1>1 DEF Types
<1>3. conn \in 1..conns /\ calls + 1 \in 1..calls' /\ calls' \in Nat /\ calls <= calls'
      /\ calls' <= situation.calls
    <2>1. situation.calls \in Nat /\ calls \in Nat /\ conns \in Nat \ {0} /\ conn \in {0, conns}
        BY Kinds DEF Types
    <2> QED
        BY <1>1, <2>1
<1>4. cancelled' \in [Tasks -> BOOLEAN] /\ s \in Awaits
    BY <1>1 DEF Types, Awaits, Request
<1> QED
    BY <1>1, <1>2, <1>3, <1>4 DEF Moves

LEMMA GoesMoves ==
    ASSUME SessionAssumption, Types, Bounds, TaskInv, NEW t \in Tasks, NEW s, Goes(t, s)
    PROVE  Moves(t, s)
<1>1. /\ pc[t] # "idle" /\ s \in Edges[pc[t]]
      /\ call' = [call EXCEPT ![t] = IF s = "idle" THEN 0 ELSE @]
      /\ kind' = [kind EXCEPT ![t] = IF s = "idle" THEN "none" ELSE @]
      /\ born' = [born EXCEPT ![t] = IF s = "idle" THEN 0 ELSE @]
      /\ GoTo(t, s)
      /\ UNCHANGED <<conn, reader, calls, reported, conns>>
    BY DEF Goes, Advance
<1>2. /\ call'[t] = IF s = "idle" THEN 0 ELSE call[t]
      /\ kind'[t] = IF s = "idle" THEN "none" ELSE kind[t]
      /\ born'[t] = IF s = "idle" THEN 0 ELSE born[t]
    BY <1>1 DEF Types
<1>3. /\ call[t] \in 1..calls /\ born[t] \in 1..conns /\ kind[t] \in situation.kinds[t]
      /\ calls' \in Nat /\ calls <= calls' /\ calls' <= situation.calls
    BY <1>1 DEF TaskInv, Types, Bounds
<1>4. /\ s \in Awaits \cup {"idle", "stream"}
      /\ s \in {"aadd", "aenable"} => pc[t] \in {"adelete", "aadd"}
      /\ s = "aclean" => pc[t] \in {"stop", "delete", "aenable"}
      /\ s # "adelete"
    BY <1>1 DEF Types, Edges, Awaits, Request
<1>5. s \in {"adelete", "aadd", "aenable", "aclean"} => kind[t] = "access"
    BY <1>4 DEF Goes, TaskInv
<1>6. /\ s = "gpi" => kind[t] = "gated"
      /\ s = "start" => kind[t] # "gated"
      /\ s # "idle" => conn # 0
    <2>1. conn = 0 => pc[t] = "stream"
        BY <1>1 DEF TaskInv
    <2> QED
        BY <1>1, <2>1 DEF Goes, Edges
<1>7. reports' \in {<<>>, reports} \/ (reports # <<>> /\ reports' = Tail(reports))
    BY DEF Goes
<1>8. /\ IF s = "idle"
         THEN call'[t] = 0 /\ kind'[t] = "none" /\ born'[t] = 0
         ELSE /\ call'[t] \in 1..calls' /\ born'[t] \in 1..conns /\ conn # 0
              /\ kind'[t] \in situation.kinds[t]
      /\ s \in {"adelete", "aadd", "aenable", "aclean"} => kind'[t] = "access"
      /\ s = "gpi" => kind'[t] = "gated"
      /\ s = "start" => kind'[t] # "gated"
    BY <1>1, <1>2, <1>3, <1>5, <1>6
<1>9. /\ call' = [call EXCEPT ![t] = call'[t]] /\ kind' = [kind EXCEPT ![t] = kind'[t]]
      /\ born' = [born EXCEPT ![t] = born'[t]]
    BY <1>1, <1>2
<1>10. /\ Hears(t) \/ inbox' = inbox
       /\ cancelled' \in [Tasks -> BOOLEAN]
    BY DEF Goes
<1> QED
    BY <1>1, <1>3, <1>4, <1>7, <1>8, <1>9, <1>10, Zenon DEF Moves

\* What a move does to the task and to the requests.
LEMMA MoveFacts ==
    ASSUME SessionAssumption, Types, NEW t \in Tasks, NEW s, Moves(t, s)
    PROVE  /\ pc' = [pc EXCEPT ![t] = s]
           /\ awaits' = [awaits EXCEPT ![t] = IF s \in Awaits THEN reqs + 1 ELSE 0]
           /\ reqs' = IF s \in Awaits THEN reqs + 1 ELSE reqs
           /\ outbox' = IF s \in Awaits THEN Append(outbox, Message(t, s)) ELSE outbox
           /\ s \in Awaits => Message(t, s) \in RequestMsg
           /\ Sent' = IF s \in Awaits THEN Sent \cup {Message(t, s)} ELSE Sent
           /\ outbox' \in Seq(RequestMsg)
           /\ kind'[t] \in {"none", "inventory", "gated", "access"}
<1>1. /\ pc' = [pc EXCEPT ![t] = s]
      /\ awaits' = [awaits EXCEPT ![t] = IF s \in Awaits THEN reqs + 1 ELSE 0]
      /\ reqs' = IF s \in Awaits THEN reqs + 1 ELSE reqs
      /\ outbox' = IF s \in Awaits THEN Append(outbox, Message(t, s)) ELSE outbox
    BY DEF Moves, GoTo, Message
<1>2. ASSUME s \in Awaits
      PROVE  Message(t, s) \in RequestMsg
    <2>1. Request[s] \in Ops /\ s # "idle"
        BY <1>2 DEF Awaits, Request, Ops
    <2>3. reqs + 1 \in Nat /\ call'[t] \in Nat
        <3>1. call'[t] \in 1..calls' /\ calls' \in Nat
            BY <2>1 DEF Moves
        <3>2. reqs \in Nat
            BY DEF Types
        <3> QED
            BY <3>1, <3>2
    <2>2. (kind'[t] = "gated") \in BOOLEAN
        OBVIOUS
    <2> QED
        BY <2>1, <2>2, <2>3 DEF Message, RequestMsg
<1>3. Sent' = IF s \in Awaits THEN Sent \cup {Message(t, s)} ELSE Sent
    <2>1. CASE s \in Awaits
        BY <1>1, <1>2, <2>1, SentMore DEF Types
    <2>2. CASE s \notin Awaits
        BY <1>1, <2>2, SentSame
    <2> QED
        BY <2>1, <2>2
<1>4. outbox' \in Seq(RequestMsg)
    BY <1>1, <1>2, Appended DEF Types
<1>5. kind'[t] \in {"none", "inventory", "gated", "access"}
    <2>1. kind'[t] = "none" \/ kind'[t] \in situation.kinds[t]
        BY DEF Moves
    <2> QED
        BY <2>1, Kinds
<1> QED
    BY <1>1, <1>2, <1>3, <1>4, <1>5

\* The next thing on the way back is dispatched.
LEMMA InboxLess ==
    ASSUME inbox \in Seq(Msg), OrderInv, inbox # <<>>, inbox' = Tail(inbox)
    PROVE  /\ inbox' \in Seq(Msg) /\ Head(inbox) \in Msg
           /\ Len(inbox) \in Nat \ {0} /\ Len(inbox') = Len(inbox) - 1 /\ Head(inbox) = inbox[1]
           /\ \A i \in 1..Len(inbox') : i + 1 \in 1..Len(inbox) /\ inbox'[i] = inbox[i + 1]
           /\ \A i \in 1..Len(inbox) : i = 1 \/ (i - 1 \in 1..Len(inbox') /\ inbox'[i - 1] = inbox[i])
           /\ \A i \in 1..Len(inbox') : Head(inbox).kind = "response" /\ inbox'[i].kind = "response"
                 => Head(inbox).req < inbox'[i].req
<1>1. /\ inbox' \in Seq(Msg) /\ Head(inbox) \in Msg
      /\ Len(inbox) \in Nat \ {0} /\ Len(inbox') = Len(inbox) - 1 /\ Head(inbox) = inbox[1]
      /\ \A i \in 1..Len(inbox') : i + 1 \in 1..Len(inbox) /\ inbox'[i] = inbox[i + 1]
    BY Taken
<1>2. \A i \in 1..Len(inbox) : i = 1 \/ (i - 1 \in 1..Len(inbox') /\ inbox'[i - 1] = inbox[i])
    BY <1>1
<1>3. ASSUME NEW i \in 1..Len(inbox'), Head(inbox).kind = "response", inbox'[i].kind = "response"
      PROVE  Head(inbox).req < inbox'[i].req
    <2>1. 1 \in 1..Len(inbox) /\ i + 1 \in 1..Len(inbox) /\ 1 < i + 1
        BY <1>1
    <2>2. inbox[1].kind = "response" /\ inbox[i + 1].kind = "response"
        BY <1>1, <1>3
    <2>3. inbox[1].req < inbox[i + 1].req
        BY <2>1, <2>2 DEF OrderInv
    <2> QED
        BY <1>1, <2>3
<1> QED
    BY <1>1, <1>2, <1>3

\* Something is put on the way back.
LEMMA InboxMore ==
    ASSUME inbox \in Seq(Msg), NEW m \in Msg, inbox' = Append(inbox, m)
    PROVE  /\ inbox' \in Seq(Msg) /\ Len(inbox) \in Nat /\ Len(inbox') = Len(inbox) + 1
           /\ Len(inbox') \in 1..Len(inbox') /\ inbox'[Len(inbox')] = m
           /\ \A i \in 1..Len(inbox) : i \in 1..Len(inbox') /\ inbox'[i] = inbox[i]
           /\ \A i \in 1..Len(inbox') : i = Len(inbox') \/ i \in 1..Len(inbox)
<1>1. /\ inbox' \in Seq(Msg) /\ Len(inbox) \in Nat /\ Len(inbox') = Len(inbox) + 1
      /\ inbox'[Len(inbox) + 1] = m
      /\ \A i \in 1..Len(inbox) : inbox'[i] = inbox[i]
    BY Appended
<1> QED
    BY <1>1

\* What is on the way back when a call has moved.
LEMMA InboxMoved ==
    ASSUME inbox \in Seq(Msg), OrderInv, NEW t, Hears(t) \/ inbox' = inbox
    PROVE  /\ inbox' \in Seq(Msg)
           /\ \A i, j \in 1..Len(inbox') :
                 i < j => \E k, l \in 1..Len(inbox) :
                             k < l /\ inbox'[i] = inbox[k] /\ inbox'[j] = inbox[l]
           /\ \A i \in 1..Len(inbox') : \E k \in 1..Len(inbox) : inbox'[i] = inbox[k]
           /\ \A n : (\E i \in 1..Len(inbox) : Responds(i, n)) /\ n # awaits[t]
                 => \E i \in 1..Len(inbox') : inbox'[i].kind = "response" /\ inbox'[i].req = n
<1>1. CASE inbox' = inbox
    BY <1>1 DEF Responds
<1>2. CASE Hears(t)
    <2>1. /\ inbox' \in Seq(Msg)
          /\ Len(inbox) \in Nat \ {0} /\ Len(inbox') = Len(inbox) - 1 /\ Head(inbox) = inbox[1]
          /\ \A i \in 1..Len(inbox') : i + 1 \in 1..Len(inbox) /\ inbox'[i] = inbox[i + 1]
          /\ \A i \in 1..Len(inbox) : i = 1 \/ (i - 1 \in 1..Len(inbox') /\ inbox'[i - 1] = inbox[i])
        BY <1>2, InboxLess DEF Hears
    <2>2. ASSUME NEW i \in 1..Len(inbox'), NEW j \in 1..Len(inbox'), i < j
          PROVE  \E k, l \in 1..Len(inbox) :
                    k < l /\ inbox'[i] = inbox[k] /\ inbox'[j] = inbox[l]
        <3>1. i + 1 < j + 1
            BY <2>2
        <3> QED
            BY <2>1, <2>2, <3>1
    <2>3. ASSUME NEW n, NEW i \in 1..Len(inbox), Responds(i, n), n # awaits[t]
          PROVE  \E j \in 1..Len(inbox') : inbox'[j].kind = "response" /\ inbox'[j].req = n
        BY <1>2, <2>1, <2>3 DEF Hears, Responds
    <2> QED
        BY <2>1, <2>2, <2>3
<1> QED
    BY <1>1, <1>2

(***************************************************************************)
(* Types, bounds, the order of the wires and what the tasks wait for.      *)
(***************************************************************************)

Basics == Types /\ Bounds /\ OrderInv /\ TaskInv

LEMMA MoveTypes ==
    ASSUME SessionAssumption, Basics, situation' = situation,
           NEW t \in Tasks, NEW s, Moves(t, s)
    PROVE  Types' /\ Bounds'
<1>1. /\ pc' = [pc EXCEPT ![t] = s]
      /\ awaits' = [awaits EXCEPT ![t] = IF s \in Awaits THEN reqs + 1 ELSE 0]
      /\ reqs' = IF s \in Awaits THEN reqs + 1 ELSE reqs
      /\ outbox' \in Seq(RequestMsg) /\ kind'[t] \in {"none", "inventory", "gated", "access"}
    BY MoveFacts DEF Basics
<1>2. inbox' \in Seq(Msg)
    BY InboxMoved DEF Basics, Types, Msg, Moves
<1>3. call'[t] \in Nat /\ call'[t] <= calls' /\ born'[t] \in Nat /\ born'[t] <= conns
    <2>1. conns \in Nat \ {0} /\ calls' \in Nat
        BY DEF Moves, Basics, Types
    <2>2. CASE s = "idle"
        BY <2>1, <2>2 DEF Moves
    <2>3. CASE s # "idle"
        BY <2>1, <2>3 DEF Moves
    <2> QED
        BY <2>2, <2>3
<1>4. reports' \in Seq(Report) /\ Len(reports') <= QueueSize
    <2>1. /\ reports \in Seq(Report) /\ Len(reports) <= QueueSize
          /\ QueueSize \in Nat \ {0}
        BY DEF Basics, Types, Bounds, SessionAssumption
    <2>2. CASE reports' = <<>>
        <3>1. Len(<<>>) = 0 /\ <<>> \in Seq(Report)
            OBVIOUS
        <3> QED
            BY <2>1, <2>2, <3>1
    <2>4. CASE reports' = reports
        BY <2>1, <2>4
    <2>3. CASE reports # <<>> /\ reports' = Tail(reports)
        BY <2>1, <2>3, Taken
    <2> QED
        BY <2>2, <2>3, <2>4 DEF Moves
<1>5. active' \in BOOLEAN
    BY DEF Moves, GoTo, Activate, Basics, Types
<1>6. /\ call' \in [Tasks -> Nat] /\ born' \in [Tasks -> Nat]
      /\ kind' \in [Tasks -> {"none", "inventory", "gated", "access"}]
      /\ pc' \in [Tasks -> Awaits \cup {"idle", "stream"}]
    BY <1>1, <1>3 DEF Moves, Basics, Types
<1>7. reqs' \in Nat /\ awaits' \in [Tasks -> Nat] /\ calls' \in Nat
    <2>1. reqs \in Nat /\ awaits \in [Tasks -> Nat]
        BY DEF Basics, Types
    <2>2. calls' \in Nat
        BY DEF Moves
    <2> QED
        BY <1>1, <2>1, <2>2
<1>8. Types'
    BY <1>1, <1>2, <1>4, <1>5, <1>6, <1>7 DEF Moves, Basics, Types, reader, Msg
<1>9. ASSUME NEW u \in Tasks
      PROVE  call'[u] <= calls' /\ born'[u] <= conns /\ awaits'[u] <= reqs'
    <2>1. CASE u = t
        BY <1>1, <1>3, <2>1 DEF Basics, Types
    <2>2. CASE u # t
        <3>1. /\ call'[u] = call[u] /\ born'[u] = born[u] /\ awaits'[u] = awaits[u]
            BY <1>1, <2>2 DEF Moves, Basics, Types
        <3>2. /\ call[u] \in Nat /\ call[u] <= calls /\ born[u] <= conns
              /\ awaits[u] \in Nat /\ awaits[u] <= reqs /\ reqs \in Nat
              /\ calls \in Nat /\ calls' \in Nat /\ calls <= calls'
            BY DEF Moves, Basics, Types, Bounds
        <3> QED
            BY <1>1, <3>1, <3>2
    <2> QED
        BY <2>1, <2>2
<1>10. /\ access' = access /\ access.call \in Nat /\ access.call <= calls' /\ access.conn <= conns
       /\ conns' = conns /\ reported' = reported
    BY DEF Moves, Basics, Types, Bounds, reader
<1>11. Bounds'
    BY <1>4, <1>9, <1>10 DEF Moves, Basics, Bounds
<1> QED
    BY <1>8, <1>11

LEMMA MoveOrder ==
    ASSUME SessionAssumption, Basics, situation' = situation,
           NEW t \in Tasks, NEW s, Moves(t, s)
    PROVE  OrderInv'
<1> DEFINE m == Message(t, s)
<1>1. /\ reqs' = IF s \in Awaits THEN reqs + 1 ELSE reqs
      /\ outbox' = IF s \in Awaits THEN Append(outbox, m) ELSE outbox
      /\ s \in Awaits => m \in RequestMsg
      /\ Sent' = IF s \in Awaits THEN Sent \cup {m} ELSE Sent
    BY MoveFacts DEF Basics
<1>2. m.req = reqs + 1 /\ m.call = call'[t]
    BY DEF Message
<1> HIDE DEF m
<1>3. /\ reqs \in Nat /\ calls \in Nat /\ calls' \in Nat /\ calls <= calls'
      /\ outbox \in Seq(RequestMsg) /\ Sent \subseteq RequestMsg
      /\ inbox \in Seq(Msg)
      /\ s \in Awaits => call'[t] \in 1..calls'
    <2>1. s \in Awaits => s # "idle"
        BY DEF Awaits, Request
    <2>2. calls' \in Nat /\ calls <= calls' /\ (s \in Awaits => call'[t] \in 1..calls')
        BY <2>1 DEF Moves
    <2> QED
        BY <2>2 DEF Basics, Types, Sent, Msg
<1>4. \A r \in Sent' : r.req \in 1..reqs' /\ r.call \in 1..calls'
    <2>1. ASSUME NEW r \in Sent
          PROVE  r.req \in 1..reqs' /\ r.call \in 1..calls'
        BY <1>1, <1>3 DEF Basics, OrderInv
    <2> QED
        BY <1>1, <1>2, <1>3, <2>1
<1>5. ASSUME NEW i \in 1..Len(outbox'), NEW j \in 1..Len(outbox'), i < j
      PROVE  outbox'[i].req < outbox'[j].req
    <2>1. CASE s \notin Awaits
        BY <1>1, <1>5, <2>1 DEF Basics, OrderInv
    <2>2. CASE s \in Awaits
        <3>1. /\ Len(outbox) \in Nat /\ Len(outbox') = Len(outbox) + 1
              /\ outbox'[Len(outbox) + 1] = m
              /\ \A k \in 1..Len(outbox) : outbox'[k] = outbox[k]
            BY <1>1, <1>3, <2>2, Appended
        <3>2. i \in 1..Len(outbox) /\ outbox'[i] = outbox[i]
            BY <1>5, <3>1
        <3>3. outbox[i] \in Sent
            BY <3>2 DEF Sent
        <3>4. CASE j = Len(outbox) + 1
            BY <1>2, <1>3, <3>1, <3>2, <3>3, <3>4 DEF Basics, OrderInv
        <3>5. CASE j \in 1..Len(outbox)
            BY <1>5, <3>1, <3>2, <3>5 DEF Basics, OrderInv
        <3> QED
            BY <3>1, <3>4, <3>5
    <2> QED
        BY <2>1, <2>2
<1>6. /\ \A i, j \in 1..Len(inbox') :
            i < j => \E k, l \in 1..Len(inbox) :
                        k < l /\ inbox'[i] = inbox[k] /\ inbox'[j] = inbox[l]
      /\ \A i \in 1..Len(inbox') : \E k \in 1..Len(inbox) : inbox'[i] = inbox[k]
    BY <1>3, InboxMoved DEF Moves, Basics
<1>7. \A i, j \in 1..Len(inbox') :
         i < j /\ inbox'[i].kind = "response" /\ inbox'[j].kind = "response"
            => inbox'[i].req < inbox'[j].req
    <2>1. ASSUME NEW i \in 1..Len(inbox'), NEW j \in 1..Len(inbox'), i < j,
                 inbox'[i].kind = "response", inbox'[j].kind = "response"
          PROVE  inbox'[i].req < inbox'[j].req
        <3>1. PICK k, l \in 1..Len(inbox) :
                 k < l /\ inbox'[i] = inbox[k] /\ inbox'[j] = inbox[l]
            BY <1>6, <2>1
        <3> QED
            BY <2>1, <3>1 DEF Basics, OrderInv
    <2> QED
        BY <2>1
<1>8. ASSUME NEW i \in 1..Len(inbox'), inbox'[i].kind = "response"
      PROVE  inbox'[i].req <= reqs' /\ \A r \in Sent' : inbox'[i].req < r.req
    <2>1. PICK k \in 1..Len(inbox) : inbox'[i] = inbox[k]
        BY <1>6
    <2>2. inbox[k].req \in Nat /\ inbox[k].req <= reqs /\ \A r \in Sent : inbox[k].req < r.req
        <3>1. inbox[k] \in Msg /\ inbox[k].kind = "response"
            BY <1>3, <1>8, <2>1
        <3>2. inbox[k].req \in Nat
            BY <3>1 DEF Msg, ResponseMsg, ReportMsg
        <3> QED
            BY <3>1, <3>2 DEF Basics, OrderInv
    <2> QED
        BY <1>1, <1>2, <1>3, <2>1, <2>2
<1> QED
    BY <1>4, <1>5, <1>7, <1>8 DEF OrderInv

\* What a move leaves to the other tasks.
LEMMA MoveOthers ==
    ASSUME SessionAssumption, Types, NEW t \in Tasks, NEW s, Moves(t, s), NEW u \in Tasks, u # t
    PROVE  /\ pc'[u] = pc[u] /\ call'[u] = call[u] /\ kind'[u] = kind[u]
           /\ born'[u] = born[u] /\ awaits'[u] = awaits[u]
<1>1. /\ pc' = [pc EXCEPT ![t] = s]
      /\ awaits' = [awaits EXCEPT ![t] = IF s \in Awaits THEN reqs + 1 ELSE 0]
    BY MoveFacts
<1>2. /\ call' = [call EXCEPT ![t] = call'[t]]
      /\ kind' = [kind EXCEPT ![t] = kind'[t]]
      /\ born' = [born EXCEPT ![t] = born'[t]]
    BY DEF Moves
<1> QED
    BY <1>1, <1>2 DEF Types

LEMMA MoveSelf ==
    ASSUME SessionAssumption, Types, NEW t \in Tasks, NEW s, Moves(t, s)
    PROVE  /\ pc'[t] = s
           /\ s \in Awaits => awaits'[t] = reqs + 1
           /\ s \notin Awaits => awaits'[t] = 0
<1>1. /\ pc' = [pc EXCEPT ![t] = s]
      /\ awaits' = [awaits EXCEPT ![t] = IF s \in Awaits THEN reqs + 1 ELSE 0]
    BY MoveFacts
<1> QED
    BY <1>1 DEF Types

LEMMA MoveTask ==
    ASSUME SessionAssumption, Basics, situation' = situation,
           NEW t \in Tasks, NEW s, Moves(t, s)
    PROVE  TaskInv'
<1> DEFINE m == Message(t, s)
<1>1. /\ s \in Awaits => m \in Sent'
      /\ \A r \in Sent : r \in Sent'
      /\ \A r \in Sent' : r \in Sent \/ (s \in Awaits /\ r = m)
      /\ s \notin Awaits => outbox' = outbox
    <2>1. /\ Sent' = IF s \in Awaits THEN Sent \cup {m} ELSE Sent
          /\ outbox' = IF s \in Awaits THEN Append(outbox, m) ELSE outbox
        BY MoveFacts DEF Basics
    <2> HIDE DEF m
    <2>2. CASE s \in Awaits
        BY <2>1, <2>2
    <2>3. CASE s \notin Awaits
        BY <2>1, <2>3
    <2> QED
        BY <2>2, <2>3
<1>2. m.req = reqs + 1 /\ m.op = Request[s] /\ m.call = call'[t] /\ m.gated = (kind'[t] = "gated")
    BY DEF Message
<1> HIDE DEF m
<1>3. /\ pc'[t] = s
      /\ s \in Awaits => awaits'[t] = reqs + 1
      /\ s \notin Awaits => awaits'[t] = 0
    BY MoveSelf DEF Basics
<1>4. reqs \in Nat /\ \A u \in Tasks : awaits[u] \in Nat /\ awaits[u] <= reqs
    BY DEF Basics, Types, Bounds
<1>5. ASSUME NEW r \in Sent
      PROVE  r.req # reqs + 1
    BY <1>4 DEF Basics, OrderInv
<1>6. ASSUME NEW u \in Tasks
      PROVE  /\ pc'[u] = "idle" => call'[u] = 0 /\ kind'[u] = "none"
             /\ pc'[u] # "idle" =>
                   call'[u] # 0 /\ born'[u] # 0 /\ kind'[u] \in situation.kinds[u]
             /\ pc'[u] \notin Awaits => awaits'[u] = 0
             /\ pc'[u] \in {"adelete", "aadd", "aenable", "aclean"} => kind'[u] = "access"
             /\ pc'[u] = "gpi" => kind'[u] = "gated"
             /\ pc'[u] = "start" => kind'[u] # "gated"
    <2>1. CASE u = t
        <3>1. /\ s = "idle" => call'[t] = 0 /\ kind'[t] = "none"
              /\ s # "idle" => call'[t] # 0 /\ born'[t] # 0 /\ kind'[t] \in situation.kinds[t]
            BY DEF Moves
        <3> QED
            BY <1>3, <2>1, <3>1 DEF Moves
    <2>2. CASE u # t
        BY <2>2, MoveOthers DEF Basics, TaskInv
    <2> QED
        BY <2>1, <2>2
<1>7. ASSUME NEW u \in Tasks, pc'[u] \in Awaits
      PROVE  /\ awaits'[u] # 0
             /\ \/ \E r \in Sent' : r.req = awaits'[u]
                \/ \E i \in 1..Len(inbox') : inbox'[i].kind = "response" /\ inbox'[i].req = awaits'[u]
             /\ \A r \in Sent' : r.req = awaits'[u] =>
                   r.op = Request[pc'[u]] /\ r.call = call'[u] /\ r.gated = (kind'[u] = "gated")
    <2>1. CASE u = t
        BY <1>1, <1>2, <1>3, <1>4, <1>5, <1>7, <2>1
    <2>2. CASE u # t
        <3>1. /\ pc'[u] = pc[u] /\ call'[u] = call[u] /\ kind'[u] = kind[u] /\ awaits'[u] = awaits[u]
            BY <2>2, MoveOthers DEF Basics
        <3>2. /\ awaits[u] # 0 /\ awaits[u] # reqs + 1
              /\ \/ \E r \in Sent : r.req = awaits[u]
                 \/ \E i \in 1..Len(inbox) : Responds(i, awaits[u])
              /\ \A r \in Sent : r.req = awaits[u] =>
                    r.op = Request[pc[u]] /\ r.call = call[u] /\ r.gated = (kind[u] = "gated")
            BY <1>4, <1>7, <3>1 DEF Basics, TaskInv
        <3>3. awaits[u] # awaits[t]
            BY <2>2, <3>2 DEF Basics, TaskInv
        <3>4. (\E i \in 1..Len(inbox) : Responds(i, awaits[u])) =>
                 \E i \in 1..Len(inbox') : inbox'[i].kind = "response" /\ inbox'[i].req = awaits[u]
            <4>1. inbox \in Seq(Msg) /\ OrderInv /\ (Hears(t) \/ inbox' = inbox)
                BY DEF Basics, Types, Msg, Moves
            <4> QED
                BY <3>3, <4>1, InboxMoved
        <3>5. \A r \in Sent' : r.req = awaits[u] => r \in Sent
            BY <1>1, <1>2, <3>2
        <3> QED
            BY <1>1, <3>1, <3>2, <3>4, <3>5
    <2> QED
        BY <2>1, <2>2
<1>8. ASSUME NEW u \in Tasks, NEW v \in Tasks, awaits'[u] = awaits'[v], awaits'[u] # 0
      PROVE  u = v
    <2>1. CASE u # t /\ v # t
        BY <1>8, <2>1, MoveOthers DEF Basics, TaskInv
    <2>2. CASE u = t /\ v # t
        BY <1>3, <1>4, <1>8, <2>2, MoveOthers DEF Basics
    <2>3. CASE u # t /\ v = t
        BY <1>3, <1>4, <1>8, <2>3, MoveOthers DEF Basics
    <2> QED
        BY <2>1, <2>2, <2>3
<1>9. ASSUME conn' = 0
      PROVE  outbox' = <<>> /\ inbox' = <<>> /\ \A u \in Tasks : pc'[u] \in {"idle", "stream"}
    <2>1. conn = 0 /\ s = "idle"
        BY <1>9 DEF Moves
    <2>2. /\ outbox = <<>> /\ inbox = <<>> /\ \A u \in Tasks : pc[u] \in {"idle", "stream"}
        BY <2>1 DEF Basics, TaskInv
    <2>3. "idle" \notin Awaits
        BY DEF Awaits, Request
    <2>4. inbox' = inbox
        BY <2>2 DEF Moves, Hears
    <2>5. \A u \in Tasks : pc'[u] \in {"idle", "stream"}
        BY <1>3, <2>1, <2>2, MoveOthers DEF Basics
    <2> QED
        BY <1>1, <2>1, <2>2, <2>3, <2>4, <2>5
<1> QED
    BY <1>6, <1>7, <1>8, <1>9 DEF TaskInv, Responds

LEMMA MoveBasics ==
    ASSUME SessionAssumption, Basics, situation' = situation,
           NEW t \in Tasks, NEW s, Moves(t, s)
    PROVE  Basics'
BY MoveTypes, MoveOrder, MoveTask DEF Basics

\* What is offered to a queue within its capacity leaves it there.
LEMMA Offered ==
    ASSUME NEW S, NEW q \in Seq(S), NEW m \in S, NEW cap \in Nat \ {0}, Len(q) <= cap
    PROVE  /\ Offer(q, m, cap) \in Seq(S) /\ Len(Offer(q, m, cap)) <= cap
           /\ \A i \in 1..Len(Offer(q, m, cap)) :
                 Offer(q, m, cap)[i] = m \/ \E j \in 1..Len(q) : Offer(q, m, cap)[i] = q[j]
<1>1. CASE IsFull(q, cap)
    <2>1. Len(q) >= cap /\ Offer(q, m, cap) = Append(Tail(q), m)
        BY <1>1 DEF Offer, IsFull
    <2>2. q # <<>>
        BY <2>1
    <2>3. /\ Tail(q) \in Seq(S) /\ Len(q) \in Nat \ {0} /\ Len(Tail(q)) = Len(q) - 1
          /\ \A i \in 1..Len(Tail(q)) : i + 1 \in 1..Len(q) /\ Tail(q)[i] = q[i + 1]
        BY <2>2, Taken
    <2>4. /\ Append(Tail(q), m) \in Seq(S) /\ Len(Append(Tail(q), m)) = Len(Tail(q)) + 1
          /\ Append(Tail(q), m)[Len(Tail(q)) + 1] = m
          /\ \A i \in 1..Len(Tail(q)) : Append(Tail(q), m)[i] = Tail(q)[i]
        BY <2>3, Appended
    <2> DEFINE o == Offer(q, m, cap)
    <2>5. o \in Seq(S) /\ Len(o) = Len(q) /\ o[Len(q)] = m
        BY <2>1, <2>3, <2>4
    <2>6. \A i \in 1..Len(q) - 1 : o[i] = q[i + 1] /\ i + 1 \in 1..Len(q)
        BY <2>1, <2>3, <2>4
    <2> HIDE DEF o
    <2>7. ASSUME NEW i \in 1..Len(o)
          PROVE  o[i] = m \/ \E j \in 1..Len(q) : o[i] = q[j]
        <3>1. i = Len(q) \/ i \in 1..Len(q) - 1
            BY <2>3, <2>5
        <3> QED
            BY <2>5, <2>6, <3>1
    <2>8. o \in Seq(S) /\ Len(o) <= cap
        BY <2>1, <2>3, <2>5
    <2> QED
        BY <2>7, <2>8 DEF o
<1>2. CASE ~IsFull(q, cap)
    <2>1. Len(q) < cap /\ Offer(q, m, cap) = Append(q, m)
        BY <1>2 DEF Offer, IsFull
    <2>2. /\ Append(q, m) \in Seq(S) /\ Len(Append(q, m)) = Len(q) + 1 /\ Len(q) \in Nat
          /\ Append(q, m)[Len(q) + 1] = m
          /\ \A i \in 1..Len(q) : Append(q, m)[i] = q[i]
        BY Appended
    <2> QED
        BY <2>1, <2>2
<1> QED
    BY <1>1, <1>2

\* The dispatch of what no task takes.
Dispatch == DispatchReport \/ DispatchLate

LEMMA DispatchFacts ==
    ASSUME Basics, Dispatch
    PROVE  /\ inbox # <<>> /\ inbox' = Tail(inbox)
           /\ \A t \in Tasks : Head(inbox).kind = "response" => Head(inbox).req # awaits[t]
           /\ reports' = reports \/ DispatchReport
           /\ UNCHANGED <<active, pc, kind, call, born, awaits, cancelled, conn, outbox,
                          rospecs, access, calls, reqs, reported, conns>>
BY DEF Dispatch, DispatchReport, DispatchLate, tasks, reader

\* The reports queued after a dispatch.
LEMMA DispatchReports ==
    ASSUME SessionAssumption, Basics, Dispatch
    PROVE  /\ reports' \in Seq(Report) /\ Len(reports') <= QueueSize
           /\ \A i \in 1..Len(reports') :
                 \/ \E j \in 1..Len(reports) : reports'[i] = reports[j]
                 \/ /\ 1 \in 1..Len(inbox) /\ inbox[1].kind = "report"
                    /\ reports'[i].call = inbox[1].call /\ reports'[i].op = inbox[1].op
<1>1. /\ reports \in Seq(Report) /\ Len(reports) <= QueueSize
      /\ QueueSize \in Nat \ {0} /\ inbox \in Seq(Msg) /\ OrderInv
    BY DEF Basics, Types, Bounds, SessionAssumption, Msg
<1>2. CASE reports' = reports
    BY <1>1, <1>2
<1>3. CASE DispatchReport
    <2> DEFINE m == [call |-> Head(inbox).call, op |-> Head(inbox).op]
    <2>1. /\ inbox # <<>> /\ Head(inbox).kind = "report" /\ inbox' = Tail(inbox)
          /\ reports' = Offer(reports, m, QueueSize)
        BY <1>3 DEF DispatchReport
    <2>2. Head(inbox) \in Msg /\ Len(inbox) \in Nat \ {0} /\ Head(inbox) = inbox[1]
        BY <1>1, <2>1, InboxLess
    <2>3. Head(inbox) \in ReportMsg
        BY <2>1, <2>2 DEF Msg, ResponseMsg
    <2>4. m \in Report
        BY <2>3 DEF ReportMsg, Report
    <2>5. m.call = inbox[1].call /\ m.op = inbox[1].op
        BY <2>2
    <2> HIDE DEF m
    <2>6. /\ reports' \in Seq(Report) /\ Len(reports') <= QueueSize
          /\ \A i \in 1..Len(reports') :
                reports'[i] = m \/ \E j \in 1..Len(reports) : reports'[i] = reports[j]
        <3> DEFINE o == Offer(reports, m, QueueSize)
        <3>1. /\ o \in Seq(Report) /\ Len(o) <= QueueSize
              /\ \A i \in 1..Len(o) : o[i] = m \/ \E j \in 1..Len(reports) : o[i] = reports[j]
            BY <1>1, <2>4, Offered
        <3> HIDE DEF o
        <3> QED
            BY <2>1, <3>1 DEF o
    <2> QED
        BY <2>1, <2>2, <2>5, <2>6
<1> QED
    BY <1>2, <1>3, DispatchFacts

LEMMA DispatchBasics ==
    ASSUME SessionAssumption, Basics, situation' = situation, Dispatch
    PROVE  Basics'
<1>1. /\ inbox # <<>> /\ inbox' = Tail(inbox)
      /\ \A t \in Tasks : Head(inbox).kind = "response" => Head(inbox).req # awaits[t]
      /\ UNCHANGED <<active, pc, kind, call, born, awaits, cancelled, conn, outbox,
                     rospecs, access, calls, reqs, reported, conns>>
    BY DispatchFacts
<1>2. /\ inbox' \in Seq(Msg)
      /\ Len(inbox) \in Nat \ {0} /\ Len(inbox') = Len(inbox) - 1 /\ Head(inbox) = inbox[1]
      /\ \A i \in 1..Len(inbox') : i + 1 \in 1..Len(inbox) /\ inbox'[i] = inbox[i + 1]
      /\ \A i \in 1..Len(inbox) : i = 1 \/ (i - 1 \in 1..Len(inbox') /\ inbox'[i - 1] = inbox[i])
    BY <1>1, InboxLess DEF Basics, Types, Msg
<1>3. Sent' = Sent
    BY <1>1, SentSame
<1>4. Types' /\ Bounds'
    BY <1>1, <1>2, DispatchReports DEF Basics, Types, Bounds, Msg
<1>5. OrderInv'
    <2>1. ASSUME NEW i \in 1..Len(inbox'), NEW j \in 1..Len(inbox'), i < j,
                 inbox'[i].kind = "response", inbox'[j].kind = "response"
          PROVE  inbox'[i].req < inbox'[j].req
        <3>1. i + 1 \in 1..Len(inbox) /\ j + 1 \in 1..Len(inbox) /\ i + 1 < j + 1
            BY <1>2, <2>1
        <3>2. inbox'[i] = inbox[i + 1] /\ inbox'[j] = inbox[j + 1]
            BY <1>2
        <3> QED
            BY <2>1, <3>1, <3>2 DEF Basics, OrderInv
    <2>2. ASSUME NEW i \in 1..Len(inbox'), inbox'[i].kind = "response"
          PROVE  inbox'[i].req <= reqs /\ \A r \in Sent : inbox'[i].req < r.req
        BY <1>2, <2>2 DEF Basics, OrderInv
    <2>3. /\ \A i, j \in 1..Len(outbox') : i < j => outbox'[i].req < outbox'[j].req
          /\ \A r \in Sent' : r.req \in 1..reqs' /\ r.call \in 1..calls'
        BY <1>1, <1>3 DEF Basics, OrderInv
    <2> QED
        BY <1>1, <1>3, <2>1, <2>2, <2>3 DEF OrderInv
<1>6. TaskInv'
    <2>1. ASSUME NEW n, NEW i \in 1..Len(inbox), Responds(i, n), \E t \in Tasks : n = awaits[t]
          PROVE  \E j \in 1..Len(inbox') : inbox'[j].kind = "response" /\ inbox'[j].req = n
        <3>1. i # 1
            BY <1>1, <1>2, <2>1 DEF Responds
        <3> QED
            BY <1>2, <2>1, <3>1 DEF Responds
    <2>2. ASSUME NEW t \in Tasks, pc[t] \in Awaits
          PROVE  \/ \E r \in Sent : r.req = awaits[t]
                 \/ \E j \in 1..Len(inbox') : inbox'[j].kind = "response" /\ inbox'[j].req = awaits[t]
        BY <2>1, <2>2 DEF Basics, TaskInv
    <2>3. conn # 0
        BY <1>1 DEF Basics, TaskInv
    <2> QED
        BY <1>1, <1>3, <2>2, <2>3 DEF Basics, TaskInv, Responds
<1> QED
    BY <1>4, <1>5, <1>6 DEF Basics

\* What a message of the life cycle does to the table, which holds one ROSpec at most.
LEMMA AfterFacts ==
    ASSUME Types, NEW op \in RoOps, NEW spec \in [call : Nat, gated : BOOLEAN]
    PROVE  LET u == After(rospecs, op, RoId, spec)
           IN  /\ DOMAIN u \subseteq {RoId} /\ u \in [DOMAIN u -> ROSpecEntry]
               /\ op = "ADD" /\ DOMAIN rospecs = {} =>
                     RoId \in DOMAIN u /\ u[RoId].spec = spec /\ u[RoId].state = "Disabled"
               /\ op = "DELETE" => DOMAIN u = {}
               /\ op # "ADD" /\ DOMAIN rospecs = {} => DOMAIN u = {}
               /\ op \in {"ENABLE", "START"} /\ RoId \in DOMAIN rospecs
                     /\ rospecs[RoId].state = Expected[op] =>
                        /\ RoId \in DOMAIN u /\ u[RoId].spec = rospecs[RoId].spec
                        /\ u[RoId].state = Target[op]
<1> DEFINE u == After(rospecs, op, RoId, spec)
<1>1. DOMAIN rospecs \subseteq {RoId} /\ rospecs \in [DOMAIN rospecs -> ROSpecEntry]
    BY DEF Types
<1>2. /\ DOMAIN Expected = {"ENABLE", "DISABLE", "START", "STOP"}
      /\ DOMAIN Target = DOMAIN Expected
      /\ \A o \in DOMAIN Target : Target[o] \in States
      /\ "Disabled" \in States
    BY DEF Expected, Target, States
<1>3. CASE ~Accepts(rospecs, op, RoId)
    <2>1. u = rospecs
        BY <1>3 DEF After
    <2>2. op = "ADD" => RoId \in DOMAIN rospecs
        BY <1>3 DEF Accepts
    <2>3. op = "DELETE" => RoId \notin DOMAIN rospecs
        BY <1>2, <1>3 DEF Accepts
    <2>4. op \in {"ENABLE", "START"} =>
             ~(RoId \in DOMAIN rospecs /\ rospecs[RoId].state = Expected[op])
        BY <1>2, <1>3 DEF Accepts
    <2> HIDE DEF u
    <2> QED
        BY <1>1, <2>1, <2>2, <2>3, <2>4 DEF u
<1>4. CASE Accepts(rospecs, op, RoId) /\ op = "ADD"
    <2> DEFINE e == [spec |-> spec, state |-> "Disabled"]
    <2>1. u = Put(rospecs, RoId, e)
        BY <1>4 DEF After
    <2>2. e \in ROSpecEntry /\ e.spec = spec /\ e.state = "Disabled"
        BY <1>2 DEF ROSpecEntry
    <2> HIDE DEF u, e
    <2>3. DOMAIN u = {RoId} /\ u \in [DOMAIN u -> ROSpecEntry] /\ u[RoId] = e
        BY <1>1, <2>1, <2>2, SMT DEF Put
    <2> QED
        BY <1>4, <2>2, <2>3 DEF u
<1>5. CASE Accepts(rospecs, op, RoId) /\ op = "DELETE"
    <2>1. u = Restrict(rospecs, DOMAIN rospecs \ {RoId})
        BY <1>5 DEF After
    <2> HIDE DEF u
    <2>2. DOMAIN u = {} /\ u \in [DOMAIN u -> ROSpecEntry]
        BY <1>1, <2>1, SMT DEF Restrict
    <2> QED
        BY <1>5, <2>2 DEF u
<1>6. CASE Accepts(rospecs, op, RoId) /\ op \notin {"ADD", "DELETE"}
    <2>1. op \in DOMAIN Target /\ RoId \in DOMAIN rospecs
        BY <1>2, <1>6 DEF RoOps, Accepts
    <2>2. u = [rospecs EXCEPT ![RoId].state = Target[op]]
        BY <1>6 DEF After
    <2>3. rospecs[RoId] \in ROSpecEntry /\ Target[op] \in States
        BY <1>1, <1>2, <2>1
    <2> HIDE DEF u
    <2>4. /\ DOMAIN u = DOMAIN rospecs /\ u \in [DOMAIN u -> ROSpecEntry]
          /\ u[RoId].spec = rospecs[RoId].spec /\ u[RoId].state = Target[op]
        BY <1>1, <2>1, <2>2, <2>3 DEF ROSpecEntry
    <2> QED
        BY <1>1, <1>6, <2>1, <2>4 DEF u
<1> QED
    BY <1>3, <1>4, <1>5, <1>6

\* The oldest request is served.
LEMMA ServeFacts ==
    ASSUME Basics, Serve
    PROVE  \E r \in Sent :
              /\ r \in RequestMsg /\ r.req \in 1..reqs /\ r.call \in 1..calls
              /\ conn # 0 /\ outbox # <<>> /\ outbox' = Tail(outbox) /\ r = Head(outbox)
              /\ Sent' \subseteq Sent
              /\ \A q \in Sent : q \in Sent' \/ q = r
              /\ \A q \in Sent' : r.req < q.req
              /\ \E ok \in BOOLEAN :
                    /\ inbox' = Append(inbox, [kind |-> "response", req |-> r.req, ok |-> ok])
                    /\ r.op = "AADD" => ok = (access = NoAccess)
              /\ IF r.op \in RoOps
                 THEN rospecs' = After(rospecs, r.op, RoId, [call |-> r.call, gated |-> r.gated])
                 ELSE rospecs' = rospecs
              /\ access' = CASE r.op = "AADD" /\ access = NoAccess ->
                                   [call |-> r.call, conn |-> conn, enabled |-> FALSE]
                             [] r.op = "AENABLE" /\ access # NoAccess ->
                                   [access EXCEPT !.enabled = TRUE]
                             [] r.op = "ADEL" -> NoAccess
                             [] OTHER -> access
              /\ UNCHANGED <<active, reports, pc, kind, call, born, awaits, cancelled,
                             conn, calls, reqs, reported, conns>>
<1> DEFINE r == Head(outbox)
<1>1. /\ outbox # <<>> /\ outbox' = Tail(outbox)
      /\ ServeROSpec(r) \/ ServeAccessSpec(r) \/ ServeConfig(r)
      /\ UNCHANGED <<active, reports, tasks, conn, calls, reqs, reported, conns>>
    BY DEF Serve
<1>2. /\ r \in Sent /\ r \in RequestMsg /\ Sent' \subseteq Sent
      /\ \A q \in Sent : q \in Sent' \/ q = r
      /\ \A q \in Sent' : r.req < q.req
    BY <1>1, SentLess DEF Basics, Types
<1> HIDE DEF r
<1>3. r.req \in 1..reqs /\ r.call \in 1..calls
    BY <1>2 DEF Basics, OrderInv
<1>4. conn # 0
    BY <1>1 DEF Basics, TaskInv
<1>5. /\ \E ok \in BOOLEAN :
            /\ inbox' = Append(inbox, [kind |-> "response", req |-> r.req, ok |-> ok])
            /\ r.op = "AADD" => ok = (access = NoAccess)
      /\ IF r.op \in RoOps
         THEN rospecs' = After(rospecs, r.op, RoId, [call |-> r.call, gated |-> r.gated])
         ELSE rospecs' = rospecs
      /\ access' = CASE r.op = "AADD" /\ access = NoAccess ->
                           [call |-> r.call, conn |-> conn, enabled |-> FALSE]
                     [] r.op = "AENABLE" /\ access # NoAccess ->
                           [access EXCEPT !.enabled = TRUE]
                     [] r.op = "ADEL" -> NoAccess
                     [] OTHER -> access
    <2>1. /\ "AADD" \notin RoOps /\ "AENABLE" \notin RoOps /\ "ADEL" \notin RoOps
          /\ "CONFIG" \notin RoOps
        BY DEF RoOps, Expected
    <2>2. CASE ServeROSpec(r)
        <3>1. Accepts(rospecs, r.op, RoId) \in BOOLEAN
            BY DEF Accepts
        <3> QED
            BY <2>1, <2>2, <3>1 DEF ServeROSpec, Respond
    <2>3. CASE ServeAccessSpec(r)
        BY <2>1, <2>3 DEF ServeAccessSpec, Respond
    <2>4. CASE ServeConfig(r)
        BY <2>1, <2>4 DEF ServeConfig, Respond, reader
    <2> QED
        BY <1>1, <2>2, <2>3, <2>4
<1> QED
    BY <1>1, <1>2, <1>3, <1>4, <1>5 DEF tasks, r

LEMMA ServeBasics ==
    ASSUME SessionAssumption, Basics, situation' = situation, Serve
    PROVE  Basics'
<1>1. PICK r \in Sent :
         /\ r \in RequestMsg /\ r.req \in 1..reqs /\ r.call \in 1..calls
         /\ conn # 0 /\ outbox # <<>> /\ outbox' = Tail(outbox)
         /\ Sent' \subseteq Sent
         /\ \A q \in Sent : q \in Sent' \/ q = r
         /\ \A q \in Sent' : r.req < q.req
         /\ \E ok \in BOOLEAN :
               inbox' = Append(inbox, [kind |-> "response", req |-> r.req, ok |-> ok])
         /\ IF r.op \in RoOps
            THEN rospecs' = After(rospecs, r.op, RoId, [call |-> r.call, gated |-> r.gated])
            ELSE rospecs' = rospecs
         /\ access' = CASE r.op = "AADD" /\ access = NoAccess ->
                              [call |-> r.call, conn |-> conn, enabled |-> FALSE]
                        [] r.op = "AENABLE" /\ access # NoAccess ->
                              [access EXCEPT !.enabled = TRUE]
                        [] r.op = "ADEL" -> NoAccess
                        [] OTHER -> access
         /\ UNCHANGED <<active, reports, pc, kind, call, born, awaits, cancelled,
                        conn, calls, reqs, reported, conns>>
    BY ServeFacts
<1>2. PICK ok \in BOOLEAN :
         inbox' = Append(inbox, [kind |-> "response", req |-> r.req, ok |-> ok])
    BY <1>1
<1> DEFINE m == [kind |-> "response", req |-> r.req, ok |-> ok]
<1>3. m \in Msg /\ m.kind = "response" /\ m.req = r.req
    BY <1>1 DEF Msg, ResponseMsg, RequestMsg
<1> HIDE DEF m
<1>4. /\ inbox' \in Seq(Msg) /\ Len(inbox) \in Nat /\ Len(inbox') = Len(inbox) + 1
      /\ Len(inbox') \in 1..Len(inbox') /\ inbox'[Len(inbox')] = m
      /\ \A i \in 1..Len(inbox) : i \in 1..Len(inbox') /\ inbox'[i] = inbox[i]
      /\ \A i \in 1..Len(inbox') : i = Len(inbox') \/ i \in 1..Len(inbox)
    BY <1>2, <1>3, InboxMore DEF Basics, Types, Msg, m
<1>5. DOMAIN rospecs' \subseteq {RoId} /\ rospecs' \in [DOMAIN rospecs' -> ROSpecEntry]
    <2> DEFINE spec == [call |-> r.call, gated |-> r.gated]
    <2>1. spec \in [call : Nat, gated : BOOLEAN]
        BY <1>1 DEF RequestMsg
    <2> HIDE DEF spec
    <2>2. CASE r.op \in RoOps
        <3>1. rospecs' = After(rospecs, r.op, RoId, spec)
            BY <1>1, <2>2 DEF spec
        <3> QED
            BY <2>1, <2>2, <3>1, AfterFacts DEF Basics
    <2>3. CASE r.op \notin RoOps
        BY <1>1, <2>3 DEF Basics, Types
    <2> QED
        BY <2>2, <2>3
<1>6. /\ access' \in [call : Nat, conn : Nat, enabled : BOOLEAN]
      /\ access'.call <= calls /\ access'.conn <= conns
    <2>1. /\ access \in [call : Nat, conn : Nat, enabled : BOOLEAN]
          /\ access.call <= calls /\ access.conn <= conns
          /\ conn \in Nat /\ conn <= conns /\ r.call \in Nat /\ r.call <= calls
          /\ calls \in Nat /\ conns \in Nat
        BY <1>1 DEF Basics, Types, Bounds
    <2>2. CASE r.op = "AADD" /\ access = NoAccess
        <3>1. access' = [call |-> r.call, conn |-> conn, enabled |-> FALSE]
            BY <1>1, <2>2
        <3> QED
            BY <2>1, <3>1
    <2>3. CASE r.op = "AENABLE" /\ access # NoAccess
        <3>1. access' = [access EXCEPT !.enabled = TRUE]
            BY <1>1, <2>3
        <3> QED
            BY <2>1, <3>1
    <2>4. CASE r.op = "ADEL"
        BY <1>1, <2>1, <2>4 DEF NoAccess
    <2>5. CASE ~(r.op = "AADD" /\ access = NoAccess) /\ ~(r.op = "AENABLE" /\ access # NoAccess)
                  /\ r.op # "ADEL"
        <3>1. access' = access
            BY <1>1, <2>5
        <3> QED
            BY <2>1, <3>1
    <2> QED
        BY <2>2, <2>3, <2>4, <2>5
<1>7. outbox' \in Seq(RequestMsg) /\ \A i, j \in 1..Len(outbox') : i < j => outbox'[i].req < outbox'[j].req
    <2>1. /\ outbox' \in Seq(RequestMsg) /\ Len(outbox) \in Nat
          /\ \A i \in 1..Len(outbox') : i + 1 \in 1..Len(outbox) /\ outbox'[i] = outbox[i + 1]
        BY <1>1, Taken DEF Basics, Types
    <2>2. ASSUME NEW i \in 1..Len(outbox'), NEW j \in 1..Len(outbox'), i < j
          PROVE  outbox'[i].req < outbox'[j].req
        <3>1. i + 1 \in 1..Len(outbox) /\ j + 1 \in 1..Len(outbox) /\ i + 1 < j + 1
            BY <2>1, <2>2
        <3> QED
            BY <2>1, <3>1 DEF Basics, OrderInv
    <2> QED
        BY <2>1, <2>2
<1>8. Types' /\ Bounds'
    BY <1>1, <1>4, <1>5, <1>6, <1>7 DEF Basics, Types, Bounds, Msg
<1>9. OrderInv'
    <2>1. \A q \in Sent' : q.req \in 1..reqs' /\ q.call \in 1..calls'
        BY <1>1 DEF Basics, OrderInv
    <2>2. ASSUME NEW i \in 1..Len(inbox'), inbox'[i].kind = "response"
          PROVE  inbox'[i].req <= reqs /\ \A q \in Sent' : inbox'[i].req < q.req
        <3>1. CASE i = Len(inbox')
            BY <1>1, <1>3, <1>4, <3>1
        <3>2. CASE i \in 1..Len(inbox)
            BY <1>1, <1>4, <2>2, <3>2 DEF Basics, OrderInv
        <3> QED
            BY <1>4, <3>1, <3>2
    <2>3. ASSUME NEW i \in 1..Len(inbox'), NEW j \in 1..Len(inbox'), i < j,
                 inbox'[i].kind = "response", inbox'[j].kind = "response"
          PROVE  inbox'[i].req < inbox'[j].req
        <3>1. i \in 1..Len(inbox) /\ inbox'[i] = inbox[i]
            BY <1>4, <2>3
        <3>2. CASE j = Len(inbox')
            BY <1>1, <1>3, <1>4, <2>3, <3>1, <3>2 DEF Basics, OrderInv
        <3>3. CASE j \in 1..Len(inbox)
            BY <1>4, <2>3, <3>1, <3>3 DEF Basics, OrderInv
        <3> QED
            BY <1>4, <3>2, <3>3
    <2> QED
        BY <1>1, <1>7, <2>1, <2>2, <2>3 DEF OrderInv
<1>10. TaskInv'
    <2>1. ASSUME NEW t \in Tasks, pc[t] \in Awaits
          PROVE  \/ \E q \in Sent' : q.req = awaits[t]
                 \/ \E i \in 1..Len(inbox') : inbox'[i].kind = "response" /\ inbox'[i].req = awaits[t]
        <3>1. CASE \E q \in Sent : q.req = awaits[t]
            BY <1>1, <1>3, <1>4, <3>1
        <3>2. CASE \E i \in 1..Len(inbox) : Responds(i, awaits[t])
            BY <1>4, <3>2 DEF Responds
        <3> QED
            BY <2>1, <3>1, <3>2 DEF Basics, TaskInv
    <2> QED
        BY <1>1, <2>1 DEF Basics, TaskInv, Responds
<1> QED
    BY <1>8, <1>9, <1>10 DEF Basics

LEMMA LoseFacts ==
    ASSUME Lose
    PROVE  /\ conn # 0 /\ conn' = 0 /\ outbox' = <<>> /\ inbox' = <<>>
           /\ pc' = [t \in Tasks |-> IF pc[t] # "stream" THEN "idle" ELSE pc[t]]
           /\ call' = [t \in Tasks |-> IF pc[t] # "stream" THEN 0 ELSE call[t]]
           /\ kind' = [t \in Tasks |-> IF pc[t] # "stream" THEN "none" ELSE kind[t]]
           /\ born' = [t \in Tasks |-> IF pc[t] # "stream" THEN 0 ELSE born[t]]
           /\ awaits' = [t \in Tasks |-> 0]
           /\ active' = \E t \in Tasks : pc[t] = "stream"
           /\ reports' = IF \E t \in Tasks : pc[t] = "delete0" THEN <<>> ELSE reports
           /\ UNCHANGED <<cancelled, rospecs, access, calls, reqs, reported, conns>>
BY DEF Lose, reader

LEMMA LoseBasics ==
    ASSUME SessionAssumption, Basics, situation' = situation, Lose
    PROVE  Basics'
<1>1. /\ conn' = 0 /\ outbox' = <<>> /\ inbox' = <<>>
      /\ pc' = [t \in Tasks |-> IF pc[t] # "stream" THEN "idle" ELSE pc[t]]
      /\ call' = [t \in Tasks |-> IF pc[t] # "stream" THEN 0 ELSE call[t]]
      /\ kind' = [t \in Tasks |-> IF pc[t] # "stream" THEN "none" ELSE kind[t]]
      /\ born' = [t \in Tasks |-> IF pc[t] # "stream" THEN 0 ELSE born[t]]
      /\ awaits' = [t \in Tasks |-> 0]
      /\ active' = \E t \in Tasks : pc[t] = "stream"
      /\ reports' = IF \E t \in Tasks : pc[t] = "delete0" THEN <<>> ELSE reports
      /\ UNCHANGED <<cancelled, rospecs, access, calls, reqs, reported, conns>>
    BY LoseFacts
<1>2. /\ <<>> \in Seq(RequestMsg) /\ <<>> \in Seq(Msg) /\ <<>> \in Seq(Report) /\ Len(<<>>) = 0
    OBVIOUS
<1>3. active' \in BOOLEAN
    BY <1>1
<1>4. /\ pc' \in [Tasks -> Awaits \cup {"idle", "stream"}]
      /\ kind' \in [Tasks -> {"none", "inventory", "gated", "access"}]
      /\ call' \in [Tasks -> Nat] /\ born' \in [Tasks -> Nat] /\ awaits' \in [Tasks -> Nat]
    BY <1>1 DEF Basics, Types
<1>5. reports' \in Seq(Report) /\ Len(reports') <= QueueSize
    BY <1>1, <1>2 DEF Basics, Types, Bounds, SessionAssumption
<1>6. Types' /\ Bounds'
    <2>1. Types'
        BY <1>1, <1>2, <1>3, <1>4, <1>5 DEF Basics, Types, Msg
    <2>2. Bounds'
        BY <1>1, <1>5 DEF Basics, Types, Bounds
    <2> QED
        BY <2>1, <2>2
<1>7. Sent' = {} /\ 1..Len(outbox') = {} /\ 1..Len(inbox') = {}
    BY <1>1, <1>2 DEF Sent
<1>8. OrderInv'
    BY <1>7 DEF OrderInv
<1>9. TaskInv'
    <2>1. "idle" \notin Awaits /\ "stream" \notin Awaits
        BY DEF Awaits, Request
    <2> QED
        BY <1>1, <1>7, <2>1 DEF Basics, TaskInv
<1> QED
    BY <1>6, <1>8, <1>9 DEF Basics

LEMMA ReconnectBasics ==
    ASSUME SessionAssumption, Basics, situation' = situation, Reconnect
    PROVE  Basics'
<1>1. /\ conn = 0 /\ conns < situation.conns /\ conns' = conns + 1 /\ conn' = conns + 1
      /\ rospecs' = NoROSpecs
      /\ UNCHANGED <<active, reports, pc, kind, call, born, awaits, cancelled, outbox, inbox,
                     access, calls, reqs, reported>>
    BY DEF Reconnect, tasks
<1>2. DOMAIN rospecs' = {} /\ rospecs' \in [DOMAIN rospecs' -> ROSpecEntry]
    BY <1>1 DEF NoROSpecs
<1>3. Types'
    BY <1>1, <1>2 DEF Basics, Types
<1>4. Bounds'
    <2>1. conns \in Nat /\ situation.conns \in Nat /\ born \in [Tasks -> Nat] /\ access.conn \in Nat
        BY DEF Basics, Types, SessionAssumption
    <2> QED
        BY <1>1, <2>1 DEF Basics, Bounds
<1>5. Sent' = Sent
    BY <1>1, SentSame
<1> QED
    BY <1>1, <1>3, <1>4, <1>5 DEF Basics, OrderInv, TaskInv, Types, Responds

\* An edge on the GPI of a gated ROSpec.
EdgeStep == Edge("Enabled", "Active") \/ Edge("Active", "Enabled")

LEMMA EdgeFacts ==
    ASSUME Types, EdgeStep
    PROVE  /\ RoId \in DOMAIN rospecs /\ rospecs[RoId].spec.gated
           /\ rospecs[RoId].state \in {"Enabled", "Active"}
           /\ DOMAIN rospecs' = DOMAIN rospecs /\ rospecs' \in [DOMAIN rospecs' -> ROSpecEntry]
           /\ rospecs'[RoId].spec = rospecs[RoId].spec
           /\ rospecs'[RoId].state \in {"Enabled", "Active"}
           /\ UNCHANGED <<active, reports, pc, kind, call, born, awaits, cancelled, conn,
                          outbox, inbox, access, calls, reqs, reported, conns>>
<1>1. PICK from \in {"Enabled", "Active"}, to \in {"Enabled", "Active"} : Edge(from, to)
    BY DEF EdgeStep
<1>2. /\ RoId \in DOMAIN rospecs /\ rospecs[RoId].spec.gated /\ rospecs[RoId].state = from
      /\ rospecs' = [rospecs EXCEPT ![RoId].state = to]
      /\ UNCHANGED <<active, reports, tasks, conn, outbox, inbox, access,
                     calls, reqs, reported, conns>>
    BY <1>1 DEF Edge
<1>3. rospecs[RoId] \in ROSpecEntry /\ rospecs \in [DOMAIN rospecs -> ROSpecEntry] /\ to \in States
    BY <1>2 DEF Types, States
<1>4. /\ DOMAIN rospecs' = DOMAIN rospecs /\ rospecs' \in [DOMAIN rospecs' -> ROSpecEntry]
      /\ rospecs'[RoId].spec = rospecs[RoId].spec /\ rospecs'[RoId].state = to
    BY <1>2, <1>3 DEF ROSpecEntry
<1> QED
    BY <1>2, <1>4 DEF tasks

LEMMA EdgeBasics ==
    ASSUME SessionAssumption, Basics, situation' = situation, EdgeStep
    PROVE  Basics'
<1>1. /\ DOMAIN rospecs' = DOMAIN rospecs /\ rospecs' \in [DOMAIN rospecs' -> ROSpecEntry]
      /\ UNCHANGED <<active, reports, pc, kind, call, born, awaits, cancelled, conn,
                     outbox, inbox, access, calls, reqs, reported, conns>>
    BY EdgeFacts DEF Basics
<1>2. Sent' = Sent
    BY <1>1, SentSame
<1> QED
    BY <1>1, <1>2 DEF Basics, Types, Bounds, OrderInv, TaskInv, Responds

LEMMA ReadFacts ==
    ASSUME Types, ReadTag
    PROVE  \E m \in ReportMsg :
              /\ conn # 0 /\ RoId \in DOMAIN rospecs /\ rospecs[RoId].state = "Active"
              /\ inbox' = Append(inbox, m)
              /\ m.kind = "report" /\ m.call = rospecs[RoId].spec.call
              /\ m.op \in {0, access.call}
              /\ access' \in {access, NoAccess}
              /\ reported' = reported + 1 /\ reported < situation.reports
              /\ UNCHANGED <<active, reports, pc, kind, call, born, awaits, cancelled, conn,
                             outbox, rospecs, calls, reqs, conns>>
<1>1. PICK executed \in {FALSE, access.enabled} :
         /\ inbox' = Append(inbox, [kind |-> "report", call |-> rospecs[RoId].spec.call,
                                    op |-> IF executed THEN access.call ELSE 0])
         /\ access' = IF executed THEN NoAccess ELSE access
    BY DEF ReadTag
<1>2. RoId \in DOMAIN rospecs /\ rospecs[RoId].state = "Active" /\ rospecs[RoId] \in ROSpecEntry
    BY DEF ReadTag, IsActive, Types
<1> DEFINE m == [kind |-> "report", call |-> rospecs[RoId].spec.call,
                 op |-> IF executed THEN access.call ELSE 0]
<1>3. m \in ReportMsg /\ m.op \in {0, access.call}
    BY <1>2 DEF ReportMsg, ROSpecEntry, Types
<1>4. m.kind = "report" /\ m.call = rospecs[RoId].spec.call
    OBVIOUS
<1> HIDE DEF m
<1> QED
    BY <1>1, <1>2, <1>3, <1>4 DEF ReadTag, tasks, m

LEMMA ReadBasics ==
    ASSUME SessionAssumption, Basics, situation' = situation, ReadTag
    PROVE  Basics'
<1>1. PICK m \in ReportMsg :
         /\ conn # 0 /\ inbox' = Append(inbox, m) /\ m.kind = "report"
         /\ access' \in {access, NoAccess}
         /\ reported' = reported + 1 /\ reported < situation.reports
         /\ UNCHANGED <<active, reports, pc, kind, call, born, awaits, cancelled, conn,
                        outbox, rospecs, calls, reqs, conns>>
    BY ReadFacts DEF Basics
<1>2. /\ inbox' \in Seq(Msg) /\ Len(inbox) \in Nat /\ Len(inbox') = Len(inbox) + 1
      /\ Len(inbox') \in 1..Len(inbox') /\ inbox'[Len(inbox')] = m
      /\ \A i \in 1..Len(inbox) : i \in 1..Len(inbox') /\ inbox'[i] = inbox[i]
      /\ \A i \in 1..Len(inbox') : i = Len(inbox') \/ i \in 1..Len(inbox)
    BY <1>1, InboxMore DEF Basics, Types, Msg
<1>3. Sent' = Sent
    BY <1>1, SentSame
<1>4. access' \in [call : Nat, conn : Nat, enabled : BOOLEAN]
      /\ access'.call <= calls /\ access'.conn <= conns
    <2>1. /\ NoAccess \in [call : Nat, conn : Nat, enabled : BOOLEAN]
          /\ NoAccess.call = 0 /\ NoAccess.conn = 0
        BY DEF NoAccess
    <2> HIDE DEF NoAccess
    <2> QED
        BY <1>1, <2>1 DEF Basics, Types, Bounds
<1>5. reported' \in Nat /\ reported' <= situation.reports
    <2>1. reported \in Nat /\ situation.reports \in Nat
        BY DEF Basics, Types, SessionAssumption
    <2> QED
        BY <1>1, <2>1
<1>6. Types' /\ Bounds'
    BY <1>1, <1>2, <1>4, <1>5 DEF Basics, Types, Bounds, Msg
<1>7. OrderInv'
    <2>1. ASSUME NEW i \in 1..Len(inbox'), inbox'[i].kind = "response"
          PROVE  i \in 1..Len(inbox) /\ inbox'[i] = inbox[i]
        BY <1>1, <1>2, <2>1
    <2>2. ASSUME NEW i \in 1..Len(inbox'), NEW j \in 1..Len(inbox'), i < j,
                 inbox'[i].kind = "response", inbox'[j].kind = "response"
          PROVE  inbox'[i].req < inbox'[j].req
        BY <2>1, <2>2 DEF Basics, OrderInv
    <2>3. ASSUME NEW i \in 1..Len(inbox'), inbox'[i].kind = "response"
          PROVE  inbox'[i].req <= reqs /\ \A q \in Sent : inbox'[i].req < q.req
        BY <2>1, <2>3 DEF Basics, OrderInv
    <2>4. /\ \A i, j \in 1..Len(outbox') : i < j => outbox'[i].req < outbox'[j].req
          /\ \A r \in Sent' : r.req \in 1..reqs' /\ r.call \in 1..calls'
        BY <1>1, <1>3 DEF Basics, OrderInv
    <2> QED
        BY <1>1, <1>3, <2>2, <2>3, <2>4 DEF OrderInv
<1>8. TaskInv'
    <2>1. ASSUME NEW t \in Tasks, pc[t] \in Awaits
          PROVE  \/ \E q \in Sent : q.req = awaits[t]
                 \/ \E i \in 1..Len(inbox') : inbox'[i].kind = "response" /\ inbox'[i].req = awaits[t]
        BY <1>2, <2>1 DEF Basics, TaskInv, Responds
    <2> QED
        BY <1>1, <1>3, <2>1 DEF Basics, TaskInv, Responds
<1> QED
    BY <1>6, <1>7, <1>8 DEF Basics

LEMMA YieldBasics ==
    ASSUME SessionAssumption, Basics, situation' = situation, NEW t \in Tasks, Yields(t)
    PROVE  Basics'
<1>1. /\ reports' \in Seq(Report) /\ Len(reports') <= QueueSize
      /\ UNCHANGED <<active, pc, kind, call, born, awaits, cancelled, conn, outbox, inbox,
                     rospecs, access, calls, reqs, reported, conns>>
    <2>1. reports \in Seq(Report) /\ Len(reports) <= QueueSize /\ QueueSize \in Nat
        BY DEF Basics, Types, Bounds, SessionAssumption
    <2>2. reports' \in Seq(Report) /\ Len(reports) \in Nat \ {0} /\ Len(reports') = Len(reports) - 1
        BY <2>1, Taken DEF Yields
    <2> QED
        BY <2>1, <2>2 DEF Yields, tasks, reader
<1>2. Sent' = Sent
    BY <1>1, SentSame
<1>3. Types' /\ Bounds'
    BY <1>1 DEF Basics, Types, Bounds
<1>4. OrderInv'
    BY <1>1, <1>2 DEF Basics, OrderInv
<1>5. TaskInv'
    BY <1>1, <1>2 DEF Basics, TaskInv, Responds
<1> QED
    BY <1>3, <1>4, <1>5 DEF Basics

LEMMA StutterBasics ==
    ASSUME Basics, UNCHANGED svars
    PROVE  Basics'
<1>1. UNCHANGED <<active, reports, pc, kind, call, born, awaits, cancelled, conn, outbox, inbox,
                  rospecs, access, calls, reqs, reported, conns, situation>>
    BY DEF svars, tasks, reader
<1>2. Sent' = Sent
    BY <1>1, SentSame
<1> QED
    BY <1>1, <1>2 DEF Basics, Types, Bounds, OrderInv, TaskInv, Responds

\* The steps, as the rest of the proof tells them apart.
LEMMA StepCases ==
    ASSUME SessionAssumption, Basics, [Next]_svars
    PROVE  /\ situation' = situation
           /\ \/ \E t \in Tasks : \E k \in situation.kinds[t] : \E s : Begins(t, k, s)
              \/ \E t \in Tasks : \E s : Goes(t, s)
              \/ \E t \in Tasks : Yields(t)
              \/ Dispatch \/ Lose \/ Reconnect \/ Serve \/ EdgeStep \/ ReadTag
              \/ UNCHANGED svars
<1>1. CASE UNCHANGED svars
    BY <1>1 DEF svars
<1>2. CASE Next
    <2>1. /\ situation' = situation
          /\ (\E t \in Tasks : Call(t)) \/ Network \/ Emulated
        BY <1>2 DEF Next
    <2>2. ASSUME NEW t \in Tasks, Call(t)
          PROVE  \/ \E k \in situation.kinds[t] : \E s : Begins(t, k, s)
                 \/ \E s : Goes(t, s)
                 \/ Yields(t)
        BY <2>2, CallCases, Zenon DEF Basics
    <2> QED
        BY <2>1, <2>2 DEF Network, Emulated, Dispatch, EdgeStep
<1> QED
    BY <1>1, <1>2

LEMMA BasicsStep ==
    ASSUME SessionAssumption, Basics, [Next]_svars
    PROVE  Basics'
<1>1. situation' = situation
    BY StepCases
<1>2. ASSUME NEW t \in Tasks, NEW k \in situation.kinds[t], NEW s, Begins(t, k, s)
      PROVE  Basics'
    BY <1>1, <1>2, BeginMoves, MoveBasics DEF Basics
<1>3. ASSUME NEW t \in Tasks, NEW s, Goes(t, s)
      PROVE  Basics'
    BY <1>1, <1>3, GoesMoves, MoveBasics DEF Basics
<1>4. ASSUME NEW t \in Tasks, Yields(t)
      PROVE  Basics'
    BY <1>1, <1>4, YieldBasics
<1> QED
    BY <1>1, <1>2, <1>3, <1>4, StepCases, DispatchBasics, LoseBasics, ReconnectBasics,
       ServeBasics, EdgeBasics, ReadBasics, StutterBasics

(***************************************************************************)
(* One stream at a time.                                                   *)
(***************************************************************************)

\* Streams are entered at delete0 only, where no other is.
LEMMA MoveStream ==
    ASSUME SessionAssumption, Types, OneStream, NEW t \in Tasks, NEW s, Moves(t, s),
           s = "delete0" => ~active,
           s \in Streaming \ {"delete0"} => pc[t] \in Streaming
    PROVE  OneStream'
<1>1. pc'[t] = s /\ \A u \in Tasks : u # t => pc'[u] = pc[u]
    BY MoveSelf, MoveOthers
<1>2. active' = IF s = "delete0" THEN TRUE
                ELSE IF pc[t] \in Streaming /\ s \notin Streaming THEN FALSE
                ELSE active
    BY DEF Moves, GoTo, Activate
<1>3. "delete0" \in Streaming
    BY DEF Streaming
<1>4. CASE s = "delete0"
    BY <1>1, <1>2, <1>3, <1>4 DEF OneStream
<1>5. CASE s # "delete0" /\ s \in Streaming
    BY <1>1, <1>2, <1>5 DEF OneStream
<1>6. CASE s \notin Streaming /\ pc[t] \in Streaming
    BY <1>1, <1>2, <1>3, <1>6 DEF OneStream
<1>7. CASE s \notin Streaming /\ pc[t] \notin Streaming
    BY <1>1, <1>2, <1>3, <1>7 DEF OneStream
<1> QED
    BY <1>4, <1>5, <1>6, <1>7

LEMMA GoesStream ==
    ASSUME Types, NEW t \in Tasks, NEW s, Goes(t, s)
    PROVE  /\ s \in Streaming \ {"delete0"} => pc[t] \in Streaming \ {"stream"}
           /\ s = "delete0" => ~active /\ pc[t] = "aenable"
           /\ s = "add" => pc[t] = "delete0"
           /\ s = "stop" => pc[t] \in Streaming
           /\ s # "adelete"
<1>1. s \in Edges[pc[t]] /\ pc[t] # "idle" /\ pc[t] \in Awaits \cup {"idle", "stream"}
    BY DEF Goes, Types
<1> QED
    BY <1>1 DEF Edges, Streaming, Awaits, Request, Goes

LEMMA StreamStep ==
    ASSUME SessionAssumption, Basics, OneStream, [Next]_svars
    PROVE  OneStream'
<1>1. ASSUME NEW t \in Tasks, NEW k \in situation.kinds[t], NEW s, Begins(t, k, s)
      PROVE  OneStream'
    <2>1. Moves(t, s) /\ s \in {"adelete", "delete0"} /\ (s = "delete0" => ~active)
        BY <1>1, BeginMoves DEF Basics, Begins
    <2>2. "adelete" \notin Streaming
        BY DEF Streaming
    <2> QED
        BY <2>1, <2>2, MoveStream DEF Basics
<1>2. ASSUME NEW t \in Tasks, NEW s, Goes(t, s)
      PROVE  OneStream'
    BY <1>2, GoesMoves, GoesStream, MoveStream DEF Basics
<1>3. CASE UNCHANGED <<active, pc>>
    BY <1>3 DEF OneStream
<1>4. CASE Lose
    <2>1. /\ pc' = [t \in Tasks |-> IF pc[t] # "stream" THEN "idle" ELSE pc[t]]
          /\ active' = \E t \in Tasks : pc[t] = "stream"
        BY <1>4, LoseFacts
    <2>2. "idle" \notin Streaming /\ "stream" \in Streaming
        BY DEF Streaming
    <2>3. \A t \in Tasks : pc'[t] \in Streaming <=> pc[t] = "stream"
        BY <2>1, <2>2
    <2> QED
        BY <2>1, <2>2, <2>3 DEF OneStream
<1>5. (\E t \in Tasks : Yields(t)) \/ Dispatch \/ Reconnect \/ Serve \/ EdgeStep \/ ReadTag
         \/ UNCHANGED svars => UNCHANGED <<active, pc>>
    BY DEF Yields, Dispatch, DispatchReport, DispatchLate, Reconnect, Serve, EdgeStep, Edge,
           ReadTag, svars, tasks
<1> QED
    BY <1>1, <1>2, <1>3, <1>4, <1>5, StepCases

(***************************************************************************)
(* What a stream finds and makes, when the reader answers in time.         *)
(***************************************************************************)

\* The requests on the way after a move.
LEMMA MoveSent ==
    ASSUME SessionAssumption, Basics, NEW t \in Tasks, NEW s, Moves(t, s)
    PROVE  /\ \A r \in Sent' : r \in Sent \/ (s \in Awaits /\ r = Message(t, s))
           /\ Message(t, s).req = reqs + 1 /\ Message(t, s).op = Request[s]
           /\ Message(t, s).call = call'[t] /\ Message(t, s).gated = (kind'[t] = "gated")
           /\ Sent \subseteq Sent' /\ (s \in Awaits => Message(t, s) \in Sent')
           /\ reqs \in Nat /\ \A r \in Sent : r.req \in Nat /\ r.req <= reqs
           /\ \A u \in Tasks : awaits[u] \in Nat /\ awaits[u] <= reqs
<1>1. Sent' = IF s \in Awaits THEN Sent \cup {Message(t, s)} ELSE Sent
    BY MoveFacts DEF Basics
<1>2. /\ \A r \in Sent' : r \in Sent \/ (s \in Awaits /\ r = Message(t, s))
      /\ Sent \subseteq Sent' /\ (s \in Awaits => Message(t, s) \in Sent')
    BY <1>1
<1>3. /\ Message(t, s).req = reqs + 1 /\ Message(t, s).op = Request[s]
      /\ Message(t, s).call = call'[t] /\ Message(t, s).gated = (kind'[t] = "gated")
    BY DEF Message
<1>4. /\ reqs \in Nat /\ \A r \in Sent : r.req \in Nat /\ r.req <= reqs
      /\ \A u \in Tasks : awaits[u] \in Nat /\ awaits[u] <= reqs
    BY DEF Basics, Types, Bounds, OrderInv
<1> QED
    BY <1>2, <1>3, <1>4

\* A task that hears its response is the one that waits longest.
LEMMA HearsFacts ==
    ASSUME Basics, NEW t \in Tasks, Hears(t)
    PROVE  /\ 1 \in 1..Len(inbox) /\ Responds(1, awaits[t]) /\ Head(inbox) = inbox[1]
           /\ \A i \in 1..Len(inbox') : /\ i + 1 \in 1..Len(inbox) /\ 1 < i + 1
                                        /\ inbox'[i] = inbox[i + 1]
           /\ ~Unserved(t) /\ awaits[t] \in Nat
           /\ \A r \in Sent : r.req \in Nat /\ awaits[t] < r.req
           /\ \A u \in Tasks : u # t /\ pc[u] \in Awaits => awaits[t] < awaits[u]
<1>1. /\ inbox \in Seq(Msg) /\ OrderInv /\ inbox # <<>> /\ inbox' = Tail(inbox)
      /\ pc[t] \in Awaits /\ Head(inbox).kind = "response" /\ Head(inbox).req = awaits[t]
    BY DEF Hears, Basics, Types, Msg
<1>2. /\ Len(inbox) \in Nat \ {0} /\ Head(inbox) = inbox[1]
      /\ \A i \in 1..Len(inbox') : i + 1 \in 1..Len(inbox) /\ inbox'[i] = inbox[i + 1]
    BY <1>1, InboxLess
<1>3. 1 \in 1..Len(inbox) /\ Responds(1, awaits[t])
    BY <1>1, <1>2 DEF Responds
<1>4. awaits[t] \in Nat
    BY DEF Basics, Types
<1>5. \A r \in Sent : r.req \in Nat /\ awaits[t] < r.req
    BY <1>1, <1>2, <1>3 DEF OrderInv
<1>6. ASSUME NEW u \in Tasks, u # t, pc[u] \in Awaits
      PROVE  awaits[t] < awaits[u]
    <2>1. awaits[u] # awaits[t]
        BY <1>6 DEF Basics, TaskInv
    <2>2. CASE \E r \in Sent : r.req = awaits[u]
        BY <1>5, <2>2
    <2>3. CASE \E i \in 1..Len(inbox) : Responds(i, awaits[u])
        <3>1. PICK i \in 1..Len(inbox) : Responds(i, awaits[u])
            BY <2>3
        <3>2. i # 1
            BY <1>3, <2>1, <3>1 DEF Responds
        <3>3. 1 < i
            BY <1>2, <3>2
        <3> QED
            BY <1>1, <1>3, <3>1, <3>3 DEF OrderInv, Responds
    <2> QED
        BY <1>6, <2>2, <2>3 DEF Basics, TaskInv
<1>7. ~Unserved(t)
    BY <1>4, <1>5 DEF Unserved
<1> QED
    BY <1>2, <1>3, <1>4, <1>5, <1>6, <1>7

\* Other calls do not touch what a stream has made, nor does it wait for them.
LEMMA StageOther ==
    ASSUME SessionAssumption, Basics, OneStream, NEW t \in Tasks, NEW u \in Tasks, u # t,
           NEW s, Moves(u, s), Stage(t), pc[t] \in Streaming,
           s \notin Streaming \cup {"stop"}, s = "delete" => pc[u] = "stop"
    PROVE  Stage(t)'
<1> DEFINE m == Message(u, s)
<1>1. /\ \A r \in Sent' : r \in Sent \/ (s \in Awaits /\ r = m)
      /\ m.req = reqs + 1 /\ m.op = Request[s] /\ Sent \subseteq Sent'
      /\ reqs \in Nat /\ \A r \in Sent : r.req \in Nat /\ r.req <= reqs
      /\ awaits[t] \in Nat /\ awaits[t] <= reqs
    BY MoveSent
<1>2. /\ pc'[t] = pc[t] /\ call'[t] = call[t] /\ kind'[t] = kind[t] /\ awaits'[t] = awaits[t]
      /\ rospecs' = rospecs
    BY MoveOthers DEF Basics, Moves, reader
<1>3. ASSUME NEW v \in Tasks, pc'[v] = "stop"
      PROVE  pc[v] = "stop" /\ awaits'[v] = awaits[v]
    <2>1. v # u
        BY <1>3, MoveSelf DEF Basics
    <2> QED
        BY <1>3, <2>1, MoveOthers DEF Basics
<1>4. /\ s \in Awaits => m.op \notin {"ADD", "ENABLE", "START"}
      /\ s \in Awaits /\ m.op \in RoOps => pc[u] = "stop"
    BY <1>1 DEF Streaming, Awaits, Request, RoOps, Expected
<1> HIDE DEF m
<1>5. Unserved(t)' <=> Unserved(t)
    BY <1>1, <1>2 DEF Unserved
<1>6. /\ \A i, j \in 1..Len(inbox') :
            i < j => \E k, l \in 1..Len(inbox) :
                        k < l /\ inbox'[i] = inbox[k] /\ inbox'[j] = inbox[l]
      /\ \A i \in 1..Len(inbox') : \E k \in 1..Len(inbox) : inbox'[i] = inbox[k]
    <2>1. inbox \in Seq(Msg) /\ OrderInv /\ (Hears(u) \/ inbox' = inbox)
        BY DEF Basics, Types, Msg, Moves
    <2> QED
        BY <2>1, InboxMoved
<1>7. \A i \in 1..Len(reports') : \E k \in 1..Len(reports) : reports'[i] = reports[k]
    <2>1. reports \in Seq(Report)
        BY DEF Basics, Types
    <2>2. CASE reports' = <<>>
        BY <2>2
    <2>3. CASE reports # <<>> /\ reports' = Tail(reports)
        <3>1. \A i \in 1..Len(Tail(reports)) :
                 i + 1 \in 1..Len(reports) /\ Tail(reports)[i] = reports[i + 1]
            BY <2>1, <2>3, Taken
        <3> QED
            BY <2>3, <3>1
    <2>4. CASE reports' = reports
        BY <2>4
    <2> QED
        BY <2>2, <2>3, <2>4 DEF Moves
<1>8. AtDelete0(t)'
    <2>1. ASSUME pc[t] = "delete0"
          PROVE  /\ \A v \in Tasks : pc'[v] = "stop" => awaits'[v] < awaits[t]
                 /\ \A r \in Sent' : r.req > awaits[t] => r.op \notin {"ADD", "ENABLE", "START"}
                 /\ ~Unserved(t)' => DOMAIN rospecs = {}
        BY <1>1, <1>3, <1>4, <1>5, <2>1 DEF Stage, AtDelete0
    <2>2. ASSUME pc[t] = "delete0", NEW i \in 1..Len(inbox'), NEW j \in 1..Len(inbox'), i < j,
                 inbox'[i].kind = "response", inbox'[i].req = awaits[t]
          PROVE  inbox'[j].kind # "report"
        <3>1. PICK k, l \in 1..Len(inbox) :
                 k < l /\ inbox'[i] = inbox[k] /\ inbox'[j] = inbox[l]
            BY <1>6, <2>2
        <3> QED
            BY <2>2, <3>1 DEF Stage, AtDelete0, Responds
    <2> QED
        BY <1>2, <2>1, <2>2 DEF AtDelete0, Responds
<1>9. pc[t] \in {"add", "gpi", "enable", "start", "stream"} =>
         \A r \in Sent' : r.op \in RoOps => r \in Sent
    BY <1>1, <1>4 DEF Stage, OwnReports
<1>10. \A states : Mine(t, states)' <=> Mine(t, states)
    BY <1>2 DEF Mine
<1>11. AtAdd(t)'
    <2>1. "ADD" \in RoOps
        BY DEF RoOps
    <2> QED
        BY <1>2, <1>5, <1>9, <2>1 DEF Stage, AtAdd, Mine
<1>12. AfterAdd(t)'
    BY <1>2, <1>5, <1>9 DEF Stage, AfterAdd, Mine
<1>13. OwnReports(t)'
    <2>1. SUFFICES ASSUME pc[t] \in {"add", "gpi", "enable", "start", "stream"}
                   PROVE  /\ \A v \in Tasks : pc'[v] # "stop"
                          /\ \A i \in 1..Len(reports') : reports'[i].call = call[t]
                          /\ \A i \in 1..Len(inbox') :
                                inbox'[i].kind = "report" => inbox'[i].call = call[t]
        BY <1>2 DEF OwnReports
    <2>2. /\ \A v \in Tasks : pc[v] # "stop"
          /\ \A i \in 1..Len(reports) : reports[i].call = call[t]
          /\ \A i \in 1..Len(inbox) : inbox[i].kind = "report" => inbox[i].call = call[t]
        BY <2>1 DEF Stage, OwnReports
    <2>3. \A v \in Tasks : pc'[v] # "stop"
        BY <1>3, <2>2
    <2>4. \A i \in 1..Len(reports') : reports'[i].call = call[t]
        BY <1>7, <2>2
    <2>5. ASSUME NEW i \in 1..Len(inbox'), inbox'[i].kind = "report"
          PROVE  inbox'[i].call = call[t]
        <3>1. PICK k \in 1..Len(inbox) : inbox'[i] = inbox[k]
            BY <1>6
        <3> QED
            BY <2>2, <2>5, <3>1
    <2> QED
        BY <2>3, <2>4, <2>5
<1> QED
    BY <1>8, <1>11, <1>12, <1>13 DEF Stage

\* A stream that begins waits for its first DELETE like anything sent before it.
LEMMA StageEnter ==
    ASSUME SessionAssumption, Basics, NEW t \in Tasks, Moves(t, "delete0")
    PROVE  Stage(t)'
<1> DEFINE m == Message(t, "delete0")
<1>1. /\ \A r \in Sent' : r \in Sent \/ r = m
      /\ m.req = reqs + 1 /\ m \in Sent'
      /\ reqs \in Nat /\ \A r \in Sent : r.req \in Nat /\ r.req <= reqs
      /\ \A u \in Tasks : awaits[u] \in Nat /\ awaits[u] <= reqs
    <2>1. "delete0" \in Awaits
        BY DEF Awaits, Request
    <2> QED
        BY <2>1, MoveSent
<1> HIDE DEF m
<1>2. pc'[t] = "delete0" /\ awaits'[t] = reqs + 1
    BY MoveSelf DEF Basics, Awaits, Request
<1>3. ASSUME NEW u \in Tasks, pc'[u] = "stop"
      PROVE  awaits'[u] < awaits'[t]
    <2>1. u # t
        BY <1>2, <1>3
    <2>2. awaits'[u] = awaits[u]
        BY <2>1, MoveOthers DEF Basics
    <2> QED
        BY <1>1, <1>2, <2>2
<1>4. \A r \in Sent' : ~(r.req > awaits'[t])
    BY <1>1, <1>2
<1>5. Unserved(t)'
    BY <1>1, <1>2 DEF Unserved
<1>6. ASSUME NEW i \in 1..Len(inbox'), inbox'[i].kind = "response"
      PROVE  inbox'[i].req # awaits'[t]
    <2>1. /\ inbox \in Seq(Msg) /\ OrderInv /\ (Hears(t) \/ inbox' = inbox)
        BY DEF Basics, Types, Msg, Moves
    <2>2. PICK k \in 1..Len(inbox) : inbox'[i] = inbox[k]
        BY <2>1, InboxMoved
    <2>3. inbox[k].req <= reqs
        BY <1>6, <2>1, <2>2 DEF OrderInv
    <2> QED
        BY <1>1, <1>2, <2>2, <2>3
<1>7. AtDelete0(t)'
    BY <1>3, <1>4, <1>5, <1>6 DEF AtDelete0, Responds
<1> QED
    BY <1>2, <1>7 DEF Stage, AtAdd, AfterAdd, OwnReports

\* From there it goes on: what was left of the streams before it is gone ...
LEMMA StageAdd ==
    ASSUME SessionAssumption, Basics, OneStream, NEW t \in Tasks, Stage(t),
           pc[t] = "delete0", Goes(t, "add"), Hears(t)
    PROVE  Stage(t)'
<1> DEFINE m == Message(t, "add")
<1>1. Moves(t, "add") /\ reports' = <<>> /\ rospecs' = rospecs
    BY GoesMoves DEF Goes, Basics, reader
<1>2. /\ \A r \in Sent' : r \in Sent \/ r = m
      /\ m.req = reqs + 1 /\ m.op = "ADD" /\ m \in Sent'
      /\ reqs \in Nat /\ \A r \in Sent : r.req \in Nat /\ r.req <= reqs
    <2>1. "add" \in Awaits /\ Request["add"] = "ADD"
        BY DEF Awaits, Request
    <2> QED
        BY <1>1, <2>1, MoveSent
<1> HIDE DEF m
<1>3. pc'[t] = "add" /\ awaits'[t] = reqs + 1
    BY <1>1, MoveSelf DEF Basics, Awaits, Request
<1>4. /\ 1 \in 1..Len(inbox) /\ Responds(1, awaits[t])
      /\ \A i \in 1..Len(inbox') : /\ i + 1 \in 1..Len(inbox) /\ 1 < i + 1
                                   /\ inbox'[i] = inbox[i + 1]
      /\ ~Unserved(t) /\ awaits[t] \in Nat
      /\ \A r \in Sent : r.req \in Nat /\ awaits[t] < r.req
      /\ \A u \in Tasks : u # t /\ pc[u] \in Awaits => awaits[t] < awaits[u]
    BY HearsFacts
<1>5. /\ DOMAIN rospecs = {}
      /\ \A u \in Tasks : pc[u] = "stop" => awaits[u] < awaits[t]
      /\ \A r \in Sent : r.op \notin {"ADD", "ENABLE", "START"}
      /\ \A j \in 1..Len(inbox) : 1 < j => inbox[j].kind # "report"
    BY <1>4 DEF Stage, AtDelete0
<1>6. \A u \in Tasks : pc'[u] # "stop"
    <2>1. ASSUME NEW u \in Tasks, u # t
          PROVE  pc[u] # "stop"
        <3>1. pc[u] = "stop" => pc[u] \in Awaits
            BY DEF Awaits, Request
        <3>2. awaits[u] \in Nat
            BY DEF Basics, Types
        <3> QED
            BY <1>4, <1>5, <2>1, <3>1, <3>2
    <2> QED
        BY <1>1, <1>3, <2>1, MoveOthers DEF Basics
<1>7. AtAdd(t)'
    BY <1>1, <1>2, <1>3, <1>5 DEF AtAdd, Unserved
<1>8. OwnReports(t)'
    <2>1. \A i \in 1..Len(inbox') : inbox'[i].kind # "report"
        BY <1>4, <1>5
    <2>2. 1..Len(reports') = {}
        BY <1>1
    <2> QED
        BY <1>6, <2>1, <2>2 DEF OwnReports
<1> QED
    BY <1>3, <1>7, <1>8 DEF Stage, AtDelete0, AfterAdd

\* What is queued or under way after a move was so before.
LEMMA MoveReports ==
    ASSUME Basics, NEW t \in Tasks, NEW s, Moves(t, s)
    PROVE  /\ \A i \in 1..Len(inbox') : \E k \in 1..Len(inbox) : inbox'[i] = inbox[k]
           /\ \A i \in 1..Len(reports') : \E k \in 1..Len(reports) : reports'[i] = reports[k]
<1>1. \A i \in 1..Len(inbox') : \E k \in 1..Len(inbox) : inbox'[i] = inbox[k]
    <2>1. inbox \in Seq(Msg) /\ OrderInv /\ (Hears(t) \/ inbox' = inbox)
        BY DEF Basics, Types, Msg, Moves
    <2> QED
        BY <2>1, InboxMoved
<1>2. \A i \in 1..Len(reports') : \E k \in 1..Len(reports) : reports'[i] = reports[k]
    <2>1. reports \in Seq(Report)
        BY DEF Basics, Types
    <2>2. CASE reports' = <<>>
        BY <2>2
    <2>3. CASE reports # <<>> /\ reports' = Tail(reports)
        <3>1. \A i \in 1..Len(Tail(reports)) :
                 i + 1 \in 1..Len(reports) /\ Tail(reports)[i] = reports[i + 1]
            BY <2>1, <2>3, Taken
        <3> QED
            BY <2>3, <3>1
    <2>4. CASE reports' = reports
        BY <2>4
    <2> QED
        BY <2>2, <2>3, <2>4 DEF Moves
<1> QED
    BY <1>1, <1>2

\* ... and its own ROSpec is added, enabled and started, in this order.
LEMMA StageNext ==
    ASSUME SessionAssumption, Basics, OneStream, NEW t \in Tasks, NEW s, Stage(t),
           Goes(t, s), Hears(t), s \in {"gpi", "enable", "start", "stream"}
    PROVE  Stage(t)'
<1> DEFINE m == Message(t, s)
<1>1. Moves(t, s) /\ rospecs' = rospecs /\ s \in Edges[pc[t]] /\ pc[t] # "idle"
    BY GoesMoves DEF Goes, Basics, reader
<1>2. /\ pc[t] \in {"add", "gpi", "enable", "start"}
      /\ s = "gpi" => pc[t] = "add"
      /\ s = "enable" => pc[t] \in {"add", "gpi"}
      /\ s = "start" => pc[t] = "enable" /\ kind[t] # "gated"
      /\ s = "stream" => pc[t] = "start" \/ (pc[t] = "enable" /\ kind[t] = "gated")
      /\ pc[t] = "start" => kind[t] # "gated"
    <2>1. pc[t] \in Awaits
        BY DEF Hears
    <2> QED
        BY <1>1, <2>1 DEF Goes, Edges, Awaits, Request, Basics, TaskInv
<1>3. /\ \A r \in Sent' : r \in Sent \/ (s \in Awaits /\ r = m)
      /\ m.req = reqs + 1 /\ (s \in Awaits => m \in Sent')
      /\ reqs \in Nat /\ \A r \in Sent : r.req \in Nat /\ r.req <= reqs
    BY <1>1, MoveSent
<1> HIDE DEF m
<1>4. /\ pc'[t] = s
      /\ s \in Awaits => awaits'[t] = reqs + 1
      /\ call'[t] = call[t] /\ kind'[t] = kind[t]
    <2>1. /\ call' = [call EXCEPT ![t] = IF s = "idle" THEN 0 ELSE @]
          /\ kind' = [kind EXCEPT ![t] = IF s = "idle" THEN "none" ELSE @]
        BY DEF Goes, Advance
    <2> QED
        BY <1>1, <2>1, MoveSelf DEF Basics, Types
<1>5. /\ ~Unserved(t) /\ \A r \in Sent : r.req \in Nat /\ awaits[t] \in Nat /\ awaits[t] < r.req
    BY HearsFacts
<1>6. \A r \in Sent : r.op \notin RoOps
    <2>1. CASE pc[t] = "add"
        BY <1>5, <2>1 DEF Stage, AtAdd
    <2>2. CASE pc[t] # "add"
        BY <1>2, <1>5, <2>2 DEF Stage, AfterAdd
    <2> QED
        BY <2>1, <2>2
<1>7. \A r \in Sent' : r.op \in RoOps => s \in Awaits /\ r.req = awaits'[t]
    BY <1>3, <1>4, <1>6
<1>8. s \in Awaits => Unserved(t)'
    BY <1>3, <1>4 DEF Unserved
<1>9. s \in {"gpi", "enable", "start"} => s \in Awaits
    BY DEF Awaits, Request
<1>10. /\ s \in {"gpi", "enable"} => Mine(t, {"Disabled"})
       /\ s = "start" => Mine(t, {"Enabled"})
       /\ s = "stream" => Mine(t, IF kind[t] = "gated" THEN {"Enabled", "Active"} ELSE {"Active"})
    BY <1>2, <1>5 DEF Stage, AtAdd, AfterAdd, Mine
<1>11. AfterAdd(t)'
    BY <1>1, <1>4, <1>7, <1>8, <1>9, <1>10 DEF AfterAdd, Mine
<1>12. OwnReports(t)'
    <2>1. /\ \A u \in Tasks : pc[u] # "stop"
          /\ \A i \in 1..Len(reports) : reports[i].call = call[t]
          /\ \A i \in 1..Len(inbox) : inbox[i].kind = "report" => inbox[i].call = call[t]
        BY <1>2 DEF Stage, OwnReports
    <2>2. \A u \in Tasks : pc'[u] # "stop"
        BY <1>1, <1>4, <2>1, MoveOthers DEF Basics
    <2>3. \A i \in 1..Len(reports') : reports'[i].call = call[t]
        BY <1>1, <2>1, MoveReports
    <2>4. ASSUME NEW i \in 1..Len(inbox'), inbox'[i].kind = "report"
          PROVE  inbox'[i].call = call[t]
        <3>1. PICK k \in 1..Len(inbox) : inbox'[i] = inbox[k]
            BY <1>1, MoveReports
        <3> QED
            BY <2>1, <2>4, <3>1
    <2> QED
        BY <1>4, <2>2, <2>3, <2>4 DEF OwnReports
<1> QED
    BY <1>4, <1>11, <1>12 DEF Stage, AtDelete0, AtAdd

LEMMA StageOutside ==
    ASSUME NEW t \in Tasks, pc'[t] \notin Streaming
    PROVE  Stage(t)'
BY DEF Stage, AtDelete0, AtAdd, AfterAdd, OwnReports, Streaming

\* A call moves.
LEMMA StageBegins ==
    ASSUME SessionAssumption, Basics, OneStream, StageInv, situation' = situation,
           NEW u \in Tasks, NEW k \in situation.kinds[u], NEW s, Begins(u, k, s)
    PROVE  StageInv'
<1>1. /\ Moves(u, s) /\ pc'[u] = s
      /\ s \in {"adelete", "delete0"} /\ (s = "delete0" => ~active) /\ conn' = conn
    BY BeginMoves, MoveSelf DEF Basics, Begins, Begin
<1>2. SUFFICES ASSUME ~situation.slow, conn # 0, NEW t \in Tasks, born'[t] = conn
               PROVE  Stage(t)'
    BY <1>1 DEF StageInv
<1>3. CASE t = u /\ s = "delete0"
    BY <1>1, <1>3, StageEnter
<1>4. CASE t = u /\ s = "adelete"
    BY <1>1, <1>4, StageOutside DEF Streaming
<1>5. CASE t # u
    <2>1. pc'[t] = pc[t] /\ born'[t] = born[t]
        BY <1>1, <1>5, MoveOthers DEF Basics
    <2>2. CASE pc[t] \notin Streaming
        BY <2>1, <2>2, StageOutside
    <2>3. CASE pc[t] \in Streaming
        <3>1. s = "adelete"
            BY <1>1, <2>3 DEF OneStream
        <3>2. s \notin Streaming \cup {"stop"} /\ s # "delete"
            BY <3>1 DEF Streaming
        <3>3. Stage(t)
            BY <1>2, <2>1 DEF StageInv
        <3> QED
            BY <1>1, <1>5, <2>3, <3>2, <3>3, StageOther
    <2> QED
        BY <2>2, <2>3
<1> QED
    BY <1>1, <1>3, <1>4, <1>5

LEMMA StageGoes ==
    ASSUME SessionAssumption, Basics, OneStream, StageInv, situation' = situation,
           NEW u \in Tasks, NEW s, Goes(u, s)
    PROVE  StageInv'
<1>1. Moves(u, s) /\ pc'[u] = s /\ conn' = conn
    BY GoesMoves, MoveSelf DEF Goes, Basics
<1>2. SUFFICES ASSUME ~situation.slow, conn # 0, NEW t \in Tasks, born'[t] = conn
               PROVE  Stage(t)'
    BY <1>1 DEF StageInv
<1>3. /\ s \in Streaming \ {"delete0"} => pc[u] \in Streaming \ {"stream"}
      /\ s = "delete0" => ~active /\ pc[u] = "aenable"
      /\ s = "add" => pc[u] = "delete0"
      /\ s = "stop" => pc[u] \in Streaming
      /\ s = "delete" => pc[u] = "stop"
    <2>1. s = "delete" => pc[u] = "stop"
        <3>1. s \in Edges[pc[u]] /\ pc[u] # "idle" /\ pc[u] \in Awaits \cup {"idle", "stream"}
            BY DEF Goes, Basics, Types
        <3> QED
            BY <3>1 DEF Edges, Awaits, Request
    <2> QED
        BY <2>1, GoesStream DEF Basics
<1>4. CASE t = u
    <2>1. CASE s = "delete0"
        BY <1>1, <1>4, <2>1, StageEnter
    <2>2. CASE s \in Streaming \ {"delete0"}
        <3>1. s # "idle" /\ s \notin {"stop", "aclean"}
            BY <2>2 DEF Streaming
        <3>2. born'[t] = born[t]
            <4>1. born' = [born EXCEPT ![u] = IF s = "idle" THEN 0 ELSE @]
                BY DEF Goes, Advance
            <4> QED
                BY <1>4, <3>1, <4>1 DEF Basics, Types
        <3>3. Stage(t)
            BY <1>2, <3>2 DEF StageInv
        <3>4. Hears(t)
            <4>1. CASE s = "add"
                BY <1>2, <1>4, <4>1 DEF Goes
            <4>2. CASE s # "add"
                <5>1. pc[u] \in Checked
                    BY <1>3, <2>2, <4>2 DEF Goes, Edges, Streaming, Checked
                <5> QED
                    BY <1>4, <3>1, <5>1 DEF Goes
            <4> QED
                BY <4>1, <4>2
        <3>5. CASE s = "add"
            BY <1>3, <1>4, <3>3, <3>4, <3>5, StageAdd
        <3>6. CASE s # "add"
            <4>1. s \in {"gpi", "enable", "start", "stream"}
                BY <2>2, <3>6 DEF Streaming
            <4> QED
                BY <1>4, <3>3, <3>4, <4>1, StageNext
        <3> QED
            BY <3>5, <3>6
    <2>3. CASE s \notin Streaming
        BY <1>1, <1>4, <2>3, StageOutside
    <2> QED
        BY <2>1, <2>2, <2>3
<1>5. CASE t # u
    <2>1. pc'[t] = pc[t] /\ born'[t] = born[t]
        BY <1>1, <1>5, MoveOthers DEF Basics
    <2>2. CASE pc[t] \notin Streaming
        BY <2>1, <2>2, StageOutside
    <2>3. CASE pc[t] \in Streaming
        <3>1. pc[u] \notin Streaming /\ active
            BY <1>5, <2>3 DEF OneStream
        <3>2. s \notin Streaming \cup {"stop"}
            BY <1>3, <3>1 DEF Streaming
        <3>3. Stage(t)
            BY <1>2, <2>1 DEF StageInv
        <3> QED
            BY <1>1, <1>3, <1>5, <2>3, <3>2, <3>3, StageOther
    <2> QED
        BY <2>2, <2>3
<1> QED
    BY <1>4, <1>5

\* What the reader serves is the stream's own, or does not touch its ROSpec.
LEMMA StageServe ==
    ASSUME SessionAssumption, Basics, NEW t \in Tasks, Stage(t), Serve
    PROVE  Stage(t)'
<1>1. PICK r \in Sent :
         /\ r \in RequestMsg /\ r.req \in 1..reqs
         /\ Sent' \subseteq Sent
         /\ \A q \in Sent : q \in Sent' \/ q = r
         /\ \A q \in Sent' : r.req < q.req
         /\ \E ok \in BOOLEAN :
               inbox' = Append(inbox, [kind |-> "response", req |-> r.req, ok |-> ok])
         /\ IF r.op \in RoOps
            THEN rospecs' = After(rospecs, r.op, RoId, [call |-> r.call, gated |-> r.gated])
            ELSE rospecs' = rospecs
         /\ UNCHANGED <<active, reports, pc, kind, call, born, awaits, cancelled,
                        conn, calls, reqs, reported, conns>>
    BY ServeFacts
<1>2. PICK ok \in BOOLEAN :
         inbox' = Append(inbox, [kind |-> "response", req |-> r.req, ok |-> ok])
    BY <1>1
<1> DEFINE m == [kind |-> "response", req |-> r.req, ok |-> ok]
           spec == [call |-> r.call, gated |-> r.gated]
<1>3. m \in Msg /\ m.kind = "response" /\ spec \in [call : Nat, gated : BOOLEAN]
    BY <1>1 DEF Msg, ResponseMsg, RequestMsg
<1> HIDE DEF m, spec
<1>4. /\ Len(inbox) \in Nat /\ Len(inbox') = Len(inbox) + 1
      /\ Len(inbox') \in 1..Len(inbox') /\ inbox'[Len(inbox')] = m
      /\ \A i \in 1..Len(inbox) : i \in 1..Len(inbox') /\ inbox'[i] = inbox[i]
      /\ \A i \in 1..Len(inbox') : i = Len(inbox') \/ i \in 1..Len(inbox)
    BY <1>2, <1>3, InboxMore DEF Basics, Types, Msg, m
<1>5. /\ r.op \notin RoOps => rospecs' = rospecs
      /\ r.op = "DELETE" => DOMAIN rospecs' = {}
      /\ r.op # "ADD" /\ DOMAIN rospecs = {} => DOMAIN rospecs' = {}
      /\ r.op = "ADD" /\ DOMAIN rospecs = {} =>
            RoId \in DOMAIN rospecs' /\ rospecs'[RoId].spec = spec
               /\ rospecs'[RoId].state = "Disabled"
      /\ r.op \in {"ENABLE", "START"} /\ RoId \in DOMAIN rospecs
            /\ rospecs[RoId].state = Expected[r.op] =>
               /\ RoId \in DOMAIN rospecs' /\ rospecs'[RoId].spec = rospecs[RoId].spec
               /\ rospecs'[RoId].state = Target[r.op]
    <2>1. CASE r.op \in RoOps
        <3>1. rospecs' = After(rospecs, r.op, RoId, spec)
            BY <1>1, <2>1 DEF spec
        <3>2. Types
            BY DEF Basics
        <3> QED
            BY <1>3, <2>1, <3>1, <3>2, AfterFacts
    <2>2. CASE r.op \notin RoOps
        BY <1>1, <2>2 DEF RoOps, Expected
    <2> QED
        BY <2>1, <2>2
<1>6. spec.call = r.call /\ spec.gated = r.gated
    BY DEF spec
<1>7. \A q \in Sent : q.req \in Nat
    BY DEF Basics, OrderInv
<1>8. r.req \in Nat /\ r.req # 0 /\ awaits[t] \in Nat
    BY <1>1 DEF Basics, Types
<1>9. Unserved(t)' => Unserved(t) /\ r.req < awaits[t]
    BY <1>1 DEF Unserved
<1>10. ~Unserved(t)' /\ r.req # awaits[t] => ~Unserved(t)
    BY <1>1 DEF Unserved
<1>11. r.req = awaits[t] => Unserved(t)
    BY DEF Unserved
<1>12. pc[t] \in Awaits /\ ~Unserved(t) => awaits[t] < r.req
    <2>1. ASSUME pc[t] \in Awaits, ~Unserved(t)
          PROVE  awaits[t] < r.req
        <3>1. PICK i \in 1..Len(inbox) : Responds(i, awaits[t])
            BY <2>1 DEF Basics, TaskInv, Unserved
        <3> QED
            BY <3>1 DEF Basics, OrderInv, Responds
    <2> QED
        BY <2>1
<1>13. pc[t] \in Awaits /\ r.req = awaits[t] =>
          r.op = Request[pc[t]] /\ r.call = call[t] /\ r.gated = (kind[t] = "gated")
    BY DEF Basics, TaskInv
<1>14. Expected["ENABLE"] = "Disabled" /\ Target["ENABLE"] = "Enabled"
       /\ Expected["START"] = "Enabled" /\ Target["START"] = "Active"
    BY DEF Expected, Target
<1>15. /\ {"ADD", "DELETE", "ENABLE", "START"} \subseteq RoOps /\ "CONFIG" \notin RoOps
       /\ {"delete0", "add", "gpi", "enable", "start"} \subseteq Awaits /\ "stream" \notin Awaits
       /\ Request["delete0"] = "DELETE" /\ Request["add"] = "ADD" /\ Request["gpi"] = "CONFIG"
       /\ Request["enable"] = "ENABLE" /\ Request["start"] = "START"
    BY DEF RoOps, Expected, Awaits, Request
<1>16. AtDelete0(t)'
    <2>1. SUFFICES ASSUME pc[t] = "delete0"
                   PROVE  /\ \A u \in Tasks : pc[u] = "stop" => awaits[u] < awaits[t]
                          /\ \A q \in Sent' : q.req > awaits[t] =>
                                q.op \notin {"ADD", "ENABLE", "START"}
                          /\ ~Unserved(t)' => DOMAIN rospecs' = {}
                          /\ \A i, j \in 1..Len(inbox') :
                                i < j /\ inbox'[i].kind = "response" /\ inbox'[i].req = awaits[t]
                                   => inbox'[j].kind # "report"
        BY <1>1 DEF AtDelete0, Responds
    <2>2. AtDelete0(t)
        BY DEF Stage
    <2>3. ~Unserved(t)' => DOMAIN rospecs' = {}
        <3>1. CASE r.req = awaits[t]
            BY <1>5, <1>13, <1>15, <2>1, <3>1
        <3>2. CASE r.req # awaits[t]
            BY <1>5, <1>7, <1>8, <1>10, <1>12, <1>15, <2>1, <2>2, <3>2 DEF AtDelete0
        <3> QED
            BY <3>1, <3>2
    <2>4. ASSUME NEW i \in 1..Len(inbox'), NEW j \in 1..Len(inbox'), i < j,
                 inbox'[i].kind = "response", inbox'[i].req = awaits[t]
          PROVE  inbox'[j].kind # "report"
        <3>1. CASE j = Len(inbox')
            BY <1>3, <1>4, <3>1
        <3>2. CASE j \in 1..Len(inbox)
            <4>1. i \in 1..Len(inbox)
                BY <1>4, <2>4, <3>2
            <4> QED
                BY <1>4, <2>1, <2>2, <2>4, <3>2, <4>1 DEF AtDelete0, Responds
        <3> QED
            BY <1>4, <3>1, <3>2
    <2> QED
        BY <1>1, <2>1, <2>2, <2>3, <2>4 DEF AtDelete0
<1>17. AtAdd(t)'
    <2>1. SUFFICES ASSUME pc[t] = "add"
                   PROVE  /\ \A q \in Sent' : /\ q.op = "ADD" => q.req = awaits[t]
                                              /\ q.req > awaits[t] => q.op \notin RoOps
                          /\ Unserved(t)' => DOMAIN rospecs' = {}
                          /\ ~Unserved(t)' => Mine(t, {"Disabled"})'
        BY <1>1 DEF AtAdd
    <2>2. /\ \A q \in Sent : /\ q.op = "ADD" => q.req = awaits[t]
                             /\ q.req > awaits[t] => q.op \notin RoOps
          /\ Unserved(t) => DOMAIN rospecs = {}
          /\ ~Unserved(t) => Mine(t, {"Disabled"})
        BY <2>1 DEF Stage, AtAdd
    <2>3. Unserved(t)' => DOMAIN rospecs' = {}
        BY <1>5, <1>8, <1>9, <2>2
    <2>4. ~Unserved(t)' => Mine(t, {"Disabled"})'
        <3>1. CASE r.req = awaits[t]
            <4>1. /\ RoId \in DOMAIN rospecs' /\ rospecs'[RoId].spec = spec
                  /\ rospecs'[RoId].state = "Disabled"
                BY <1>5, <1>11, <1>13, <1>15, <2>1, <2>2, <3>1
            <4>2. spec = [call |-> call[t], gated |-> kind[t] = "gated"]
                BY <1>13, <1>15, <2>1, <3>1 DEF spec
            <4> QED
                BY <1>1, <4>1, <4>2 DEF Mine
        <3>2. CASE r.req # awaits[t]
            BY <1>1, <1>5, <1>8, <1>10, <1>12, <1>15, <2>1, <2>2, <3>2 DEF Mine
        <3> QED
            BY <3>1, <3>2
    <2> QED
        BY <1>1, <2>2, <2>3, <2>4
<1>18. AfterAdd(t)'
    <2>1. ASSUME pc[t] \in {"gpi", "enable", "start", "stream"}
          PROVE  /\ \A q \in Sent : q.op \in RoOps => q.req = awaits[t]
                 /\ r.op \in RoOps => pc[t] \in {"enable", "start"} /\ r.req = awaits[t]
                                         /\ r.op = Request[pc[t]]
        <3>1. \A q \in Sent : q.op \in RoOps => q.req = awaits[t]
            BY <2>1 DEF Stage, AfterAdd
        <3>2. pc[t] = "stream" => awaits[t] = 0
            BY <1>15 DEF Basics, TaskInv
        <3> QED
            BY <1>8, <1>13, <1>15, <2>1, <3>1, <3>2
    <2>2. CASE pc[t] \in {"gpi", "enable", "start", "stream"} /\ r.op \notin RoOps
        <3>1. rospecs' = rospecs
            BY <1>5, <2>2
        <3>2. pc[t] # "gpi" => (Unserved(t)' <=> Unserved(t))
            <4>1. pc[t] = "stream" => awaits[t] = 0
                BY <1>15 DEF Basics, TaskInv
            <4>2. r.req = awaits[t] => pc[t] = "gpi"
                BY <1>8, <1>13, <1>15, <2>2, <4>1
            <4> QED
                BY <1>9, <1>10, <4>2
        <3> QED
            BY <1>1, <2>1, <2>2, <3>1, <3>2 DEF Stage, AfterAdd, Mine
    <2>3. CASE pc[t] = "enable" /\ r.op \in RoOps
        <3>1. r.op = "ENABLE" /\ ~Unserved(t)' /\ Unserved(t)
            BY <1>8, <1>9, <1>11, <1>15, <2>1, <2>3
        <3>2. Mine(t, {"Disabled"})
            BY <2>3, <3>1 DEF Stage, AfterAdd
        <3>3. Mine(t, IF kind[t] = "gated" THEN {"Enabled", "Active"} ELSE {"Enabled"})'
            BY <1>1, <1>5, <1>14, <3>1, <3>2 DEF Mine
        <3> QED
            BY <1>1, <2>1, <2>3, <3>1, <3>3 DEF AfterAdd
    <2>4. CASE pc[t] = "start" /\ r.op \in RoOps
        <3>1. r.op = "START" /\ ~Unserved(t)' /\ Unserved(t)
            BY <1>8, <1>9, <1>11, <1>15, <2>1, <2>4
        <3>2. Mine(t, {"Enabled"})
            BY <2>4, <3>1 DEF Stage, AfterAdd
        <3>3. Mine(t, {"Active"})'
            BY <1>1, <1>5, <1>14, <3>1, <3>2 DEF Mine
        <3> QED
            BY <1>1, <2>1, <2>4, <3>1, <3>3 DEF AfterAdd
    <2>5. CASE pc[t] \notin {"gpi", "enable", "start", "stream"}
        BY <1>1, <2>5 DEF AfterAdd
    <2> QED
        BY <2>1, <2>2, <2>3, <2>4, <2>5
<1>19. OwnReports(t)'
    <2>1. ASSUME pc[t] \in {"add", "gpi", "enable", "start", "stream"},
                 NEW i \in 1..Len(inbox'), inbox'[i].kind = "report"
          PROVE  inbox'[i].call = call[t]
        BY <1>3, <1>4, <2>1 DEF Stage, OwnReports
    <2> QED
        BY <1>1, <2>1 DEF Stage, OwnReports
<1> QED
    BY <1>16, <1>17, <1>18, <1>19 DEF Stage

\* A tag is read with the ROSpec of the stream, or with one that is to be deleted.
LEMMA StageRead ==
    ASSUME SessionAssumption, Basics, NEW t \in Tasks, Stage(t), ReadTag
    PROVE  Stage(t)'
<1>1. PICK m \in ReportMsg :
         /\ RoId \in DOMAIN rospecs /\ rospecs[RoId].state = "Active"
         /\ inbox' = Append(inbox, m) /\ m.kind = "report" /\ m.call = rospecs[RoId].spec.call
         /\ UNCHANGED <<active, reports, pc, kind, call, born, awaits, cancelled, conn,
                        outbox, rospecs, calls, reqs, conns>>
    BY ReadFacts DEF Basics
<1>2. /\ Len(inbox) \in Nat /\ Len(inbox') = Len(inbox) + 1
      /\ Len(inbox') \in 1..Len(inbox') /\ inbox'[Len(inbox')] = m
      /\ \A i \in 1..Len(inbox) : i \in 1..Len(inbox') /\ inbox'[i] = inbox[i]
      /\ \A i \in 1..Len(inbox') : i = Len(inbox') \/ i \in 1..Len(inbox)
    BY <1>1, InboxMore DEF Basics, Types, Msg
<1>3. Sent' = Sent
    BY <1>1, SentSame
<1>4. Unserved(t)' <=> Unserved(t)
    BY <1>1, <1>3 DEF Unserved
<1>5. AtDelete0(t)'
    <2>1. ASSUME pc[t] = "delete0", NEW i \in 1..Len(inbox'), NEW j \in 1..Len(inbox'), i < j,
                 inbox'[i].kind = "response", inbox'[i].req = awaits[t]
          PROVE  inbox'[j].kind # "report"
        <3>1. i \in 1..Len(inbox) /\ Responds(i, awaits[t])
            BY <1>2, <2>1 DEF Responds
        <3>2. PICK r \in Sent : r.req = awaits[t]
            BY <1>1, <2>1 DEF Stage, AtDelete0, Unserved
        <3>3. r.req \in Nat /\ inbox[i].req < r.req
            BY <3>1 DEF Basics, OrderInv, Responds
        <3> QED
            BY <3>1, <3>2, <3>3 DEF Responds
    <2> QED
        BY <1>1, <1>3, <1>4, <2>1 DEF Stage, AtDelete0, Responds
<1>6. AtAdd(t)' /\ AfterAdd(t)'
    BY <1>1, <1>3, <1>4 DEF Stage, AtAdd, AfterAdd, Mine
<1>7. OwnReports(t)'
    <2>1. ASSUME pc[t] \in {"add", "gpi", "enable", "start", "stream"}
          PROVE  m.call = call[t]
        <3>1. rospecs[RoId].spec = [call |-> call[t], gated |-> kind[t] = "gated"]
            BY <1>1, <2>1 DEF Stage, AtAdd, AfterAdd, Mine
        <3> QED
            BY <1>1, <3>1
    <2>2. ASSUME pc[t] \in {"add", "gpi", "enable", "start", "stream"},
                 NEW i \in 1..Len(inbox'), inbox'[i].kind = "report"
          PROVE  inbox'[i].call = call[t]
        BY <1>2, <2>1, <2>2 DEF Stage, OwnReports
    <2> QED
        BY <1>1, <2>2 DEF Stage, OwnReports
<1> QED
    BY <1>5, <1>6, <1>7 DEF Stage

\* An edge starts and stops a gated ROSpec that is enabled.
LEMMA StageEdge ==
    ASSUME SessionAssumption, Basics, NEW t \in Tasks, Stage(t), EdgeStep
    PROVE  Stage(t)'
<1>1. /\ RoId \in DOMAIN rospecs /\ rospecs[RoId].spec.gated
      /\ rospecs[RoId].state \in {"Enabled", "Active"}
      /\ DOMAIN rospecs' = DOMAIN rospecs
      /\ rospecs'[RoId].spec = rospecs[RoId].spec
      /\ rospecs'[RoId].state \in {"Enabled", "Active"}
      /\ UNCHANGED <<active, reports, pc, kind, call, born, awaits, cancelled, conn,
                     outbox, inbox, access, calls, reqs, reported, conns>>
    BY EdgeFacts DEF Basics
<1>2. Sent' = Sent /\ (Unserved(t)' <=> Unserved(t))
    BY <1>1, SentSame DEF Unserved
<1>3. AtDelete0(t)' /\ OwnReports(t)'
    BY <1>1, <1>2 DEF Stage, AtDelete0, OwnReports, Responds
<1>4. ~Mine(t, {"Disabled"})
    BY <1>1 DEF Mine
<1>5. ASSUME NEW states, Mine(t, states)
      PROVE  kind[t] = "gated" /\ Mine(t, {"Enabled", "Active"})'
    <2>1. rospecs[RoId].spec = [call |-> call[t], gated |-> kind[t] = "gated"]
        BY <1>5 DEF Mine
    <2>2. rospecs[RoId].spec.gated = (kind[t] = "gated")
        BY <2>1
    <2>3. kind[t] = "gated"
        BY <1>1, <2>2, Zenon
    <2>4. Mine(t, {"Enabled", "Active"})'
        BY <1>1, <2>1 DEF Mine
    <2> QED
        BY <2>3, <2>4
<1>6. AtAdd(t)'
    BY <1>1, <1>2, <1>4 DEF Stage, AtAdd
<1>7. pc[t] = "start" => kind[t] # "gated"
    BY DEF Basics, TaskInv
<1>8. AfterAdd(t)'
    BY <1>1, <1>2, <1>4, <1>5, <1>7 DEF Stage, AfterAdd
<1> QED
    BY <1>3, <1>6, <1>8 DEF Stage

\* What is dispatched was under way.
LEMMA StageDispatch ==
    ASSUME SessionAssumption, Basics, NEW t \in Tasks, Stage(t), Dispatch
    PROVE  Stage(t)'
<1>1. /\ inbox # <<>> /\ inbox' = Tail(inbox)
      /\ UNCHANGED <<active, pc, kind, call, born, awaits, cancelled, conn, outbox,
                     rospecs, access, calls, reqs, reported, conns>>
    BY DispatchFacts
<1>2. /\ \A i \in 1..Len(inbox') : i + 1 \in 1..Len(inbox) /\ inbox'[i] = inbox[i + 1]
    BY <1>1, InboxLess DEF Basics, Types, Msg
<1>3. Sent' = Sent /\ (Unserved(t)' <=> Unserved(t))
    BY <1>1, SentSame DEF Unserved
<1>4. AtDelete0(t)'
    <2>1. ASSUME pc[t] = "delete0", NEW i \in 1..Len(inbox'), NEW j \in 1..Len(inbox'), i < j,
                 inbox'[i].kind = "response", inbox'[i].req = awaits[t]
          PROVE  inbox'[j].kind # "report"
        <3>1. /\ i + 1 \in 1..Len(inbox) /\ j + 1 \in 1..Len(inbox) /\ i + 1 < j + 1
              /\ inbox'[i] = inbox[i + 1] /\ inbox'[j] = inbox[j + 1]
            BY <1>2, <2>1
        <3> QED
            BY <2>1, <3>1 DEF Stage, AtDelete0, Responds
    <2> QED
        BY <1>1, <1>3, <2>1 DEF Stage, AtDelete0, Responds
<1>5. AtAdd(t)' /\ AfterAdd(t)'
    BY <1>1, <1>3 DEF Stage, AtAdd, AfterAdd, Mine
<1>6. OwnReports(t)'
    <2>1. \A i \in 1..Len(reports') :
             \/ \E j \in 1..Len(reports) : reports'[i] = reports[j]
             \/ /\ 1 \in 1..Len(inbox) /\ inbox[1].kind = "report"
                /\ reports'[i].call = inbox[1].call
        BY DispatchReports
    <2>2. ASSUME pc[t] \in {"add", "gpi", "enable", "start", "stream"}
          PROVE  /\ \A i \in 1..Len(reports') : reports'[i].call = call[t]
                 /\ \A i \in 1..Len(inbox') : inbox'[i].kind = "report" => inbox'[i].call = call[t]
        BY <1>2, <2>1, <2>2 DEF Stage, OwnReports
    <2> QED
        BY <1>1, <2>2 DEF Stage, OwnReports
<1> QED
    BY <1>4, <1>5, <1>6 DEF Stage

\* The consumer takes what was queued.
LEMMA StageYields ==
    ASSUME SessionAssumption, Basics, NEW t \in Tasks, Stage(t), NEW u, Yields(u)
    PROVE  Stage(t)'
<1>1. /\ reports # <<>> /\ reports' = Tail(reports)
      /\ UNCHANGED <<active, pc, kind, call, born, awaits, conn, outbox, inbox,
                     rospecs, access, calls, reqs, reported, conns>>
    BY DEF Yields, tasks, reader
<1>2. reports \in Seq(Report)
    BY DEF Basics, Types
<1>3. \A i \in 1..Len(reports') : i + 1 \in 1..Len(reports) /\ reports'[i] = reports[i + 1]
    BY <1>1, <1>2, Taken
<1>4. Sent' = Sent /\ (Unserved(t)' <=> Unserved(t))
    BY <1>1, SentSame DEF Unserved
<1>5. AtDelete0(t)' /\ AtAdd(t)' /\ AfterAdd(t)'
    BY <1>1, <1>4 DEF Stage, AtDelete0, AtAdd, AfterAdd, Mine, Responds
<1>6. OwnReports(t)'
    BY <1>1, <1>3 DEF Stage, OwnReports
<1> QED
    BY <1>5, <1>6 DEF Stage

LEMMA StageStep ==
    ASSUME SessionAssumption, Basics, OneStream, StageInv, [Next]_svars
    PROVE  StageInv'
<1>1. situation' = situation
    BY StepCases
<1>2. ASSUME UNCHANGED <<born, conn>>,
             \A t \in Tasks : Stage(t) => Stage(t)'
      PROVE  StageInv'
    BY <1>1, <1>2 DEF StageInv
<1>3. ASSUME NEW t \in Tasks, NEW k \in situation.kinds[t], NEW s, Begins(t, k, s)
      PROVE  StageInv'
    BY <1>1, <1>3, StageBegins
<1>4. ASSUME NEW t \in Tasks, NEW s, Goes(t, s)
      PROVE  StageInv'
    BY <1>1, <1>4, StageGoes
<1>5. ASSUME NEW u \in Tasks, Yields(u)
      PROVE  StageInv'
    <2>1. UNCHANGED <<born, conn>>
        BY <1>5 DEF Yields, tasks
    <2> QED
        BY <1>2, <1>5, <2>1, StageYields
<1>6. CASE Dispatch
    <2>1. UNCHANGED <<born, conn>>
        BY <1>6, DispatchFacts
    <2> QED
        BY <1>2, <1>6, <2>1, StageDispatch
<1>7. CASE Lose
    BY <1>7, LoseFacts DEF StageInv
<1>8. CASE Reconnect
    <2>1. conn' = conns + 1 /\ born' = born
        BY <1>8 DEF Reconnect, tasks
    <2>2. conns \in Nat /\ \A t \in Tasks : born[t] \in Nat /\ born[t] <= conns
        BY DEF Basics, Types, Bounds
    <2>3. \A t \in Tasks : born'[t] # conn'
        BY <2>1, <2>2
    <2> QED
        BY <2>3 DEF StageInv
<1>9. CASE Serve
    <2>1. UNCHANGED <<born, conn>>
        BY <1>9 DEF Serve, tasks
    <2> QED
        BY <1>2, <1>9, <2>1, StageServe
<1>10. CASE EdgeStep
    <2>1. UNCHANGED <<born, conn>>
        BY <1>10 DEF EdgeStep, Edge, tasks
    <2> QED
        BY <1>2, <1>10, <2>1, StageEdge
<1>11. CASE ReadTag
    <2>1. UNCHANGED <<born, conn>>
        BY <1>11 DEF ReadTag, tasks
    <2> QED
        BY <1>2, <1>11, <2>1, StageRead
<1>12. CASE UNCHANGED svars
    <2>1. UNCHANGED <<active, reports, pc, kind, call, born, awaits, cancelled, conn, outbox, inbox,
                      rospecs, access, calls, reqs, reported, conns>>
        BY <1>12 DEF svars, tasks, reader
    <2>2. Sent' = Sent
        BY <2>1, SentSame
    <2>3. \A t \in Tasks : Stage(t) => Stage(t)'
        BY <2>1, <2>2 DEF Stage, AtDelete0, AtAdd, AfterAdd, OwnReports, Mine, Responds, Unserved
    <2> QED
        BY <1>2, <2>1, <2>3
<1> QED
    BY <1>3, <1>4, <1>5, <1>6, <1>7, <1>8, <1>9, <1>10, <1>11, <1>12, StepCases

(***************************************************************************)
(* What a call leaves behind.                                              *)
(***************************************************************************)

LEMMA MoveEmpty ==
    ASSUME SessionAssumption, Basics, NEW t \in Tasks, NEW s, Moves(t, s),
           s = "delete" \/ (EndsEmpty /\ s # "add")
    PROVE  EndsEmpty'
<1> DEFINE m == Message(t, s)
<1>1. /\ \A r \in Sent' : r \in Sent \/ (s \in Awaits /\ r = m)
      /\ m.req = reqs + 1 /\ m.op = Request[s] /\ Sent \subseteq Sent'
      /\ s \in Awaits => m \in Sent'
      /\ reqs \in Nat /\ \A r \in Sent : r.req \in Nat /\ r.req <= reqs
    BY MoveSent
<1> HIDE DEF m
<1>2. CASE s = "delete"
    <2>1. m \in Sent' /\ m.op = "DELETE"
        BY <1>1, <1>2 DEF Awaits, Request
    <2>2. \A q \in Sent' : ~(q.req > m.req)
        BY <1>1
    <2> QED
        BY <2>1, <2>2 DEF EndsEmpty
<1>3. CASE EndsEmpty /\ s # "add"
    <2>1. s \in Awaits => m.op # "ADD"
        BY <1>1, <1>3 DEF Awaits, Request
    <2>2. rospecs' = rospecs
        BY DEF Moves, reader
    <2>3. CASE \E r \in Sent : r.op = "DELETE" /\ \A q \in Sent : q.req > r.req => q.op # "ADD"
        BY <1>1, <2>1, <2>3 DEF EndsEmpty
    <2>4. CASE DOMAIN rospecs = {} /\ \A r \in Sent : r.op # "ADD"
        BY <1>1, <2>1, <2>2, <2>4 DEF EndsEmpty
    <2> QED
        BY <1>3, <2>3, <2>4 DEF EndsEmpty
<1> QED
    BY <1>2, <1>3

LEMMA CleanMove ==
    ASSUME SessionAssumption, Basics, CleanInv, situation' = situation,
           NEW t \in Tasks, NEW s, Moves(t, s), s = "add" => pc[t] \in Streaming,
           ~situation.slow /\ "stop" \notin situation.cancel /\ conn # 0
              /\ pc[t] \in Streaming \cup {"stop"} => s \in Streaming \cup {"stop", "delete"}
    PROVE  CleanInv'
<1>1. SUFFICES ASSUME ~situation.slow, "stop" \notin situation.cancel, conn # 0
               PROVE  EndsEmpty' \/ \E u \in Tasks : pc'[u] \in Streaming \cup {"stop"}
    BY DEF CleanInv, Moves
<1>2. pc'[t] = s /\ \A u \in Tasks : u # t => pc'[u] = pc[u]
    BY MoveSelf, MoveOthers DEF Basics
<1>3. CASE s \in Streaming \cup {"stop"}
    BY <1>2, <1>3
<1>4. CASE s = "delete"
    BY <1>4, MoveEmpty
<1>5. CASE s \notin Streaming \cup {"stop", "delete"}
    <2>1. pc[t] \notin Streaming \cup {"stop"} /\ s # "add"
        BY <1>1, <1>5
    <2>2. CASE EndsEmpty
        BY <2>1, <2>2, MoveEmpty
    <2>3. CASE \E u \in Tasks : pc[u] \in Streaming \cup {"stop"}
        BY <1>2, <2>1, <2>3
    <2> QED
        BY <1>1, <2>2, <2>3 DEF CleanInv
<1> QED
    BY <1>3, <1>4, <1>5

LEMMA GoesOn ==
    ASSUME Types, NEW t \in Tasks, NEW s, Goes(t, s)
    PROVE  /\ pc[t] \in Streaming => s \in Streaming \cup {"stop"} \/ (pc[t] = "stream" /\ conn = 0)
           /\ pc[t] \in Streaming \cup {"stop", "delete", "aenable"} =>
                 s \notin {"adelete", "aadd", "aenable"}
           /\ s = "aenable" => pc[t] = "aadd"
           /\ s = "aadd" => pc[t] = "adelete"
           /\ pc[t] = "aenable" => s # "idle"
           /\ pc[t] = "aclean" => s = "idle"
<1>1. s \in Edges[pc[t]] /\ pc[t] # "idle" /\ pc[t] \in Awaits \cup {"idle", "stream"}
    BY DEF Goes, Types
<1>2. pc[t] = "stream" /\ s = "idle" => conn = 0
    BY DEF Goes
<1> QED
    BY <1>1, <1>2 DEF Edges, Streaming, Awaits, Request

LEMMA CleanStep ==
    ASSUME SessionAssumption, Basics, CleanInv, [Next]_svars
    PROVE  CleanInv'
<1>1. situation' = situation
    BY StepCases
<1>2. ASSUME NEW t \in Tasks, NEW k \in situation.kinds[t], NEW s, Begins(t, k, s)
      PROVE  CleanInv'
    <2>1. Moves(t, s) /\ pc[t] = "idle" /\ s # "add"
        BY <1>2, BeginMoves DEF Basics, Begins, Begin
    <2>2. "idle" \notin Streaming \cup {"stop"}
        BY DEF Streaming
    <2> QED
        BY <1>1, <2>1, <2>2, CleanMove
<1>3. ASSUME NEW t \in Tasks, NEW s, Goes(t, s)
      PROVE  CleanInv'
    <2>1. Moves(t, s) /\ (s = "add" => pc[t] \in Streaming)
        BY <1>3, GoesMoves, GoesStream DEF Basics, Streaming
    <2>2. ~situation.slow /\ "stop" \notin situation.cancel /\ conn # 0
             /\ pc[t] \in Streaming \cup {"stop"} => s \in Streaming \cup {"stop", "delete"}
        <3>1. pc[t] \in Streaming /\ conn # 0 => s \in Streaming \cup {"stop"}
            BY <1>3, GoesOn DEF Basics
        <3>2. pc[t] = "stop" /\ ~situation.slow /\ "stop" \notin situation.cancel => s = "delete"
            BY <1>3 DEF Goes
        <3> QED
            BY <3>1, <3>2
    <2> QED
        BY <1>1, <2>1, <2>2, CleanMove
<1>4. ASSUME UNCHANGED <<pc, conn, outbox>>, DOMAIN rospecs' = DOMAIN rospecs
      PROVE  CleanInv'
    <2>1. Sent' = Sent
        BY <1>4, SentSame
    <2> QED
        BY <1>1, <1>4, <2>1 DEF CleanInv, EndsEmpty
<1>5. ASSUME NEW t \in Tasks, Yields(t)
      PROVE  CleanInv'
    BY <1>4, <1>5 DEF Yields, tasks, reader
<1>6. CASE Dispatch
    BY <1>4, <1>6, DispatchFacts
<1>7. CASE Lose
    BY <1>7, LoseFacts DEF CleanInv
<1>8. CASE Reconnect
    <2>1. outbox = <<>> /\ outbox' = outbox /\ DOMAIN rospecs' = {}
        BY <1>8 DEF Reconnect, Basics, TaskInv, NoROSpecs
    <2>2. Sent' = {}
        BY <2>1, SentNothing, SentSame
    <2> QED
        BY <2>1, <2>2 DEF CleanInv, EndsEmpty
<1>9. CASE Serve
    <2>1. PICK r \in Sent :
             /\ r \in RequestMsg /\ r.req \in 1..reqs
             /\ Sent' \subseteq Sent
             /\ \A q \in Sent : q \in Sent' \/ q = r
             /\ \A q \in Sent' : r.req < q.req
             /\ IF r.op \in RoOps
                THEN rospecs' = After(rospecs, r.op, RoId, [call |-> r.call, gated |-> r.gated])
                ELSE rospecs' = rospecs
             /\ UNCHANGED <<pc, conn>>
        BY <1>9, ServeFacts
    <2>2. /\ r.op = "DELETE" => DOMAIN rospecs' = {}
          /\ r.op # "ADD" /\ DOMAIN rospecs = {} => DOMAIN rospecs' = {}
        <3> DEFINE spec == [call |-> r.call, gated |-> r.gated]
        <3>1. spec \in [call : Nat, gated : BOOLEAN]
            BY <2>1 DEF RequestMsg
        <3> HIDE DEF spec
        <3>2. CASE r.op \in RoOps
            <4>1. rospecs' = After(rospecs, r.op, RoId, spec)
                BY <2>1, <3>2 DEF spec
            <4> QED
                BY <3>1, <3>2, <4>1, AfterFacts DEF Basics
        <3>3. CASE r.op \notin RoOps
            BY <2>1, <3>3 DEF RoOps
        <3> QED
            BY <3>2, <3>3
    <2>3. ASSUME EndsEmpty
          PROVE  EndsEmpty'
        <3>1. CASE DOMAIN rospecs = {} /\ \A q \in Sent : q.op # "ADD"
            BY <2>1, <2>2, <3>1 DEF EndsEmpty
        <3>2. CASE \E d \in Sent : d.op = "DELETE" /\ \A q \in Sent : q.req > d.req => q.op # "ADD"
            <4>1. PICK d \in Sent : d.op = "DELETE" /\ \A q \in Sent : q.req > d.req => q.op # "ADD"
                BY <3>2
            <4>2. CASE d \in Sent'
                BY <2>1, <4>1, <4>2 DEF EndsEmpty
            <4>3. CASE d = r
                <5>1. \A q \in Sent' : q.req > r.req
                    BY <2>1 DEF Basics, OrderInv
                <5> QED
                    BY <2>1, <2>2, <4>1, <4>3, <5>1 DEF EndsEmpty
            <4> QED
                BY <2>1, <4>2, <4>3
        <3> QED
            BY <2>3, <3>1, <3>2 DEF EndsEmpty
    <2> QED
        BY <1>1, <2>1, <2>3 DEF CleanInv
<1>10. CASE EdgeStep
    BY <1>4, <1>10, EdgeFacts DEF Basics
<1>11. CASE ReadTag
    BY <1>4, <1>11 DEF ReadTag, tasks
<1>12. CASE UNCHANGED svars
    BY <1>4, <1>12 DEF svars, tasks, reader
<1> QED
    BY <1>2, <1>3, <1>5, <1>6, <1>7, <1>8, <1>9, <1>10, <1>11, <1>12, StepCases

LEMMA MoveDisarmed ==
    ASSUME SessionAssumption, Basics, NEW t \in Tasks, NEW s, Moves(t, s),
           s = "aclean" \/ (EndsDisarmed /\ s # "aenable")
    PROVE  EndsDisarmed'
<1> DEFINE m == Message(t, s)
<1>1. /\ \A r \in Sent' : r \in Sent \/ (s \in Awaits /\ r = m)
      /\ m.req = reqs + 1 /\ m.op = Request[s] /\ Sent \subseteq Sent'
      /\ s \in Awaits => m \in Sent'
      /\ reqs \in Nat /\ \A r \in Sent : r.req \in Nat /\ r.req <= reqs
    BY MoveSent
<1> HIDE DEF m
<1>2. CASE s = "aclean"
    <2>1. m \in Sent' /\ m.op = "ADEL"
        BY <1>1, <1>2 DEF Awaits, Request
    <2>2. \A q \in Sent' : ~(q.req > m.req)
        BY <1>1
    <2> QED
        BY <2>1, <2>2 DEF EndsDisarmed
<1>3. CASE EndsDisarmed /\ s # "aenable"
    <2>1. s \in Awaits => m.op # "AENABLE"
        BY <1>1, <1>3 DEF Awaits, Request
    <2>2. access' = access /\ conn' = conn
        BY DEF Moves, reader
    <2>3. CASE \E r \in Sent : r.op = "ADEL" /\ \A q \in Sent : q.req > r.req => q.op # "AENABLE"
        BY <1>1, <2>1, <2>3 DEF EndsDisarmed
    <2>4. CASE ~(access.enabled /\ access.conn = conn) /\ \A r \in Sent : r.op # "AENABLE"
        BY <1>1, <2>1, <2>2, <2>4 DEF EndsDisarmed
    <2> QED
        BY <1>3, <2>3, <2>4 DEF EndsDisarmed
<1> QED
    BY <1>2, <1>3

\* Does t hold on to its AccessSpec?
Holds(t) == Operating(t) /\ pc[t] # "aclean"

\* It does so from aenable to its own aclean.
LEMMA GoesHolding ==
    ASSUME SessionAssumption, Basics, NEW t \in Tasks, NEW s, Goes(t, s)
    PROVE  /\ s = "aenable" => Holds(t)'
           /\ Holds(t) /\ conn # 0 => s = "aclean" \/ Holds(t)'
<1>1. Moves(t, s) /\ pc'[t] = s /\ (s # "idle" => kind'[t] = kind[t])
    <2>1. kind' = [kind EXCEPT ![t] = IF s = "idle" THEN "none" ELSE @]
        BY DEF Goes, Advance
    <2> QED
        BY <2>1, GoesMoves, MoveSelf DEF Basics, Types
<1>2. s = "aenable" => kind'[t] = "access"
    BY <1>1 DEF Moves
<1>3. ASSUME Holds(t), conn # 0, s # "aclean"
      PROVE  s \notin {"idle", "adelete", "aadd"}
    <2>1. /\ kind[t] = "access" /\ pc[t] \in Awaits \cup {"idle", "stream"}
          /\ pc[t] \notin {"idle", "adelete", "aadd", "aclean"}
        BY <1>3 DEF Holds, Operating, Basics, Types
    <2>2. pc[t] \in Streaming \cup {"stop", "delete", "aenable"}
        BY <2>1 DEF Awaits, Request, Streaming
    <2>3. s \notin {"adelete", "aadd", "aenable"}
        BY <2>2, GoesOn DEF Basics
    <2>4. s # "idle"
        <3>1. CASE pc[t] \in Streaming
            BY <1>3, <3>1, GoesOn DEF Basics, Streaming, Goes
        <3>2. CASE pc[t] \in {"stop", "delete"}
            BY <2>1, <3>2 DEF Goes
        <3>3. CASE pc[t] = "aenable"
            BY <3>3, GoesOn DEF Basics
        <3> QED
            BY <2>2, <3>1, <3>2, <3>3
    <2> QED
        BY <2>3, <2>4
<1> QED
    BY <1>1, <1>2, <1>3 DEF Holds, Operating

LEMMA DisarmStep ==
    ASSUME SessionAssumption, Basics, DisarmInv, [Next]_svars
    PROVE  DisarmInv'
<1>1. DisarmInv <=> (conn # 0 => EndsDisarmed \/ \E t \in Tasks : Holds(t))
    BY DEF DisarmInv, Holds
<1>2. DisarmInv' <=> (conn' # 0 => EndsDisarmed' \/ \E t \in Tasks : Holds(t)')
    BY DEF DisarmInv, Holds
<1>3. ASSUME NEW t \in Tasks, NEW s, Moves(t, s),
             conn # 0 => (s # "aenable" \/ Holds(t)'),
             conn # 0 /\ Holds(t) => s = "aclean" \/ Holds(t)'
      PROVE  DisarmInv'
    <2>1. conn' = conn /\ \A u \in Tasks : u # t => (Holds(u)' <=> Holds(u))
        BY <1>3, MoveOthers DEF Basics, Holds, Operating, Moves
    <2>2. CASE conn # 0 /\ Holds(t)
        BY <1>2, <1>3, <2>2, MoveDisarmed
    <2>3. CASE conn # 0 /\ ~Holds(t)
        <3>1. CASE s = "aenable"
            BY <1>2, <1>3, <2>3, <3>1
        <3>2. CASE s # "aenable" /\ EndsDisarmed
            BY <1>2, <1>3, <3>2, MoveDisarmed
        <3>3. CASE \E u \in Tasks : Holds(u)
            BY <1>2, <2>1, <2>3, <3>3
        <3> QED
            BY <1>1, <2>3, <3>1, <3>2, <3>3
    <2> QED
        BY <1>2, <2>1, <2>2, <2>3
<1>4. ASSUME NEW t \in Tasks, NEW k \in situation.kinds[t], NEW s, Begins(t, k, s)
      PROVE  DisarmInv'
    <2>1. Moves(t, s) /\ pc[t] = "idle" /\ s # "aenable"
        BY <1>4, BeginMoves DEF Basics, Begins, Begin
    <2>2. ~Holds(t)
        BY <2>1 DEF Holds, Operating
    <2> QED
        BY <1>3, <2>1, <2>2
<1>5. ASSUME NEW t \in Tasks, NEW s, Goes(t, s)
      PROVE  DisarmInv'
    BY <1>3, <1>5, GoesMoves, GoesHolding DEF Basics
<1>6. ASSUME UNCHANGED <<pc, kind, conn, outbox>>,
             access' = access \/ access' = NoAccess
      PROVE  DisarmInv'
    <2>1. Sent' = Sent /\ ~NoAccess.enabled
        BY <1>6, SentSame DEF NoAccess
    <2>2. EndsDisarmed => EndsDisarmed'
        BY <1>6, <2>1 DEF EndsDisarmed
    <2>3. \A t \in Tasks : Holds(t)' <=> Holds(t)
        BY <1>6 DEF Holds, Operating
    <2> QED
        BY <1>1, <1>2, <1>6, <2>2, <2>3
<1>7. ASSUME NEW t \in Tasks, Yields(t)
      PROVE  DisarmInv'
    BY <1>6, <1>7 DEF Yields, tasks, reader
<1>8. CASE Dispatch
    BY <1>6, <1>8, DispatchFacts
<1>9. CASE Lose
    BY <1>2, <1>9, LoseFacts
<1>10. CASE Reconnect
    <2>1. /\ outbox = <<>> /\ outbox' = outbox /\ access' = access /\ conn' = conns + 1
        BY <1>10 DEF Reconnect, Basics, TaskInv
    <2>2. Sent' = {}
        BY <2>1, SentNothing, SentSame
    <2>3. access.conn \in Nat /\ access.conn <= conns /\ conns \in Nat
        BY DEF Basics, Types, Bounds
    <2> QED
        BY <1>2, <2>1, <2>2, <2>3 DEF EndsDisarmed
<1>11. CASE Serve
    <2>1. PICK r \in Sent :
             /\ r.req \in 1..reqs /\ Sent' \subseteq Sent
             /\ \A q \in Sent : q \in Sent' \/ q = r
             /\ \A q \in Sent' : r.req < q.req
             /\ access' = CASE r.op = "AADD" /\ access = NoAccess ->
                                  [call |-> r.call, conn |-> conn, enabled |-> FALSE]
                            [] r.op = "AENABLE" /\ access # NoAccess ->
                                  [access EXCEPT !.enabled = TRUE]
                            [] r.op = "ADEL" -> NoAccess
                            [] OTHER -> access
             /\ UNCHANGED <<pc, kind, conn>>
        BY <1>11, ServeFacts
    <2>2. /\ r.op = "ADEL" => ~access'.enabled
          /\ r.op # "AENABLE" => access' = access \/ ~access'.enabled
        <3>1. CASE r.op = "ADEL"
            <4>1. access' = NoAccess
                BY <2>1, <3>1
            <4> QED
                BY <3>1, <4>1 DEF NoAccess
        <3>2. CASE r.op = "AADD" /\ access = NoAccess
            <4>1. access' = [call |-> r.call, conn |-> conn, enabled |-> FALSE]
                BY <2>1, <3>2
            <4> QED
                BY <3>2, <4>1
        <3>3. CASE r.op # "ADEL" /\ ~(r.op = "AADD" /\ access = NoAccess) /\ r.op # "AENABLE"
            BY <2>1, <3>3
        <3> QED
            BY <3>1, <3>2, <3>3
    <2>3. ASSUME EndsDisarmed
          PROVE  EndsDisarmed'
        <3>1. CASE ~(access.enabled /\ access.conn = conn) /\ \A q \in Sent : q.op # "AENABLE"
            BY <2>1, <2>2, <3>1 DEF EndsDisarmed
        <3>2. CASE \E d \in Sent : d.op = "ADEL" /\ \A q \in Sent : q.req > d.req => q.op # "AENABLE"
            <4>1. PICK d \in Sent : d.op = "ADEL" /\ \A q \in Sent : q.req > d.req => q.op # "AENABLE"
                BY <3>2
            <4>2. CASE d \in Sent'
                BY <2>1, <4>1, <4>2 DEF EndsDisarmed
            <4>3. CASE d = r
                <5>1. \A q \in Sent' : q.req > r.req
                    BY <2>1 DEF Basics, OrderInv
                <5> QED
                    BY <2>1, <2>2, <4>1, <4>3, <5>1 DEF EndsDisarmed
            <4> QED
                BY <2>1, <4>2, <4>3
        <3> QED
            BY <2>3, <3>1, <3>2 DEF EndsDisarmed
    <2>4. \A t \in Tasks : Holds(t)' <=> Holds(t)
        BY <2>1 DEF Holds, Operating
    <2> QED
        BY <1>1, <1>2, <2>1, <2>3, <2>4
<1>12. CASE EdgeStep
    BY <1>6, <1>12, EdgeFacts DEF Basics
<1>13. CASE ReadTag
    <2>1. access' \in {access, NoAccess} /\ UNCHANGED <<pc, kind, conn, outbox>>
        BY <1>13, ReadFacts DEF Basics
    <2> QED
        BY <1>6, <2>1
<1>14. CASE UNCHANGED svars
    BY <1>6, <1>14 DEF svars, tasks, reader
<1> QED
    BY <1>4, <1>5, <1>7, <1>8, <1>9, <1>10, <1>11, <1>12, <1>13, <1>14, StepCases

(***************************************************************************)
(* One task operates on tags: what is executed is for its call.            *)
(***************************************************************************)

LEMMA OperatorElsewhere ==
    ASSUME NEW t, kind'[t] # "access", pc'[t] # "aadd"
    PROVE  OperatorInv(t)'
BY DEF OperatorInv, AtAadd, Operating

\* The calls of other tasks send no ADD_ACCESSSPEC.
LEMMA OperatorOther ==
    ASSUME SessionAssumption, Basics, NEW t \in Tasks, OperatorInv(t),
           NEW u \in Tasks, u # t, NEW s, Moves(u, s), s # "aadd"
    PROVE  OperatorInv(t)'
<1> DEFINE m == Message(u, s)
<1>1. /\ \A r \in Sent' : r \in Sent \/ (s \in Awaits /\ r = m)
      /\ m.op = Request[s]
    BY MoveSent
<1>2. /\ pc'[t] = pc[t] /\ call'[t] = call[t] /\ kind'[t] = kind[t] /\ awaits'[t] = awaits[t]
      /\ access' = access
    BY MoveOthers DEF Basics, Moves, reader
<1>3. s \in Awaits => m.op # "AADD"
    BY <1>1 DEF Awaits, Request
<1> HIDE DEF m
<1>4. \A i, j \in 1..Len(inbox') :
         i < j => \E k, l \in 1..Len(inbox) :
                     k < l /\ inbox'[i] = inbox[k] /\ inbox'[j] = inbox[l]
    <2>1. inbox \in Seq(Msg) /\ OrderInv /\ (Hears(u) \/ inbox' = inbox)
        BY DEF Basics, Types, Msg, Moves
    <2> QED
        BY <2>1, InboxMoved
<1>5. /\ \A i \in 1..Len(inbox') : \E k \in 1..Len(inbox) : inbox'[i] = inbox[k]
      /\ \A i \in 1..Len(reports') : \E k \in 1..Len(reports) : reports'[i] = reports[k]
    BY MoveReports
<1>6. AtAadd(t)'
    <2>1. SUFFICES ASSUME pc[t] = "aadd"
                   PROVE  /\ \A r \in Sent' : r.req > awaits[t] => r.op # "AADD"
                          /\ \A i \in 1..Len(inbox') :
                                inbox'[i].kind = "response" /\ inbox'[i].req = awaits[t] /\ inbox'[i].ok =>
                                   /\ access.call \in {0, call[t]}
                                   /\ \A j \in 1..Len(inbox') :
                                         i < j /\ inbox'[j].kind = "report" =>
                                            inbox'[j].op \in {0, call[t]}
        BY <1>2 DEF AtAadd, Responds, Its
    <2>2. /\ \A r \in Sent : r.req > awaits[t] => r.op # "AADD"
          /\ \A i \in 1..Len(inbox) : Responds(i, awaits[t]) /\ inbox[i].ok =>
                /\ access.call \in {0, call[t]}
                /\ \A j \in 1..Len(inbox) : i < j /\ inbox[j].kind = "report" =>
                      inbox[j].op \in {0, call[t]}
        BY <2>1 DEF OperatorInv, AtAadd, Its
    <2>3. \A r \in Sent' : r.req > awaits[t] => r.op # "AADD"
        BY <1>1, <1>3, <2>2
    <2>4. ASSUME NEW i \in 1..Len(inbox'),
                 inbox'[i].kind = "response", inbox'[i].req = awaits[t], inbox'[i].ok
          PROVE  access.call \in {0, call[t]}
        <3>1. PICK k \in 1..Len(inbox) : inbox'[i] = inbox[k]
            BY <1>5
        <3> QED
            BY <2>2, <2>4, <3>1 DEF Responds
    <2>5. ASSUME NEW i \in 1..Len(inbox'), NEW j \in 1..Len(inbox'), i < j,
                 inbox'[i].kind = "response", inbox'[i].req = awaits[t], inbox'[i].ok,
                 inbox'[j].kind = "report"
          PROVE  inbox'[j].op \in {0, call[t]}
        <3>1. PICK k, l \in 1..Len(inbox) :
                 k < l /\ inbox'[i] = inbox[k] /\ inbox'[j] = inbox[l]
            BY <1>4, <2>5
        <3> QED
            BY <2>2, <2>5, <3>1 DEF Responds
    <2> QED
        BY <2>3, <2>4, <2>5
<1>7. ItsAccess(t) => ItsAccess(t)'
    BY <1>1, <1>2, <1>3, <1>5 DEF ItsAccess, Its
<1> QED
    BY <1>2, <1>5, <1>6, <1>7 DEF OperatorInv, Operating, Its

\* A task sends ADD_ACCESSSPEC ...
LEMMA OperatorAadd ==
    ASSUME SessionAssumption, Basics, NEW t \in Tasks, Moves(t, "aadd")
    PROVE  OperatorInv(t)'
<1> DEFINE m == Message(t, "aadd")
<1>1. /\ \A r \in Sent' : r \in Sent \/ r = m
      /\ m.req = reqs + 1
      /\ reqs \in Nat /\ \A r \in Sent : r.req \in Nat /\ r.req <= reqs
    BY MoveSent
<1> HIDE DEF m
<1>2. pc'[t] = "aadd" /\ awaits'[t] = reqs + 1
    BY MoveSelf DEF Basics, Awaits, Request
<1>3. \A r \in Sent' : ~(r.req > awaits'[t])
    BY <1>1, <1>2
<1>4. ASSUME NEW i \in 1..Len(inbox'), inbox'[i].kind = "response"
      PROVE  inbox'[i].req # awaits'[t]
    <2>1. PICK k \in 1..Len(inbox) : inbox'[i] = inbox[k]
        BY MoveReports
    <2>2. inbox[k].req <= reqs
        BY <1>4, <2>1 DEF Basics, OrderInv
    <2> QED
        BY <1>1, <1>2, <2>1, <2>2
<1>5. AtAadd(t)'
    BY <1>3, <1>4 DEF AtAadd, Responds
<1> QED
    BY <1>2, <1>5 DEF OperatorInv, Operating, Streaming

\* ... and when it hears that it succeeded, the AccessSpec is its own.
LEMMA OperatorEnable ==
    ASSUME SessionAssumption, Basics, NEW t \in Tasks, OperatorInv(t),
           pc[t] = "aadd", Goes(t, "aenable"), Hears(t), Head(inbox).ok
    PROVE  OperatorInv(t)'
<1> DEFINE m == Message(t, "aenable")
<1>1. Moves(t, "aenable") /\ access' = access
    BY GoesMoves DEF Goes, Basics, reader
<1>2. \A r \in Sent' : r \in Sent \/ (r = m /\ m.op = "AENABLE")
    BY <1>1, MoveSent DEF Awaits, Request
<1> HIDE DEF m
<1>3. pc'[t] = "aenable" /\ call'[t] = call[t]
    <2>1. call' = [call EXCEPT ![t] = IF "aenable" = "idle" THEN 0 ELSE @]
        BY DEF Goes, Advance
    <2> QED
        BY <1>1, <2>1, MoveSelf DEF Basics, Types
<1>4. /\ 1 \in 1..Len(inbox) /\ Responds(1, awaits[t]) /\ Head(inbox) = inbox[1]
      /\ \A i \in 1..Len(inbox') : /\ i + 1 \in 1..Len(inbox) /\ 1 < i + 1
                                   /\ inbox'[i] = inbox[i + 1]
      /\ \A r \in Sent : r.req \in Nat /\ awaits[t] < r.req
      /\ awaits[t] \in Nat
    BY HearsFacts
<1>5. /\ \A r \in Sent : r.op # "AADD"
      /\ access.call \in {0, call[t]}
      /\ \A j \in 1..Len(inbox) : 1 < j /\ inbox[j].kind = "report" => inbox[j].op \in {0, call[t]}
    BY <1>4 DEF OperatorInv, AtAadd, Its
<1>6. ItsAccess(t)'
    BY <1>1, <1>2, <1>3, <1>4, <1>5 DEF ItsAccess, Its
<1> QED
    BY <1>3, <1>6 DEF OperatorInv, AtAadd, Operating, Streaming

\* It stays so until the call is over.
LEMMA OperatorGoes ==
    ASSUME SessionAssumption, Basics, NEW t \in Tasks, OperatorInv(t),
           NEW s, Goes(t, s), s \notin {"idle", "aadd", "aenable"}, kind[t] = "access"
    PROVE  OperatorInv(t)'
<1> DEFINE m == Message(t, s)
<1>1. Moves(t, s) /\ access' = access /\ s \in Edges[pc[t]] /\ pc[t] # "idle"
    BY GoesMoves DEF Goes, Basics, reader
<1>2. /\ \A r \in Sent' : r \in Sent \/ (s \in Awaits /\ r = m)
      /\ m.op = Request[s]
    BY <1>1, MoveSent
<1>3. s \in Awaits => m.op # "AADD"
    BY <1>2 DEF Awaits, Request
<1> HIDE DEF m
<1>4. pc'[t] = s /\ call'[t] = call[t] /\ kind'[t] = kind[t]
    <2>1. /\ call' = [call EXCEPT ![t] = IF s = "idle" THEN 0 ELSE @]
          /\ kind' = [kind EXCEPT ![t] = IF s = "idle" THEN "none" ELSE @]
        BY DEF Goes, Advance
    <2> QED
        BY <1>1, <2>1, MoveSelf DEF Basics, Types
<1>5. pc[t] \notin {"idle", "adelete", "aadd"}
    BY <1>1 DEF Edges
<1>6. ItsAccess(t)
    BY <1>5 DEF OperatorInv, Operating
<1>7. /\ \A i \in 1..Len(inbox') : \E k \in 1..Len(inbox) : inbox'[i] = inbox[k]
      /\ \A i \in 1..Len(reports') : \E k \in 1..Len(reports) : reports'[i] = reports[k]
    BY <1>1, MoveReports
<1>8. ItsAccess(t)'
    BY <1>1, <1>2, <1>3, <1>4, <1>6, <1>7 DEF ItsAccess, Its
<1>9. ASSUME s \in Streaming \ {"delete0"}, NEW i \in 1..Len(reports')
      PROVE  reports'[i].op \in {0, call[t]}
    <2>1. CASE s = "add"
        <3>1. reports' = <<>>
            BY <2>1 DEF Goes
        <3> QED
            BY <1>9, <3>1
    <2>2. CASE s # "add"
        <3>1. pc[t] \in Streaming \ {"delete0"}
            <4>1. s \in {"gpi", "enable", "start", "stream"}
                BY <1>9, <2>2 DEF Streaming
            <4>2. pc[t] \in {"add", "gpi", "enable", "start"}
                <5>1. pc[t] \in Streaming \ {"stream"}
                    BY <1>9, GoesStream DEF Basics
                <5> QED
                    BY <1>1, <4>1, <5>1 DEF Edges, Streaming
            <4> QED
                BY <4>2 DEF Streaming
        <3>2. \A k \in 1..Len(reports) : reports[k].op \in {0, call[t]}
            BY <3>1 DEF OperatorInv, Its
        <3> QED
            BY <1>7, <1>9, <3>2
    <2> QED
        BY <2>1, <2>2
<1>10. AtAadd(t)'
    BY <1>4 DEF AtAadd
<1> QED
    BY <1>4, <1>8, <1>9, <1>10 DEF OperatorInv, Its

LEMMA OperatorServe ==
    ASSUME SessionAssumption, Basics, NEW t \in Tasks, OperatorInv(t), Serve
    PROVE  OperatorInv(t)'
<1>1. PICK r \in Sent :
         /\ r \in RequestMsg
         /\ Sent' \subseteq Sent
         /\ \E ok \in BOOLEAN :
               /\ inbox' = Append(inbox, [kind |-> "response", req |-> r.req, ok |-> ok])
               /\ r.op = "AADD" => ok = (access = NoAccess)
         /\ access' = CASE r.op = "AADD" /\ access = NoAccess ->
                              [call |-> r.call, conn |-> conn, enabled |-> FALSE]
                        [] r.op = "AENABLE" /\ access # NoAccess ->
                              [access EXCEPT !.enabled = TRUE]
                        [] r.op = "ADEL" -> NoAccess
                        [] OTHER -> access
         /\ UNCHANGED <<reports, pc, kind, call, awaits>>
    BY ServeFacts
<1>2. PICK ok \in BOOLEAN :
         /\ inbox' = Append(inbox, [kind |-> "response", req |-> r.req, ok |-> ok])
         /\ r.op = "AADD" => ok = (access = NoAccess)
    BY <1>1
<1> DEFINE m == [kind |-> "response", req |-> r.req, ok |-> ok]
<1>3. m \in Msg /\ m.kind = "response" /\ m.req = r.req /\ m.ok = ok
    BY <1>1 DEF Msg, ResponseMsg, RequestMsg
<1> HIDE DEF m
<1>4. /\ Len(inbox) \in Nat /\ Len(inbox') = Len(inbox) + 1
      /\ Len(inbox') \in 1..Len(inbox') /\ inbox'[Len(inbox')] = m
      /\ \A i \in 1..Len(inbox) : i \in 1..Len(inbox') /\ inbox'[i] = inbox[i]
      /\ \A i \in 1..Len(inbox') : i = Len(inbox') \/ i \in 1..Len(inbox)
    BY <1>2, <1>3, InboxMore DEF Basics, Types, Msg, m
<1>5. r.op # "AADD" => access'.call \in {0, access.call}
    <2>1. CASE r.op = "AENABLE" /\ access # NoAccess
        <3>1. access' = [access EXCEPT !.enabled = TRUE]
            BY <1>1, <2>1
        <3>2. access \in [call : Nat, conn : Nat, enabled : BOOLEAN]
            BY DEF Basics, Types
        <3> QED
            BY <3>1, <3>2
    <2>2. CASE r.op = "ADEL"
        BY <1>1, <2>2 DEF NoAccess
    <2>3. CASE r.op \notin {"AADD", "ADEL"} /\ ~(r.op = "AENABLE" /\ access # NoAccess)
        BY <1>1, <2>3
    <2> QED
        BY <2>1, <2>2, <2>3
<1>6. \A i \in 1..Len(inbox') : inbox'[i].kind = "report" => i \in 1..Len(inbox)
    BY <1>3, <1>4
<1>7. AtAadd(t)'
    <2>1. SUFFICES ASSUME pc[t] = "aadd"
                   PROVE  /\ \A q \in Sent' : q.req > awaits[t] => q.op # "AADD"
                          /\ \A i \in 1..Len(inbox') :
                                inbox'[i].kind = "response" /\ inbox'[i].req = awaits[t] /\ inbox'[i].ok =>
                                   /\ access'.call \in {0, call[t]}
                                   /\ \A j \in 1..Len(inbox') :
                                         i < j /\ inbox'[j].kind = "report" =>
                                            inbox'[j].op \in {0, call[t]}
        BY <1>1 DEF AtAadd, Responds, Its
    <2>2. /\ \A q \in Sent : q.req > awaits[t] => q.op # "AADD"
          /\ \A i \in 1..Len(inbox) : Responds(i, awaits[t]) /\ inbox[i].ok =>
                /\ access.call \in {0, call[t]}
                /\ \A j \in 1..Len(inbox) : i < j /\ inbox[j].kind = "report" =>
                      inbox[j].op \in {0, call[t]}
        BY <2>1 DEF OperatorInv, AtAadd, Its
    <2>3. SUFFICES ASSUME NEW i \in 1..Len(inbox'),
                          inbox'[i].kind = "response", inbox'[i].req = awaits[t], inbox'[i].ok
                   PROVE  /\ access'.call \in {0, call[t]}
                          /\ \A j \in 1..Len(inbox') :
                                i < j /\ inbox'[j].kind = "report" => inbox'[j].op \in {0, call[t]}
        BY <1>1, <2>2
    <2>4. CASE i = Len(inbox')
        <3>1. r.req = awaits[t] /\ ok
            BY <1>3, <1>4, <2>3, <2>4
        <3>2. r.op = "AADD" /\ r.call = call[t]
            BY <2>1, <3>1 DEF Basics, TaskInv, Awaits, Request
        <3>3. access = NoAccess
            BY <1>2, <3>1, <3>2
        <3>4. access' = [call |-> r.call, conn |-> conn, enabled |-> FALSE]
            BY <1>1, <3>2, <3>3
        <3> QED
            BY <1>4, <1>6, <2>4, <3>2, <3>4
    <2>5. CASE i \in 1..Len(inbox)
        <3>1. Responds(i, awaits[t]) /\ inbox[i].ok
            BY <1>4, <2>3, <2>5 DEF Responds
        <3>2. r.op # "AADD"
            <4>1. awaits[t] < r.req
                BY <2>5, <3>1 DEF Basics, OrderInv, Responds
            <4> QED
                BY <2>2, <4>1
        <3> QED
            BY <1>4, <1>5, <1>6, <2>2, <2>5, <3>1, <3>2
    <2> QED
        BY <1>4, <2>4, <2>5
<1>8. ItsAccess(t) => ItsAccess(t)'
    <2>1. ASSUME ItsAccess(t)
          PROVE  ItsAccess(t)'
        <3>1. /\ access.call \in {0, call[t]} /\ \A q \in Sent : q.op # "AADD"
              /\ \A i \in 1..Len(inbox) : inbox[i].kind = "report" => inbox[i].op \in {0, call[t]}
            BY <2>1 DEF ItsAccess, Its
        <3>2. access'.call \in {0, call[t]}
            BY <1>5, <3>1
        <3> QED
            BY <1>1, <1>4, <1>6, <3>1, <3>2 DEF ItsAccess, Its
    <2> QED
        BY <2>1
<1> QED
    BY <1>1, <1>7, <1>8 DEF OperatorInv, Operating, Its

LEMMA OperatorRead ==
    ASSUME SessionAssumption, Basics, NEW t \in Tasks, OperatorInv(t), ReadTag
    PROVE  OperatorInv(t)'
<1>1. PICK m \in ReportMsg :
         /\ inbox' = Append(inbox, m) /\ m.kind = "report" /\ m.op \in {0, access.call}
         /\ access' \in {access, NoAccess}
         /\ UNCHANGED <<reports, pc, kind, call, awaits, outbox>>
    BY ReadFacts DEF Basics
<1>2. /\ Len(inbox) \in Nat /\ Len(inbox') = Len(inbox) + 1
      /\ Len(inbox') \in 1..Len(inbox') /\ inbox'[Len(inbox')] = m
      /\ \A i \in 1..Len(inbox) : i \in 1..Len(inbox') /\ inbox'[i] = inbox[i]
      /\ \A i \in 1..Len(inbox') : i = Len(inbox') \/ i \in 1..Len(inbox)
    BY <1>1, InboxMore DEF Basics, Types, Msg
<1>3. Sent' = Sent /\ access'.call \in {0, access.call}
    BY <1>1, SentSame DEF NoAccess
<1>4. AtAadd(t)'
    <2>1. SUFFICES ASSUME pc[t] = "aadd", NEW i \in 1..Len(inbox'),
                          inbox'[i].kind = "response", inbox'[i].req = awaits[t], inbox'[i].ok
                   PROVE  /\ access'.call \in {0, call[t]}
                          /\ \A j \in 1..Len(inbox') :
                                i < j /\ inbox'[j].kind = "report" => inbox'[j].op \in {0, call[t]}
        BY <1>1, <1>3 DEF OperatorInv, AtAadd, Responds, Its
    <2>2. i \in 1..Len(inbox) /\ Responds(i, awaits[t]) /\ inbox[i].ok
        BY <1>1, <1>2, <2>1 DEF Responds
    <2>3. /\ access.call \in {0, call[t]}
          /\ \A j \in 1..Len(inbox) :
                i < j /\ inbox[j].kind = "report" => inbox[j].op \in {0, call[t]}
        BY <2>1, <2>2 DEF OperatorInv, AtAadd, Its
    <2> QED
        BY <1>1, <1>2, <1>3, <2>3
<1>5. ItsAccess(t) => ItsAccess(t)'
    BY <1>1, <1>2, <1>3 DEF ItsAccess, Its
<1> QED
    BY <1>1, <1>4, <1>5 DEF OperatorInv, Operating, Its

LEMMA OperatorDispatch ==
    ASSUME SessionAssumption, Basics, NEW t \in Tasks, OperatorInv(t), Dispatch
    PROVE  OperatorInv(t)'
<1>1. /\ inbox # <<>> /\ inbox' = Tail(inbox)
      /\ UNCHANGED <<pc, kind, call, awaits, outbox, access>>
    BY DispatchFacts
<1>2. \A i \in 1..Len(inbox') : i + 1 \in 1..Len(inbox) /\ inbox'[i] = inbox[i + 1]
    BY <1>1, InboxLess DEF Basics, Types, Msg
<1>3. Sent' = Sent
    BY <1>1, SentSame
<1>4. AtAadd(t)'
    <2>1. SUFFICES ASSUME pc[t] = "aadd", NEW i \in 1..Len(inbox'),
                          inbox'[i].kind = "response", inbox'[i].req = awaits[t], inbox'[i].ok
                   PROVE  /\ access.call \in {0, call[t]}
                          /\ \A j \in 1..Len(inbox') :
                                i < j /\ inbox'[j].kind = "report" => inbox'[j].op \in {0, call[t]}
        BY <1>1, <1>3 DEF OperatorInv, AtAadd, Responds, Its
    <2>2. i + 1 \in 1..Len(inbox) /\ Responds(i + 1, awaits[t]) /\ inbox[i + 1].ok
        BY <1>2, <2>1 DEF Responds
    <2>3. /\ access.call \in {0, call[t]}
          /\ \A j \in 1..Len(inbox) :
                i + 1 < j /\ inbox[j].kind = "report" => inbox[j].op \in {0, call[t]}
        BY <2>1, <2>2 DEF OperatorInv, AtAadd, Its
    <2>4. ASSUME NEW j \in 1..Len(inbox'), i < j, inbox'[j].kind = "report"
          PROVE  inbox'[j].op \in {0, call[t]}
        <3>1. i + 1 < j + 1 /\ j + 1 \in 1..Len(inbox) /\ inbox'[j] = inbox[j + 1]
            BY <1>2, <2>4
        <3> QED
            BY <2>3, <2>4, <3>1
    <2> QED
        BY <2>3, <2>4
<1>5. ItsAccess(t) => ItsAccess(t)'
    BY <1>1, <1>2, <1>3 DEF ItsAccess, Its
<1>6. ASSUME kind[t] = "access", pc[t] \in Streaming \ {"delete0"}, NEW i \in 1..Len(reports')
      PROVE  reports'[i].op \in {0, call[t]}
    <2>1. \/ \E j \in 1..Len(reports) : reports'[i] = reports[j]
          \/ /\ 1 \in 1..Len(inbox) /\ inbox[1].kind = "report"
             /\ reports'[i].op = inbox[1].op
        BY DispatchReports
    <2>2. /\ \A j \in 1..Len(reports) : reports[j].op \in {0, call[t]}
          /\ ItsAccess(t)
        BY <1>6 DEF OperatorInv, Operating, Its, Streaming
    <2> QED
        BY <2>1, <2>2 DEF ItsAccess, Its
<1> QED
    BY <1>1, <1>4, <1>5, <1>6 DEF OperatorInv, Operating, Its

LEMMA OperatorQuiet ==
    ASSUME Basics, NEW t \in Tasks, OperatorInv(t),
           UNCHANGED <<pc, kind, call, awaits, inbox, outbox, access>>,
           reports' = reports \/ (reports # <<>> /\ reports' = Tail(reports))
    PROVE  OperatorInv(t)'
<1>1. Sent' = Sent
    BY SentSame
<1>2. \A i \in 1..Len(reports') : \E k \in 1..Len(reports) : reports'[i] = reports[k]
    <2>1. reports \in Seq(Report)
        BY DEF Basics, Types
    <2>2. CASE reports # <<>> /\ reports' = Tail(reports)
        <3>1. \A i \in 1..Len(Tail(reports)) :
                 i + 1 \in 1..Len(reports) /\ Tail(reports)[i] = reports[i + 1]
            BY <2>1, <2>2, Taken
        <3> QED
            BY <2>2, <3>1
    <2>3. CASE reports' = reports
        BY <2>3
    <2> QED
        BY <2>2, <2>3
<1>3. AtAadd(t)' /\ (ItsAccess(t) => ItsAccess(t)')
    BY <1>1 DEF OperatorInv, AtAadd, ItsAccess, Its, Responds
<1> QED
    BY <1>2, <1>3 DEF OperatorInv, Operating, Its

LEMMA OperatorLose ==
    ASSUME Basics, NEW t \in Tasks, OperatorInv(t), Lose
    PROVE  OperatorInv(t)'
<1>1. /\ outbox' = <<>> /\ inbox' = <<>> /\ access' = access
      /\ pc' = [u \in Tasks |-> IF pc[u] # "stream" THEN "idle" ELSE pc[u]]
      /\ call' = [u \in Tasks |-> IF pc[u] # "stream" THEN 0 ELSE call[u]]
      /\ kind' = [u \in Tasks |-> IF pc[u] # "stream" THEN "none" ELSE kind[u]]
      /\ reports' = IF \E u \in Tasks : pc[u] = "delete0" THEN <<>> ELSE reports
    BY LoseFacts
<1>2. CASE pc[t] # "stream"
    <2>1. kind'[t] # "access" /\ pc'[t] # "aadd"
        BY <1>1, <1>2
    <2> QED
        BY <2>1, OperatorElsewhere
<1>3. CASE pc[t] = "stream"
    <2>1. pc'[t] = "stream" /\ call'[t] = call[t] /\ kind'[t] = kind[t]
        BY <1>1, <1>3
    <2>2. Sent' = {} /\ 1..Len(inbox') = {}
        <3>1. 1..Len(<<>>) = {}
            OBVIOUS
        <3> QED
            BY <1>1, <3>1 DEF Sent
    <2>3. \A i \in 1..Len(reports') : i \in 1..Len(reports) /\ reports'[i] = reports[i]
        <3>1. 1..Len(<<>>) = {}
            OBVIOUS
        <3> QED
            BY <1>1, <3>1
    <2> QED
        BY <1>1, <1>3, <2>1, <2>2, <2>3 DEF OperatorInv, AtAadd, ItsAccess, Operating, Its
<1> QED
    BY <1>2, <1>3

\* A call that begins.
LEMMA OperatorBegins ==
    ASSUME SessionAssumption, Basics, OneOperator, \A t \in Tasks : OperatorInv(t),
           NEW u \in Tasks, NEW k \in situation.kinds[u], NEW s, Begins(u, k, s),
           NEW t \in Tasks
    PROVE  OperatorInv(t)'
<1>1. Moves(u, s) /\ s # "aadd"
    BY BeginMoves DEF Basics, Begins
<1>2. CASE t # u
    BY <1>1, <1>2, OperatorOther
<1>3. CASE t = u
    <2>1. pc'[t] = s /\ pc[t] = "idle" /\ kind'[t] = k /\ s \in {"adelete", "delete0"}
             /\ (s = "delete0" => k # "access")
        <3>1. kind' = [kind EXCEPT ![t] = k] /\ pc[t] = "idle" /\ s \in {"adelete", "delete0"}
                 /\ (s = "delete0" => k # "access")
            BY <1>3 DEF Begins, Begin
        <3> QED
            BY <1>1, <1>3, <3>1, MoveSelf DEF Basics, Types
    <2>2. CASE k # "access"
        BY <2>1, <2>2, OperatorElsewhere
    <2>3. CASE s = "adelete"
        BY <2>1, <2>3 DEF OperatorInv, AtAadd, Operating, Streaming
    <2> QED
        BY <2>1, <2>2, <2>3
<1> QED
    BY <1>2, <1>3

\* A call that goes on.
LEMMA OperatorOnward ==
    ASSUME SessionAssumption, Basics, OneOperator, \A t \in Tasks : OperatorInv(t),
           NEW u \in Tasks, NEW s, Goes(u, s), NEW t \in Tasks
    PROVE  OperatorInv(t)'
<1>1. Moves(u, s) /\ s \in Edges[pc[u]] /\ pc[u] # "idle"
    BY GoesMoves DEF Basics, Goes
<1>2. /\ pc[u] \in Awaits \cup {"idle", "stream"}
      /\ pc[t] # "idle" => kind[t] \in situation.kinds[t]
      /\ kind[u] \in situation.kinds[u]
      /\ pc[t] = "idle" => kind[t] = "none"
      /\ pc[t] = "aadd" => kind[t] = "access"
      /\ pc[u] \in {"adelete", "aadd"} => kind[u] = "access"
    BY <1>1 DEF Basics, Types, TaskInv
<1>3. CASE t # u
    <2>1. CASE s = "aadd"
        <3>1. pc[u] = "adelete"
            BY <1>1, <1>2, <2>1 DEF Edges, Awaits, Request
        <3>2. kind[t] # "access"
            BY <1>2, <1>3, <3>1 DEF OneOperator
        <3>3. kind'[t] # "access" /\ pc'[t] # "aadd"
            BY <1>1, <1>2, <1>3, <3>2, MoveOthers DEF Basics
        <3> QED
            BY <3>3, OperatorElsewhere
    <2> QED
        BY <1>1, <1>3, <2>1, OperatorOther
<1>4. CASE t = u
    <2>1. pc'[t] = s /\ kind'[t] = IF s = "idle" THEN "none" ELSE kind[t]
        <3>1. kind' = [kind EXCEPT ![t] = IF s = "idle" THEN "none" ELSE @]
            BY <1>4 DEF Goes, Advance
        <3> QED
            BY <1>1, <1>4, <3>1, MoveSelf DEF Basics, Types
    <2>2. CASE s = "idle"
        BY <2>1, <2>2, OperatorElsewhere
    <2>3. CASE s = "aadd"
        BY <1>1, <1>4, <2>3, OperatorAadd
    <2>4. CASE s = "aenable"
        <3>1. pc[t] = "aadd"
            BY <1>1, <1>2, <1>4, <2>4 DEF Edges, Awaits, Request
        <3>2. Hears(t) /\ Head(inbox).ok
            BY <1>4, <2>4, <3>1 DEF Goes, Checked
        <3> QED
            BY <1>4, <2>4, <3>1, <3>2, OperatorEnable
    <2>5. CASE s \notin {"idle", "aadd", "aenable"} /\ kind[t] = "access"
        BY <1>4, <2>5, OperatorGoes
    <2>6. CASE s \notin {"idle", "aadd", "aenable"} /\ kind[t] # "access"
        BY <2>1, <2>6, OperatorElsewhere
    <2> QED
        BY <2>2, <2>3, <2>4, <2>5, <2>6
<1> QED
    BY <1>3, <1>4

\* The record of the AccessSpec.
LEMMA RecordStep ==
    ASSUME SessionAssumption, Basics, AccessInv, [Next]_svars
    PROVE  (access'.enabled => access'.call # 0) /\ (access'.call = 0 => access' = NoAccess)
<1>1. /\ access.enabled => access.call # 0
      /\ access.call = 0 => access = NoAccess
      /\ access \in [call : Nat, conn : Nat, enabled : BOOLEAN]
    BY DEF AccessInv, Basics, Types
<1>2. CASE access' \in {access, NoAccess}
    BY <1>1, <1>2 DEF NoAccess
<1>3. CASE Serve
    <2>1. PICK r \in Sent :
             /\ r.call \in 1..calls
             /\ access' = CASE r.op = "AADD" /\ access = NoAccess ->
                                  [call |-> r.call, conn |-> conn, enabled |-> FALSE]
                            [] r.op = "AENABLE" /\ access # NoAccess ->
                                  [access EXCEPT !.enabled = TRUE]
                            [] r.op = "ADEL" -> NoAccess
                            [] OTHER -> access
        BY <1>3, ServeFacts
    <2>2. CASE r.op = "AADD" /\ access = NoAccess
        <3>1. access' = [call |-> r.call, conn |-> conn, enabled |-> FALSE]
            BY <2>1, <2>2
        <3> QED
            BY <2>1, <3>1 DEF Basics, Types
    <2>3. CASE r.op = "AENABLE" /\ access # NoAccess
        <3>1. access' = [access EXCEPT !.enabled = TRUE]
            BY <2>1, <2>3
        <3> QED
            BY <1>1, <2>3, <3>1
    <2>4. CASE r.op = "ADEL"
        BY <1>2, <2>1, <2>4
    <2>5. CASE /\ ~(r.op = "AADD" /\ access = NoAccess)
               /\ ~(r.op = "AENABLE" /\ access # NoAccess) /\ r.op # "ADEL"
        BY <1>2, <2>1, <2>5
    <2> QED
        BY <2>2, <2>3, <2>4, <2>5
<1>4. ASSUME NEW t \in Tasks, NEW s, Moves(t, s)
      PROVE  access' = access
    BY <1>4 DEF Moves, reader
<1>5. ASSUME NEW t \in Tasks, NEW k \in situation.kinds[t], NEW s, Begins(t, k, s)
      PROVE  access' = access
    BY <1>4, <1>5, BeginMoves DEF Basics
<1>6. ASSUME NEW t \in Tasks, NEW s, Goes(t, s)
      PROVE  access' = access
    BY <1>4, <1>6, GoesMoves DEF Basics
<1>7. CASE ReadTag
    BY <1>2, <1>7, ReadFacts DEF Basics
<1>8. CASE Dispatch \/ Lose \/ Reconnect \/ EdgeStep \/ UNCHANGED svars
    BY <1>2, <1>8, DispatchFacts, LoseFacts, EdgeFacts DEF Basics, Reconnect, svars, reader
<1>9. ASSUME NEW t \in Tasks, Yields(t)
      PROVE  access' = access
    BY <1>9 DEF Yields, reader
<1> QED
    BY <1>2, <1>3, <1>5, <1>6, <1>7, <1>8, <1>9, StepCases

LEMMA AccessStep ==
    ASSUME SessionAssumption, Basics, AccessInv, [Next]_svars
    PROVE  AccessInv'
<1>1. situation' = situation
    BY StepCases
<1>2. ASSUME OneOperator, NEW t \in Tasks
      PROVE  OperatorInv(t)'
    <2>1. \A u \in Tasks : OperatorInv(u)
        BY <1>2 DEF AccessInv
    <2>2. ASSUME NEW u \in Tasks, NEW k \in situation.kinds[u], NEW s, Begins(u, k, s)
          PROVE  OperatorInv(t)'
        BY <1>2, <2>1, <2>2, OperatorBegins
    <2>3. ASSUME NEW u \in Tasks, NEW s, Goes(u, s)
          PROVE  OperatorInv(t)'
        BY <1>2, <2>1, <2>3, OperatorOnward
    <2>4. ASSUME NEW u \in Tasks, Yields(u)
          PROVE  OperatorInv(t)'
        <3>1. UNCHANGED <<pc, kind, call, awaits, inbox, outbox, access>>
            BY <2>4 DEF Yields, tasks, reader
        <3> QED
            BY <2>1, <2>4, <3>1, OperatorQuiet DEF Yields
    <2>5. CASE EdgeStep \/ Reconnect \/ UNCHANGED svars
        <3>1. UNCHANGED <<reports, pc, kind, call, awaits, inbox, outbox, access>>
            BY <2>5, EdgeFacts DEF Reconnect, svars, tasks, reader, Basics
        <3> QED
            BY <2>1, <3>1, OperatorQuiet
    <2> QED
        BY <2>1, <2>2, <2>3, <2>4, <2>5, StepCases,
           OperatorDispatch, OperatorLose, OperatorServe, OperatorRead
<1>3. OneOperator' <=> OneOperator
    BY <1>1 DEF OneOperator
<1>4. (access'.enabled => access'.call # 0) /\ (access'.call = 0 => access' = NoAccess)
    BY RecordStep
<1>5. OneOperator' => \A t \in Tasks : OperatorInv(t)'
    BY <1>2, <1>3
<1> QED
    BY <1>4, <1>5 DEF AccessInv, OneOperator, NoAccess

(***************************************************************************)
(* The theorems.                                                           *)
(***************************************************************************)

LEMMA InitInv ==
    ASSUME SessionAssumption, SessionInit
    PROVE  Inv
<1>1. /\ active = FALSE /\ reports = <<>>
      /\ pc = [t \in Tasks |-> "idle"] /\ kind = [t \in Tasks |-> "none"]
      /\ call = [t \in Tasks |-> 0] /\ born = [t \in Tasks |-> 0]
      /\ awaits = [t \in Tasks |-> 0] /\ cancelled = [t \in Tasks |-> FALSE]
      /\ conn = 1 /\ outbox = <<>> /\ inbox = <<>>
      /\ rospecs = NoROSpecs /\ access = NoAccess
      /\ calls = 0 /\ reqs = 0 /\ reported = 0 /\ conns = 1
      /\ situation \in Situations
    BY DEF SessionInit
<1>2. /\ Len(reports) = 0 /\ Len(inbox) = 0 /\ Sent = {}
      /\ DOMAIN rospecs = {} /\ rospecs \in [DOMAIN rospecs -> ROSpecEntry]
    BY <1>1, SentNothing DEF NoROSpecs
<1>3. /\ QueueSize \in Nat /\ situation.calls \in Nat /\ situation.reports \in Nat
      /\ situation.conns \in Nat \ {0}
    BY <1>1 DEF SessionAssumption
<1>4. "idle" \notin Awaits /\ "idle" \notin Streaming
    BY DEF Awaits, Request, Streaming
<1>5. Types
    <2>1. reports \in Seq(Report) /\ outbox \in Seq(RequestMsg) /\ inbox \in Seq(Msg)
        BY <1>1
    <2>2. access \in [call : Nat, conn : Nat, enabled : BOOLEAN]
        BY <1>1 DEF NoAccess
    <2>3. /\ pc \in [Tasks -> Awaits \cup {"idle", "stream"}]
          /\ kind \in [Tasks -> {"none", "inventory", "gated", "access"}]
          /\ call \in [Tasks -> Nat] /\ born \in [Tasks -> Nat] /\ awaits \in [Tasks -> Nat]
          /\ cancelled \in [Tasks -> BOOLEAN]
        BY <1>1
    <2>4. /\ DOMAIN rospecs \subseteq {RoId}
          /\ calls \in Nat /\ reqs \in Nat /\ reported \in Nat
          /\ conns \in Nat \ {0} /\ conn \in {0, conns}
        BY <1>1, <1>2
    <2>5. situation \in Situations /\ active \in BOOLEAN
        BY <1>1, Zenon
    <2> QED
        BY <1>2, <2>1, <2>2, <2>3, <2>4, <2>5, Zenon DEF Types, Msg
<1>6. Bounds
    BY <1>1, <1>2, <1>3 DEF Bounds, NoAccess
<1>7. OrderInv
    BY <1>1, <1>2 DEF OrderInv
<1>8. TaskInv
    BY <1>1, <1>2, <1>4 DEF TaskInv
<1>9. OneStream
    BY <1>1, <1>4 DEF OneStream
<1>10. StageInv
    BY <1>1 DEF StageInv
<1>11. CleanInv
    BY <1>1, <1>2 DEF CleanInv, EndsEmpty
<1>12. AccessInv
    BY <1>1, <1>4 DEF AccessInv, OperatorInv, AtAadd, Operating, NoAccess
<1>13. DisarmInv
    BY <1>1, <1>2 DEF DisarmInv, EndsDisarmed, NoAccess
<1> QED
    BY <1>5, <1>6, <1>7, <1>8, <1>9, <1>10, <1>11, <1>12, <1>13 DEF Inv

LEMMA NextInv ==
    ASSUME SessionAssumption, Inv, [Next]_svars
    PROVE  Inv'
BY BasicsStep, StreamStep, StageStep, CleanStep, AccessStep, DisarmStep DEF Inv, Basics

\* Every state of every execution satisfies the inductive invariant: numbered
\* requests in order, one stream, and what each script relies on at each await.
THEOREM Invariance == Spec => []Inv
<1>1. SessionInit => Inv
    BY InitInv, SessionAssumption
<1>2. Inv /\ [Next]_svars => Inv'
    BY NextInv, SessionAssumption
<1> QED
    BY <1>1, <1>2, PTL DEF Spec

LEMMA InvTypeOK ==
    ASSUME SessionAssumption, Inv
    PROVE  TypeOK
<1>1. Types /\ Bounds /\ OrderInv
    BY DEF Inv
<1>2. /\ call \in [Tasks -> 0..calls] /\ born \in [Tasks -> 0..conns]
      /\ awaits \in [Tasks -> 0..reqs]
    BY <1>1 DEF Types, Bounds
<1>3. /\ calls \in 0..situation.calls /\ conns \in 1..situation.conns
      /\ reported \in 0..situation.reports
    BY <1>1 DEF Types, Bounds, SessionAssumption
<1>4. access \in [call : 0..calls, conn : 0..conns, enabled : BOOLEAN]
    BY <1>1 DEF Types, Bounds
<1>5. \A i \in 1..Len(outbox) : outbox[i].req \in 1..reqs
    BY <1>1 DEF OrderInv, Sent
<1>6. \A i \in 1..Len(inbox) : inbox[i].kind \in {"response", "report"}
    BY <1>1 DEF Types, ResponseMsg, ReportMsg
<1> QED
    BY <1>1, <1>2, <1>3, <1>4, <1>5, <1>6 DEF TypeOK, Types, Bounds

LEMMA InvServed ==
    ASSUME Inv, ~situation.slow
    PROVE  Served
<1> SUFFICES ASSUME NEW t \in Tasks, pc[t] = "stream", born[t] = conn
             PROVE  /\ RoId \in DOMAIN rospecs
                    /\ rospecs[RoId].spec.call = call[t]
                    /\ rospecs[RoId].state \in IF kind[t] = "gated" THEN {"Enabled", "Active"}
                                                                    ELSE {"Active"}
    BY DEF Served
<1>1. conn # 0
    BY DEF Inv, TaskInv
<1>2. AfterAdd(t)
    BY <1>1 DEF Inv, StageInv, Stage
<1> QED
    BY <1>2 DEF AfterAdd, Mine

\* One stream at a time, its flag up exactly while it runs, and while the
\* reader answers in time, the ROSpec of a stream is on the reader and runs.
THEOREM Streams == Spec => []StreamRuns
<1>1. Inv => StreamRuns
    BY InvTypeOK, InvServed, SessionAssumption DEF StreamRuns, Inv
<1> QED
    BY <1>1, Invariance, PTL

LEMMA InvCleaned ==
    ASSUME Inv
    PROVE  Cleaned
<1> SUFFICES ASSUME Quiet, ~situation.slow, "stop" \notin situation.cancel
             PROVE  rospecs = NoROSpecs
    BY DEF Cleaned
<1>1. /\ conn # 0 /\ Sent = {}
      /\ \A t \in Tasks : pc[t] \notin Streaming \cup {"stop"}
    BY SentNothing DEF Quiet, Streaming
<1>2. DOMAIN rospecs = {}
    BY <1>1 DEF Inv, CleanInv, EndsEmpty
<1>3. rospecs \in [DOMAIN rospecs -> ROSpecEntry]
    BY DEF Inv, Types
<1> QED
    BY <1>2, <1>3 DEF NoROSpecs

\* No ROSpec is left on the reader by a stream, however it ended, if the
\* reader answers in time and the STOP_ROSPEC of the teardown is not cancelled.
THEOREM LeavesNothing == Spec => []Cleaned
<1>1. Inv => Cleaned
    BY InvCleaned
<1> QED
    BY <1>1, Invariance, PTL

\* At most one task calls the tag operations: their AccessSpec has one ID, and
\* each begins with the deletion of whatever AccessSpec the reader has.
OneAtATime ==
    \A s \in Situations : \A t, u \in Tasks :
        "access" \in s.kinds[t] /\ "access" \in s.kinds[u] => t = u

LEMMA OperatorsOne ==
    ASSUME Inv, OneAtATime
    PROVE  OneOperator
BY DEF Inv, Types, OneAtATime, OneOperator

\* A stream yields only what its own ROSpec reported, and a tag operation
\* returns only the result of its own AccessSpec.
THEOREM Answers ==
    ASSUME OneAtATime
    PROVE  Spec => OwnAnswers
<1> DEFINE A == \A t \in Tasks : TakeReport(t) =>
                   /\ ~situation.slow /\ born[t] = conn => Head(reports).call = call[t]
                   /\ kind[t] = "access" /\ Head(reports).op # 0 => Head(reports).op = call[t]
<1>1. Inv => [A]_svars
    <2>1. SUFFICES ASSUME Inv, NEW t \in Tasks, TakeReport(t)
                   PROVE  /\ ~situation.slow /\ born[t] = conn => Head(reports).call = call[t]
                          /\ kind[t] = "access" /\ Head(reports).op # 0
                                => Head(reports).op = call[t]
        OBVIOUS
    <2>2. pc[t] = "stream" /\ reports # <<>> /\ reports \in Seq(Report)
        BY <2>1 DEF TakeReport, Inv, Types
    <2>3. 1 \in 1..Len(reports) /\ Head(reports) = reports[1]
        BY <2>2, Taken
    <2>4. ASSUME ~situation.slow, born[t] = conn
          PROVE  Head(reports).call = call[t]
        <3>1. conn # 0
            BY <2>1, <2>2, <2>4 DEF Inv, TaskInv
        <3>2. OwnReports(t)
            BY <2>1, <2>4, <3>1 DEF Inv, StageInv, Stage
        <3> QED
            BY <2>2, <2>3, <3>2 DEF OwnReports
    <2>5. ASSUME kind[t] = "access", Head(reports).op # 0
          PROVE  Head(reports).op = call[t]
        <3>1. OperatorInv(t)
            BY <2>1, OperatorsOne DEF Inv, AccessInv
        <3>2. "stream" \in Streaming \ {"delete0"}
            BY DEF Streaming
        <3> QED
            BY <2>2, <2>3, <2>5, <3>1, <3>2 DEF OperatorInv, Its
    <2> QED
        BY <2>4, <2>5
<1>2. OwnAnswers <=> [][A]_svars
    BY DEF OwnAnswers
<1> HIDE DEF A
<1> QED
    BY <1>1, <1>2, Invariance, PTL

\* An AccessSpec of this connection is executed only while the call that added
\* it is under way, or with the DELETE_ACCESSSPEC that ends it on its way.
THEOREM NothingLate ==
    ASSUME OneAtATime
    PROVE  Spec => NoLateExecution
<1> DEFINE A == ReadTag /\ access.enabled /\ access.conn = conn =>
                   \/ \E t \in Tasks : call[t] = access.call
                   \/ \E i \in 1..Len(outbox) : outbox[i].op = "ADEL"
<1>1. Inv => [A]_svars
    <2>1. SUFFICES ASSUME Inv, ReadTag, access.enabled, access.conn = conn
                   PROVE  \/ \E t \in Tasks : call[t] = access.call
                          \/ \E i \in 1..Len(outbox) : outbox[i].op = "ADEL"
        OBVIOUS
    <2>2. conn # 0
        BY <2>1 DEF ReadTag
    <2>3. EndsDisarmed \/ \E t \in Tasks : Operating(t)
        BY <2>1, <2>2 DEF Inv, DisarmInv
    <2>4. CASE EndsDisarmed
        BY <2>1, <2>4 DEF EndsDisarmed, Sent
    <2>5. ASSUME NEW t \in Tasks, Operating(t)
          PROVE  call[t] = access.call
        <3>1. ItsAccess(t)
            BY <2>1, <2>5, OperatorsOne DEF Inv, AccessInv, OperatorInv
        <3>2. access.call # 0
            BY <2>1 DEF Inv, AccessInv
        <3> QED
            BY <3>1, <3>2 DEF ItsAccess, Its
    <2> QED
        BY <2>3, <2>4, <2>5
<1>2. NoLateExecution <=> [][A]_svars
    BY DEF NoLateExecution
<1> HIDE DEF A
<1> QED
    BY <1>1, <1>2, Invariance, PTL
=============================================================================
