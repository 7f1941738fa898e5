-------------------------- MODULE DashboardProofs --------------------------
(***************************************************************************)
(* Dashboard proved for any number of overlapping requests.  What holds    *)
(* whoever starts an inventory comes first (Inv), what needs the starts to *)
(* come one at a time second (Owned).                                      *)
(***************************************************************************)
EXTENDS Dashboard, TLAPS

Tasks == 1..MaxRequests

\* The task a waiting request will create has not been created, and no other
\* request will create it.
Fresh ==
    /\ \A k \in Tasks : k > served => state[k] = "none"
    /\ current # 0 => state[current] # "none"
    /\ \A r \in Requests : pc[r] = "stopping" =>
          number[r] \in 1..served /\ state[number[r]] = "none"
    /\ \A r, q \in Requests :
          pc[r] = "stopping" /\ pc[q] = "stopping" /\ number[r] = number[q] => r = q

\* Who waits for a task, and who removes the reader.
Waiting ==
    /\ \A r \in Requests : awaited[r] # 0 => pc[r] = "stopping"
    /\ \A r \in Requests : pc[r] = "stopping" => op[r] \in Ops \ {"tag"}
    /\ \A r \in Requests : op[r] = "remove" => pc[r] \in {"stopping", "closing"}

Inv == TypeOK /\ Fresh /\ Waiting /\ FlagIsTrue /\ RosterCurrent

LEMMA InitInv == DashboardInit => Inv
<1> SUFFICES ASSUME DashboardInit PROVE Inv
    OBVIOUS
<1> USE DashboardAssumption DEF DashboardInit
<1>1. TypeOK
    <2>1. 0 \in 0..MaxPolicies /\ 0 \in 0..MaxRequests /\ 0 \in 0..served
        OBVIOUS
    <2> QED
        BY <2>1 DEF TypeOK, Ops
<1>2. Fresh /\ Waiting /\ RosterCurrent
    BY DEF Fresh, Waiting, RosterCurrent, Tasks
<1>3. FlagIsTrue
    BY DEF FlagIsTrue, Streams, Reads
<1> QED
    BY <1>1, <1>2, <1>3 DEF Inv

(***************************************************************************)
(* stop_inventory() by a request that arrives.                             *)
(***************************************************************************)

\* What it does to the tasks and to the other requests.
LEMMA StopEffect ==
    ASSUME TypeOK, Fresh, NEW r \in Requests, NEW what \in Ops \ {"tag"},
           Arrive(r), StopInventory(r, what)
    PROVE  /\ served \in Nat /\ served' = served + 1 /\ served + 1 \in Tasks
           /\ state[served + 1] = "none"
           /\ pc[r] = "idle" /\ number' = [number EXCEPT ![r] = served + 1]
           /\ \/ /\ current \in Tasks /\ current <= served /\ state[current] # "done"
                 /\ current' = 0 /\ At(r, "stopping", what, current) /\ Cancel(current)
                 /\ shown' = shown
              \/ /\ ~Running /\ active' = active
                 /\ what \in {"start", "policy"}
                 /\ current' = served + 1 /\ At(r, "idle", "none", 0)
                 /\ state' = [state EXCEPT ![served + 1] = "ready"]
                 /\ shown' = listed'
              \/ /\ ~Running /\ active' = active
                 /\ what = "stop"
                 /\ current' = 0 /\ At(r, "idle", "none", 0) /\ state' = state
                 /\ shown' = listed'
              \/ /\ ~Running /\ active' = active
                 /\ what = "remove"
                 /\ current' = 0 /\ At(r, "closing", "remove", 0) /\ state' = state
                 /\ shown' = shown
<1> USE DashboardAssumption DEF Tasks
<1>1. /\ served \in Nat /\ served' = served + 1 /\ served + 1 \in Tasks
      /\ state[served + 1] = "none"
      /\ pc[r] = "idle" /\ number' = [number EXCEPT ![r] = served + 1]
      /\ number'[r] = served + 1
    BY DEF Arrive, TypeOK, Fresh
<1>2. CASE Running
    BY <1>1, <1>2 DEF StopInventory, Running, TypeOK
<1>3. CASE ~Running
    <2>1. Proceed(r, what, 0) /\ active' = active
        BY <1>3 DEF StopInventory
    <2> QED
        BY <1>1, <1>3, <2>1 DEF Proceed, Create, Return, Publish
<1> QED
    BY <1>1, <1>2, <1>3

\* One request changes its place, the others keep theirs.
LEMMA AtEffect ==
    ASSUME TypeOK, NEW r \in Requests, NEW where, NEW what, NEW task, At(r, where, what, task)
    PROVE  /\ pc'[r] = where /\ op'[r] = what /\ awaited'[r] = task
           /\ \A q \in Requests \ {r} :
                 pc'[q] = pc[q] /\ op'[q] = op[q] /\ awaited'[q] = awaited[q]
BY DEF At, TypeOK

\* The types it preserves.
RequestType ==
    /\ served \in 0..MaxRequests /\ current \in 0..served
    /\ state \in [1..MaxRequests -> {"none", "ready", "streaming", "teardown", "done"}]
    /\ active \in BOOLEAN
    /\ pc \in [Requests -> {"idle", "stopping", "closing", "arming", "reading", "unwinding"}]
    /\ op \in [Requests -> Ops \cup {"none"}]
    /\ awaited \in [Requests -> 0..served] /\ number \in [Requests -> 0..served]

LEMMA StopTypes ==
    ASSUME TypeOK, Fresh, NEW r \in Requests, NEW what \in Ops \ {"tag"},
           Arrive(r), StopInventory(r, what)
    PROVE  RequestType'
<1> USE DashboardAssumption DEF Tasks
<1>1. /\ served \in Nat /\ served' = served + 1 /\ served + 1 \in Tasks
      /\ number' = [number EXCEPT ![r] = served + 1]
    BY StopEffect
<1>2. /\ served' \in 0..MaxRequests /\ 0..served \subseteq 0..served' /\ served' \in 0..served'
    BY <1>1
<1>3. /\ number' \in [Requests -> 0..served']
    BY <1>1, <1>2 DEF TypeOK
<1>4. current' \in 0..served'
    BY <1>1, <1>2, StopEffect
<1>5. /\ pc' \in [Requests -> {"idle", "stopping", "closing", "arming", "reading", "unwinding"}]
      /\ op' \in [Requests -> Ops \cup {"none"}]
    <2>1. PICK w \in {"idle", "stopping", "closing"}, x \in Ops \cup {"none"} :
            pc' = [pc EXCEPT ![r] = w] /\ op' = [op EXCEPT ![r] = x]
        <3>1. what \in Ops \cup {"none"} /\ "none" \in Ops \cup {"none"}
              /\ "remove" \in Ops \cup {"none"}
            BY DEF Ops
        <3> QED
            BY <3>1, StopEffect DEF At
    <2> QED
        BY <2>1 DEF TypeOK
<1>6. awaited' \in [Requests -> 0..served']
    <2>1. PICK k \in 0..served' : awaited' = [awaited EXCEPT ![r] = k]
        BY <1>1, <1>2, StopEffect DEF At
    <2> QED
        BY <1>2, <2>1 DEF TypeOK
<1>7. /\ state' \in [1..MaxRequests -> {"none", "ready", "streaming", "teardown", "done"}]
      /\ active' \in BOOLEAN
    <2>1. \/ Cancel(current)
          \/ state' = [state EXCEPT ![served + 1] = "ready"] /\ active' = active
          \/ state' = state /\ active' = active
        BY StopEffect
    <2>2. CASE Cancel(current)
        BY <2>2 DEF Cancel, TypeOK
    <2>3. CASE ~Cancel(current)
        BY <2>1, <2>3 DEF TypeOK
    <2> QED
        BY <2>2, <2>3
<1> QED
    BY <1>2, <1>3, <1>4, <1>5, <1>6, <1>7 DEF RequestType

LEMMA StopFresh ==
    ASSUME TypeOK, Fresh, Waiting, NEW r \in Requests, NEW what \in Ops \ {"tag"},
           Arrive(r), StopInventory(r, what)
    PROVE  Fresh' /\ Waiting'
<1> USE DashboardAssumption DEF Tasks
<1>1. /\ served \in Nat /\ served' = served + 1 /\ served + 1 \in Tasks
      /\ state[served + 1] = "none" /\ pc[r] = "idle"
    BY StopEffect
<1>2. /\ number'[r] = served + 1
      /\ \A q \in Requests \ {r} : number'[q] = number[q]
    BY StopEffect DEF TypeOK
<1>3. \A q \in Requests \ {r} : pc'[q] = pc[q] /\ op'[q] = op[q] /\ awaited'[q] = awaited[q]
    BY StopEffect, AtEffect
<1>4. \A k \in Tasks : state[k] = "none" /\ k # served + 1 => state'[k] = "none"
    <2>1. ASSUME current \in Tasks, Cancel(current), NEW k \in Tasks, state[k] = "none"
          PROVE  state'[k] = "none"
        <3>1. current # 0 /\ state[current] # "none"
            BY <2>1 DEF Fresh
        <3> QED
            BY <2>1, <3>1 DEF Cancel, TypeOK
    <2>2. \/ current \in Tasks /\ Cancel(current)
          \/ state' = [state EXCEPT ![served + 1] = "ready"]
          \/ state' = state
        BY StopEffect
    <2> QED
        BY <2>1, <2>2 DEF TypeOK
<1>5. pc'[r] = "stopping" => state'[served + 1] = "none"
    <2>1. ASSUME pc'[r] = "stopping"
          PROVE  current <= served /\ Cancel(current)
        BY <2>1, StopEffect, AtEffect
    <2>2. served + 1 \in DOMAIN state
        BY <1>1 DEF TypeOK
    <2> QED
        BY <1>1, <2>1, <2>2 DEF Cancel, TypeOK
<1>6. Fresh'
    <2>1. current' # 0 => state'[current'] # "none"
        BY <1>1, StopEffect DEF Cancel, TypeOK
    <2> QED
        BY <1>1, <1>2, <1>3, <1>4, <1>5, <2>1 DEF Fresh
<1>7. /\ awaited'[r] # 0 => pc'[r] = "stopping"
      /\ pc'[r] = "stopping" => op'[r] \in Ops \ {"tag"}
      /\ op'[r] = "remove" => pc'[r] \in {"stopping", "closing"}
    BY StopEffect DEF At, TypeOK, Ops
<1> QED
    BY <1>3, <1>6, <1>7 DEF Waiting

\* No stream survives stop_inventory(), and none but its own is touched.
LEMMA StopFlag ==
    ASSUME TypeOK, Fresh, FlagIsTrue, NEW r \in Requests, NEW what \in Ops \ {"tag"},
           Arrive(r), StopInventory(r, what)
    PROVE  FlagIsTrue'
<1> USE DashboardAssumption DEF Tasks
<1>1. /\ pc[r] = "idle" /\ pc'[r] # "reading"
      /\ \A q \in Requests \ {r} : pc'[q] = pc[q]
    BY StopEffect, AtEffect
<1>2. Reads' = Reads
    BY <1>1 DEF Reads
<1>3. CASE current \in Tasks /\ Cancel(current)
    <2>1. /\ \A k \in Tasks \ {current} : state'[k] = state[k]
          /\ state'[current] # "streaming"
          /\ active' = (active /\ state[current] # "streaming")
        BY <1>3 DEF Cancel, TypeOK
    <2>2. Streams' = Streams \ {current}
        BY <1>3, <2>1 DEF Streams
    <2>3. current \in Streams <=> state[current] = "streaming"
        BY <1>3 DEF Streams
    <2>4. active' <=> Streams' \cup Reads # {}
        BY <2>1, <2>2, <2>3 DEF FlagIsTrue
    <2> QED
        BY <1>2, <2>2, <2>4 DEF FlagIsTrue
<1>4. CASE active' = active /\ (state' = state \/ state' = [state EXCEPT ![served + 1] = "ready"])
    <2>1. served + 1 \in Tasks /\ state[served + 1] = "none"
        BY StopEffect
    <2>2. Streams' = Streams
        BY <1>4, <2>1 DEF Streams, TypeOK
    <2> QED
        BY <1>2, <1>4, <2>2 DEF FlagIsTrue
<1> QED
    BY <1>3, <1>4, StopEffect

\* A request that is not a removal leaves the roster right.
LEMMA StopRoster ==
    ASSUME TypeOK, Fresh, Waiting, RosterCurrent,
           NEW r \in Requests, NEW what \in Ops \ {"tag"},
           Arrive(r), StopInventory(r, what), what = "remove" \/ listed' = listed
    PROVE  RosterCurrent'
<1>1. op[r] # "remove" /\ \A q \in Requests \ {r} : op'[q] = op[q]
    BY StopEffect, AtEffect DEF Waiting
<1>2. CASE what = "remove"
    <2>1. op'[r] = "remove"
        BY <1>2, StopEffect, AtEffect
    <2> QED
        BY <2>1 DEF RosterCurrent
<1>3. CASE what # "remove"
    BY <1>1, <1>3, StopEffect DEF RosterCurrent
<1> QED
    BY <1>2, <1>3

\* stop_inventory() by a request that arrives, altogether.
LEMMA StopStep ==
    ASSUME Inv, NEW r \in Requests, NEW what \in Ops \ {"tag"},
           Arrive(r), StopInventory(r, what), connected' = connected, applied' = applied,
           \/ listed' = listed
           \/ what = "remove" /\ listed' = FALSE,
           policy' \in 0..MaxPolicies
    PROVE  Inv'
<1>1. RequestType' /\ Fresh' /\ Waiting' /\ FlagIsTrue' /\ RosterCurrent'
    BY StopTypes, StopFresh, StopFlag, StopRoster DEF Inv
<1>2. listed' \in BOOLEAN /\ shown' \in BOOLEAN /\ connected' \in BOOLEAN
    BY StopEffect DEF Inv, TypeOK
<1>3. applied' \in [1..MaxRequests -> 0..MaxPolicies]
    BY DEF Inv, TypeOK
<1> QED
    BY <1>1, <1>2, <1>3 DEF Inv, TypeOK, RequestType

(***************************************************************************)
(* The other steps.                                                        *)
(***************************************************************************)

\* A step of one request that neither creates, cancels nor streams.
LEMMA PlaceStep ==
    ASSUME Inv, NEW r \in Requests, NEW where, NEW what, At(r, where, what, 0),
           where \in {"idle", "arming", "unwinding", "closing"},
           what \in Ops \cup {"none"}, what = "remove" => where = "closing",
           served' \in served..MaxRequests,
           number' \in [Requests -> 0..served'],
           \A q \in Requests \ {r} : number'[q] = number[q],
           UNCHANGED <<state, current>>, connected' \in BOOLEAN, listed' = listed,
           UNCHANGED <<policy, applied>>, active' = (active /\ pc[r] # "reading"),
           \/ shown' = listed
           \/ shown' = shown /\ (op[r] = "remove" => what = "remove")
    PROVE  Inv'
<1> USE DashboardAssumption DEF Tasks
<1>1. /\ pc'[r] = where /\ op'[r] = what /\ awaited'[r] = 0
      /\ \A q \in Requests \ {r} :
            pc'[q] = pc[q] /\ op'[q] = op[q] /\ awaited'[q] = awaited[q]
    BY AtEffect DEF Inv
<1>2. served \in Nat /\ served' \in 0..MaxRequests /\ 0..served \subseteq 0..served'
    BY DEF Inv, TypeOK
<1>3. TypeOK'
    <2>1. /\ pc' \in [Requests -> {"idle", "stopping", "closing", "arming", "reading", "unwinding"}]
          /\ op' \in [Requests -> Ops \cup {"none"}]
          /\ awaited' \in [Requests -> 0..served']
        BY <1>2 DEF At, Inv, TypeOK
    <2>2. listed' \in BOOLEAN /\ shown' \in BOOLEAN /\ active' \in BOOLEAN
        BY DEF Inv, TypeOK
    <2>3. current' \in 0..served'
        BY <1>2 DEF Inv, TypeOK
    <2> QED
        BY <1>2, <2>1, <2>2, <2>3 DEF Inv, TypeOK
<1>4. Fresh'
    BY <1>1, <1>2 DEF Inv, Fresh
<1>5. Waiting'
    BY <1>1 DEF Inv, Waiting
<1>6. FlagIsTrue'
    <2>1. Streams' = Streams
        BY DEF Streams
    <2>2. Reads' = Reads \ {r}
        BY <1>1 DEF Reads
    <2>3. r \in Reads <=> pc[r] = "reading"
        BY DEF Reads
    <2> QED
        BY <2>1, <2>2, <2>3 DEF Inv, FlagIsTrue
<1>7. RosterCurrent'
    BY <1>1 DEF Inv, RosterCurrent
<1> QED
    BY <1>3, <1>4, <1>5, <1>6, <1>7 DEF Inv

\* A step of one task, as far as the requests can see.
LEMMA TaskStep ==
    ASSUME Inv, NEW k \in Tasks, Task(k)
    PROVE  Inv'
<1> USE DashboardAssumption DEF Tasks
<1>1. /\ UNCHANGED <<listed, connected, policy, current, pc, op, awaited, number, served, shown>>
      /\ state[k] \in {"ready", "streaming", "teardown"}
    BY DEF Task, Run, StreamFails, TornDown, reader, requests
<1>2. PICK x \in {"streaming", "teardown", "done"} : state' = [state EXCEPT ![k] = x]
    BY DEF Task, Run, StreamFails, TornDown
<1>3. active' \in BOOLEAN /\ applied' \in [1..MaxRequests -> 0..MaxPolicies]
    BY DEF Task, Run, StreamFails, TornDown, reader, Inv, TypeOK
<1>4. TypeOK'
    BY <1>1, <1>2, <1>3 DEF Inv, TypeOK
<1>5. state'[k] = x /\ \A l \in Tasks \ {k} : state'[l] = state[l]
    BY <1>2 DEF Inv, TypeOK
<1>6. Fresh'
    BY <1>1, <1>5 DEF Inv, Fresh, TypeOK
<1>7. Waiting' /\ RosterCurrent'
    BY <1>1 DEF Inv, Waiting, RosterCurrent
<1>8. FlagIsTrue'
    <2>1. Reads' = Reads
        BY <1>1 DEF Reads
    <2>2. CASE state'[k] = "streaming" /\ active' = TRUE /\ ~active
        <3>1. Streams' = {k} /\ Reads = {}
            BY <1>5, <2>2 DEF Streams, Inv, FlagIsTrue
        <3> QED
            BY <2>1, <2>2, <3>1 DEF FlagIsTrue
    <2>3. CASE state[k] # "streaming" /\ state'[k] # "streaming" /\ active' = active
        <3>1. Streams' = Streams
            BY <1>5, <2>3 DEF Streams
        <3> QED
            BY <2>1, <2>3, <3>1 DEF Inv, FlagIsTrue
    <2>4. CASE state[k] = "streaming" /\ state'[k] # "streaming" /\ active' = FALSE
        <3>1. Streams = {k} /\ Reads = {} /\ Streams' = {}
            BY <1>5, <2>4 DEF Streams, Inv, FlagIsTrue
        <3> QED
            BY <2>1, <2>4, <3>1 DEF FlagIsTrue
    <2> QED
        BY <1>5, <2>2, <2>3, <2>4 DEF Task, Run, StreamFails, TornDown, reader, Inv, TypeOK
<1> QED
    BY <1>4, <1>6, <1>7, <1>8 DEF Inv

\* A request goes on after the task it waited for.
LEMMA ResumeEffect ==
    ASSUME TypeOK, Fresh, Waiting, NEW r \in Requests, Resume(r)
    PROVE  /\ pc[r] = "stopping" /\ number[r] \in Tasks /\ number[r] <= served
           /\ state[number[r]] = "none" /\ state[awaited[r]] = "done"
           /\ UNCHANGED <<listed, connected, active, policy, applied, number, served>>
           /\ \/ /\ op[r] \in {"start", "policy"}
                 /\ current' = number[r] /\ state' = [state EXCEPT ![number[r]] = "ready"]
                 /\ At(r, "idle", "none", 0) /\ shown' = listed
              \/ /\ op[r] = "stop"
                 /\ UNCHANGED <<current, state>>
                 /\ At(r, "idle", "none", 0) /\ shown' = listed
              \/ /\ op[r] = "remove"
                 /\ UNCHANGED <<current, state>>
                 /\ At(r, "closing", "remove", 0) /\ shown' = shown
<1>1. /\ pc[r] = "stopping" /\ state[awaited[r]] = "done"
      /\ UNCHANGED <<listed, connected, active, policy, applied, number, served>>
      /\ Proceed(r, op[r], current)
    BY DEF Resume, reader
<1>2. number[r] \in Tasks /\ number[r] <= served /\ state[number[r]] = "none"
    BY <1>1, DashboardAssumption DEF Fresh, TypeOK, Tasks
<1> QED
    BY <1>1, <1>2 DEF Proceed, Create, Return, Publish

LEMMA ResumeStep ==
    ASSUME Inv, NEW r \in Requests, Resume(r)
    PROVE  Inv'
<1> USE DashboardAssumption DEF Tasks
<1>1. CASE UNCHANGED <<current, state>>
    <2>1. served \in Nat /\ served' = served /\ served' \in served..MaxRequests /\ pc[r] = "stopping"
        BY ResumeEffect DEF Inv, TypeOK
    <2>2. active' = (active /\ pc[r] # "reading") /\ number' = number /\ connected' = connected
        BY <2>1, ResumeEffect DEF Inv, TypeOK
    <2>3. connected' \in BOOLEAN /\ number' \in [Requests -> 0..served']
        BY <2>1, <2>2 DEF Inv, TypeOK
    <2>4. op[r] = "stop" \/ op[r] = "remove"
        <3>1. number[r] \in Tasks /\ state[number[r]] = "none" /\ state' = state
            BY <1>1, ResumeEffect DEF Inv
        <3>2. state' # [state EXCEPT ![number[r]] = "ready"]
            BY <3>1 DEF Inv, TypeOK
        <3> QED
            BY <3>2, ResumeEffect DEF Inv
    <2>5. CASE op[r] = "stop"
        <3>1. At(r, "idle", "none", 0) /\ shown' = listed
            BY <2>5, ResumeEffect DEF Inv
        <3> QED
            BY <1>1, <2>1, <2>2, <2>3, <3>1, ResumeEffect, PlaceStep DEF Inv
    <2>6. CASE op[r] = "remove"
        <3>1. At(r, "closing", "remove", 0) /\ shown' = shown /\ "remove" \in Ops
            BY <2>6, ResumeEffect DEF Inv, Ops
        <3> QED
            BY <1>1, <2>1, <2>2, <2>3, <3>1, ResumeEffect, PlaceStep DEF Inv
    <2> QED
        BY <2>4, <2>5, <2>6
<1>2. CASE /\ current' = number[r] /\ state' = [state EXCEPT ![number[r]] = "ready"]
           /\ At(r, "idle", "none", 0) /\ shown' = listed
    <2>1. /\ pc'[r] = "idle" /\ op'[r] = "none" /\ awaited'[r] = 0
          /\ \A q \in Requests \ {r} :
                pc'[q] = pc[q] /\ op'[q] = op[q] /\ awaited'[q] = awaited[q]
        BY <1>2, AtEffect DEF Inv
    <2>2. /\ pc[r] = "stopping" /\ number[r] \in Tasks /\ number[r] <= served
          /\ state[number[r]] = "none"
          /\ UNCHANGED <<listed, connected, active, policy, applied, number, served>>
        BY ResumeEffect DEF Inv
    <2>3. TypeOK'
        <3>1. state' \in [1..MaxRequests -> {"none", "ready", "streaming", "teardown", "done"}]
            BY <1>2 DEF Inv, TypeOK
        <3>2. /\ pc' \in [Requests -> {"idle", "stopping", "closing", "arming", "reading", "unwinding"}]
              /\ op' \in [Requests -> Ops \cup {"none"}]
              /\ awaited' \in [Requests -> 0..served']
            BY <1>2, <2>2 DEF At, Inv, TypeOK
        <3>3. current' \in 0..served' /\ shown' \in BOOLEAN
            BY <1>2, <2>2 DEF Inv, TypeOK
        <3> QED
            BY <2>2, <3>1, <3>2, <3>3 DEF Inv, TypeOK
    <2>4. state'[number[r]] = "ready" /\ \A l \in Tasks \ {number[r]} : state'[l] = state[l]
        BY <1>2, <2>2 DEF Inv, TypeOK
    <2>5. Fresh'
        <3>1. \A l \in Tasks : l > served' => state'[l] = "none"
            BY <2>2, <2>4 DEF Inv, Fresh, TypeOK
        <3>2. current' # 0 => state'[current'] # "none"
            BY <1>2, <2>4
        <3>3. \A q \in Requests : pc'[q] = "stopping" =>
                 q # r /\ number[q] # number[r] /\ number'[q] \in 1..served'
                 /\ state'[number[q]] = "none"
            BY <2>1, <2>2, <2>4 DEF Inv, Fresh, TypeOK
        <3> QED
            BY <2>1, <2>2, <3>1, <3>2, <3>3 DEF Inv, Fresh
    <2>6. Waiting' /\ RosterCurrent'
        BY <1>2, <2>1, <2>2 DEF Inv, Waiting, RosterCurrent
    <2>7. FlagIsTrue'
        <3>1. Streams' = Streams
            BY <2>2, <2>4 DEF Streams
        <3>2. Reads' = Reads
            BY <2>1, <2>2 DEF Reads
        <3> QED
            BY <2>2, <3>1, <3>2 DEF Inv, FlagIsTrue
    <2> QED
        BY <2>3, <2>5, <2>6, <2>7 DEF Inv
<1> QED
    BY <1>1, <1>2, ResumeEffect DEF Inv

\* The reads of a tag operation begin.
LEMMA ReadStep ==
    ASSUME Inv, NEW r \in Requests, pc[r] = "arming", connected, ~active, active' = TRUE,
           At(r, "reading", "tag", 0),
           UNCHANGED <<listed, connected, policy, inventory, shown, number, served>>
    PROVE  Inv'
<1>1. /\ pc'[r] = "reading" /\ op'[r] = "tag" /\ awaited'[r] = 0
      /\ \A q \in Requests \ {r} :
            pc'[q] = pc[q] /\ op'[q] = op[q] /\ awaited'[q] = awaited[q]
    BY AtEffect DEF Inv
<1>2. UNCHANGED <<listed, connected, policy, current, state, applied, shown, number, served>>
    BY DEF inventory
<1>3. TypeOK'
    <2>1. /\ pc' \in [Requests -> {"idle", "stopping", "closing", "arming", "reading", "unwinding"}]
          /\ op' \in [Requests -> Ops \cup {"none"}]
          /\ awaited' \in [Requests -> 0..served']
        BY <1>2 DEF At, Inv, TypeOK, Ops
    <2> QED
        BY <1>2, <2>1 DEF Inv, TypeOK
<1>4. Fresh' /\ Waiting' /\ RosterCurrent'
    BY <1>1, <1>2 DEF Inv, Fresh, Waiting, RosterCurrent
<1>5. FlagIsTrue'
    <2>1. Streams' = {} /\ Reads' = {r}
        BY <1>1, <1>2 DEF Inv, FlagIsTrue, Streams, Reads
    <2> QED
        BY <2>1 DEF FlagIsTrue
<1> QED
    BY <1>3, <1>4, <1>5 DEF Inv

\* The numbers of the requests when one arrives, and when none does.
LEMMA Numbers ==
    ASSUME TypeOK, NEW r \in Requests, Arrive(r) \/ UNCHANGED <<number, served>>
    PROVE  /\ served' \in served..MaxRequests /\ number' \in [Requests -> 0..served']
           /\ \A q \in Requests \ {r} : number'[q] = number[q]
<1>1. served \in 0..MaxRequests /\ MaxRequests \in Nat
    BY DashboardAssumption DEF TypeOK
<1>2. CASE Arrive(r)
    <2>1. served' = served + 1 /\ served < MaxRequests /\ number' = [number EXCEPT ![r] = served + 1]
        BY <1>2 DEF Arrive
    <2>2. served' \in served..MaxRequests /\ 0..served \subseteq 0..served' /\ served + 1 \in 0..served'
        BY <1>1, <2>1
    <2> QED
        BY <2>1, <2>2 DEF TypeOK
<1>3. CASE UNCHANGED <<number, served>>
    BY <1>1, <1>3 DEF TypeOK
<1> QED
    BY <1>2, <1>3

LEMMA RequestStep ==
    ASSUME Inv, NEW r \in Requests, Request(r) \/ Access(r)
    PROVE  Inv'
<1>1. CASE Start(r)
    <2>1. /\ Arrive(r) /\ StopInventory(r, "start") /\ "start" \in Ops \ {"tag"}
          /\ connected' = connected /\ applied' = applied /\ listed' = listed
          /\ policy' \in 0..MaxPolicies
        BY <1>1 DEF Start, Ops, Inv, TypeOK
    <2> QED
        BY <2>1, StopStep
<1>2. CASE Stop(r)
    <2>1. /\ Arrive(r) /\ StopInventory(r, "stop") /\ "stop" \in Ops \ {"tag"}
          /\ connected' = connected /\ applied' = applied /\ listed' = listed
          /\ policy' \in 0..MaxPolicies
        BY <1>2 DEF Stop, Ops, Inv, TypeOK
    <2> QED
        BY <2>1, StopStep
<1>3. CASE SetPolicy(r)
    <2>1. /\ Arrive(r) /\ connected' = connected /\ applied' = applied /\ listed' = listed
          /\ "policy" \in Ops \ {"tag"}
        BY <1>3 DEF SetPolicy, Ops
    <2>2. policy' \in 0..MaxPolicies
        BY <1>3, DashboardAssumption DEF SetPolicy, Inv, TypeOK
    <2>3. CASE StopInventory(r, "policy")
        BY <2>1, <2>2, <2>3, StopStep
    <2>4. CASE Publish /\ UNCHANGED <<active, current, state, pc, op, awaited>>
        <3>1. /\ served' \in served..MaxRequests /\ number' \in [Requests -> 0..served']
              /\ \A q \in Requests \ {r} : number'[q] = number[q]
            BY <2>1, Numbers DEF Inv
        <3>2. served \in Nat /\ 0..served \subseteq 0..served' /\ served' \in 0..MaxRequests
            BY <3>1 DEF Inv, TypeOK
        <3>3. pc[r] = "idle" /\ shown' = listed
            BY <2>1, <2>4 DEF Arrive, Publish
        <3>4. TypeOK'
            BY <2>1, <2>2, <2>4, <3>1, <3>2, <3>3 DEF Inv, TypeOK
        <3>5. Fresh'
            <4>1. \A k \in Tasks : k > served' => k > served
                BY <3>1, <3>2, DashboardAssumption DEF Tasks
            <4>2. \A q \in Requests : pc'[q] = "stopping" =>
                     q # r /\ number'[q] = number[q] /\ number[q] \in 1..served'
                BY <2>4, <3>1, <3>2, <3>3 DEF Inv, Fresh, TypeOK
            <4> QED
                BY <2>4, <4>1, <4>2 DEF Inv, Fresh
        <3>6. Waiting' /\ FlagIsTrue' /\ RosterCurrent'
            BY <2>1, <2>4, <3>3 DEF Inv, Waiting, FlagIsTrue, RosterCurrent, Streams, Reads
        <3> QED
            BY <3>4, <3>5, <3>6 DEF Inv
    <2> QED
        BY <1>3, <2>3, <2>4 DEF SetPolicy
<1>4. CASE Remove(r)
    <2>1. /\ Arrive(r) /\ StopInventory(r, "remove") /\ "remove" \in Ops \ {"tag"}
          /\ connected' = connected /\ applied' = applied /\ listed' = FALSE
          /\ policy' \in 0..MaxPolicies
        BY <1>4 DEF Remove, Ops, Inv, TypeOK
    <2> QED
        BY <2>1, StopStep
<1>5. CASE Resume(r)
    BY <1>5, ResumeStep
<1>6. ASSUME \/ Close(r) \/ Tag(r) \/ Unwound(r) \/ ReadEnds(r)
             \/ pc[r] = "arming" /\ Unwind(r) /\ UNCHANGED active
      PROVE  Inv'
    <2>1. /\ served' \in served..MaxRequests /\ number' \in [Requests -> 0..served']
          /\ \A q \in Requests \ {r} : number'[q] = number[q]
        <3>1. Arrive(r) \/ UNCHANGED <<number, served>>
            BY <1>6 DEF Close, Tag, Unwound, ReadEnds, Unwind
        <3> QED
            BY <3>1, Numbers DEF Inv
    <2>2. UNCHANGED <<state, current, applied, policy>> /\ listed' = listed
        BY <1>6 DEF Close, Tag, Unwound, ReadEnds, Unwind, inventory
    <2>3. active' = (active /\ pc[r] # "reading")
        <3>1. \/ pc[r] # "reading" /\ active' = active
              \/ active' = FALSE /\ pc[r] = "reading"
            BY <1>6 DEF Close, Tag, Unwound, ReadEnds, Unwind, reader, Arrive
        <3>2. active \in BOOLEAN
            BY DEF Inv, TypeOK
        <3> QED
            BY <3>1, <3>2
    <2>4. connected' \in BOOLEAN
        BY <1>6 DEF Close, Tag, Unwound, ReadEnds, Unwind, reader, Inv, TypeOK
    <2>5. CASE Close(r)
        BY <2>1, <2>2, <2>3, <2>4, <2>5, PlaceStep DEF Close, Return, Publish
    <2>6. CASE ~Close(r)
        <3>1. shown' = shown /\ op[r] # "remove"
            BY <1>6, <2>6 DEF Tag, Arrive, Unwound, ReadEnds, Unwind, Inv, Waiting
        <3>2. PICK w \in {"idle", "arming", "unwinding"}, x \in {"tag", "none"} : At(r, w, x, 0)
            BY <1>6, <2>6 DEF Tag, Return, Unwound, ReadEnds, Unwind
        <3>3. x \in Ops \cup {"none"}
            BY <3>2 DEF Ops
        <3> QED
            BY <2>1, <2>2, <2>3, <2>4, <3>1, <3>2, <3>3, PlaceStep
    <2> QED
        BY <2>5, <2>6
<1>7. CASE Armed(r)
    <2>1. CASE pc[r] = "arming" /\ Unwind(r) /\ UNCHANGED active
        BY <1>6, <2>1
    <2>2. CASE ~(pc[r] = "arming" /\ Unwind(r) /\ UNCHANGED active)
        <3>1. /\ pc[r] = "arming" /\ connected /\ ~active /\ active' = TRUE
              /\ At(r, "reading", "tag", 0)
              /\ UNCHANGED <<listed, connected, policy, inventory, shown, number, served>>
            BY <1>7, <2>2 DEF Armed
        <3> QED
            BY <3>1, ReadStep
    <2> QED
        BY <2>1, <2>2
<1>8. CASE Close(r) \/ Tag(r) \/ Unwound(r) \/ ReadEnds(r)
    BY <1>6, <1>8
<1> QED
    BY <1>1, <1>2, <1>3, <1>4, <1>5, <1>7, <1>8 DEF Request, Access

LEMMA NextInv == Inv /\ [Next]_dvars => Inv'
<1> SUFFICES ASSUME Inv, [Next]_dvars PROVE Inv'
    OBVIOUS
<1>1. CASE \E r \in Requests : Request(r) \/ Access(r)
    BY <1>1, RequestStep
<1>2. CASE \E k \in 1..MaxRequests : Task(k)
    BY <1>2, TaskStep DEF Tasks
<1>3. CASE Lose \/ UNCHANGED dvars
    <2>1. /\ connected' \in BOOLEAN
          /\ UNCHANGED <<listed, active, policy, current, state, applied, pc, op, awaited,
                         number, served, shown>>
        BY <1>3 DEF Lose, dvars, reader, inventory, requests, Inv, TypeOK
    <2>2. TypeOK'
        BY <2>1 DEF Inv, TypeOK
    <2>3. Fresh' /\ Waiting' /\ RosterCurrent'
        BY <2>1 DEF Inv, Fresh, Waiting, RosterCurrent
    <2>4. FlagIsTrue'
        BY <2>1 DEF Inv, FlagIsTrue, Streams, Reads
    <2> QED
        BY <2>2, <2>3, <2>4 DEF Inv
<1> QED
    BY <1>1, <1>2, <1>3 DEF Next

\* Requests that overlap on a reader keep the types of everything modelled.
THEOREM DashboardTypes == Spec => []TypeOK
BY InitInv, NextInv, PTL DEF Spec, Inv

\* However many requests start, stop, restart, remove and operate on tags at
\* the same time, the reader has one inventory, and its flag says so.
THEOREM FlagStaysTrue == Spec => []FlagIsTrue
BY InitInv, NextInv, PTL DEF Spec, Inv

\* The roster the subscribers saw last is right whenever no remove() is under
\* way, however the goodbye went.
THEOREM RosterStaysCurrent == Spec => []RosterCurrent
BY InitInv, NextInv, PTL DEF Spec, Inv

(***************************************************************************)
(* A task that a request awaits is left alone.                             *)
(***************************************************************************)

\* What is awaited was cancelled, and is forgotten: the next stop is for another task.
Parted ==
    \A r \in Requests : awaited[r] # 0 =>
        awaited[r] # current /\ state[awaited[r]] \in {"teardown", "done"}

\* No task that is awaited changes.
Undisturbed == \A r \in Requests : awaited[r] # 0 => state'[awaited[r]] = state[awaited[r]]

\* A step of one request, by what it does to the tasks: nothing, a new one, or the one
\* that is running cancelled.
LEMMA PartedStep ==
    ASSUME Inv, Parted, NEW r \in Requests,
           \A q \in Requests \ {r} : awaited'[q] = awaited[q],
           \/ awaited'[r] = 0 /\ state' = state /\ current' \in {0, current}
           \/ /\ awaited'[r] = 0
              /\ \E k \in Tasks : /\ state[k] = "none" /\ current' = k
                                  /\ state' = [state EXCEPT ![k] = "ready"]
           \/ /\ awaited[r] = 0 /\ current \in Tasks /\ current' = 0
              /\ awaited'[r] = current /\ Cancel(current)
    PROVE  Parted' /\ Undisturbed
<1> USE DashboardAssumption DEF Tasks
<1>1. \A q \in Requests : awaited[q] # 0 => awaited[q] \in Tasks
    BY DEF Inv, TypeOK
<1>2. CASE awaited'[r] = 0 /\ state' = state /\ current' \in {0, current}
    BY <1>2 DEF Parted, Undisturbed
<1>3. CASE /\ awaited'[r] = 0
           /\ \E k \in Tasks : /\ state[k] = "none" /\ current' = k
                               /\ state' = [state EXCEPT ![k] = "ready"]
    <2>1. PICK k \in Tasks : /\ state[k] = "none" /\ current' = k
                             /\ state' = [state EXCEPT ![k] = "ready"]
        BY <1>3
    <2>2. \A q \in Requests : awaited[q] # 0 => awaited[q] # k
        BY <2>1 DEF Parted
    <2> QED
        BY <1>1, <1>3, <2>1, <2>2 DEF Parted, Undisturbed, Inv, TypeOK
<1>4. CASE /\ awaited[r] = 0 /\ current \in Tasks /\ current' = 0
           /\ awaited'[r] = current /\ Cancel(current)
    <2>1. /\ state'[current] \in {"teardown", "done"}
          /\ \A k \in Tasks \ {current} : state'[k] = state[k]
        BY <1>4 DEF Cancel, Inv, TypeOK
    <2> QED
        BY <1>1, <1>4, <2>1 DEF Parted, Undisturbed
<1> QED
    BY <1>2, <1>3, <1>4

LEMMA StopParted ==
    ASSUME Inv, Parted, NEW r \in Requests, NEW what \in Ops \ {"tag"},
           Arrive(r), StopInventory(r, what)
    PROVE  Parted' /\ Undisturbed
<1>1. /\ served + 1 \in Tasks /\ state[served + 1] = "none" /\ awaited[r] = 0
    BY StopEffect DEF Inv, Waiting
<1>2. \A q \in Requests \ {r} : awaited'[q] = awaited[q]
    BY StopEffect, AtEffect DEF Inv
<1>3. \/ /\ current \in Tasks /\ current' = 0 /\ awaited'[r] = current /\ Cancel(current)
      \/ /\ awaited'[r] = 0 /\ current' = served + 1
         /\ state' = [state EXCEPT ![served + 1] = "ready"]
      \/ awaited'[r] = 0 /\ current' = 0 /\ state' = state
    BY StopEffect, AtEffect DEF Inv
<1> QED
    BY <1>1, <1>2, <1>3, PartedStep

LEMMA ResumeParted ==
    ASSUME Inv, Parted, NEW r \in Requests, Resume(r)
    PROVE  Parted' /\ Undisturbed
<1>1. /\ number[r] \in Tasks /\ state[number[r]] = "none" /\ awaited'[r] = 0
      /\ \A q \in Requests \ {r} : awaited'[q] = awaited[q]
    BY ResumeEffect, AtEffect DEF Inv
<1>2. \/ current' = number[r] /\ state' = [state EXCEPT ![number[r]] = "ready"]
      \/ UNCHANGED <<current, state>>
    BY ResumeEffect DEF Inv
<1> QED
    BY <1>1, <1>2, PartedStep

LEMMA RequestParted ==
    ASSUME Inv, Parted, NEW r \in Requests, Request(r) \/ Access(r)
    PROVE  Parted' /\ Undisturbed
<1>1. CASE Start(r)
    BY <1>1, StopParted DEF Start, Ops
<1>2. CASE Stop(r)
    BY <1>2, StopParted DEF Stop, Ops
<1>3. CASE SetPolicy(r)
    <2>1. CASE StopInventory(r, "policy")
        BY <1>3, <2>1, StopParted DEF SetPolicy, Ops
    <2>2. CASE UNCHANGED <<current, state, awaited>>
        BY <2>2 DEF Parted, Undisturbed
    <2> QED
        BY <1>3, <2>1, <2>2 DEF SetPolicy
<1>4. CASE Remove(r)
    BY <1>4, StopParted DEF Remove, Ops
<1>5. CASE Resume(r)
    BY <1>5, ResumeParted
<1>6. CASE Close(r) \/ Tag(r) \/ Armed(r) \/ ReadEnds(r) \/ Unwound(r)
    <2>1. UNCHANGED <<current, state>>
        BY <1>6 DEF Close, Tag, Armed, ReadEnds, Unwound, Unwind, inventory
    <2>2. PICK w \in {"idle", "arming", "reading", "unwinding"}, x \in {"none", "tag"} :
             At(r, w, x, 0)
        BY <1>6 DEF Close, Tag, Armed, ReadEnds, Unwound, Unwind, Return
    <2>3. awaited'[r] = 0 /\ \A q \in Requests \ {r} : awaited'[q] = awaited[q]
        BY <2>2, AtEffect DEF Inv
    <2> QED
        BY <2>1, <2>3, PartedStep
<1> QED
    BY <1>1, <1>2, <1>3, <1>4, <1>5, <1>6 DEF Request, Access

\* What is awaited has ended its stream: its own step is the end of its teardown.
LEMMA TaskParted ==
    ASSUME Inv, Parted, NEW k \in Tasks, Task(k)
    PROVE  Parted' /\ UNCHANGED requests
<1>1. UNCHANGED <<current, awaited, requests>>
    BY DEF Task, Run, StreamFails, TornDown, requests
<1>2. \A l \in Tasks \ {k} : state'[l] = state[l]
  <2>1. state \in [Tasks -> {"none", "ready", "streaming", "teardown", "done"}]
    BY DEF Inv, TypeOK, Tasks
  <2>2. PICK s : state' = [state EXCEPT ![k] = s]
    BY DEF Task, Run, StreamFails, TornDown
  <2> QED BY <2>1, <2>2
<1>3. state[k] \in {"ready", "streaming"} \/ state'[k] = "done"
  <2>1. state \in [Tasks -> {"none", "ready", "streaming", "teardown", "done"}]
    BY DEF Inv, TypeOK, Tasks
  <2> QED BY <2>1 DEF Task, Run, StreamFails, TornDown
<1>4. \A q \in Requests : awaited[q] # 0 => awaited[q] \in Tasks
    BY DashboardAssumption DEF Inv, TypeOK, Tasks
<1> QED
    BY <1>1, <1>2, <1>3, <1>4 DEF Parted

LEMMA NextParted == Inv /\ Parted /\ [Next]_dvars => Parted' /\ (Undisturbed \/ UNCHANGED requests)
<1> SUFFICES ASSUME Inv, Parted, [Next]_dvars
             PROVE  Parted' /\ (Undisturbed \/ UNCHANGED requests)
    OBVIOUS
<1>1. CASE \E r \in Requests : Request(r) \/ Access(r)
    BY <1>1, RequestParted
<1>2. CASE \E k \in 1..MaxRequests : Task(k)
    BY <1>2, TaskParted DEF Tasks
<1>3. CASE Lose \/ UNCHANGED dvars
    BY <1>3 DEF Lose, dvars, inventory, requests, Parted
<1> QED
    BY <1>1, <1>2, <1>3 DEF Next

\* However many requests stop, restart and remove the reader at the same time, and however
\* many of them start inventories, the teardown of a task that one of them awaits is never
\* cancelled by another.
THEOREM TeardownLeftAlone == Spec => CancelledOnce
<1>1. DashboardInit => Parted
    BY DEF DashboardInit, Parted
<1>2. Inv /\ Parted /\ [Next]_dvars =>
        [\A r \in Requests : awaited[r] # 0 /\ state'[awaited[r]] # state[awaited[r]]
                                => UNCHANGED requests]_dvars
    BY NextParted DEF Undisturbed
<1>3. Inv /\ Parted /\ [Next]_dvars => Parted'
    BY NextParted
<1> QED
    BY <1>1, <1>2, <1>3, InitInv, NextInv, PTL DEF Spec, CancelledOnce

(***************************************************************************)
(* One starter: the requests that may create an inventory task come one    *)
(* at a time.                                                              *)
(***************************************************************************)

OneStarter == \A r, q \in Starters : r = q

\* While a start waits for the old task, there is no other to be forgotten.
Owned ==
    /\ \A r \in Requests : pc[r] = "stopping" /\ op[r] \in {"start", "policy"} =>
          r \in Starters /\ current = 0
    /\ NoOrphan
    /\ PolicyApplies

\* Without an inventory that runs, nothing streams.
LEMMA NothingStreams ==
    ASSUME Owned, ~Running
    PROVE  /\ \A k \in Tasks : state[k] # "streaming"
           /\ \A k \in Tasks : state[k] \in {"ready", "streaming", "teardown"} =>
                 state[k] = "teardown" /\ \E r \in Requests : awaited[r] = k
<1> SUFFICES ASSUME NEW k \in Tasks, state[k] \in {"ready", "streaming", "teardown"}
             PROVE  state[k] = "teardown" /\ \E r \in Requests : awaited[r] = k
    OBVIOUS
<1>1. CASE k = current
    BY <1>1, DashboardAssumption DEF Running, Tasks
<1>2. CASE k # current
    BY <1>2 DEF Owned, NoOrphan, Tasks
<1> QED
    BY <1>1, <1>2

\* stop_inventory() leaves nothing streaming, and what it cancels is awaited.
LEMMA StopOwned ==
    ASSUME OneStarter, Inv, Owned, NEW r \in Requests, NEW what \in Ops \ {"tag"},
           Arrive(r), StopInventory(r, what), what \in {"start", "policy"} => r \in Starters
    PROVE  Owned'
<1> USE DashboardAssumption DEF Tasks
<1>1. /\ served + 1 \in Tasks /\ state[served + 1] = "none" /\ pc[r] = "idle"
    BY StopEffect DEF Inv
<1>2. /\ \A q \in Requests \ {r} :
            pc'[q] = pc[q] /\ op'[q] = op[q] /\ awaited'[q] = awaited[q]
      /\ awaited[r] = 0
    BY <1>1, StopEffect, AtEffect DEF Inv, Waiting
<1>3. CASE /\ current \in Tasks /\ current' = 0
           /\ At(r, "stopping", what, current) /\ Cancel(current)
    <2>1. /\ awaited'[r] = current /\ op'[r] = what
          /\ state'[current] \in {"teardown", "done"}
          /\ \A k \in Tasks \ {current} : state'[k] = state[k]
        BY <1>3, AtEffect DEF Cancel, Inv, TypeOK
    <2>2. ASSUME NEW k \in Tasks, k # current, state'[k] \in {"ready", "streaming", "teardown"}
          PROVE  state'[k] = "teardown" /\ \E q \in Requests : awaited'[q] = k
        <3>1. PICK q \in Requests : state[k] = "teardown" /\ awaited[q] = k
            BY <2>1, <2>2 DEF Owned, NoOrphan
        <3>2. q # r
            BY <1>2, <3>1
        <3> QED
            BY <1>2, <2>1, <2>2, <3>1, <3>2
    <2>3. NoOrphan' /\ PolicyApplies'
        BY <2>1, <2>2 DEF NoOrphan, PolicyApplies
    <2>4. \A q \in Requests : pc'[q] = "stopping" /\ op'[q] \in {"start", "policy"} =>
             q \in Starters
        BY <1>2, <2>1 DEF Owned
    <2> QED
        BY <1>3, <2>3, <2>4 DEF Owned
<1>4. CASE ~Running
    <2>1. \/ /\ current' = served + 1 /\ state' = [state EXCEPT ![served + 1] = "ready"]
             /\ what \in {"start", "policy"} /\ pc'[r] = "idle"
          \/ current' = 0 /\ state' = state /\ pc'[r] # "stopping"
          \/ /\ current \in Tasks /\ current' = 0
             /\ At(r, "stopping", what, current) /\ Cancel(current)
        BY StopEffect, AtEffect DEF Inv
    <2>2. ASSUME \A k \in Tasks : k # current' => state'[k] = state[k],
                 state'[current'] = "ready" \/ current' = 0
          PROVE  NoOrphan' /\ PolicyApplies'
        <3>1. ASSUME NEW k \in Tasks, k # current', state'[k] \in {"ready", "streaming", "teardown"}
              PROVE  state'[k] = "teardown" /\ \E q \in Requests : awaited'[q] = k
            <4>1. PICK q \in Requests : state[k] = "teardown" /\ awaited[q] = k
                BY <1>4, <2>2, <3>1, NothingStreams
            <4>2. q # r
                BY <1>2, <4>1
            <4> QED
                BY <1>2, <2>2, <3>1, <4>1, <4>2
        <3>2. \A k \in Tasks : state'[k] # "streaming"
            BY <2>2, <3>1
        <3> QED
            BY <3>1, <3>2 DEF NoOrphan, PolicyApplies
    <2>3. CASE /\ current' = served + 1 /\ state' = [state EXCEPT ![served + 1] = "ready"]
               /\ what \in {"start", "policy"} /\ pc'[r] = "idle"
        <3>1. NoOrphan' /\ PolicyApplies'
            BY <1>1, <2>2, <2>3 DEF Inv, TypeOK
        <3>2. \A q \in Requests : pc'[q] = "stopping" => op'[q] \notin {"start", "policy"}
            BY <1>2, <2>3 DEF Owned, OneStarter
        <3> QED
            BY <3>1, <3>2 DEF Owned
    <2>4. CASE current' = 0 /\ state' = state /\ pc'[r] # "stopping"
        <3>1. NoOrphan' /\ PolicyApplies'
            BY <2>2, <2>4
        <3> QED
            BY <1>2, <2>4, <3>1 DEF Owned
    <2> QED
        BY <1>3, <2>1, <2>3, <2>4
<1> QED
    BY <1>3, <1>4, StopEffect DEF Inv

LEMMA ResumeOwned ==
    ASSUME OneStarter, Inv, Owned, NEW r \in Requests, Resume(r)
    PROVE  Owned'
<1> USE DashboardAssumption DEF Tasks
<1>1. /\ pc[r] = "stopping" /\ number[r] \in Tasks /\ state[number[r]] = "none"
      /\ state[awaited[r]] = "done" /\ UNCHANGED <<policy, applied>>
      /\ pc'[r] # "stopping"
      /\ \A q \in Requests \ {r} :
            pc'[q] = pc[q] /\ op'[q] = op[q] /\ awaited'[q] = awaited[q]
    BY ResumeEffect, AtEffect DEF Inv
<1>2. ASSUME NEW k \in Tasks, state[k] = "teardown", NEW q \in Requests, awaited[q] = k
      PROVE  awaited'[q] = k
    BY <1>1, <1>2
<1>3. CASE UNCHANGED <<current, state>>
    BY <1>1, <1>2, <1>3 DEF Owned, NoOrphan, PolicyApplies
<1>4. CASE /\ op[r] \in {"start", "policy"}
           /\ current' = number[r] /\ state' = [state EXCEPT ![number[r]] = "ready"]
    <2>1. current = 0 /\ r \in Starters
        BY <1>1, <1>4 DEF Owned
    <2>2. state'[current'] = "ready" /\ \A k \in Tasks \ {current'} : state'[k] = state[k]
        BY <1>1, <1>4 DEF Inv, TypeOK
    <2>3. \A q \in Requests : pc'[q] = "stopping" => op'[q] \notin {"start", "policy"}
        BY <1>1, <2>1 DEF Owned, OneStarter
    <2>4. NoOrphan'
        BY <1>2, <2>1, <2>2 DEF Owned, NoOrphan
    <2>5. PolicyApplies'
        BY <1>1, <2>1, <2>2 DEF Owned, PolicyApplies
    <2> QED
        BY <2>3, <2>4, <2>5 DEF Owned
<1> QED
    BY <1>3, <1>4, ResumeEffect DEF Inv

LEMMA TaskOwned ==
    ASSUME Inv, Owned, NEW k \in Tasks, Task(k)
    PROVE  Owned'
<1> USE DashboardAssumption DEF Tasks
<1>1. /\ UNCHANGED <<policy, current, pc, op, awaited>>
      /\ \A l \in Tasks \ {k} : state'[l] = state[l] /\ applied'[l] = applied[l]
    BY DEF Task, Run, StreamFails, TornDown, requests, Inv, TypeOK
<1>2. \/ state[k] = "ready" /\ state'[k] = "streaming" /\ applied'[k] = policy
      \/ state[k] = "streaming" /\ state'[k] = "teardown"
      \/ state'[k] = "done"
    BY DEF Task, Run, StreamFails, TornDown, Inv, TypeOK
<1>3. NoOrphan'
    BY <1>1, <1>2 DEF Owned, NoOrphan
<1>4. PolicyApplies'
    BY <1>1, <1>2 DEF Owned, PolicyApplies
<1> QED
    BY <1>1, <1>3, <1>4 DEF Owned

\* A step of one request that leaves the tasks alone.
LEMMA PlaceOwned ==
    ASSUME Inv, Owned, NEW r \in Requests, pc[r] # "stopping",
           NEW where, NEW what, At(r, where, what, 0), where # "stopping",
           UNCHANGED <<current, state, applied, policy>>
    PROVE  Owned'
<1>1. /\ pc'[r] = where /\ awaited[r] = 0
      /\ \A q \in Requests \ {r} :
            pc'[q] = pc[q] /\ op'[q] = op[q] /\ awaited'[q] = awaited[q]
    BY AtEffect DEF Inv, Waiting
<1>2. \A k \in Tasks, q \in Requests : awaited[q] = k => awaited'[q] = k
    BY <1>1, DashboardAssumption DEF Tasks
<1> QED
    BY <1>1, <1>2 DEF Owned, NoOrphan, PolicyApplies, Tasks

LEMMA RequestOwned ==
    ASSUME OneStarter, Inv, Owned, NEW r \in Requests, Request(r) \/ Access(r)
    PROVE  Owned'
<1>1. CASE Start(r)
    BY <1>1, StopOwned DEF Start, Ops
<1>2. CASE Stop(r)
    BY <1>2, StopOwned DEF Stop, Ops
<1>3. CASE SetPolicy(r)
    <2>1. CASE StopInventory(r, "policy")
        BY <1>3, <2>1, StopOwned DEF SetPolicy, Ops
    <2>2. CASE ~Running /\ UNCHANGED <<active, current, state, pc, op, awaited>>
        BY <2>2, NothingStreams DEF Owned, NoOrphan, PolicyApplies, Tasks
    <2> QED
        BY <1>3, <2>1, <2>2 DEF SetPolicy
<1>4. CASE Remove(r)
    BY <1>4, StopOwned DEF Remove, Ops
<1>5. CASE Resume(r)
    BY <1>5, ResumeOwned
<1>6. CASE Close(r) \/ Tag(r) \/ Armed(r) \/ ReadEnds(r) \/ Unwound(r)
    <2>1. pc[r] # "stopping" /\ UNCHANGED <<current, state, applied, policy>>
        BY <1>6 DEF Close, Tag, Arrive, Armed, ReadEnds, Unwound, Unwind, inventory
    <2>2. PICK w \in {"idle", "arming", "reading", "unwinding"}, x \in {"none", "tag"} :
             At(r, w, x, 0)
        BY <1>6 DEF Close, Tag, Armed, ReadEnds, Unwound, Unwind, Return
    <2> QED
        BY <2>1, <2>2, PlaceOwned
<1> QED
    BY <1>1, <1>2, <1>3, <1>4, <1>5, <1>6 DEF Request, Access

LEMMA NextOwned == OneStarter /\ Inv /\ Owned /\ [Next]_dvars => Owned'
<1> SUFFICES ASSUME OneStarter, Inv, Owned, [Next]_dvars PROVE Owned'
    OBVIOUS
<1>1. CASE \E r \in Requests : Request(r) \/ Access(r)
    BY <1>1, RequestOwned
<1>2. CASE \E k \in 1..MaxRequests : Task(k)
    BY <1>2, TaskOwned DEF Tasks
<1>3. CASE Lose \/ UNCHANGED dvars
    BY <1>3 DEF Lose, dvars, inventory, requests, Owned, NoOrphan, PolicyApplies
<1> QED
    BY <1>1, <1>2, <1>3 DEF Next

LEMMA OwnedAlways == ASSUME OneStarter PROVE Spec => []Owned
<1>1. DashboardInit => Owned
    BY DEF DashboardInit, Owned, NoOrphan, PolicyApplies
<1>2. Inv /\ Owned /\ [Next]_dvars => Owned'
    BY NextOwned
<1> QED
    BY <1>1, <1>2, InitInv, NextInv, PTL DEF Spec

\* When the starts come one at a time, an inventory task that is not done is
\* the one that stop_inventory() will cancel, or is awaited.
THEOREM InventoryStoppable == ASSUME OneStarter PROVE Spec => []NoOrphan
BY OwnedAlways, PTL DEF Owned

\* When the starts come one at a time, set_policy() takes effect on whatever
\* streams, at once and whatever else is requested meanwhile.
THEOREM PolicyTakesEffect == ASSUME OneStarter PROVE Spec => []PolicyApplies
BY OwnedAlways, PTL DEF Owned
=============================================================================
