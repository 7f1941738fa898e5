----------------------------- MODULE Dashboard -----------------------------
(***************************************************************************)
(* dashboard/registry.py and the routes of dashboard/app.py: HTTP requests *)
(* that overlap on one ManagedReader.  Starting, stopping, changing the    *)
(* policy and removing the reader all begin by stopping the inventory      *)
(* task: they cancel it, forget it, and await its end.                     *)
(*                                                                         *)
(* The inventory task is seen from outside: it streams, tears its ROSpec   *)
(* down, and is done (ReaderSession is the inside).  A cancelled task runs *)
(* before anything that is scheduled after cancel(), so that the           *)
(* cancellation and its first effect are one step.  A request for a reader *)
(* that is not listed is a 404 and changes nothing.                        *)
(***************************************************************************)
EXTENDS Naturals, FiniteSets

CONSTANTS
    Requests,       \* HTTP requests under way at the same time
    Starters,       \* those that may start an inventory or set a policy
    MaxRequests,    \* bound: requests that are served, and so tasks
    MaxPolicies     \* bound: changes of the policy

ASSUME DashboardAssumption ==
    /\ Starters \subseteq Requests
    /\ MaxRequests \in Nat /\ MaxPolicies \in Nat

VARIABLES
    listed,         \* is it in registry.readers?
    connected,      \* reader.client.connected
    active,         \* reader._inventory_active
    policy,         \* the version of self.policy
    current,        \* self._inventory_task, 0 for None
    state,          \* what each inventory task is doing
    applied,        \* the policy it streams under
    pc,             \* where each request is
    op,             \* what it asks for
    awaited,        \* the task it waits for, 0 for none
    number,         \* its number, which is that of the task it may create
    shown,          \* the last roster published: is the reader in it?
    served          \* requests so far

reader == <<connected, active>>
inventory == <<current, state, applied>>
requests == <<pc, op, awaited, number, served>>
dvars == <<listed, reader, policy, inventory, requests, shown>>

Ops == {"start", "stop", "policy", "remove", "tag"}

\* registry.add() went through.
DashboardInit ==
    /\ listed = TRUE /\ connected = TRUE /\ active = FALSE
    /\ policy = 0 /\ current = 0
    /\ state = [k \in 1..MaxRequests |-> "none"] /\ applied = [k \in 1..MaxRequests |-> 0]
    /\ pc = [r \in Requests |-> "idle"] /\ op = [r \in Requests |-> "none"]
    /\ awaited = [r \in Requests |-> 0] /\ number = [r \in Requests |-> 0]
    /\ shown = TRUE /\ served = 0

-----------------------------------------------------------------------------
\* Mutant of Running: a task that is done counts.
RunningEver == current # 0

\* inventory_running
Running == current # 0 /\ state[current] # "done"

Publish == shown' = listed'

\* Where request r is, what it is for, and the task it waits for.
At(r, where, what, task) ==
    /\ pc' = [pc EXCEPT ![r] = where]
    /\ op' = [op EXCEPT ![r] = what]
    /\ awaited' = [awaited EXCEPT ![r] = task]

Return(r) == At(r, "idle", "none", 0)

\* Request r creates its inventory task: it has not run yet.
Create(r) ==
    /\ current' = number'[r]
    /\ state' = [state EXCEPT ![number'[r]] = "ready"]

\* What request r is for, once no inventory is running; `task` is what
\* _inventory_task is then.
Proceed(r, what, task) ==
    \/ /\ what \in {"start", "policy"}
       /\ Create(r) /\ Return(r) /\ Publish
    \/ /\ what = "stop"
       /\ current' = task
       /\ Return(r) /\ Publish
       /\ UNCHANGED state
    \/ /\ what = "remove"
       /\ current' = task
       /\ At(r, "closing", what, 0)
       /\ UNCHANGED <<state, shown>>

\* Mutant of Cancel: the request forgets the task but does not cancel it.
CancelNothing(k) == UNCHANGED <<state, active>>

\* CancelledError in task k: before its first step, in its stream, in the
\* teardown of its stream.
Cancel(k) ==
    /\ state' = [state EXCEPT ![k] =
                    IF @ = "streaming" /\ connected THEN "teardown" ELSE "done"]
    /\ active' = (active /\ state[k] # "streaming")

\* Mutant of StopInventory: the task is cancelled and awaited, and not forgotten.
StopInventoryKeeps(r, what) ==
    IF Running
    THEN /\ UNCHANGED current
         /\ Cancel(current)
         /\ At(r, "stopping", what, current)
         /\ UNCHANGED shown
    ELSE /\ Proceed(r, what, 0)
         /\ UNCHANGED active

\* stop_inventory(): forget the task; if it runs, cancel it and await its end.
StopInventory(r, what) ==
    IF Running
    THEN /\ current' = 0
         /\ Cancel(current)
         /\ At(r, "stopping", what, current)
         /\ UNCHANGED shown
    ELSE /\ Proceed(r, what, 0)
         /\ UNCHANGED active

-----------------------------------------------------------------------------
\* Requests

\* Request r begins, on a reader that is listed.
Arrive(r) ==
    /\ pc[r] = "idle" /\ listed
    /\ served < MaxRequests
    /\ served' = served + 1
    /\ number' = [number EXCEPT ![r] = served + 1]

Start(r) ==
    /\ Arrive(r) /\ r \in Starters
    /\ UNCHANGED <<listed, connected, policy, applied>>
    /\ StopInventory(r, "start")

Stop(r) ==
    /\ Arrive(r)
    /\ UNCHANGED <<listed, connected, policy, applied>>
    /\ StopInventory(r, "stop")

\* Mutant of SetPolicy: the stream is not restarted.
SetPolicyOnly(r) ==
    /\ Arrive(r) /\ r \in Starters
    /\ policy < MaxPolicies
    /\ policy' = policy + 1
    /\ UNCHANGED <<listed, reader, inventory, pc, op, awaited>>
    /\ Publish

\* set_policy(): restart the inventory if one is running.
SetPolicy(r) ==
    /\ Arrive(r) /\ r \in Starters
    /\ policy < MaxPolicies
    /\ policy' = policy + 1
    /\ UNCHANGED <<listed, connected, applied>>
    /\ \/ Running /\ StopInventory(r, "policy")
       \/ ~Running /\ Publish /\ UNCHANGED <<active, current, state, pc, op, awaited>>

\* registry.remove(): off the list, then disconnect().
Remove(r) ==
    /\ Arrive(r)
    /\ listed' = FALSE
    /\ StopInventory(r, "remove")
    /\ UNCHANGED <<connected, policy, applied>>

\* The task that request r waited for has ended.
Resume(r) ==
    /\ pc[r] = "stopping" /\ state[awaited[r]] = "done"
    /\ UNCHANGED <<listed, reader, policy, applied, number, served>>
    /\ Proceed(r, op[r], current)

\* Mutant of Close: disconnect() stops the inventory, and no more.
CloseNothing(r) ==
    /\ pc[r] = "closing"
    /\ UNCHANGED <<listed, reader, policy, inventory, number, served>>
    /\ Return(r) /\ Publish

\* Mutant of Close: a goodbye that fails leaves remove() at once.
CloseUnlessLost(r) ==
    /\ pc[r] = "closing"
    /\ connected' = FALSE
    /\ Return(r)
    /\ shown' = IF connected THEN listed ELSE shown
    /\ UNCHANGED <<listed, active, policy, inventory, number, served>>

\* The goodbye of client.close() is over, one way or the other.
Close(r) ==
    /\ pc[r] = "closing"
    /\ connected' = FALSE
    /\ UNCHANGED <<listed, active, policy, inventory, number, served>>
    /\ Return(r) /\ Publish

Request(r) == Start(r) \/ Stop(r) \/ SetPolicy(r) \/ Remove(r) \/ Resume(r) \/ Close(r)

-----------------------------------------------------------------------------
\* Tag operations: _run_access(), seen from outside

\* Refused with a 409 while an inventory is running.
Tag(r) ==
    /\ Arrive(r) /\ ~Running /\ connected
    /\ At(r, "arming", "tag", 0)
    /\ UNCHANGED <<listed, reader, policy, inventory, shown>>

\* The request leaves its inventory, by way of the reader if there is one.
Unwind(r) ==
    /\ At(r, IF connected THEN "unwinding" ELSE "idle",
             IF connected THEN "tag" ELSE "none", 0)
    /\ UNCHANGED <<listed, connected, policy, inventory, shown, number, served>>

\* Its AccessSpec is enabled: it reads, unless an inventory began meanwhile,
\* or the reader refused or went away.
Armed(r) ==
    /\ pc[r] = "arming"
    /\ \/ /\ connected /\ ~active
          /\ active' = TRUE
          /\ At(r, "reading", "tag", 0)
          /\ UNCHANGED <<listed, connected, policy, inventory, shown, number, served>>
       \/ Unwind(r) /\ UNCHANGED active

ReadEnds(r) ==
    /\ pc[r] = "reading"
    /\ active' = FALSE
    /\ Unwind(r)

Unwound(r) ==
    /\ pc[r] = "unwinding"
    /\ Return(r)
    /\ UNCHANGED <<listed, reader, policy, inventory, shown, number, served>>

Access(r) == Tag(r) \/ Armed(r) \/ ReadEnds(r) \/ Unwound(r)

-----------------------------------------------------------------------------
\* The inventory task

\* Mutant of Run: nobody asks whether a stream is active.
RunAnyway(k) ==
    /\ state[k] = "ready"
    /\ IF connected
       THEN /\ active' = TRUE
            /\ state' = [state EXCEPT ![k] = "streaming"]
            /\ applied' = [applied EXCEPT ![k] = policy]
       ELSE /\ state' = [state EXCEPT ![k] = "done"]
            /\ UNCHANGED <<active, applied>>
    /\ UNCHANGED <<listed, connected, policy, current, requests, shown>>

\* Its first step: one stream at a time, on a connection.
Run(k) ==
    /\ state[k] = "ready"
    /\ IF connected /\ ~active
       THEN /\ active' = TRUE
            /\ state' = [state EXCEPT ![k] = "streaming"]
            /\ applied' = [applied EXCEPT ![k] = policy]
       ELSE /\ state' = [state EXCEPT ![k] = "done"]
            /\ UNCHANGED <<active, applied>>
    /\ UNCHANGED <<listed, connected, policy, current, requests, shown>>

\* Mutant of StreamFails: an error leaves the flag up.
StreamFailsActive(k) ==
    /\ state[k] = "streaming"
    /\ state' = [state EXCEPT ![k] = IF connected THEN "teardown" ELSE "done"]
    /\ UNCHANGED <<listed, reader, policy, current, applied, requests, shown>>

\* A refused request, or a lost connection.
StreamFails(k) ==
    /\ state[k] = "streaming"
    /\ active' = FALSE
    /\ state' = [state EXCEPT ![k] = IF connected THEN "teardown" ELSE "done"]
    /\ UNCHANGED <<listed, connected, policy, current, applied, requests, shown>>

\* STOP_ROSPEC and DELETE_ROSPEC are over, one way or the other.
TornDown(k) ==
    /\ state[k] = "teardown"
    /\ state' = [state EXCEPT ![k] = "done"]
    /\ UNCHANGED <<listed, reader, policy, current, applied, requests, shown>>

Task(k) == Run(k) \/ StreamFails(k) \/ TornDown(k)

\* The connection is lost; the dashboard does not connect again.
Lose ==
    /\ connected
    /\ connected' = FALSE
    /\ UNCHANGED <<listed, active, policy, inventory, requests, shown>>

Next ==
    \/ \E r \in Requests : Request(r) \/ Access(r)
    \/ \E k \in 1..MaxRequests : Task(k)
    \/ Lose

Spec == DashboardInit /\ [][Next]_dvars

\* The event loop runs what is ready, transact() ends (LLRPClient), a tag
\* operation has a duration, and a stream polls its connection.  Nothing
\* makes a stream fail on a connection that holds.
FairSpec ==
    /\ Spec
    /\ \A r \in Requests :
          WF_dvars(Resume(r)) /\ WF_dvars(Close(r))
          /\ WF_dvars(Armed(r)) /\ WF_dvars(ReadEnds(r)) /\ WF_dvars(Unwound(r))
    /\ \A k \in 1..MaxRequests :
          WF_dvars(Run(k)) /\ WF_dvars(TornDown(k)) /\ WF_dvars(~connected /\ StreamFails(k))

-----------------------------------------------------------------------------
(***************************************************************************)
(* Properties                                                              *)
(***************************************************************************)

\* Every variable of registry.py and reader.py that is modelled has its type.
TypeOK ==
    /\ listed \in BOOLEAN /\ connected \in BOOLEAN /\ active \in BOOLEAN
    /\ policy \in 0..MaxPolicies /\ served \in 0..MaxRequests
    /\ current \in 0..served
    /\ state \in [1..MaxRequests -> {"none", "ready", "streaming", "teardown", "done"}]
    /\ applied \in [1..MaxRequests -> 0..MaxPolicies]
    /\ pc \in [Requests -> {"idle", "stopping", "closing", "arming", "reading", "unwinding"}]
    /\ op \in [Requests -> Ops \cup {"none"}]
    /\ awaited \in [Requests -> 0..served] /\ number \in [Requests -> 0..served]
    /\ shown \in BOOLEAN

\* Who has the reader's inventory: an inventory task or a tag operation.
Streams == {k \in 1..MaxRequests : state[k] = "streaming"}
Reads == {r \in Requests : pc[r] = "reading"}

\* Requests that overlap never have two inventories on one reader, and none
\* leaves _inventory_active up after its inventory: the reader stays usable.
FlagIsTrue ==
    /\ active <=> Streams \cup Reads # {}
    /\ \A k, l \in Streams : k = l
    /\ \A r, q \in Reads : r = q
    /\ Streams = {} \/ Reads = {}

\* An inventory is cancelled once: while one request awaits the end of its task, whatever
\* others stop, restart or remove leaves that task alone, and nobody cancels the
\* STOP_ROSPEC and DELETE_ROSPEC of its finally block a second time.
CancelledOnce ==
    [][\A r \in Requests : awaited[r] # 0 /\ state'[awaited[r]] # state[awaited[r]]
                               => UNCHANGED requests]_dvars

\* An inventory task that is not done is the one the next stop will cancel,
\* or a request already waits for its end: an inventory can always be
\* stopped.  (Holds with one starter; two of them orphan a task.)
NoOrphan ==
    \A k \in 1..MaxRequests : state[k] \in {"ready", "streaming", "teardown"} =>
        \/ k = current
        \/ state[k] = "teardown" /\ \E r \in Requests : awaited[r] = k

\* "Apply (or clear) the ignore policy and restart the inventory so it takes
\* effect immediately if a stream is running": every stream of the reader
\* runs under the policy that was set last.
PolicyApplies == \A k \in 1..MaxRequests : state[k] = "streaming" => applied[k] = policy

\* "Roster consistency does not depend on the LLRP goodbye succeeding": once
\* remove() has returned, the roster the subscribers saw last has no reader
\* that is gone, nor misses one that is there.
RosterCurrent == (\A r \in Requests : op[r] # "remove") => shown = listed

\* A request always returns: no two of them wait for each other, nor for a
\* task that does not end.
RequestsReturn == \A r \in Requests : pc[r] # "idle" ~> pc[r] = "idle"

\* A reader that was removed falls silent for good, even if a start that had
\* begun before goes on to create an inventory task after it.
RemovedFallsSilent == ~listed ~> [](Streams = {})

\* Whatever requests overlap comes to rest: each returns, and a removed
\* reader is silent.
Settles == RequestsReturn /\ RemovedFallsSilent
=============================================================================
