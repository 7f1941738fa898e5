--------------------------- MODULE EmulatorProofs ---------------------------
(***************************************************************************)
(* The emulator proved, for any ROSpecs, ports and antennas, any number of *)
(* clients and of runs: a timer stops the run it was started for, and      *)
(* reports flow exactly while a ROSpec is active, as far as blocking sends *)
(* let them.                                                               *)
(***************************************************************************)
EXTENDS Emulator, FiniteSetTheorems, TLAPS

(***************************************************************************)
(* The inductive invariant.                                                *)
(***************************************************************************)

\* A table of ROSpecs of this setup.
IsTable(t) == DOMAIN t \subseteq setup.ids /\ t \in [DOMAIN t -> Entry]

EdgeType ==
    /\ edge.at \in {"idle", "notified", "applying", "started"}
    /\ edge.at = "idle" => edge = NoEdge
    /\ edge.at \in {"applying", "started"} => IsTable(edge.todo)
    /\ edge.at = "applying" =>
          edge = [at |-> "applying", port |-> edge.port, high |-> edge.high, todo |-> edge.todo]
    /\ edge.at = "started" => edge.timer \in [id : setup.ids, run : 1..runs]

Types ==
    /\ setup \in Setups
    /\ slot \in 0..conns /\ conns \in 0..setup.conns
    /\ broken \in BOOLEAN
    /\ IsTable(rospecs)
    /\ gpiConfig \in [Ports -> BOOLEAN] /\ gpiHigh \in [Ports -> BOOLEAN]
    /\ disconnected \subseteq Antennas /\ profile \subseteq Antennas
    /\ report \in {"off", "scan", "sleep"}
    /\ timers \subseteq [id : setup.ids, run : 1..runs]
    /\ DOMAIN timerOf \subseteq setup.ids /\ timerOf \in [DOMAIN timerOf -> 1..runs]
    /\ EdgeType
    /\ runs \in Nat /\ runOf \in [RoIds -> 0..runs] /\ byEdge \subseteq 1..runs

\* While no send blocks, nobody changes what an edge has still to look at.
TodoInv ==
    edge.at \in {"applying", "started"} =>
        \A id \in DOMAIN edge.todo : id \in DOMAIN rospecs /\ edge.todo[id] = rospecs[id]

\* The report loop runs for what is active; before the first client nothing is.
ReportInv ==
    /\ ActiveReports /\ NoIdleReports
    /\ conns = 0 => report = "off" /\ DOMAIN rospecs = {} /\ timers = {}

\* The timer of a run of the first client is the registered one and that run
\* goes on; the timer that an edge is about to start is the only one of its kind.
TimerInv ==
    conns <= 1 =>
        /\ \A t \in timers : /\ Running(t.id) /\ runOf[t.id] = t.run
                             /\ t.id \in DOMAIN timerOf /\ timerOf[t.id] = t.run
        /\ edge.at = "started" =>
              /\ Running(edge.timer.id) /\ runOf[edge.timer.id] = edge.timer.run
              /\ edge.timer.id \notin DOMAIN edge.todo
              /\ \A t \in timers : t.id # edge.timer.id

\* There is but one ROSpec ID.
Alone == \A r1, r2 \in setup.ids : r1 = r2

\* Even when sends block, the only ROSpec is active without reports just while
\* the edge that started it is under way: nothing is left that it could raise at.
AloneInv ==
    Alone /\ slot # 0 /\ ~broken /\ IsActive(rospecs) /\ report = "off"
        => edge.at \in {"applying", "started"} /\ DOMAIN edge.todo = {}

Inv == Types /\ AloneInv /\ (~setup.blocking => TodoInv /\ ReportInv /\ TimerInv)

-----------------------------------------------------------------------------
(* Tables.                                                                 *)

\* A ROSpec changes its state, and no other does.
LEMMA StateFacts ==
    ASSUME NEW t, IsTable(t), NEW id \in DOMAIN t, NEW s \in States
    PROVE  LET u == [t EXCEPT ![id].state = s]
           IN  /\ IsTable(u) /\ DOMAIN u = DOMAIN t /\ u[id].state = s
               /\ \A r \in DOMAIN t : r # id => u[r] = t[r]
<1>1. t[id] \in Entry
    BY DEF IsTable
<1>2. [t[id] EXCEPT !.state = s] \in Entry /\ [t[id] EXCEPT !.state = s].state = s
    BY <1>1 DEF Entry
<1> QED
    BY <1>1, <1>2 DEF IsTable

\* What a message does to the table.
LEMMA AfterFacts ==
    ASSUME NEW t, IsTable(t), NEW op \in RoOps, NEW id \in setup.ids, NEW spec,
           op = "ADD" => spec \in setup.specs
    PROVE  LET u == After(t, op, id, spec)
           IN  /\ IsTable(u)
               /\ \A r \in DOMAIN t : r # id => r \in DOMAIN u /\ u[r] = t[r]
               /\ \A r \in DOMAIN u : r # id => r \in DOMAIN t
               /\ op \notin {"STOP", "DELETE"} /\ id \in DOMAIN t /\ t[id].state = "Active" => u = t
               /\ op \notin {"START", "STOP", "DELETE"} => (IsActive(u) <=> IsActive(t))
               /\ op = "START" /\ Accepts(t, op, id) => id \in DOMAIN t /\ t[id].state = "Enabled"
<1> DEFINE u == After(t, op, id, spec)
<1>1. CASE ~Accepts(t, op, id)
    <2>1. u = t
        BY <1>1 DEF After
    <2> QED
        BY <1>1, <2>1
<1>2. CASE Accepts(t, op, id) /\ op = "ADD"
    <2> DEFINE e == [spec |-> spec, state |-> "Disabled"]
    <2>1. id \notin DOMAIN t /\ u = Put(t, id, e)
        BY <1>2 DEF Accepts, After
    <2>2. e \in Entry /\ e.state = "Disabled"
        BY <1>2 DEF Entry, States
    <2> HIDE DEF u, e
    <2>3. /\ DOMAIN u = DOMAIN t \cup {id} /\ u[id].state = "Disabled"
          /\ \A r \in DOMAIN t : r # id => u[r] = t[r]
          /\ u \in [DOMAIN u -> Entry]
        BY <2>1, <2>2, SMT DEF IsTable, Put
    <2>4. IsActive(u) <=> IsActive(t)
        BY <2>1, <2>3 DEF IsActive
    <2> QED
        BY <1>2, <2>1, <2>3, <2>4 DEF IsTable, u
<1>3. CASE Accepts(t, op, id) /\ op = "DELETE"
    <2>1. u = Restrict(t, DOMAIN t \ {id})
        BY <1>3 DEF After
    <2> HIDE DEF u
    <2>2. /\ DOMAIN u = DOMAIN t \ {id}
          /\ \A r \in DOMAIN u : u[r] = t[r]
          /\ u \in [DOMAIN u -> Entry]
        BY <2>1, SMT DEF IsTable, Restrict
    <2> QED
        BY <1>3, <2>2 DEF IsTable, u
<1>4. CASE Accepts(t, op, id) /\ op \in DOMAIN Expected
    <2>1. op \in {"ENABLE", "DISABLE", "START", "STOP"}
        BY <1>4 DEF Expected
    <2>2. /\ id \in DOMAIN t /\ t[id].state = Expected[op]
          /\ u = [t EXCEPT ![id].state = Target[op]]
        BY <1>4, <2>1 DEF Accepts, After
    <2> HIDE DEF u
    <2>3. Target[op] \in States
        BY <2>1 DEF Target, States
    <2>4. /\ IsTable(u) /\ DOMAIN u = DOMAIN t /\ u[id].state = Target[op]
          /\ \A r \in DOMAIN t : r # id => u[r] = t[r]
        BY <2>2, <2>3, StateFacts
    <2>5. op # "STOP" => t[id].state # "Active"
        BY <2>1, <2>2 DEF Expected
    <2>6. op \in {"ENABLE", "DISABLE"} => u[id].state # "Active"
        BY <2>1, <2>4 DEF Target
    <2>7. op \in {"ENABLE", "DISABLE"} => (IsActive(u) <=> IsActive(t))
        BY <2>1, <2>4, <2>5, <2>6 DEF IsActive
    <2>8. op = "START" => t[id].state = "Enabled"
        BY <2>2 DEF Expected
    <2> QED
        BY <1>4, <2>1, <2>2, <2>4, <2>5, <2>7, <2>8 DEF u
<1>5. op = "ADD" \/ op = "DELETE" \/ op \in DOMAIN Expected
    BY DEF RoOps
<1> QED
    BY <1>1, <1>2, <1>3, <1>4, <1>5


-----------------------------------------------------------------------------
(* Types.                                                                  *)

LEMMA SetupFacts ==
    ASSUME setup \in Setups
    PROVE  /\ setup.ids \subseteq RoIds /\ IsFiniteSet(setup.ids) /\ setup.blocking \in BOOLEAN
           /\ setup.conns \in Nat /\ setup.runs \in Nat
           /\ \A spec \in setup.specs : spec.antennas \subseteq Antennas
BY SetupsAssumption

LEMMA HandleTypes ==
    ASSUME Types, setup' = setup, NEW op \in RoOps, NEW id \in setup.ids, NEW spec,
           op = "ADD" => spec \in setup.specs, Handle(op, id, spec)
    PROVE  Types'
<1>1. IsTable(rospecs)'
    <2>1. IsTable(After(rospecs, op, id, spec))
        BY AfterFacts DEF Types
    <2> QED
        BY <2>1 DEF Handle, IsTable, Entry
<1>2. report' \in {"off", "scan", "sleep"}
    BY DEF Handle, SyncReporting, Types
<1>3. /\ timers' \subseteq timers
      /\ DOMAIN timerOf' \subseteq DOMAIN timerOf
      /\ timerOf' \in [DOMAIN timerOf' -> 1..runs]
    BY DEF Handle, CancelTimer, timing, Restrict, Types
<1>4. /\ runs' \in Nat /\ runs <= runs' /\ runOf' \in [RoIds -> 0..runs']
    <2>1. CASE runs' = runs /\ runOf' = runOf
        BY <2>1 DEF Types
    <2>2. CASE NewRun(id)
        BY <2>2, SetupFacts DEF NewRun, Types
    <2> QED
        BY <2>1, <2>2 DEF Handle
<1>5. 1..runs \subseteq 1..runs'
    BY <1>4 DEF Types
<1>6. EdgeType'
    <2>1. edge' = edge
        BY DEF Handle
    <2> QED
        BY <1>5, <2>1 DEF EdgeType, Types, IsTable, Entry, NoEdge
<1> QED
    BY <1>1, <1>2, <1>3, <1>4, <1>5, <1>6 DEF Handle, Types, gpio, history

\* The steps of set_gpi().
LEMMA EdgeTypes ==
    ASSUME Types, setup' = setup, Edge
    PROVE  Types'
<1> USE DEF gpio, reporting, timing, history
<1>1. CASE Snapshot
    <2>1. EdgeType'
        BY <1>1 DEF Snapshot, EdgeType, Types, IsTable, Entry
    <2>2. UNCHANGED <<slot, broken, rospecs, gpio, disconnected, reporting, timing, history>>
        BY <1>1 DEF Snapshot
    <2> QED
        BY <2>1, <2>2 DEF Types, IsTable, Entry
<1>2. CASE TimerStarts
    <2>1. edge.at = "started" /\ IsTable(edge.todo) /\ edge.timer \in [id : setup.ids, run : 1..runs]
        BY <1>2 DEF TimerStarts, Types, EdgeType
    <2>2. EdgeType'
        BY <1>2, <2>1 DEF TimerStarts, EdgeType, IsTable, Entry
    <2>3. timers' \subseteq [id : setup.ids, run : 1..runs]
        BY <1>2, <2>1 DEF TimerStarts, Types
    <2>4. DOMAIN timerOf' \subseteq setup.ids /\ timerOf' \in [DOMAIN timerOf' -> 1..runs]
        BY <1>2, <2>1, SMT DEF TimerStarts, Types, Put
    <2>5. UNCHANGED <<slot, broken, rospecs, gpio, disconnected, reporting, history>>
        BY <1>2 DEF TimerStarts
    <2> QED
        BY <2>2, <2>3, <2>4, <2>5 DEF Types, IsTable, Entry
<1>3. CASE EdgeEnds
    <2>1. report' \in {"off", "scan", "sleep"}
        BY <1>3 DEF EdgeEnds, SyncReporting, Types
    <2>2. EdgeType'
        BY <1>3 DEF EdgeEnds, EdgeType, NoEdge
    <2>3. UNCHANGED <<slot, broken, rospecs, gpio, disconnected, profile, timing, history>>
        BY <1>3 DEF EdgeEnds
    <2> QED
        BY <2>1, <2>2, <2>3 DEF Types, IsTable, Entry
<1>4. ASSUME NEW id \in RoIds, EdgeStarts(id)
      PROVE  Types'
    <2>1. /\ edge.at = "applying" /\ id \in DOMAIN edge.todo /\ IsTable(edge.todo)
          /\ edge = [at |-> "applying", port |-> edge.port, high |-> edge.high, todo |-> edge.todo]
        BY <1>4 DEF EdgeStarts, Applying, Types, EdgeType
    <2>2. id \in setup.ids /\ edge.todo[id] \in Entry
        BY <2>1 DEF IsTable
    <2> DEFINE e == [spec |-> edge.todo[id].spec, state |-> "Active"]
    <2>3. e \in Entry
        BY <2>2 DEF Entry, States
    <2>4. rospecs' = Put(rospecs, id, e)
        BY <1>4 DEF EdgeStarts
    <2> HIDE DEF e
    <2>5. IsTable(rospecs)'
        BY <2>2, <2>3, <2>4, SMT DEF Types, IsTable, Put, Entry
    <2>6. Done(id).todo = Restrict(edge.todo, DOMAIN edge.todo \ {id})
        BY <2>1 DEF Done
    <2>7. IsTable(Done(id).todo)
        BY <2>1, <2>6, SMT DEF IsTable, Restrict
    <2>8. runs' = runs + 1 /\ runOf' = [runOf EXCEPT ![id] = runs + 1]
        BY <1>4 DEF EdgeStarts, NewRun
    <2>9. runs' \in Nat /\ runOf' \in [RoIds -> 0..runs'] /\ 1..runs \subseteq 1..runs' /\ runs + 1 \in 1..runs'
        BY <2>8 DEF Types
    <2>10. byEdge' \subseteq 1..runs'
        BY <1>4, <2>9 DEF EdgeStarts, Types
    <2>11. edge' = [at |-> "started", port |-> edge.port, high |-> edge.high,
                    todo |-> Done(id).todo, timer |-> [id |-> id, run |-> runs + 1],
                    cap |-> edge.todo[id].spec.cap]
        BY <1>4 DEF EdgeStarts
    <2> HIDE DEF Done
    <2>12. EdgeType'
        <3>1. edge'.at = "started" /\ edge'.todo = Done(id).todo /\ edge'.timer = [id |-> id, run |-> runs + 1]
            BY <2>11
        <3>2. IsTable(edge.todo)'
            BY <2>7, <3>1 DEF IsTable, Entry
        <3>3. edge'.timer \in [id : setup'.ids, run : 1..runs']
            BY <2>2, <2>9, <3>1
        <3> QED
            BY <3>1, <3>2, <3>3 DEF EdgeType
    <2>13. UNCHANGED <<slot, broken, gpio, disconnected, reporting, timing, conns>>
        BY <1>4 DEF EdgeStarts
    <2> QED
        BY <2>5, <2>9, <2>10, <2>12, <2>13 DEF Types
<1>5. ASSUME NEW id \in RoIds, EdgeStops(id) \/ EdgeSkips(id) \/ EdgeRaises(id)
      PROVE  Types'
    <2>1. /\ edge.at = "applying" /\ id \in DOMAIN edge.todo /\ IsTable(edge.todo)
          /\ edge = [at |-> "applying", port |-> edge.port, high |-> edge.high, todo |-> edge.todo]
        BY <1>5 DEF EdgeStops, EdgeSkips, EdgeRaises, Applying, Types, EdgeType
    <2>2. Done(id) = [at |-> "applying", port |-> edge.port, high |-> edge.high,
                      todo |-> Restrict(edge.todo, DOMAIN edge.todo \ {id})]
        BY <2>1 DEF Done
    <2> DEFINE rest == Restrict(edge.todo, DOMAIN edge.todo \ {id})
    <2>3. IsTable(rest)
        BY <2>1, SMT DEF IsTable, Restrict
    <2> HIDE DEF rest
    <2>4. EdgeType'
        <3>1. edge' = NoEdge \/ edge' = [at |-> "applying", port |-> edge.port, high |-> edge.high, todo |-> rest]
            BY <1>5, <2>2 DEF EdgeStops, EdgeSkips, EdgeRaises, rest
        <3> QED
            BY <2>3, <3>1 DEF EdgeType, NoEdge, IsTable, Entry
    <2>5. IsTable(rospecs)'
        <3>1. rospecs' = rospecs \/ (id \in DOMAIN rospecs /\ rospecs' = [rospecs EXCEPT ![id].state = "Enabled"])
            BY <1>5 DEF EdgeStops, EdgeSkips, EdgeRaises
        <3>2. IsTable(rospecs) /\ "Enabled" \in States
            BY DEF Types, States
        <3>3. IsTable(rospecs')
            BY <3>1, <3>2, StateFacts
        <3> QED
            BY <3>3 DEF IsTable, Entry
    <2>6. /\ timers' \subseteq timers
          /\ DOMAIN timerOf' \subseteq DOMAIN timerOf
          /\ timerOf' \in [DOMAIN timerOf' -> 1..runs]
        BY <1>5 DEF EdgeStops, EdgeSkips, EdgeRaises, CancelTimer, Restrict, Types
    <2>7. UNCHANGED <<slot, broken, gpio, disconnected, reporting, history>>
        BY <1>5 DEF EdgeStops, EdgeSkips, EdgeRaises
    <2> QED
        BY <2>4, <2>5, <2>6, <2>7 DEF Types
<1> QED
    BY <1>1, <1>2, <1>3, <1>4, <1>5 DEF Edge

\* The rest: clients, lines, cables, reports and timers.
LEMMA OtherTypes ==
    ASSUME Types, setup' = setup, UNCHANGED <<runs, runOf, byEdge>>,
           \/ Accept \/ Breaks \/ ClientGone \/ GetROSpecs \/ Stimulus \/ ReportLoop
           \/ \E p \in Ports, on \in BOOLEAN : SetReaderConfig(p, on)
           \/ \E t \in timers : TimerFires(t)
    PROVE  Types'
<1> USE DEF gpio, reporting, timing, history
<1>1. CASE Accept
    <2>1. slot' \in 0..conns' /\ conns' \in 0..setup'.conns
        BY <1>1, SetupFacts DEF Accept, Types
    <2>2. IsTable(rospecs)'
        BY <1>1 DEF Accept, IsTable, NoROSpecs
    <2>3. EdgeType'
        BY <1>1 DEF Accept, EdgeType, Types, IsTable, Entry, NoEdge
    <2> QED
        BY <1>1, <2>1, <2>2, <2>3 DEF Accept, Types
<1>2. CASE Breaks \/ ClientGone \/ GetROSpecs \/ \E p \in Ports, on \in BOOLEAN : SetReaderConfig(p, on)
    <2>1. UNCHANGED <<rospecs, edge, conns, disconnected, profile, timing, gpiHigh>>
        BY <1>2 DEF Breaks, ClientGone, GetROSpecs, SetReaderConfig
    <2>2. EdgeType' /\ IsTable(rospecs)'
        BY <2>1 DEF EdgeType, Types, IsTable, Entry, NoEdge
    <2>3. slot' \in 0..conns'
        <3>1. conns \in Nat /\ slot \in 0..conns
            BY SetupFacts DEF Types
        <3>2. slot' \in {slot, 0}
            BY <1>2 DEF Breaks, ClientGone, GetROSpecs, SetReaderConfig
        <3> QED
            BY <2>1, <3>1, <3>2
    <2>4. broken' \in BOOLEAN /\ report' \in {"off", "scan", "sleep"}
        BY <1>2 DEF Breaks, ClientGone, GetROSpecs, SetReaderConfig, Types
    <2>5. gpiConfig' \in [Ports -> BOOLEAN]
        BY <1>2 DEF Breaks, ClientGone, GetROSpecs, SetReaderConfig, Types
    <2> QED
        BY <2>1, <2>2, <2>3, <2>4, <2>5 DEF Types
<1>3. ASSUME NEW p \in Ports, NEW high \in BOOLEAN, SetGpi(p, high)
      PROVE  Types'
    <2>1. EdgeType'
        BY <1>3 DEF SetGpi, EdgeType, NoEdge
    <2>2. UNCHANGED <<slot, broken, rospecs, gpiConfig, disconnected, reporting, timing, history>>
        BY <1>3 DEF SetGpi
    <2>3. gpiHigh' \in [Ports -> BOOLEAN]
        BY <1>3 DEF SetGpi, Types
    <2> QED
        BY <2>1, <2>2, <2>3 DEF Types, IsTable, Entry
<1>4. ASSUME (\E a \in Antennas, on \in BOOLEAN : SetAntennaConnected(a, on)) \/ ReportLoop
      PROVE  Types'
    <2>1. UNCHANGED <<slot, broken, rospecs, gpio, timing, edge, history>>
        BY <1>4 DEF SetAntennaConnected, ReportLoop, Scan, NoReport, SendFails, Report
    <2>2. EdgeType' /\ IsTable(rospecs)'
        BY <2>1 DEF EdgeType, Types, IsTable, Entry, NoEdge
    <2>3. disconnected' \subseteq Antennas
        BY <1>4 DEF SetAntennaConnected, ReportLoop, Scan, NoReport, SendFails, Report, Types
    <2>4. report' \in {"off", "scan", "sleep"}
        BY <1>4 DEF SetAntennaConnected, ReportLoop, Scan, NoReport, SendFails, Report, Types
    <2>5. profile' \subseteq Antennas
        <3>1. CASE Scan
            <4>1. \A r \in DOMAIN rospecs : rospecs[r].spec \in setup.specs
                BY DEF Types, IsTable, Entry
            <4>2. \A r \in DOMAIN rospecs : rospecs[r].spec.antennas \subseteq Antennas
                BY <4>1, SetupFacts DEF Types
            <4> QED
                BY <3>1, <4>2 DEF Scan
        <3>2. CASE profile' = profile
            BY <3>2 DEF Types
        <3> QED
            BY <1>4, <3>1, <3>2 DEF SetAntennaConnected, ReportLoop, NoReport, SendFails, Report
    <2> QED
        BY <2>1, <2>2, <2>3, <2>4, <2>5 DEF Types
<1>5. ASSUME NEW t \in timers, TimerFires(t)
      PROVE  Types'
    <2>1. rospecs' = rospecs \/ (t.id \in DOMAIN rospecs /\ rospecs' = [rospecs EXCEPT ![t.id].state = "Enabled"])
        BY <1>5 DEF TimerFires
    <2>2. IsTable(rospecs')
        <3>1. IsTable(rospecs) /\ "Enabled" \in States
            BY DEF Types, States
        <3> QED
            BY <2>1, <3>1, StateFacts
    <2>3. /\ timers' \subseteq timers
          /\ DOMAIN timerOf' \subseteq DOMAIN timerOf
          /\ timerOf' \in [DOMAIN timerOf' -> 1..runs]
        BY <1>5 DEF TimerFires, Restrict, Types
    <2>4. report' \in {"off", "scan", "sleep"}
        BY <1>5 DEF TimerFires, SyncReporting, Types
    <2>5. UNCHANGED <<slot, broken, gpio, disconnected, profile, edge, history>>
        BY <1>5 DEF TimerFires
    <2>6. EdgeType' /\ IsTable(rospecs)'
        BY <2>2, <2>5 DEF EdgeType, Types, IsTable, Entry, NoEdge
    <2> QED
        BY <2>3, <2>4, <2>5, <2>6 DEF Types
<1> QED
    BY <1>1, <1>2, <1>3, <1>4, <1>5 DEF Stimulus

LEMMA TypesNext == Types /\ [Next]_evars => Types'
<1> SUFFICES ASSUME Types, [Next]_evars
             PROVE  Types'
    OBVIOUS
<1>1. CASE UNCHANGED evars
    BY <1>1 DEF evars, gpio, reporting, timing, history, Types, EdgeType, IsTable, Entry, NoEdge
<1>2. CASE Next
    <2>1. setup' = setup
        BY <1>2 DEF Next
    <2>2. CASE \/ \E op \in RoOps \ {"ADD"}, id \in setup.ids : Handle(op, id, {})
               \/ \E id \in setup.ids, spec \in setup.specs : Handle("ADD", id, spec)
        <3>1. "ADD" \in RoOps
            BY DEF RoOps
        <3>2. ASSUME NEW op \in RoOps \ {"ADD"}, NEW id \in setup.ids, Handle(op, id, {})
              PROVE  Types'
            BY <2>1, <3>2, HandleTypes
        <3>3. ASSUME NEW id \in setup.ids, NEW spec \in setup.specs, Handle("ADD", id, spec)
              PROVE  Types'
            BY <2>1, <3>1, <3>3, HandleTypes
        <3> QED
            BY <2>2, <3>2, <3>3
    <2>3. CASE Edge
        BY <2>1, <2>3, EdgeTypes
    <2>4. CASE \/ Accept \/ Breaks \/ ClientGone \/ GetROSpecs \/ Stimulus \/ ReportLoop
               \/ \E p \in Ports, on \in BOOLEAN : SetReaderConfig(p, on)
               \/ \E t \in timers : TimerFires(t)
        <3>1. UNCHANGED <<runs, runOf, byEdge>>
            BY <2>4 DEF Accept, Breaks, ClientGone, GetROSpecs, Stimulus, SetGpi, SetAntennaConnected,
                        ReportLoop, Scan, NoReport, SendFails, Report, SetReaderConfig, TimerFires, history
        <3> QED
            BY <2>1, <2>4, <3>1, OtherTypes
    <2> QED
        BY <1>2, <2>2, <2>3, <2>4 DEF Next, Client
<1> QED
    BY <1>1, <1>2

-----------------------------------------------------------------------------
(* Edges, reports and timers while no send blocks.                         *)

\* Who may run in the middle of an edge changes nothing an edge looks at.
LEMMA Waits ==
    ASSUME Types, ~setup.blocking, setup' = setup, Next
    PROVE  \/ Edge
           \/ edge = NoEdge /\ edge'.at # "applying" /\ edge'.at # "started"
           \/ Breaks \/ SendFails
<1>1. Interleaves /\ ~Edge => edge = NoEdge
    BY DEF Interleaves
<1>2. CASE Client /\ ~Breaks
    <2>1. edge = NoEdge /\ edge' = edge
        BY <1>1, <1>2 DEF Client, Interleaves, Accept, ClientGone, GetROSpecs, Handle, SetReaderConfig
    <2> QED
        BY <2>1 DEF NoEdge
<1>3. CASE Stimulus
    BY <1>3 DEF Stimulus, Interleaves, SetGpi, SetAntennaConnected, NoEdge
<1>4. CASE ReportLoop /\ ~SendFails
    BY <1>4 DEF ReportLoop, Interleaves, Scan, NoReport, Report, NoEdge
<1>5. CASE \E t \in timers : TimerFires(t)
    BY <1>5 DEF TimerFires, Interleaves, NoEdge
<1> QED
    BY <1>2, <1>3, <1>4, <1>5 DEF Next

\* While an edge looks at the ROSpecs, nothing else changes them.
LEMMA TodoStep ==
    ASSUME Types, TodoInv, ~setup.blocking, setup' = setup, Next
    PROVE  TodoInv'
<1>1. CASE edge = NoEdge /\ edge'.at # "applying" /\ edge'.at # "started"
    BY <1>1 DEF TodoInv
<1>2. CASE Breaks \/ SendFails
    BY <1>2 DEF Breaks, SendFails, TodoInv
<1>3. CASE Snapshot
    BY <1>3 DEF Snapshot, TodoInv
<1>4. CASE TimerStarts
    BY <1>4 DEF TimerStarts, TodoInv
<1>5. CASE EdgeEnds
    BY <1>5 DEF EdgeEnds, TodoInv, NoEdge
<1>6. ASSUME NEW id \in RoIds,
             EdgeStarts(id) \/ EdgeStops(id) \/ EdgeRaises(id) \/ EdgeSkips(id)
      PROVE  TodoInv'
    <2>1. /\ edge.at = "applying" /\ id \in DOMAIN edge.todo
          /\ edge = [at |-> "applying", port |-> edge.port, high |-> edge.high, todo |-> edge.todo]
        BY <1>6 DEF EdgeStarts, EdgeStops, EdgeSkips, EdgeRaises, Applying, Types, EdgeType
    <2>2. \A r \in DOMAIN edge.todo : r \in DOMAIN rospecs /\ edge.todo[r] = rospecs[r]
        BY <2>1 DEF TodoInv
    <2>3. \/ edge' = NoEdge
          \/ edge'.todo = Restrict(edge.todo, DOMAIN edge.todo \ {id})
        <3>1. Done(id) = [at |-> "applying", port |-> edge.port, high |-> edge.high,
                          todo |-> Restrict(edge.todo, DOMAIN edge.todo \ {id})]
            BY <2>1 DEF Done
        <3> QED
            BY <1>6, <3>1 DEF EdgeStarts, EdgeStops, EdgeSkips, EdgeRaises
    <2>4. \A r \in DOMAIN rospecs \ {id} : r \in DOMAIN rospecs' /\ rospecs'[r] = rospecs[r]
        <3>1. CASE EdgeStarts(id)
            BY <3>1, SMT DEF EdgeStarts, Put
        <3>2. CASE EdgeStops(id)
            BY <3>2 DEF EdgeStops, Types, IsTable
        <3>3. CASE EdgeSkips(id) \/ EdgeRaises(id)
            BY <3>3 DEF EdgeSkips, EdgeRaises
        <3> QED
            BY <1>6, <3>1, <3>2, <3>3
    <2>5. CASE edge' = NoEdge
        BY <2>5 DEF TodoInv, NoEdge
    <2>6. CASE edge'.todo = Restrict(edge.todo, DOMAIN edge.todo \ {id})
        <3>1. /\ DOMAIN edge'.todo = DOMAIN edge.todo \ {id}
              /\ \A r \in DOMAIN edge'.todo : edge'.todo[r] = edge.todo[r]
            BY <2>6 DEF Restrict
        <3> QED
            BY <2>2, <2>4, <3>1 DEF TodoInv
    <2> QED
        BY <2>3, <2>5, <2>6
<1> QED
    BY <1>1, <1>2, <1>3, <1>4, <1>5, <1>6, Waits DEF Edge

LEMMA SyncFacts ==
    ASSUME NEW table, SyncReporting(table)
    PROVE  report' # "off" <=> IsActive(table)
BY DEF SyncReporting

\* The report loop starts and stops with what is active.
LEMMA ReportStep ==
    ASSUME Types, TodoInv, ReportInv, TimerInv, ~setup.blocking, setup' = setup, Next
    PROVE  ReportInv'
<1>1. /\ slot \in 0..conns /\ conns \in Nat
      /\ conns = 0 => slot = 0
    BY SetupFacts DEF Types
<1>2. ASSUME NEW op \in RoOps, NEW id \in setup.ids, NEW spec, op = "ADD" => spec \in setup.specs,
             Handle(op, id, spec)
      PROVE  ReportInv'
    <2>1. slot # 0 /\ slot' = slot /\ conns' = conns /\ broken' = broken
          /\ edge = NoEdge /\ edge' = edge /\ rospecs' = After(rospecs, op, id, spec)
        BY <1>2 DEF Handle, Interleaves
    <2>2. op \notin {"START", "STOP", "DELETE"} => (IsActive(rospecs') <=> IsActive(rospecs))
        <3>1. IsTable(rospecs)
            BY DEF Types
        <3>2. op \notin {"START", "STOP", "DELETE"}
                  => (IsActive(After(rospecs, op, id, spec)) <=> IsActive(rospecs))
            BY <1>2, <3>1, AfterFacts
        <3> QED
            BY <2>1, <3>2
    <2>3. CASE op \notin {"START", "STOP", "DELETE"}
        <3>1. report' = report
            BY <1>2, <2>3 DEF Handle
        <3> QED
            BY <1>1, <2>1, <2>2, <2>3, <3>1 DEF ReportInv, ActiveReports, NoIdleReports
    <2>4. CASE op \in {"START", "STOP", "DELETE"}
        <3>1. SyncReporting(rospecs')
            BY <1>2, <2>4 DEF Handle
        <3>2. report' # "off" <=> IsActive(rospecs')
            BY <3>1, SyncFacts
        <3> QED
            BY <1>1, <2>1, <3>2 DEF ReportInv, ActiveReports, NoIdleReports
    <2> QED
        BY <2>3, <2>4
<1>3. CASE Edge
    <2>1. CASE EdgeEnds
        <3>1. /\ report' # "off" <=> IsActive(rospecs)
              /\ UNCHANGED <<slot, conns, broken, rospecs, timers>>
            BY <2>1, SyncFacts DEF EdgeEnds, timing, history
        <3>2. conns = 0 => ~IsActive(rospecs)
            BY DEF ReportInv, IsActive
        <3>3. ActiveReports' /\ NoIdleReports'
            BY <3>1 DEF ActiveReports, NoIdleReports
        <3> QED
            BY <3>1, <3>2, <3>3 DEF ReportInv
    <2>2. CASE ~EdgeEnds
        <3>1. edge' # NoEdge
            <4>1. CASE Snapshot \/ TimerStarts
                BY <4>1 DEF Snapshot, TimerStarts, NoEdge
            <4>2. ASSUME NEW id \in RoIds, EdgeStarts(id) \/ EdgeStops(id) \/ EdgeSkips(id) \/ EdgeRaises(id)
                  PROVE  edge' # NoEdge
                <5>1. /\ edge.at = "applying" /\ id \in DOMAIN edge.todo
                      /\ edge = [at |-> "applying", port |-> edge.port, high |-> edge.high, todo |-> edge.todo]
                    BY <4>2 DEF EdgeStarts, EdgeStops, EdgeSkips, EdgeRaises, Applying, Types, EdgeType
                <5>2. Done(id).at = "applying"
                    BY <5>1 DEF Done
                <5>3. ~EdgeRaises(id)
                    BY <5>1 DEF EdgeRaises, TodoInv
                <5>4. edge'.at \in {"applying", "started"}
                    BY <4>2, <5>2, <5>3 DEF EdgeStarts, EdgeStops, EdgeSkips
                <5> QED
                    BY <5>4 DEF NoEdge
            <4> QED
                BY <1>3, <2>2, <4>1, <4>2 DEF Edge
        <3>2. conns' = conns /\ report' = report
            BY <1>3, <2>2 DEF Edge, Snapshot, TimerStarts, EdgeStarts, EdgeStops, EdgeSkips, EdgeRaises,
                              reporting, history
        <3>3. ASSUME conns = 0
              PROVE  DOMAIN rospecs' = {} /\ timers' = {}
            <4>1. DOMAIN rospecs = {} /\ timers = {}
                BY <3>3 DEF ReportInv
            <4>2. edge.at \in {"applying", "started"} => DOMAIN edge.todo = {}
                BY <4>1 DEF TodoInv
            <4>3. ~TimerStarts
                <5>1. edge.at = "started" => Running(edge.timer.id)
                    BY <3>3 DEF TimerInv
                <5> QED
                    BY <4>1, <5>1 DEF TimerStarts, Running
            <4>4. \A id \in RoIds : ~Applying(id)
                BY <4>2 DEF Applying
            <4>5. Snapshot
                BY <1>3, <2>2, <4>3, <4>4 DEF Edge, EdgeStarts, EdgeStops, EdgeSkips, EdgeRaises
            <4> QED
                BY <4>1, <4>5 DEF Snapshot, timing
        <3> QED
            BY <3>1, <3>2, <3>3 DEF ReportInv, ActiveReports, NoIdleReports
    <2> QED
        BY <2>1, <2>2
<1>4. CASE Accept
    <2>1. /\ conns' = conns + 1 /\ slot' = conns + 1 /\ rospecs' = NoROSpecs
          /\ slot = 0 /\ edge = NoEdge /\ UNCHANGED report
        BY <1>4 DEF Accept, Interleaves, reporting
    <2>2. ~IsActive(rospecs')
        BY <2>1 DEF IsActive, NoROSpecs
    <2>3. slot' = 1 => report' = "off"
        BY <1>1, <2>1 DEF ReportInv
    <2> QED
        BY <1>1, <2>1, <2>2, <2>3 DEF ReportInv, ActiveReports, NoIdleReports
<1>5. CASE ClientGone \/ GetROSpecs \/ \E p \in Ports, on \in BOOLEAN : SetReaderConfig(p, on)
    <2>1. /\ UNCHANGED <<rospecs, edge, conns, broken, timers>>
          /\ slot # 0
          /\ (slot' = 0 /\ report' = "off") \/ (slot' = slot /\ report' = report)
        BY <1>5 DEF ClientGone, GetROSpecs, SetReaderConfig, timing, history, reporting
    <2> QED
        BY <1>1, <2>1 DEF ReportInv, ActiveReports, NoIdleReports
<1>6. CASE Breaks \/ SendFails
    <2>1. /\ UNCHANGED <<slot, rospecs, edge, conns, timers>> /\ slot # 0 /\ broken'
          /\ report' \in {report, "off"}
        BY <1>6 DEF Breaks, SendFails, timing, history, reporting
    <2> QED
        BY <1>1, <2>1 DEF ReportInv, ActiveReports, NoIdleReports
<1>7. CASE Stimulus \/ (ReportLoop /\ ~SendFails)
    <2>1. /\ UNCHANGED <<slot, broken, rospecs, conns, timers>> /\ edge = NoEdge
          /\ report' # "off" <=> report # "off"
        BY <1>7 DEF Stimulus, SetGpi, SetAntennaConnected, ReportLoop, Scan, NoReport, Report,
                    Interleaves, timing, history, reporting
    <2>2. report \in {"off", "scan", "sleep"} /\ report' \in {"off", "scan", "sleep"}
        BY <1>7 DEF Types, Stimulus, SetGpi, SetAntennaConnected, ReportLoop, Scan, NoReport, Report,
                    reporting
    <2> QED
        BY <2>1, <2>2 DEF ReportInv, ActiveReports, NoIdleReports
<1>8. ASSUME NEW t \in timers, TimerFires(t)
      PROVE  ReportInv'
    <2>1. conns # 0 /\ edge = NoEdge /\ UNCHANGED <<slot, broken, edge, conns>>
        BY <1>8 DEF TimerFires, Interleaves, ReportInv, history
    <2>2. CASE t.id \in DOMAIN rospecs /\ rospecs[t.id].state = "Active"
        <3>1. report' # "off" <=> IsActive(rospecs')
            BY <1>8, <2>2, SyncFacts DEF TimerFires
        <3> QED
            BY <2>1, <3>1 DEF ReportInv, ActiveReports, NoIdleReports
    <2>3. CASE ~(t.id \in DOMAIN rospecs /\ rospecs[t.id].state = "Active")
        <3>1. UNCHANGED <<rospecs, report>>
            BY <1>8, <2>3 DEF TimerFires
        <3> QED
            BY <2>1, <3>1 DEF ReportInv, ActiveReports, NoIdleReports
    <2> QED
        BY <2>2, <2>3
<1>9. CASE Client
    <2>1. "ADD" \in RoOps
        BY DEF RoOps
    <2> QED
        BY <1>2, <1>4, <1>5, <1>6, <1>9, <2>1 DEF Client
<1> QED
    BY <1>3, <1>6, <1>7, <1>8, <1>9 DEF Next

\* A message leaves the timers of the runs that go on.
LEMMA TimerHandle ==
    ASSUME Types, TimerInv, conns <= 1, ~setup.blocking, setup' = setup,
           NEW op \in RoOps, NEW id \in setup.ids, NEW spec, op = "ADD" => spec \in setup.specs,
           Handle(op, id, spec)
    PROVE  TimerInv'
<1>1. IsTable(rospecs)
    BY DEF Types
<1>2. /\ rospecs' = After(rospecs, op, id, spec)
      /\ edge' = edge /\ edge = NoEdge
    BY DEF Handle, Interleaves
<1>3. /\ \A r \in DOMAIN rospecs : r # id => r \in DOMAIN rospecs' /\ rospecs'[r] = rospecs[r]
      /\ op \notin {"STOP", "DELETE"} /\ Running(id) => rospecs' = rospecs
      /\ op = "START" /\ Accepts(rospecs, op, id) => ~Running(id)
    <2> DEFINE u == After(rospecs, op, id, spec)
    <2>1. /\ \A r \in DOMAIN rospecs : r # id => r \in DOMAIN u /\ u[r] = rospecs[r]
          /\ op \notin {"STOP", "DELETE"} /\ id \in DOMAIN rospecs /\ rospecs[id].state = "Active" => u = rospecs
          /\ op = "START" /\ Accepts(rospecs, op, id) => id \in DOMAIN rospecs /\ rospecs[id].state = "Enabled"
        BY <1>1, AfterFacts
    <2> HIDE DEF u
    <2>2. rospecs' = u
        BY <1>2 DEF u
    <2> QED
        BY <2>1, <2>2 DEF Running
<1>4. \A t \in timers : /\ t.id \in DOMAIN rospecs /\ Running(t.id) /\ runOf[t.id] = t.run
                         /\ t.id \in DOMAIN timerOf /\ timerOf[t.id] = t.run
    BY DEF TimerInv, Running
<1>5. \A t \in timers : t.id # id \/ op \notin {"STOP", "DELETE"} => Running(t.id)'
    BY <1>3, <1>4 DEF Running
<1>6. \A t \in timers : runOf'[t.id] = runOf[t.id]
    <2>1. CASE op = "START" /\ Accepts(rospecs, op, id)
        <3>1. \A t \in timers : t.id # id
            BY <1>3, <1>4, <2>1
        <3>2. runOf' = [runOf EXCEPT ![id] = runs + 1]
            BY <2>1 DEF Handle, NewRun
        <3>3. runOf \in [RoIds -> 0..runs] /\ \A t \in timers : t.id \in RoIds
            BY SetupFacts DEF Types
        <3> QED
            BY <3>1, <3>2, <3>3
    <2>2. CASE ~(op = "START" /\ Accepts(rospecs, op, id))
        BY <2>2 DEF Handle
    <2> QED
        BY <2>1, <2>2
<1>7. \A t \in timers' : /\ t \in timers /\ (t.id # id \/ op \notin {"STOP", "DELETE"})
                          /\ t.id \in DOMAIN timerOf' /\ timerOf'[t.id] = timerOf[t.id]
    <2>1. CASE op \in {"STOP", "DELETE"}
        <3>1. CancelTimer(id)
            BY <2>1 DEF Handle
        <3>2. \A t \in timers' : t \in timers /\ t.id # id
            BY <1>4, <3>1 DEF CancelTimer
        <3>3. \A r \in DOMAIN timerOf : r # id => r \in DOMAIN timerOf' /\ timerOf'[r] = timerOf[r]
            BY <3>1 DEF CancelTimer, Restrict
        <3> QED
            BY <1>4, <3>2, <3>3
    <2>2. CASE op \notin {"STOP", "DELETE"}
        BY <1>4, <2>2 DEF Handle, timing
    <2> QED
        BY <2>1, <2>2
<1> QED
    BY <1>2, <1>4, <1>5, <1>6, <1>7 DEF TimerInv, NoEdge

\* An edge starts no run of a ROSpec that has a timer, and stops what it cancels.
LEMMA TimerEdge ==
    ASSUME Types, TodoInv, TimerInv, conns <= 1, setup' = setup, Edge
    PROVE  TimerInv'
<1>1. \A t \in timers : /\ t.id \in DOMAIN rospecs /\ Running(t.id) /\ runOf[t.id] = t.run
                         /\ t.id \in DOMAIN timerOf /\ timerOf[t.id] = t.run
    BY DEF TimerInv, Running
<1>2. CASE Snapshot \/ EdgeEnds \/ \E id \in RoIds : EdgeSkips(id) \/ EdgeRaises(id)
    <2>1. UNCHANGED <<rospecs, timers, timerOf, runOf>>
        BY <1>2 DEF Snapshot, EdgeEnds, EdgeSkips, EdgeRaises, timing, history
    <2>2. edge'.at # "started"
        <3>1. CASE Snapshot \/ EdgeEnds
            BY <3>1 DEF Snapshot, EdgeEnds, NoEdge
        <3>2. ASSUME NEW id \in RoIds, EdgeSkips(id) \/ EdgeRaises(id)
              PROVE  edge'.at # "started"
            <4>1. edge = [at |-> "applying", port |-> edge.port, high |-> edge.high, todo |-> edge.todo]
                BY <3>2 DEF EdgeSkips, EdgeRaises, Applying, Types, EdgeType
            <4>2. Done(id).at = "applying"
                BY <4>1 DEF Done
            <4> QED
                BY <3>2, <4>2 DEF EdgeSkips, EdgeRaises, NoEdge
        <3> QED
            BY <1>2, <3>1, <3>2
    <2> QED
        BY <1>1, <2>1, <2>2 DEF TimerInv, Running
<1>3. CASE TimerStarts
    <2> DEFINE n == edge.timer
    <2>1. /\ edge.at = "started" /\ UNCHANGED <<rospecs, runOf>> /\ edge'.at = "applying"
          /\ n \in [id : setup.ids, run : 1..runs]
        BY <1>3 DEF TimerStarts, history, Types, EdgeType
    <2>2. Running(n.id) /\ runOf[n.id] = n.run /\ \A t \in timers : t.id # n.id
        BY <2>1 DEF TimerInv
    <2>3. CASE edge.cap
        <3>1. timers' = timers \cup {n} /\ timerOf' = Put(timerOf, n.id, n.run)
            BY <1>3, <2>3 DEF TimerStarts
        <3> HIDE DEF n
        <3>2. /\ n.id \in DOMAIN timerOf' /\ timerOf'[n.id] = n.run
              /\ \A r \in DOMAIN timerOf : r # n.id => r \in DOMAIN timerOf' /\ timerOf'[r] = timerOf[r]
            BY <3>1, SMT DEF Put
        <3>3. \A t \in timers' : /\ Running(t.id) /\ runOf[t.id] = t.run
                                  /\ t.id \in DOMAIN timerOf' /\ timerOf'[t.id] = t.run
            BY <1>1, <2>2, <3>1, <3>2
        <3> QED
            BY <2>1, <3>3 DEF TimerInv, Running
    <2>4. CASE ~edge.cap
        <3>1. UNCHANGED <<timers, timerOf>>
            BY <1>3, <2>4 DEF TimerStarts, timing
        <3> QED
            BY <1>1, <2>1, <3>1 DEF TimerInv, Running
    <2> QED
        BY <2>3, <2>4
<1>4. ASSUME NEW id \in RoIds, EdgeStarts(id)
      PROVE  TimerInv'
    <2>1. /\ edge.at = "applying" /\ id \in DOMAIN edge.todo
          /\ edge = [at |-> "applying", port |-> edge.port, high |-> edge.high, todo |-> edge.todo]
        BY <1>4 DEF EdgeStarts, Applying, Types, EdgeType
    <2>2. id \in DOMAIN rospecs /\ ~Running(id)
        BY <1>4, <2>1 DEF EdgeStarts, StartsOn, TodoInv, Running
    <2>3. \A t \in timers : t.id # id
        BY <1>1, <2>2
    <2>4. /\ rospecs' = Put(rospecs, id, [spec |-> edge.todo[id].spec, state |-> "Active"])
          /\ runOf' = [runOf EXCEPT ![id] = runs + 1]
          /\ UNCHANGED <<timers, timerOf>>
        BY <1>4 DEF EdgeStarts, NewRun, timing
    <2>5. /\ Running(id)' /\ runOf'[id] = runs + 1
          /\ \A t \in timers : runOf'[t.id] = runOf[t.id]
        <3>1. Running(id)'
            BY <2>4 DEF Running, Put
        <3>2. runOf \in [RoIds -> 0..runs] /\ \A t \in timers : t.id \in RoIds
            BY SetupFacts DEF Types
        <3> QED
            BY <2>3, <2>4, <3>1, <3>2
    <2>6. \A t \in timers : Running(t.id)'
        <3>1. \A r \in DOMAIN rospecs : r # id => r \in DOMAIN rospecs' /\ rospecs'[r] = rospecs[r]
            BY <2>4, SMT DEF Put
        <3> QED
            BY <1>1, <2>3, <3>1 DEF Running
    <2>7. /\ edge'.at = "started" /\ edge'.timer = [id |-> id, run |-> runs + 1]
          /\ id \notin DOMAIN edge'.todo
        <3>1. Done(id).todo = Restrict(edge.todo, DOMAIN edge.todo \ {id})
            BY <2>1 DEF Done
        <3>2. id \notin DOMAIN Done(id).todo
            BY <3>1 DEF Restrict
        <3> QED
            BY <1>4, <3>2 DEF EdgeStarts
    <2>8. edge'.timer.id = id /\ edge'.timer.run = runs + 1
        BY <2>7
    <2> QED
        BY <1>1, <2>3, <2>4, <2>5, <2>6, <2>7, <2>8 DEF TimerInv, Running
<1>5. ASSUME NEW id \in RoIds, EdgeStops(id)
      PROVE  TimerInv'
    <2>1. edge = [at |-> "applying", port |-> edge.port, high |-> edge.high, todo |-> edge.todo]
        BY <1>5 DEF EdgeStops, Applying, Types, EdgeType
    <2>2. edge'.at = "applying"
        <3>1. Done(id).at = "applying"
            BY <2>1 DEF Done
        <3> QED
            BY <1>5, <3>1 DEF EdgeStops
    <2>3. /\ rospecs' = [rospecs EXCEPT ![id].state = "Enabled"] /\ CancelTimer(id) /\ runOf' = runOf
        BY <1>5 DEF EdgeStops, history
    <2>4. \A t \in timers' : t \in timers /\ t.id # id
        BY <1>1, <2>3 DEF CancelTimer
    <2>5. \A r \in DOMAIN timerOf : r # id => r \in DOMAIN timerOf' /\ timerOf'[r] = timerOf[r]
        BY <2>3 DEF CancelTimer, Restrict
    <2>6. \A r \in DOMAIN rospecs : r # id => r \in DOMAIN rospecs' /\ rospecs'[r] = rospecs[r]
        BY <2>3 DEF Types, IsTable
    <2>7. \A t \in timers' : Running(t.id)'
        BY <1>1, <2>4, <2>6 DEF Running
    <2> QED
        BY <1>1, <2>2, <2>3, <2>4, <2>5, <2>7 DEF TimerInv
<1> QED
    BY <1>2, <1>3, <1>4, <1>5 DEF Edge

\* A timer that fires takes its ROSpec's registration with it.
LEMMA TimerFired ==
    ASSUME Types, TimerInv, conns <= 1, ~setup.blocking, setup' = setup,
           NEW f \in timers, TimerFires(f)
    PROVE  TimerInv'
<1>1. \A t \in timers : /\ t.id \in DOMAIN rospecs /\ Running(t.id) /\ runOf[t.id] = t.run
                         /\ t.id \in DOMAIN timerOf /\ timerOf[t.id] = t.run
    BY DEF TimerInv, Running
<1>2. f.id \in DOMAIN rospecs /\ rospecs[f.id].state = "Active"
    BY <1>1 DEF Running
<1>3. /\ rospecs' = [rospecs EXCEPT ![f.id].state = "Enabled"]
      /\ timerOf' = Restrict(timerOf, DOMAIN timerOf \ {f.id})
      /\ timers' = {u \in timers \ {f} : ~ /\ u.id = f.id /\ f.id \in DOMAIN timerOf
                                             /\ u.run = timerOf[f.id]}
      /\ runOf' = runOf /\ edge' = edge /\ edge = NoEdge
    BY <1>2 DEF TimerFires, Interleaves, history
<1>4. \A t \in timers' : t \in timers /\ t.id # f.id
    BY <1>1, <1>3
<1>5. \A r \in DOMAIN timerOf : r # f.id => r \in DOMAIN timerOf' /\ timerOf'[r] = timerOf[r]
    BY <1>3 DEF Restrict
<1>6. \A r \in DOMAIN rospecs : r # f.id => r \in DOMAIN rospecs' /\ rospecs'[r] = rospecs[r]
    BY <1>3 DEF Types, IsTable
<1>7. \A t \in timers' : Running(t.id)'
    BY <1>1, <1>4, <1>6 DEF Running
<1> QED
    BY <1>1, <1>3, <1>4, <1>5, <1>7 DEF TimerInv, NoEdge

LEMMA TimerStep ==
    ASSUME Types, TodoInv, ReportInv, TimerInv, ~setup.blocking, setup' = setup, Next
    PROVE  TimerInv'
<1>1. conns \in Nat
    BY SetupFacts DEF Types
<1>2. CASE Accept
    <2>1. conns' = conns + 1 /\ edge' = edge /\ edge = NoEdge /\ timers' = timers
        BY <1>2 DEF Accept, Interleaves, timing
    <2>2. conns' <= 1 => timers = {}
        BY <1>1, <2>1 DEF ReportInv
    <2> QED
        BY <2>1, <2>2 DEF TimerInv, NoEdge
<1>3. CASE \/ Breaks \/ ClientGone \/ GetROSpecs \/ Stimulus \/ ReportLoop
           \/ \E p \in Ports, on \in BOOLEAN : SetReaderConfig(p, on)
    <2>1. UNCHANGED <<rospecs, timers, timerOf, runOf, conns>>
        BY <1>3 DEF Breaks, ClientGone, GetROSpecs, Stimulus, SetGpi, SetAntennaConnected, ReportLoop,
                    Scan, NoReport, SendFails, Report, SetReaderConfig, timing, history
    <2>2. edge' = edge \/ edge'.at # "started"
        BY <1>3 DEF Breaks, ClientGone, GetROSpecs, Stimulus, SetGpi, SetAntennaConnected, ReportLoop,
                    Scan, NoReport, SendFails, Report, SetReaderConfig, NoEdge
    <2> QED
        BY <2>1, <2>2 DEF TimerInv, Running
<1>4. CASE \/ \E op \in RoOps \ {"ADD"}, id \in setup.ids : Handle(op, id, {})
           \/ \E id \in setup.ids, spec \in setup.specs : Handle("ADD", id, spec)
    <2>1. conns' = conns /\ "ADD" \in RoOps
        BY <1>4 DEF Handle, RoOps
    <2>2. CASE conns <= 1
        <3>1. ASSUME NEW op \in RoOps \ {"ADD"}, NEW id \in setup.ids, Handle(op, id, {})
              PROVE  TimerInv'
            BY <2>2, <3>1, TimerHandle
        <3>2. ASSUME NEW id \in setup.ids, NEW spec \in setup.specs, Handle("ADD", id, spec)
              PROVE  TimerInv'
            BY <2>1, <2>2, <3>2, TimerHandle
        <3> QED
            BY <1>4, <3>1, <3>2
    <2>3. CASE ~(conns <= 1)
        BY <2>1, <2>3 DEF TimerInv
    <2> QED
        BY <2>2, <2>3
<1>5. CASE Edge \/ \E t \in timers : TimerFires(t)
    <2>1. conns' = conns
        BY <1>5 DEF Edge, Snapshot, TimerStarts, EdgeEnds, EdgeStarts, EdgeStops, EdgeSkips, EdgeRaises,
                    TimerFires, history
    <2>2. CASE conns <= 1
        BY <1>5, <2>2, TimerEdge, TimerFired
    <2>3. CASE ~(conns <= 1)
        BY <2>1, <2>3 DEF TimerInv
    <2> QED
        BY <2>2, <2>3
<1> QED
    BY <1>2, <1>3, <1>4, <1>5 DEF Next, Client

-----------------------------------------------------------------------------
(* One ROSpec while sends may block.                                       *)

\* A set of at most one ROSpec ID, as ActiveReports counts it.
LEMMA OneId ==
    ASSUME NEW S, IsFiniteSet(S), Cardinality(S) <= 1
    PROVE  \A r1, r2 \in S : r1 = r2
<1> SUFFICES ASSUME NEW r1 \in S, NEW r2 \in S, r1 # r2
             PROVE  FALSE
    OBVIOUS
<1>1. IsFiniteSet({r1}) /\ Cardinality({r1}) = 1
    BY FS_Singleton
<1>2. {r1} \cup {r2} \in SUBSET S /\ r2 \notin {r1}
    OBVIOUS
<1>3. Cardinality({r1} \cup {r2}) = 2
    BY <1>1, <1>2, FS_AddElement
<1>4. Cardinality({r1} \cup {r2}) <= Cardinality(S) /\ Cardinality(S) \in Nat
    BY <1>2, FS_Subset, FS_CardinalityType
<1> QED
    BY <1>3, <1>4

\* Every step that makes the ROSpec active reports it, or is an edge with
\* nothing left to look at.
LEMMA AloneStep ==
    ASSUME Types, AloneInv, setup' = setup, Next
    PROVE  AloneInv'
<1> SUFFICES ASSUME Alone
             PROVE  AloneInv'
    BY DEF AloneInv, Alone
<1>1. ASSUME NEW op \in RoOps, NEW id \in setup.ids, NEW spec, op = "ADD" => spec \in setup.specs,
             Handle(op, id, spec)
      PROVE  AloneInv'
    <2>1. UNCHANGED <<slot, broken, edge>> /\ rospecs' = After(rospecs, op, id, spec)
        BY <1>1 DEF Handle
    <2>2. CASE op \notin {"START", "STOP", "DELETE"}
        <3>1. report' = report
            BY <1>1, <2>2 DEF Handle
        <3>2. IsActive(rospecs') <=> IsActive(rospecs)
            BY <1>1, <2>1, <2>2, AfterFacts DEF Types
        <3> QED
            BY <2>1, <3>1, <3>2 DEF AloneInv
    <2>3. CASE op \in {"START", "STOP", "DELETE"}
        BY <1>1, <2>3, SyncFacts DEF Handle, AloneInv
    <2> QED
        BY <2>2, <2>3
<1>2. CASE Accept
    BY <1>2 DEF Accept, AloneInv, IsActive, NoROSpecs
<1>3. CASE ClientGone \/ GetROSpecs \/ Breaks \/ \E p \in Ports, on \in BOOLEAN : SetReaderConfig(p, on)
    <2>1. UNCHANGED <<rospecs, edge>>
        BY <1>3 DEF ClientGone, GetROSpecs, Breaks, SetReaderConfig
    <2>2. slot' = 0 \/ broken' \/ UNCHANGED <<slot, broken, report>>
        BY <1>3 DEF ClientGone, GetROSpecs, Breaks, SetReaderConfig, reporting
    <2> QED
        BY <2>1, <2>2 DEF AloneInv
<1>4. CASE Stimulus
    <2>1. UNCHANGED <<slot, broken, rospecs, report>> /\ (edge = NoEdge \/ edge' = edge)
        BY <1>4 DEF Stimulus, SetGpi, SetAntennaConnected, reporting
    <2> QED
        BY <2>1 DEF AloneInv, NoEdge
<1>5. CASE ReportLoop
    <2>1. UNCHANGED <<slot, broken, rospecs, edge>> /\ (broken \/ report' # "off")
        BY <1>5 DEF ReportLoop, Scan, NoReport, SendFails, Report
    <2> QED
        BY <2>1 DEF AloneInv
<1>6. ASSUME NEW t \in timers, TimerFires(t)
      PROVE  AloneInv'
    <2>1. UNCHANGED <<slot, broken, edge>>
        BY <1>6 DEF TimerFires
    <2>2. UNCHANGED <<rospecs, report>> \/ SyncReporting(rospecs')
        BY <1>6 DEF TimerFires
    <2> QED
        BY <2>1, <2>2, SyncFacts DEF AloneInv
<1>7. CASE Snapshot
    BY <1>7 DEF Snapshot, AloneInv, reporting
<1>8. CASE TimerStarts
    BY <1>8 DEF TimerStarts, AloneInv, reporting
<1>9. CASE EdgeEnds
    BY <1>9, SyncFacts DEF EdgeEnds, AloneInv
<1>10. ASSUME NEW id \in RoIds,
              EdgeStarts(id) \/ EdgeStops(id) \/ EdgeRaises(id) \/ EdgeSkips(id)
       PROVE  AloneInv'
    <2>1. /\ edge.at = "applying" /\ id \in DOMAIN edge.todo /\ IsTable(edge.todo)
          /\ edge = [at |-> "applying", port |-> edge.port, high |-> edge.high, todo |-> edge.todo]
        BY <1>10 DEF EdgeStarts, EdgeStops, EdgeSkips, EdgeRaises, Applying, Types, EdgeType
    <2>2. UNCHANGED <<slot, broken, report>>
        BY <1>10 DEF EdgeStarts, EdgeStops, EdgeRaises, EdgeSkips, reporting
    <2>3. CASE EdgeStarts(id)
        <3>1. Done(id).todo = Restrict(edge.todo, DOMAIN edge.todo \ {id})
            BY <2>1 DEF Done
        <3>2. DOMAIN Done(id).todo = {}
            BY <2>1, <3>1 DEF Restrict, IsTable, Alone
        <3>3. edge'.at = "started" /\ edge'.todo = Done(id).todo
            BY <2>3 DEF EdgeStarts
        <3> QED
            BY <3>2, <3>3 DEF AloneInv
    <2>4. CASE EdgeStops(id)
        <3>1. rospecs' = [rospecs EXCEPT ![id].state = "Enabled"] /\ id \in DOMAIN rospecs
            BY <2>4 DEF EdgeStops
        <3>2. DOMAIN rospecs' \subseteq {id} /\ rospecs'[id].state = "Enabled"
            BY <3>1, StateFacts DEF Types, IsTable, States, Alone
        <3> QED
            BY <3>2 DEF AloneInv, IsActive
    <2>5. CASE EdgeRaises(id) \/ EdgeSkips(id)
        <3>1. rospecs' = rospecs
            BY <2>5 DEF EdgeRaises, EdgeSkips
        <3> QED
            BY <2>1, <2>2, <3>1 DEF AloneInv
    <2> QED
        BY <1>10, <2>3, <2>4, <2>5
<1>11. CASE Client
    <2>1. "ADD" \in RoOps
        BY DEF RoOps
    <2> QED
        BY <1>1, <1>2, <1>3, <1>11, <2>1 DEF Client
<1>12. CASE Edge
    BY <1>7, <1>8, <1>9, <1>10, <1>12 DEF Edge
<1> QED
    BY <1>4, <1>5, <1>6, <1>11, <1>12 DEF Next

-----------------------------------------------------------------------------
(* The theorems.                                                           *)

LEMMA InitInv == EmulatorInit => Inv
<1> SUFFICES ASSUME EmulatorInit
             PROVE  Inv
    OBVIOUS
<1>1. IsTable(rospecs)
    BY DEF EmulatorInit, NoROSpecs, IsTable
<1>2. Types
    <2>1. setup \in Setups /\ setup.conns \in Nat
        BY SetupsAssumption DEF EmulatorInit
    <2>2. EdgeType
        BY DEF EmulatorInit, NoEdge, EdgeType
    <2>3. DOMAIN timerOf = {} /\ timerOf \in [DOMAIN timerOf -> 1..runs]
        BY DEF EmulatorInit, NoROSpecs
    <2>4. 0 \in 0..conns /\ 0 \in 0..setup.conns /\ conns = 0 /\ slot = 0
        BY <2>1 DEF EmulatorInit
    <2> QED
        BY <1>1, <2>1, <2>2, <2>3, <2>4 DEF EmulatorInit, Types
<1>3. AloneInv /\ TodoInv /\ ReportInv /\ TimerInv
    BY DEF EmulatorInit, NoROSpecs, NoEdge, AloneInv, TodoInv, ReportInv, ActiveReports, NoIdleReports,
           IsActive, TimerInv
<1> QED
    BY <1>2, <1>3 DEF Inv

LEMMA NextInv == Inv /\ [Next]_evars => Inv'
<1> SUFFICES ASSUME Inv, [Next]_evars
             PROVE  Inv'
    OBVIOUS
<1>1. Types'
    BY TypesNext DEF Inv
<1>2. CASE UNCHANGED evars
    <2>1. UNCHANGED <<slot, broken, rospecs, report, timers, timerOf, edge, conns, runOf, setup>>
        BY <1>2 DEF evars, reporting, timing, history
    <2> QED
        BY <1>1, <2>1 DEF Inv, AloneInv, Alone, TodoInv, ReportInv, ActiveReports,
                              NoIdleReports, TimerInv, Running
<1>3. CASE Next
    <2>1. setup' = setup
        BY <1>3 DEF Next
    <2>4. AloneInv'
        BY <1>3, <2>1, AloneStep DEF Inv
    <2>2. CASE ~setup.blocking
        BY <1>1, <1>3, <2>1, <2>2, <2>4, TodoStep, ReportStep, TimerStep DEF Inv
    <2>3. CASE setup.blocking
        BY <1>1, <2>1, <2>3, <2>4 DEF Inv
    <2> QED
        BY <2>2, <2>3
<1> QED
    BY <1>2, <1>3

\* The invariant holds for every set of setups.
LEMMA Invariance == Spec => []Inv
BY InitInv, NextInv, PTL DEF Spec

\* Clients, GPI edges, timers and the report loop of core.py keep their state in
\* order, and the reader reports while a ROSpec is active, also when sends block
\* if there is only one; to its first client it reports only then, as long as no
\* send blocks (_sync_reporting).
THEOREM ReportsWhileActive == Spec => []ReportsExactly
<1>1. Inv => ReportsExactly
    <2> SUFFICES ASSUME Inv
                 PROVE  ReportsExactly
        OBVIOUS
    <2>1. Types
        BY DEF Inv
    <2>2. Range(rospecs) \subseteq Entry /\ Range(timerOf) \subseteq 1..runs
        BY <2>1 DEF Types, IsTable, Range
    <2>3. timers \subseteq [id : RoIds, run : 1..runs] /\ DOMAIN timerOf \subseteq RoIds
        BY <2>1, SetupFacts DEF Types
    <2>4. TypeOK
        BY <2>1, <2>2, <2>3 DEF Types, TypeOK, IsTable, EdgeType
    <2>5. CASE ~setup.blocking
        BY <2>4, <2>5 DEF Inv, ReportInv, ReportsExactly
    <2>6. CASE setup.blocking
        <3>1. Cardinality(setup.ids) <= 1 => Alone
            BY <2>1, SetupFacts, OneId DEF Types, Alone
        <3>2. ActiveReports
            BY <2>6, <3>1 DEF Inv, AloneInv, ActiveReports, NoEdge
        <3> QED
            BY <2>4, <2>6, <3>2 DEF ReportsExactly
    <2> QED
        BY <2>5, <2>6
<1> QED
    BY <1>1, Invariance, PTL

\* A stop timer (_gpi_stop_after) ends no run but its own, whatever the ROSpecs,
\* their order and the edges, unless a send blocks or another client came.
THEOREM TimersStopTheirRun == Spec => OwnTimeout
<1>1. Inv /\ [Next]_evars
          => [\A t \in timers : TimerFires(t) /\ rospecs' # rospecs /\ ~setup.blocking /\ conns = 1
                                    => t.run = runOf[t.id]]_evars
    BY DEF Inv, TimerInv
<1> QED
    BY <1>1, Invariance, PTL DEF Spec, OwnTimeout
=============================================================================
