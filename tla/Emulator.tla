------------------------------ MODULE Emulator ------------------------------
(***************************************************************************)
(* The LLRP reader of emulator/core.py: one client at a time, ROSpecs that *)
(* the client starts or an edge on a GPI line does, timers that stop a run *)
(* whose release never comes, and the task that reports tags.              *)
(*                                                                         *)
(* Sends are awaited.  When the client reads slowly enough they block, and *)
(* then everything else may run in the middle of set_gpi().                *)
(***************************************************************************)
EXTENDS ROSpecTable, Naturals, FiniteSets

CONSTANTS
    RoIds,          \* ROSpec IDs
    Ports,          \* GPI ports
    Antennas,
    Setups          \* what there is to expect: a set of records with the fields
                    \*   ids        the ROSpec IDs in use
                    \*   specs      ROSpecs a client adds: [port, high, cap, antennas]
                    \*   blocking   do sends block?
                    \*   conns      bound: clients accepted
                    \*   runs       bound: runs of a ROSpec

\* port: the GPI line that starts the ROSpec, or none, then the host does;
\* high: its active level; cap: does the stop trigger have a timeout?
ASSUME SetupsAssumption ==
    \A s \in Setups :
        /\ s.ids \subseteq RoIds /\ IsFiniteSet(s.ids)
        /\ s.specs \subseteq [port : Ports \cup {"none"}, high : BOOLEAN, cap : BOOLEAN,
                              antennas : SUBSET Antennas]
        /\ s.blocking \in BOOLEAN
        /\ s.conns \in Nat /\ s.runs \in Nat

VARIABLES
    slot,           \* the client being served, 0 for none (_writer)
    broken,         \* the client's transport fails to send
    rospecs,        \* _rospecs
    gpiConfig,      \* _gpi_config
    gpiHigh,        \* _gpi_high
    disconnected,   \* _disconnected
    report,         \* _report_task: off, about to scan, or sleeping
    profile,        \* antennas of the _ScanProfile it sleeps on
    timers,         \* running _gpi_stop_after tasks: [id, run]
    timerOf,        \* _gpi_stop_timers: ROSpec ID -> run of its task
    edge,           \* where set_gpi is
    conns,          \* clients accepted so far
    runs,           \* runs started so far
    runOf,          \* the current or last run of each ROSpec ID
    byEdge,         \* the runs an edge started
    setup           \* one of Setups, from the start

gpio == <<gpiConfig, gpiHigh>>
reporting == <<report, profile>>
timing == <<timers, timerOf>>
history == <<conns, runs, runOf, byEdge>>
evars == <<slot, broken, rospecs, gpio, disconnected, reporting, timing, edge, history, setup>>

\* No set_gpi() is under way.
NoEdge == [at |-> "idle"]

EmulatorInit ==
    /\ slot = 0 /\ broken = FALSE
    /\ rospecs = NoROSpecs
    /\ gpiConfig = [p \in Ports |-> TRUE]
    /\ gpiHigh = [p \in Ports |-> FALSE]
    /\ disconnected = {}
    /\ report = "off" /\ profile = {}
    /\ timers = {} /\ timerOf = NoROSpecs
    /\ edge = NoEdge
    /\ conns = 0 /\ runs = 0
    /\ runOf = [r \in RoIds |-> 0] /\ byEdge = {}
    /\ setup \in Setups

\* What set_gpi() does not do runs only when it is not there or blocked.
Interleaves == edge = NoEdge \/ setup.blocking

-----------------------------------------------------------------------------
\* Reports

\* Mutant of SyncReporting: the task is only ever stopped.
SyncStops(table) == report' = IF IsActive(table) THEN report ELSE "off"

\* _sync_reporting()
SyncReporting(table) ==
    report' = IF ~IsActive(table) THEN "off"
              ELSE IF report = "off" THEN "scan" ELSE report

\* Mutant of Scan: the profile is scanned whatever is connected.
ScanAll ==
    /\ Interleaves
    /\ report = "scan"
    /\ report' = "sleep"
    /\ profile' = UNION {rospecs[r].spec.antennas :
                            r \in {s \in DOMAIN rospecs : rospecs[s].state = "Active"}}
    /\ UNCHANGED <<slot, broken, rospecs, gpio, disconnected, timing, edge, history>>

\* _scan_profile(): the antennas the active ROSpecs ask for.
Scan ==
    /\ Interleaves
    /\ report = "scan"
    /\ report' = "sleep"
    /\ profile' = UNION {rospecs[r].spec.antennas :
                            r \in {s \in DOMAIN rospecs : rospecs[s].state = "Active"}}
                  \ disconnected
    /\ UNCHANGED <<slot, broken, rospecs, gpio, disconnected, timing, edge, history>>

\* The loop's sleep is over: a tag was seen on an antenna of the profile.
Report(a) ==
    /\ Interleaves
    /\ report = "sleep" /\ a \in profile
    /\ report' = "scan"
    /\ UNCHANGED <<slot, broken, rospecs, gpio, disconnected, profile, timing, edge, history>>

\* Whatever is sent to a client that is gone stops the reports.
SendFails ==
    /\ slot # 0 /\ broken
    /\ report' = "off"
    /\ UNCHANGED <<slot, broken, rospecs, gpio, disconnected, profile, timing, edge, history>>

\* Nothing was seen.
NoReport ==
    /\ Interleaves
    /\ report = "sleep"
    /\ report' = "scan"
    /\ UNCHANGED <<slot, broken, rospecs, gpio, disconnected, profile, timing, edge, history>>

SetAntennaConnected(a, connected) ==
    /\ Interleaves
    /\ disconnected' = IF connected THEN disconnected \ {a} ELSE disconnected \cup {a}
    /\ UNCHANGED <<slot, broken, rospecs, gpio, reporting, timing, edge, history>>

-----------------------------------------------------------------------------
\* _handle_client() and _handle_message()

Accept ==
    /\ Interleaves
    /\ slot = 0 /\ conns < setup.conns
    /\ conns' = conns + 1
    /\ slot' = conns + 1
    /\ broken' = FALSE
    /\ rospecs' = NoROSpecs
    /\ disconnected' = {}
    /\ UNCHANGED <<gpio, reporting, timing, edge, runs, runOf, byEdge>>

\* The client is gone; sends fail before the read does.
Breaks ==
    /\ slot # 0 /\ ~broken
    /\ broken' = TRUE
    /\ UNCHANGED <<slot, rospecs, gpio, disconnected, reporting, timing, edge, history>>

\* `finally` of _handle_client: end of stream, an error or a bad frame.
ClientGone ==
    /\ Interleaves
    /\ slot # 0
    /\ slot' = 0
    /\ report' = "off"
    /\ UNCHANGED <<broken, rospecs, gpio, disconnected, profile, timing, edge, history>>

\* Mutant of CancelTimer: STOP and DELETE leave the timer running.
ForgetTimer(id) ==
    /\ timerOf' = Restrict(timerOf, DOMAIN timerOf \ {id})
    /\ UNCHANGED timers

\* _gpi_stop_timers.pop(id), cancelled if there was one.
CancelTimer(id) ==
    /\ timerOf' = Restrict(timerOf, DOMAIN timerOf \ {id})
    /\ timers' = timers \ {t \in timers : /\ t.id = id /\ id \in DOMAIN timerOf
                                          /\ t.run = timerOf[id]}

\* The bound on runs leaves room for n of them and for what an edge starts.
RoomFor(n) == runs + n + Cardinality(setup.ids) <= setup.runs

\* A new run of ROSpec id begins.
NewRun(id) ==
    /\ runs' = runs + 1
    /\ runOf' = [runOf EXCEPT ![id] = runs + 1]

\* ADD_, ENABLE_, DISABLE_, START_, STOP_ and DELETE_ROSPEC.
Handle(op, id, spec) ==
    /\ Interleaves
    /\ slot # 0
    /\ rospecs' = After(rospecs, op, id, spec)
    /\ IF op \in {"STOP", "DELETE"} THEN CancelTimer(id) ELSE UNCHANGED timing
    /\ IF op \in {"START", "STOP", "DELETE"} THEN SyncReporting(rospecs')
                                             ELSE UNCHANGED report
    /\ IF op = "START" /\ Accepts(rospecs, op, id)
       THEN RoomFor(1) /\ NewRun(id)
       ELSE UNCHANGED <<runs, runOf>>
    /\ UNCHANGED <<slot, broken, gpio, disconnected, profile, edge,
                   conns, byEdge>>

\* GET_ROSPECS looks the name of each state up in ROSpecState.  AttributeError
\* leaves _handle_client() by its `finally`.
GetROSpecs ==
    /\ Interleaves
    /\ slot # 0
    /\ IF \A r \in DOMAIN rospecs : rospecs[r].state \in ROSpecState
       THEN UNCHANGED <<slot, report>>
       ELSE slot' = 0 /\ report' = "off"
    /\ UNCHANGED <<broken, rospecs, gpio, disconnected, profile, timing, edge,
                   conns, runs, runOf, byEdge>>

\* SET_READER_CONFIG with a GPIPortCurrentState.
SetReaderConfig(p, on) ==
    /\ Interleaves
    /\ slot # 0
    /\ gpiConfig' = [gpiConfig EXCEPT ![p] = on]
    /\ UNCHANGED <<slot, broken, rospecs, gpiHigh, disconnected, reporting, timing,
                   edge, history>>

-----------------------------------------------------------------------------
\* set_gpi() and _apply_gpi_triggers()

\* The line changes.  A port that is enabled notifies, then applies triggers.
SetGpi(p, high) ==
    /\ edge = NoEdge /\ RoomFor(0)
    /\ gpiHigh[p] # high
    /\ gpiHigh' = [gpiHigh EXCEPT ![p] = high]
    /\ edge' = IF gpiConfig[p] THEN [at |-> "notified", port |-> p, high |-> high] ELSE NoEdge
    /\ UNCHANGED <<slot, broken, rospecs, gpiConfig, disconnected, reporting, timing, history>>

\* list(self._rospecs.items())
Snapshot ==
    /\ edge.at = "notified"
    /\ edge' = [at |-> "applying", port |-> edge.port, high |-> edge.high, todo |-> rospecs]
    /\ UNCHANGED <<slot, broken, rospecs, gpio, disconnected, reporting, timing, history>>

Applying(id) == edge.at = "applying" /\ id \in DOMAIN edge.todo

\* The edge with one ROSpec less to look at.
Done(id) == [edge EXCEPT !.todo = Restrict(@, DOMAIN @ \ {id})]

\* The edge is what an enabled ROSpec waits for ...
StartsOn(entry, port, high) ==
    entry.state = "Enabled" /\ entry.spec.port = port /\ entry.spec.high = high

\* ... or what ends an active one.
StopsOn(entry, port, high) ==
    entry.state = "Active" /\ entry.spec.port = port /\ entry.spec.high # high

\* Start it, and after the event is sent, start its timer.
EdgeStarts(id) ==
    /\ Applying(id)
    /\ StartsOn(edge.todo[id], edge.port, edge.high)
    /\ rospecs' = Put(rospecs, id, [spec |-> edge.todo[id].spec, state |-> "Active"])
    /\ NewRun(id)
    /\ byEdge' = byEdge \cup {runs + 1}
    /\ edge' = [at |-> "started", port |-> edge.port, high |-> edge.high,
                todo |-> Done(id).todo, timer |-> [id |-> id, run |-> runs + 1],
                cap |-> edge.todo[id].spec.cap]
    /\ UNCHANGED <<slot, broken, gpio, disconnected, reporting, timing, conns>>

\* Mutant of TimerStarts: no timer.
TimerForgotten ==
    /\ edge.at = "started"
    /\ edge' = [at |-> "applying", port |-> edge.port, high |-> edge.high, todo |-> edge.todo]
    /\ UNCHANGED <<timing, slot, broken, rospecs, gpio, disconnected, reporting, history>>

TimerStarts ==
    /\ edge.at = "started"
    /\ IF edge.cap
       THEN /\ timers' = timers \cup {edge.timer}
            /\ timerOf' = Put(timerOf, edge.timer.id, edge.timer.run)
       ELSE UNCHANGED timing
    /\ edge' = [at |-> "applying", port |-> edge.port, high |-> edge.high, todo |-> edge.todo]
    /\ UNCHANGED <<slot, broken, rospecs, gpio, disconnected, reporting, history>>

\* _gpi_stop_rospec(): armed for the next edge.
EdgeStops(id) ==
    /\ Applying(id)
    /\ StopsOn(edge.todo[id], edge.port, edge.high)
    /\ id \in DOMAIN rospecs
    /\ rospecs' = [rospecs EXCEPT ![id].state = "Enabled"]
    /\ CancelTimer(id)
    /\ edge' = Done(id)
    /\ UNCHANGED <<slot, broken, gpio, disconnected, reporting, history>>

\* The ROSpec is no longer there: KeyError, out of set_gpi().
EdgeRaises(id) ==
    /\ Applying(id)
    /\ StopsOn(edge.todo[id], edge.port, edge.high)
    /\ id \notin DOMAIN rospecs
    /\ edge' = NoEdge
    /\ UNCHANGED <<slot, broken, rospecs, gpio, disconnected, reporting, timing, history>>

\* Not concerned by this edge.
EdgeSkips(id) ==
    /\ Applying(id)
    /\ ~StartsOn(edge.todo[id], edge.port, edge.high)
    /\ ~StopsOn(edge.todo[id], edge.port, edge.high)
    /\ edge' = Done(id)
    /\ UNCHANGED <<slot, broken, rospecs, gpio, disconnected, reporting, timing, history>>

EdgeEnds ==
    /\ edge.at = "applying" /\ DOMAIN edge.todo = {}
    /\ SyncReporting(rospecs)
    /\ edge' = NoEdge
    /\ UNCHANGED <<slot, broken, rospecs, gpio, disconnected, profile, timing, history>>

\* _gpi_stop_after(): the sleep of a timer is over.
TimerFires(t) ==
    /\ Interleaves
    /\ t \in timers
    /\ IF t.id \in DOMAIN rospecs /\ rospecs[t.id].state = "Active"
       THEN /\ rospecs' = [rospecs EXCEPT ![t.id].state = "Enabled"]
            /\ timerOf' = Restrict(timerOf, DOMAIN timerOf \ {t.id})
            /\ timers' = {u \in timers \ {t} : ~ /\ u.id = t.id /\ t.id \in DOMAIN timerOf
                                                 /\ u.run = timerOf[t.id]}
            /\ SyncReporting(rospecs')
       ELSE /\ timers' = timers \ {t}
            /\ UNCHANGED <<rospecs, timerOf, report>>
    /\ UNCHANGED <<slot, broken, gpio, disconnected, profile, edge, history>>

-----------------------------------------------------------------------------
Client == \/ Accept \/ Breaks \/ ClientGone \/ GetROSpecs
          \/ \E op \in RoOps \ {"ADD"}, id \in setup.ids : Handle(op, id, {})
          \/ \E id \in setup.ids, spec \in setup.specs : Handle("ADD", id, spec)
          \/ \E p \in Ports, on \in BOOLEAN : SetReaderConfig(p, on)

Edge == \/ Snapshot \/ TimerStarts \/ EdgeEnds
        \/ \E id \in RoIds : EdgeStarts(id) \/ EdgeStops(id) \/ EdgeRaises(id) \/ EdgeSkips(id)

Stimulus == \/ \E p \in Ports, high \in BOOLEAN : SetGpi(p, high)
            \/ \E a \in Antennas, on \in BOOLEAN : SetAntennaConnected(a, on)

ReportLoop == Scan \/ NoReport \/ SendFails \/ \E a \in Antennas : Report(a)

Next == /\ Client \/ Edge \/ Stimulus \/ ReportLoop \/ \E t \in timers : TimerFires(t)
        /\ UNCHANGED setup

Spec == EmulatorInit /\ [][Next]_evars

\* The timers fire and set_gpi() proceeds.
FairSpec ==
    /\ Spec
    /\ WF_evars(Edge /\ UNCHANGED setup)
    /\ SF_evars((\E t \in timers : TimerFires(t)) /\ UNCHANGED setup)

-----------------------------------------------------------------------------
(***************************************************************************)
(* Properties                                                              *)
(***************************************************************************)

Entry == [spec : setup.specs, state : States]

TypeOK ==
    /\ slot \in 0..conns /\ conns \in 0..setup.conns
    /\ broken \in BOOLEAN
    /\ DOMAIN rospecs \subseteq setup.ids /\ Range(rospecs) \subseteq Entry
    /\ gpiConfig \in [Ports -> BOOLEAN] /\ gpiHigh \in [Ports -> BOOLEAN]
    /\ disconnected \subseteq Antennas /\ profile \subseteq Antennas
    /\ report \in {"off", "scan", "sleep"}
    /\ timers \subseteq [id : RoIds, run : 1..runs]
    /\ DOMAIN timerOf \subseteq RoIds /\ Range(timerOf) \subseteq 1..runs
    /\ edge.at \in {"idle", "notified", "applying", "started"}
    /\ runs \in Nat /\ runOf \in [RoIds -> 0..runs] /\ byEdge \subseteq 1..runs

Running(id) == id \in DOMAIN rospecs /\ rospecs[id].state = "Active"

\* A reader with an active ROSpec and a client that listens does report: no
\* edge, timer, stop of another ROSpec or dead task leaves it silent (QA-7).
\* Not so for several ROSpecs and sends that block: if one is deleted under the
\* loop, EdgeRaises leaves it before what it started meanwhile is reported.
ActiveReports ==
    slot # 0 /\ ~broken /\ edge = NoEdge /\ IsActive(rospecs)
    /\ (setup.blocking => Cardinality(setup.ids) <= 1) => report # "off"

\* Nor does it report to its first client when nothing is active, once no send
\* is blocked.  The next one can inherit the loop of a run that an edge began
\* while no client was there.
NoIdleReports ==
    slot = 1 /\ edge = NoEdge /\ report # "off" => IsActive(rospecs)

\* "stops on its matching edge, or when its timeout elapses first": its own
\* timeout, not that of an earlier run of a ROSpec with the same ID, unless
\* that run was another client's or was stopped while a send was blocked.
OwnTimeout ==
    [][\A t \in timers : TimerFires(t) /\ rospecs' # rospecs /\ ~setup.blocking /\ conns = 1
                          => t.run = runOf[t.id]]_evars

\* "A disconnected port stops producing tag reads": a cable pulled for good
\* is heard of no more after some time (the turn of the report loop that was
\* under way may still report it).
CutAntennaFallsSilent ==
    \A a \in Antennas : <>[](a \in disconnected) => <>[][~Report(a)]_evars

\* Reports flow exactly while a ROSpec is active, in states of the right type.
ReportsExactly == TypeOK /\ ActiveReports /\ (~setup.blocking => NoIdleReports)

\* A run with a timeout that an edge began is over some time.  Between two
\* runs a ROSpec is not active, so it is inactive again and again.
CappedRunEnds ==
    \A id \in RoIds :
        []<>~(Running(id) /\ runOf[id] \in byEdge /\ rospecs[id].spec.cap)
=============================================================================
