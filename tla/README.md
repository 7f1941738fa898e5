# llrpkit verification

TLA+ models of llrpkit's concurrent core and of its binary codec, the TLC runs
that check them, and TLAPS proofs about the client, the emulator, the reader session, the
windows, the dashboard, its monitor and policies, the webhook sink, the MQTT bridge and the
codec. Every definition is a translation of Python code under
`src/src/llrpkit/`; `PROJECT.json` gives the lines of each.

## The system

llrpkit talks LLRP, a binary request/response protocol, to RFID readers over one
TCP connection, in one asyncio event loop. Code between two `await`s is atomic;
everything else interleaves.

    cli / dashboard.app ---> dashboard.registry ---> reader ---> client ~~TCP~~ emulator
                               |  Broadcast            |  (or a real reader)
                               +--> webhook, mqtt      +--> gating, presence, health, policy

| part | state it keeps | operations | hard because |
|---|---|---|---|
| `client.LLRPClient` | transport, read task, `_pending` futures, `_connection_event`, `_close_exc`, `_closing`, three bounded queues | `connect`, `transact`, `close`, read loop and dispatch | calls of several tasks overlap with a loss of the connection, a timeout, a cancellation and a late answer |
| `reader.Reader` | `_inventory_active`; on the reader: one ROSpec, one AccessSpec | `inventory`, `_run_access` (read, write, lock, kill), `connect`, single requests | scripts of up to seven requests, each of which can be refused, lost, time out or be cancelled; `finally` blocks that await |
| `emulator.core.LLRPEmulator` | `_rospecs`, `_accessspecs`, GPI state, stop timers, report task, the one client | message handlers, `set_gpi`, `set_antenna_connected`, report loop | edges, timers, clients and the report loop change the same ROSpecs; sends can block inside a loop |
| `gating.assemble_windows` | the open window, a queue of edges | pairing of edges and reads | an edge and the reads it brackets come by different queues |
| `presence.PresenceTracker` | last-seen times | `observe`, `check`, `ticked_stream` | a tick races a read |
| `health.HealthMonitor` | what each port last read, which are connected, which were reported quiet | `observe`, `handle_event`, `check` | reads, antenna events and the passing of time come from three tasks |
| `policy.ReaderPolicy` | its counters | `evaluate`, catalog look-up | rules of several kinds apply to one tag; every drop is to be counted |
| `dashboard.registry` | readers, their three tasks, subscribers with bounded queues | connect, start/stop inventory, add/remove, broadcast | HTTP requests overlap in the middle of `await`s; a page is told changes, not states |
| `webhook` | pending batches, a table of visits | loop, flush, retry | events lost when a queue is full or a post fails |
| `mqtt` | a table of visits, edges to publish; at the broker: a retained status, a will | loop, publish, goodbye | a client that may swallow a cancellation, a connection that is lost with what is on its way |
| `protocol.codec` with its generated classes | none | encode, decode | 200 classes, parameters in any order, unknown and vendor-defined ones, lengths that lie |
| `capture`, `survey` | counters | per-read updates | time windows |
| `epc`, `modes`, `inventory` | none | pure functions | boundaries: bit fields, partitions, table look-ups |

What makes each part correct: the client answers a request with its own answer
and no other, lets nobody wait for what cannot come, and never has a transport
that is not served; a stream owns its ROSpec and leaves none behind; a tag
operation ends with its call and returns its own result; the emulator reports
while something is active and stops what it promised to stop; windows and
presence events partition the reads they saw; the dashboard runs one stream per
reader and can always stop it, and what its page, its alerts and its counters say is
true; a subscriber of the bridge sees what the bridge knows and learns that it is
gone; what is encoded decodes to the same, and what is decoded was a message.

## Modules

| module | models | lines of code it stands for |
|---|---|---|
| `DropOldest` | a bounded queue that loses its oldest entry | `LLRPClient._offer` |
| `LLRPClient` | calls of several tasks on one client, the read loop, an external reader | `client.py` |
| `RequestService` | what `transact()` promises to those who share a client, as an abstract specification | docstrings of `client.py` |
| `ProtocolProofs` | proofs about `Codec` and `Wire`; proofs about `LLRPClient` and `DropOldest`, and that `LLRPClient` implements `RequestService` | |
| `ROSpecTable` | the emulator's ROSpec table | `_add_rospec`, `_set_rospec_state`, DELETE_ROSPEC |
| `Emulator` | clients, GPI edges, stop timers, report loop, antennas | `emulator/core.py` |
| `EmulatorProofs` | proofs about `Emulator` and `ROSpecTable` | |
| `ReaderSession` | `inventory()` and the tag operations, called by several tasks, against the emulator's ROSpec and AccessSpec | `reader.py`, the handlers of `emulator/core.py` |
| `ReaderSessionProofs` | proofs about `ReaderSession` | |
| `Dashboard` | HTTP requests to one reader of the dashboard and its inventory tasks | `dashboard/registry.py`, routes of `dashboard/app.py` |
| `DashboardProofs` | proofs about `Dashboard` | |
| `Presence` | the table of visits | `presence.PresenceTracker` |
| `Webhook` | the sink's loop, its backlog and its posts, over the pump and the ticks | `WebhookSink.run`, `presence.ticked_stream` |
| `WebhookProofs` | proofs about `Webhook` and `Presence` | |
| `WindowPerTrip` | what `Reader.windows()` promises, as an abstract specification | its docstring |
| `Windows` | the line, the pumps and `assemble_windows()` | `gating.py`, `Reader.windows` |
| `WindowsProofs` | proofs that `Windows` implements `WindowPerTrip`, and of what its windows hold | |
| `Policy` | the catalog, the rules, the verdict on a tag and the counters | `policy.py` |
| `Monitor` | one reader's inventory, event and health tasks, the hub, one page | `dashboard/registry.py`, the WebSocket of `dashboard/app.py`, `health.py` |
| `MonitorProofs` | proofs about `Monitor` and `Policy` | |
| `Mqtt` | the bridge's loop, its publishes and its goodbye, over a broker | `MQTTBridge.run` |
| `MqttProofs` | proofs about `Mqtt` and `Presence` | |
| `LLRPStructs` | what a class of the protocol is: fields and slots | the conventions of the generated classes |
| `LLRPParams`, `ImpinjParams`, `LLRPMessages` | every class as a row of a table | `protocol/params.py`, `impinj.py`, `messages.py` |
| `Codec` | encoding, decoding and the binding of parameters to slots, over any tables | `protocol/codec.py` |
| `Wire` | structures that are sent, what happens to the wire, what is assumed of tables and structures | the callers of the codec |
| `MC*` | instances for TLC; `MCCodec` also the tables of the package | |

`ReaderSession` builds on what `LLRPClient` establishes: a transaction ends with
its own answer, a timeout, a cancellation or the loss of the connection. That promise is
written down in `RequestService`, which `LLRPClient` is shown to implement, by TLC and by
proof.
`Emulator` and `ReaderSession` use the same `ROSpecTable`; `LLRPClient` and
`Windows` the same `DropOldest`. `Dashboard` takes from `ReaderSession` that a
stream holds `_inventory_active` until it is torn down and that teardown ends.
`Webhook` and `Mqtt` keep their visits with `Presence`; `Monitor` asks `Policy` about
each read. `Monitor` looks at the dashboard from the other side than `Dashboard`:
there requests overlap and nothing else is kept, here they come one at a time and
everything is that the tasks tell. `Windows` is shown to implement `WindowPerTrip`, by TLC and by proof.
The codec is independent of the rest: elsewhere a message is its kind and the
identifiers in it, which `Codec` shows to survive the wire.

### How the modules read the code

An action is the code between two `await`s. Futures wake their tasks in the order
in which they were set, so an answer and the continuation of the task that
awaited it are one step where no other task can come in between.

**LLRPClient.** The variables carry the names of the fields. A transport is its
number, a message is its kind, ID and the transaction it answers. `TransactStart`,
`TransactReturns` and `TransactGivesUp` are the three parts of `transact()`;
timeout, cancellation and a failed `drain()` leave through the same `finally`, so
they are one action. `_abort` runs without an await and is part of the action that
calls it. Callers connect one at a time, as every caller in the repository does.
The reader is external: it answers any request at most once, in any order, sends
whatever it likes and hangs up at any time.

**Emulator.** `set_gpi` is split where it sends (`SetGpi`, `Snapshot`,
`EdgeStarts`, `TimerStarts`, `EdgeStops`, `EdgeEnds`); if sends block (`blocking`), one
may do so there and everything else runs in between. `EdgeRaises` is the
`KeyError` of a ROSpec deleted meanwhile. A stop timer is the run it was made for,
which is how the model tells an own timeout from a stale one. The order in which a
loop visits a snapshot of ROSpecs is left open. A refused second client changes
nothing. A `setup`, chosen at the start, says which ROSpecs there are, how many
clients and runs, and whether sends block.

**ReaderSession.** A call is a script of awaits (`Request`), one request each;
`Answered`, `TimesOut`, `Cancel` and `Lose` continue it at the next request, in the
`finally` block or at the end. The reader serves requests in order and forgets its
ROSpecs, not its AccessSpecs, when a new connection begins, as the emulator does.
A `situation`, chosen at the start, says what each task calls, where it may be
cancelled, and whether the reader is `slow` and may answer after the timeout. A call
is cancelled at most once. A call begun without a connection fails at once and is left out.

**Dashboard.** A request is where it awaits: the old task (`stop_inventory`), the
goodbye of `close()`, or the requests and reads of a tag operation. A task is the
number of the request that created it. A cancelled task that has not run is done
at once, one that streams lowers `_inventory_active` and tears down. A 404 or 409
changes nothing.

**Windows.** A trip is a number, a read is its trip and its place in it; the
timestamps that identify them in the code are not needed. Edges are pumped into
the merged queue as they are dispatched; reads get there in order, later by any
amount, which stands for the reader's report queue, the network and the pump
alike. `prompt`, chosen at the start, restricts this lag to what the `settle`
period is made for. Timers fire only on an empty queue, because
`asyncio.timeout` around a `get()` that need not wait does not suspend.

**Webhook.** Events are numbered in the order in which they come about, so that
`pending`, what the receiver took in and what was discarded can be compared; what
they say is left out. `Presence` counts a visit's reads up to what announces it
and its silence in steps of the clock. The clock moves while the loop has nothing
to take and, with a `slow` receiver, while a post is awaited; the time the loop
itself takes is none. `flush_interval` may have elapsed at any item. The receiver is external:
it acknowledges, refuses, rejects,
or takes a batch in and does not get to say so (`Perhaps`). Leaving the loop, in
whatever way, ends the pump and gives the backlog a last flush; if the task was
cancelled, `resurface_swallowed_cancel()` ends that after its first post.

**Policy, Monitor.** `Evaluate` gives the verdict on a tag and the counters after it;
what decoding finds in an EPC (a GTIN, a company prefix) is given with the tag. In
`Monitor` time is counted in turns of `_run_health`, and how long ago something
happened is an age that stops growing beyond `QuietAfter`. The tasks are actions on
the variables of the manager, its health monitor and its policy; what is published
goes into the queue of the one page and is dropped when that is full. A `situation`
says which tags and policies there are, whether antennas and the inventory fail, and
whether somebody has the page open, so that one question does not multiply the states
of another. `silence`, `asked`, `unshown` and `incidents` are history: what is true,
to compare what is said with.

**Mqtt.** As `Webhook`, with a publish for each read and each edge. A publish puts its
message on the wire and, at QoS 1 and for edges and statuses, awaits that the broker
has it. Its await may swallow a cancellation, which `resurface_swallowed_cancel()`
finds afterwards (`TagSaid`, `EdgeSaid`). The broker keeps the retained status, the
will, and, for the properties, who is present to a subscriber. A connection is in order
and may be lost with what is on its way; the bridge notices at its next publish. The
process may die at any point.

**Codec, Wire.** The wire is a sequence of bytes. A field is its bits, a vector's count
among them; signs, enumerations and texts, which are functions of these, are left out
(a string that is not UTF-8 is refused by the code and is a value here). A class is a
row of a table: its number, the widths of its fields, and its slots with what they
accept and how often; the tables stand for the generated classes one by one, and were
compared with them mechanically, as were decoder and encoder on 24,000 wires of up to 90
bytes, most of them altered. Binding, the errors of the decoder, nested lengths, unknown
parameters and vendor extensions are as in the code. What recurses in the code is a
function here: the loops over fields and parameters are functions of how many are done,
`Encoding` is one of how deep a structure nests, and `DecodeParams` gives for each
position of a wire and each end the parameters between them, so that it is defined
from the end of the wire to its beginning. Python's limit on recursion is left out: a
wire that nests parameters some hundreds deep ends in a `RecursionError` in the code, not
in a `MessageDecodeError`, and in a value here.

## Runs

| run | question | bounds |
|---|---|---|
| `client` | do overlapping calls get what `RequestService` promises, return, and share one transport; is a hang-up noticed? | 2 tasks, 2 transactions, 2 transports, queues of 1 and 2, all kinds of messages |
| `emulator` | do reports flow exactly while a ROSpec is active; does a run with a timeout end, a cut antenna fall silent? | three setups: 1 ROSpec ID, 2 clients, 3 runs, sends that block or not; 2 ROSpecs of opposite polarity, 4 runs, one client |
| `session` | does a stream get its ROSpec and leave none; does a tag operation end with its call? | 2 tasks; two situations: streams, 3 calls, 3 reports, 2 connections; tag operations, 2 calls, 2 reports, 2 connections, a slow reader, cancellation where a timeout would not end the call |
| `dashboard_control` | can the inventory always be stopped, and is it torn down in peace? | 3 requests at a time, 5 in all, 2 policies |
| `dashboard_policy` | finding | |
| `monitor` | are alerts, counters, rows and the page's roster true? | 2 antennas, quiet after 2 turns, batches of 3, 2 notifications under way, a page's queue of 3; 3 situations: failing antennas; 9 policies, 4 reads under one; an open page |
| `webhook` | is every event accounted for, do tags depart when and only when they are silent, does `run()` end? | 2 tags, 3 reads, queue of 2, batches of 2, backlog of 2 batches, departure after 2 steps |
| `webhook_slow` | finding | |
| `mqtt` | does a subscriber see what the bridge knows, and that it is gone? | 2 tags, 4 reads, queue of 2, departure after 2 steps, QoS 0 and 1, with and without events |
| `windows` | is there one window for each trip? | 3 trips, 1 read each, 2 calls, 2 connections |
| `windows_reconnect` | finding | |
| `codec` | does every structure come back from the wire, and is nothing else taken for one? | every class, every slot filled in every way with up to 2 members, two slots at once; structures up to 5 deep; an alteration of wires of up to 18 bytes, two of those of up to 9 |

Two of everything that competes is what the hazards need: two tasks for one
message table, two runs of one ROSpec for a stale timer, two calls for leftovers
of the first, two connections for leftovers of a connection, two tags for a
departure that another tag's read brings about, two ports for one that is quiet while
the other reads. Third ones are there where a step
of a bystander matters: a third request that removes the reader, a third trip that
shows a gap, a third row that fills a batch. Queues have one to three places so that
they overflow. What the codec does to one parameter does not depend on the
others but by their classes and their order in a slot, which two slots and two members
of one slot bring about. The proofs cover any number of all these.

Deadlock is checked except where the number of calls, requests, trips or alterations
is bounded and the system rests when they are used up (`session`, `dashboard_*`,
`windows*`, `codec`), and where `run()` or the reader's tasks end (`webhook*`, `mqtt`,
`monitor`).

### Fairness

- `LLRPClient`: the event loop runs a read loop that has input and a task that can
  go on; `open_connection`, the handshake, `transact` and the goodbye end because
  each stands under an `asyncio.timeout`. Nothing is assumed of the reader or of
  consumers.
- `Emulator`: `set_gpi` proceeds; a timer whose sleep is over runs (strong
  fairness: a blocked send only delays it).
- `ReaderSession`: a request that is not answered times out, and a stream whose
  connection is lost notices, because it polls. Nothing is assumed of the reader.
- `Dashboard`: tasks run, teardowns and goodbyes end; a task whose connection is
  lost fails. No request is bound to arrive.
- `Webhook`: the loop takes what is queued and ticks when nothing is; a post ends by
  `request_timeout`. Time goes on, also from one flush to the next (strong fairness
  of `Clock`). Nothing is assumed of the receiver or of the inventory.
- `Mqtt`: the loop takes what is queued and leaves when the inventory has ended; a
  publish ends by the timeout of the client; the broker takes in what arrives and
  publishes the will of a connection it lost; a dead process loses its connection.
- `Windows`: the pumps, the assembler and its timers run. The line, the reader and
  the consumer do what they like.
- `Monitor`, `Codec`: none; their properties are about what is said, not that it is.

## Findings

Each is a run that TLC finds violated, and each was reproduced with the real code.

1. `dashboard_policy`: of two starts that overlap, one leaves a task that nobody
   can stop and whose policy cannot be changed.
2. `windows_reconnect`: a client that reconnects keeps the edges of the last
   connection; a trip whose release fell into the gap swallows the next one.
3. `webhook_slow`: a read is stamped when it is taken from the queue, so after a post
   that took longer than `depart_after` tags depart whose reads wait in the queue.

Divergences known and not in a run of their own:

- Reader: when STOP_ROSPEC of a teardown times out or is cancelled, DELETE_ROSPEC is not
  sent and the ROSpec stays on the reader (`reader.py:726`, against the docstring at 616;
  `Cleaned` therefore says only what holds for a teardown that gets its answers). Two tag
  operations at the same time share one AccessSpec ID and can return each other's result
  (one task of `session` operates for that reason). A cancellation that hits
  ADD_ACCESSSPEC leaves a disabled AccessSpec until the next operation. A connection that is
  lost while an AccessSpec is enabled leaves it on the emulator, which resets its ROSpecs for
  a new client and not its AccessSpecs (`core.py:317-334`), and the next connection's
  inventory executes it, against "deleted on the way out" (`reader.py:405-407`);
  `NoLateExecution` is therefore about the connection that brought it. A stream does not
  notice a reconnect between two of its polls, 0.25 s apart.
- Windows: trips that nobody watched come out of the next `windows()` call as empty
  windows; an object that passes while `windows()` is still setting up gets an empty
  window; the reads of a window that is open when the inventory fails are lost with the
  exception.
- Emulator: GET_ROSPECS with an enabled ROSpec raises `AttributeError` (`core.py:553`) and
  drops the client; an edge that raises `KeyError` leaves `_sync_reporting` out, so that
  with sends that block and ROSpecs of both polarities an active ROSpec can have no report
  task (`ActiveReports` leaves that case out). A new client gets an empty table but not an
  idle reader (`core.py:330`): a ROSpec that the last client left enabled can be started by
  an edge between the two, and its report task goes on and sends tags to the next client,
  which has no ROSpec; likewise a stop timer that was left behind stops a run of the same
  ROSpec ID. `NoIdleReports` and `OwnTimeout` are therefore about the first client.
- Webhook: the last flush of a cancelled sink sends at most one batch and does not count
  it in `posted`.
- MQTT: a run that is cancelled or fails between its "online" and the `try` behind it
  (`mqtt.py:183-188`) takes its leave politely and leaves "online" retained, against the
  docstring of the module; `Farewell` is about runs that have begun their loop. A bridge
  that has nothing to publish does not notice a lost broker.
- Dashboard: a stop that follows a stream that failed finds a task that is tearing down, not
  awaited by anyone, and cancels its STOP_ROSPEC (`registry.py:144`); `CancelledOnce` is about
  tasks that a request awaits. A policy that ignores every tag of a port keeps them from the health monitor
  as well, which then reports the port quiet (`reader.py:710`, against
  `docs/field-guide/antenna-health.md:18`; `QuietExactly` is about readers without
  policies). Rows of an unfinished batch wait for the next read, whatever `_TAG_FLUSH_S`.
  `error` stays set after a start that succeeds. `add()` leaves the transport of a
  `connect()` that failed after it was made.
- Codec: a vendor parameter for which a class has a slot of its own decodes into that slot
  even if it was put into `custom` (four Impinj classes); what is there is the same.
  `RoundTrip` is therefore about structures with every parameter in the slot that
  `bind_params` would choose (`IsPlaced`), which all are that the decoder returns.

## Proofs

In `ProtocolProofs`, the part on the client proves every safety property of `LLRPClient` for any number of
tasks, IDs, transactions, transports and queue places, from the assumptions of the
module; the one that restricts the code is `NoWrapAssumption`, that message IDs do
not wrap (after 2^32 - 1 requests). None of the properties is inductive alone. The
invariant `Inv` adds what the code relies on without saying so: the read task
serves the transport the client has (`TransportInv`); a task in the handshake owns
the connection event (`ConnectInv`); a task in `transact` holds an ID that is its
own, and the future under that ID is its own or gone (`TransactInv`, `PendingInv`);
a request or a response on the wire carries the ID its transaction was given
(`WireInv`). `Correlated` follows because IDs of unanswered requests are distinct,
which is where the absence of a wrap is needed. `QueuesAccounted` needs lemmas on
`Offer`: the length stays in bounds, the newest entries stay in order.

`ServesItsCallers` proves that `LLRPClient` implements `RequestService`, whose tasks, futures
and tokens it has under other names; only `Owed`, the requests whose answer is still on its
way, has to be put together from the wire and the input of the read loop. `OwedInv` says that
an answer that is still to come was asked for, comes once and is gone with the transport. With
`PendingInv` and `WireInv` the future that an answer resolves, found by its ID, is the one of
the task whose request has that number (`PromiseStep`). A shutdown, whoever calls it, fails
every future at once, which is what the abstract `Down` does; all else a client does by itself
is a stutter.

The part on the codec of `ProtocolProofs` proves the three properties of `codec` for any
tables of classes and slots that are well defined (`SchemaAssumption`: what the generator and
`register_parameter` guarantee), any structures that can be built and encoded
(`StructuresAssumption`), nested to any depth, and any bytes. The invariant `Arriving` says
no more than that the bytes are bytes, and the encoding's as long as they are not altered;
what has to be shown is about the operators. As recursion is by functions, it can be
unfolded, and as induction is available of sets only (`LeastNat`, `InductNat`, `InductSeq`),
each is about a set of numbers or sequences.

- `EncodedComesBack` (`RoundTrip`): bits that are packed into bytes are the bits that are read
  (`BitsLie`), hence the fields; sub-parameters written in the order of the slots bind to these
  slots, each to the first that has room for it. `Sendable` are the structures that, encoded
  and put anywhere on any wire, are decoded there (`ReadsBack`); that all structures of a depth
  are is an induction over the depth, and that a row of them is decoded, one behind the other, is
  one over its length (`RowBack`). A result does not depend on what is on the wire before it.
- `NothingLost` (`Lossless`): by induction from the end of the wire to its beginning (`RowsFit`)
  whatever is decoded between two positions is sendable and takes as many bytes as there
  are between them. Binding moves parameters but drops none (`Size`), and what is bound is where
  it would be bound again, so that the first part applies to it.
- `LengthsFrame` (`Strict`): by the same induction the parameters decoded from a position tile
  the window up to where they end (`Tiling`), although a nested length is compared with the end
  of the buffer only.

`DashboardProofs` proves for any number of requests that the flag and the roster
are right (`Inv`: the variables have their types, task numbers are fresh, a waiting request
waits for a task that exists), and that nobody disturbs the task that another awaits
(`TeardownLeftAlone`): it is torn down or done, and the registry has forgotten it, so that no
request finds it to cancel it again (`Parted`). For the properties that fail when two
starts overlap it assumes `OneStarter` and proves the stronger `Owned`: whatever task streams is the one the
registry knows, or one that a waiting request has cancelled. `dashboard_policy`
shows that the assumption cannot be dropped.

`EmulatorProofs` proves for any ROSpecs, ports and antennas and any number of clients and
runs that a stop timer ends its own run (`OwnTimeout`) and that reports flow exactly while a
ROSpec is active (`ReportsExactly`). While no send blocks, both rest on the same fact: what
an edge has still to look at is what the table holds (`TodoInv`). Sends that block break it,
for a ROSpec can go under the loop, which then raises. With one ROSpec ID there is nothing
that it could raise at after the start: `AloneInv` says that the only ROSpec is active
without reports just while the edge that started it has nothing left to look at. (Of
setups whose sends block, `OwnTimeout` and `NoIdleReports` say nothing.)
`TimerInv` says that the timer of a run is registered and its run goes on, and that no timer
of that ROSpec exists when an edge is about to make one; `ReportInv`, that a reader on which
there was no client yet is idle, which is what the first client finds.

`ReaderSessionProofs` proves for any tasks and situations, and any size of the report queue,
that one stream runs at a time on its own ROSpec (`StreamRuns`) and leaves none behind
(`Cleaned`). Both rest on the order in which the reader serves what it is sent: requests are
numbered, and are served and answered in the order of their numbers (`OrderInv`), and who
awaits an answer has the request or the answer on its way (`TaskInv`). Hence what a stream
knows at each of its awaits: at its first DELETE_ROSPEC nothing of an older stream is
behind that request (`AtDelete0`); at ADD_ROSPEC the table is empty or holds its own
(`AtAdd`); from then on no request on its way changes the ROSpec but the one it awaits
(`AfterAdd`), and all reports are its own (`OwnReports`). For the end, `EndsEmpty` says that
the table will be empty once the reader has served what it was sent. These are stated for a
reader that is not slow, because a request that timed out may be served at any later time.
What is said of tag operations assumes that one task operates (`OneAtATime`), for the
AccessSpec has one ID and each operation begins by deleting whatever is there; it holds also
for a slow reader. `OperatorInv` says that what is executed, and what was reported since the
operation drained the queue, is its own, and `EndsDisarmed` that an AccessSpec without its
operation has its deletion on the way. So a stream yields its own reports, an operation
returns its own result (`OwnAnswers`), and nothing is executed late (`NoLateExecution`).

`WebhookProofs` proves for any finite set of tags, any queue, batch and backlog
sizes and any `depart_after` that nothing is lost in silence (`NothingLost`), that
both queues are bounded, and that a prompt receiver sees no false departure
(`PromptReceiver`). `Accounted` becomes inductive as `Ledger`: the backlog is a run
of consecutive numbers that ends with the last event, everything before it was
acknowledged or dropped, and the receiver is at most ahead of that. `AgeInv` says
what makes a departure true: a visit is as old as the last read of its tag, unless
a read of it waits in the queue, which is new then.

`MonitorProofs` proves for any finite set of ports, any tags and policies, any batch and
queue sizes and any number of events under way that rows reach the page (`RowsShown`),
that the page shows the reader exactly while it is listed (`PageTrue`), and that quiet
alerts are raised exactly when they are true (`QuietExactly`). For the last, the monitor's
view of a port has to be related to the port through the queue between them: `Told` says
that the last event about a port that is still in the queue is true of it, and if there is
none what the monitor has on record is; `SameClock` that the monitor's ages are the true
ones. For the page, `Expects` says that the queue holds rosters that show the reader while
it is listed, and after its removal ends with one that does not, unless an event was lost.
`ReadsAccounted` says that every read that was asked for is kept or counted once by each of
the three tallies (`CountersInv`), which are bags under the keys of one function: a read that
is dropped adds one to each of their sums. Facts on sums of bags need induction, which is
stated here of sets: a property of all finite sets holds if there is no smallest one that
violates it. `Verdicts`, that the policy decides about each read as its rules say, holds for
any catalog that the code admits (`IsCatalog`: what `CatalogEntry` checks).

`MqttProofs` proves for any finite set of tags, any queue, any number of reads and any times
of the tracker that subscribers see what the bridge knows (`SubscribersAgree`). Edges are
published one at a time while the tracker already counts them as told, so the invariant
keeps what is left to be said: `Leads` says that the edges that are pending or on the wire
lead from what a subscriber sees to what the tracker knows, `LoopInv` that all else on the
wire are reads, which account for the difference between those published and those the
broker has, and `WireInv` that no second edge is on its way. `ReadLeads` and `CheckLeads` are
the facts about the tracker: what `observe()` and `check()` return is what they change.

`WindowsProofs` proves that `Windows` implements `WindowPerTrip` (`OnePerTrip`) for any
number of trips, reads, calls and connections and any size of the queue of edges, from one
assumption: the line rests while the connection is down (`~BlindGaps`); `windows_reconnect`
shows that it cannot be dropped. `EdgeInv` says that edges wait in the order of the line,
all of them behind the trip whose window is open, and that an open window is released
before another trip opens one, so that a window can only be followed when it settles.
`CoverInv` says that a trip that is owed a window has it, has it open or waits in the queue.
A trip is owed one from the moment the call is armed, which is why edges that the full
queue of the client has dropped before do no harm: nothing was owed for them.
`OpenIsNext` puts the two together: the window that is open is the next one owed.

From the same assumption `WindowsHoldTheirReads` proves `Contents`, what the windows hold, for
any number of reads in a trip as well. Reads move on through queue, window and output in the
order in which they were made, and none is in two places (`ReadsInv`); the edge of a trip, or
of a later one, precedes its reads (`TripInv`), so that no window holds a read of a trip after
its own. A release is of a trip that is over, and comes in turn (`ReleaseInv`); what ends a
call is not overtaken by an edge (`EndInv`). With reads as prompt as `settle` takes for granted,
all the reads of a trip are still to come behind its edge, and the window that is open holds
the first of them, and the rest are behind it (`PromptInv`); it is therefore whole when it is
closed in an orderly way.

Only model-checked: all liveness properties and what they say under fairness, which the
prover cannot treat.

## Not modelled

`PROJECT.json` lists every part with the reason. In short: builders keep no state;
command line, capture and survey read a stream and write it somewhere; the statistics of
the dashboard only observe, and its shutdown removes reader by reader; tag memory, locks,
passwords, TagFocus and SELECT filters of the emulator decide what a read contains, not
who gets it; a read that is put into the queue of `ticked_stream` in the very turn of the
loop in which its timer fires (`Webhook` ticks on an empty queue); a start, a policy or a stop
while a stream is failing, in `Monitor` (`Dashboard` has them); the bit fields of EPC
schemes are given to `Policy` decoded; message IDs do not wrap; a second call of `windows()` at
the same time fails in `inventory()`.

## Plan

Done: client and the service it implements, emulator, reader session, dashboard, monitor,
policy, windows, webhook sink, MQTT bridge, presence and codec; proofs of every safety and
action property that the passing runs check. Left, in this order:

1. `TagMemory`: the emulator's access operations on tags whose memory is kept under
   their EPC: a tag's words change by writes to that tag alone, also when two tags get
   the same EPC or one AccessSpec holds several operations.
2. `Epc`: different EPCs have different URIs, at the boundaries of the partitions.
