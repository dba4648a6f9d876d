# tsanet: specifications and proofs

tsanet shares tinySA spectrum analysers over a network. A *hub* runs on the machine the
analysers are plugged into; a *controller* (command line or GUI) connects to it and calls it
by RPC. This directory holds TLA+ models of the parts of tsanet that are concurrent, the TLC
configurations that check them on small instances, and proofs, checked by TLAPS, that some of
the properties hold for every instance. Paths below are relative to the repository.

## 1. The system

| Component | Code | State | Operations | Interacts with |
|---|---|---|---|---|
| Session manager | `src/tsanet/hub/session.py` | the active session, its selected device, the takeover permission; one lock | admit, disconnect, select_device, allow_takeover, current, status | every serve thread |
| Hub server | `hub/server.py` | `_running`, the listener | accept loop, one serve thread per connection, request loop, auto-select, stop; dial mode | sessions, registry, dispatcher, subscriptions |
| Dispatcher | `hub/dispatcher.py` | none of its own | route a request, resolve the device, run its commands | sessions, registry, subscriptions, serial port |
| Device registry, poller | `hub/registry.py`, `device/discovery.py` | the table of devices, each with an open port; one lock | scan, list, get, close; poller start, stop | serial ports, dispatcher |
| Subscriptions | `hub/subscriptions.py` | the active push loop; per loop: stop event, last frequencies | subscribe, unsubscribe, shutdown; a thread per loop | sessions, registry, serial port, connection |
| RPC client | `controller/rpc_client.py` | next id, `_pending`, `_error`, `_running`; two locks | connect, call, close, on_event; a reader thread | connection, GUI or CLI |
| Wire protocol | `protocol/*.py` | the bytes of a frame in progress | frame, encode, decode, handshake, listen, dial | both ends |
| Serial link | `device/adapter.py`, `device/_legacy.py` | the input buffer of the port | send, send_binary, write_only, retry | tinySA, its users |
| Device data | `device/commands`, `model.py`, `parsing.py`, `png.py`, `rgb565.py` | none | command strings, conversions | dispatcher |
| GUI | `controller/gui/*.py` | widgets, curves, frequencies, statistics trace | connect, start and stop the graph, toggle traces | RPC client (reader thread to GUI thread) |
| CLI, statistics, configuration | `controller/cli`, `stats.py`, `parse.py`, `common`, `hub/cli.py` | none that lasts | one call per command | RPC client |

What is hard in it:

* **Threads and locks.** Every manager has a lock and every method takes it once, but a request
  calls several methods: what it read under one lock acquisition may be stale at the next.
* **One serial port, several users.** No lock guards a port. What keeps users apart is the
  single session, and inside the hub the rule of a single push loop.
* **Failure.** Controllers vanish, devices are unplugged in the middle of a probe, handshakes
  fail, joins time out. Broad `except` clauses decide what goes on and what ends.
* **Ordering.** Responses, events, errors and a close race at the reader of the RPC client;
  frequencies are pushed only when they change.
* **Shutdown**, of the hub and of the client, at any step of all that. The signal that stops the
  hub interrupts its main thread, whatever lock that thread may hold.
* **Hidden preconditions.** A sweep above 800 MHz needs the LNA, which another device command
  turns on; a trace is pushed only while it is enabled; two texts belong together line by line.

What makes each part correct is what `PROJECT.json` lists under `hazards`, each at its line, with
the properties that would catch it going wrong or the reason why none does yet.

## 2. The modules

Each module names the code it models; `PROJECT.json` maps each definition to its lines. Actions
whose comment says *mutated* are not part of any next-state relation: each is a plausible
mistake in the action after it, and shows that the property paired with it in `PROJECT.json`
notices that mistake.

### `SessionManager`
`hub/session.py`. A connection is admitted at most once, so its `Session` object is named by the
connection: `selected[c]` is `selected_device_id` of c's session, also after its eviction,
because a serve thread may still hold the object. `closed` is the set of sockets closed on the
hub's side. The module has operations and no specification of its own: `HubServer` extends it.

### `DeviceTable`
The abstract specification of the registry: devices are added one by one, removed several at
once, and one final shutdown empties the table for good. `HubServer` runs its handlers against
it (`INSTANCE`), and `DeviceRegistry` is shown to implement it.

### `HubServer`
`hub/server.py` in listen mode and `hub/dispatcher.py`. `pc[c]` says where the serve thread of
connection c is. Each lock acquisition is a step of its own:

    offered --accept--> admit --> list --> autoselect --> recv <-----------+
                          |                                |               |
                        reject                          dispatch --...--> reply
                          |                                |
                         done <-- close <-- release <-- cleanup

`dispatch` goes to `select` for `devices.select`, and to `lookup` and `execute` for the requests
that need a device; a capture reads the session and the table a second time in between (`model`,
`format`). `sess`, `dev` and `fmt` are what the handler has read: the session, the device it will
use, the device whose model gives the frame its size. `execute` stands for all the serial
commands of one request. `HandshakeRejected` and `HandshakeBroken` are the two outcomes of a failed
handshake that the accept loop tells apart. Peers leave at any time (`gone`); a malformed frame
ends the request loop as a closed connection does. `StopServing`, `CloseListener` and
`CloseRegistry` are `stop()`, step by step.

The requests are the members of `Ops`: `query` (anything that only reads or fails), `select`,
`disconnect`, `force_takeover`, `command`, `capture`. A run chooses which of them controllers send.

### `SingleUserHub`
The abstract specification of what the hub promises the controller it serves: who is served, the
device it has chosen, and the command that runs. `HubServer` is shown to implement it as long as no
controller ends a session or allows a takeover: `Choice` is what the active session's object holds,
`Using` who is at `execute` and on which device. Lookups, replies and sockets are steps that nobody
sees.

### `DeviceRegistry`
The registry, its poller, and the part of `HubServer.stop` that ends them. A scan is its steps:
list the ports, snapshot the table, probe and open each new port, insert it, drop what vanished.
Ports are plugged and unplugged at any of them. `handles[p]` counts the open connections to port
p, so a port opened twice or forgotten shows. `NotIdentified` is a port that cannot be opened or
does not answer; `ScanRaises` is any exception that scan does not expect, and `DropRaises` one from
closing the port of a device that has vanished, after which neither it nor those before it are listed.

### `Subscriptions`
The manager and its push loops. `manager` is the method that holds the lock, which is held during
the join. `axis` is the frequency axis the device sweeps now, changed by other requests; `last` is
`last_freqs`; `out` is what the event about to be sent carries; `view` is the axis the controller
has been sent last; `late` counts the events sent after the stop event was set. Any read may fail.

### `RpcClient`
`call`, the reader thread and `close`, from the moment `connect` has returned. Allocation of an id
and the send are one step (one lock); the wait ends when the id is in `pending`. `_record_error`
of the reader is two steps, because `call` reads `_error` between them. A send may fail on a connection
that stays up (`SendFails`): encoding raises on an integer that cannot be packed, and `sendall` gives up
after its timeout. A receive that times out inside a frame leaves a stream out of step (`ReadTears`);
the model then reads no further message and may raise at any time (`ReadFails`). What else such a reader
may take for a message is left to `FrameStream`. The hub and the network are
the environment: answers in order, events, a busy hub's refusal with id 0, death at any step.

### `RemoteCalls`
The abstract specification of the client: calls without ids, table or reader. The hub takes the
calls in the order in which they were made, each once; a call returns its answer or an error that came
for it; a connection that ends takes with it any call and any answer under way (`GoDown`). An exception
that has been recorded (`broken`), on a connection that stays up or not, may turn answers that have come
into errors (`Spoil`), and no call is taken after it; without either, no answer turns into an error and
no call is refused. Calls may be lost on a dead connection, and those that wait when the reader has
raised are never answered: the specification allows what the code does, which is the finding of
`rpc_lost_call`. `RpcClient`
is shown to implement it: `Asked` are the owners of the requests under way, `Answered` and `Failed`
those to whom a reply has come as far as the connection or `_pending`.

### `FrameStream`
The bytes under one direction of a connection, from the hub to a controller, which is the harder
one: two threads send (responses and events), and the reader's socket has a timeout. A message is
its number in the order of sending, a byte is a message number and a place in the frame, so that a
byte out of place is seen. `frame[s]` and `at[s]` say what thread s is writing; `phase`, `need` and
`chunks` are the locals of `recv` and `_recv_exact`. Bytes move one at a time, which includes every
way of cutting the stream; a header or payload that is put together from the wrong bytes may be
taken for anything or raise. `torn` records that a timeout has thrown away part of a frame.

### `MessageQueue`
The abstract specification of one direction of a connection: what has been sent and not received is
a queue, messages leave it in order, and a queue that breaks promises nothing more. `FrameStream` is
shown to implement it: the queue is what has been sent less what has been received, and a torn frame
breaks it. `RpcClient` assumes it of `toHub` and `toClient`, and `ReadTears` is its break. What is in the queue when an end closes
is never delivered; the abstract specification does not oblige anybody to receive.

### `LiveGraph`
The live graph of the GUI and the trace controls of the main window, with the hub's push loop that
feeds them. The GUI thread runs one handler at a time; `todo` is what that handler still has to do,
one call or one change of the panel at a time, so that the push loop and the reader move between
them. `StartItems`, `StopItems`, `Update` and `Manage` are the lists that `start`, `stop`,
`_update_subscription` and `_trace_manage_enabled` make. `queue` holds the events on their way from
the reader thread to the GUI thread; an event queued for a panel that a reconnection has replaced is
marked `old`. A value is the axis it was measured on, so a curve drawn against another axis is seen
(`plotted`, `display`). `tail` is the last event of a push loop whose join timed out. Calls fail with or
without effect (`unsure`, `failed`), connections break, and a failed attempt to reconnect leaves the
window and the panel on different connections (`attached`).

### `HubLifecycle`
`start()` and `stop()` in both network modes, the signal handler of `hub/cli.py`, the token
handshake of `protocol/security.py` and the sockets of `transport.py`. The handler runs in the main
thread: `MainFree` keeps that thread from moving meanwhile. A lock is held by whoever is at a place
inside its critical section (`InRegistry`, `InSubscriptions`, the poller's `locked`). In dial mode
the main thread serves the connection (`main = "serve"`, and `Runs` demands `MainFree`), which is
what makes `stop()` wait for itself. `peer` is what the other side has sent of the handshake, or how
it left: an orderly close and a reset are told apart because the code does. Sessions, scans and push
loops are reduced to what starting and stopping needs.

### `SerialLink`
`device/_legacy.py`, whose contract `device/adapter.py` keeps: write, wait for a prompt, write again.
`jobs` are the commands on their way to the device, `input` the answers in the buffer, each with its
prompt. Nothing on the wire ties an answer to a command, so the model remembers it; `doubt[u]` says
that the next answer u takes may be to another command, because u has timed out or somebody else has
used the link meanwhile. The module has operations and no behaviour of its own: `SweepControl`
extends it.

### `SweepControl`
A command of `tsanet-ctl`, or of the sweep tab of the GUI, down to the device: `todo` is the device
commands it still needs, in the order in which `_sweep`, `_ensure_lna_for_hz` and the other handlers
of `hub/dispatcher.py` send them, `want` the user's command and `report` what is read back and shown.
Frequencies are small numbers, with a threshold and a highest frequency: the device
clamps to `Top`, silently, which is why the code reads back. A push loop uses the same link. The
device may reject a command, fall silent, or answer too late.

### `Statistics`
`controller/stats.py`, `parse.py` and the frequencies that `cli/app.py` prints, as operators over
sequences, and what they should compute (`Describes`, `NarrowestBand`, `IsMedian`). A mean or a peak
is compared before the logarithm or the root that turns it back into the unit of the trace, which
keep the order. Values are integers of either sign; one in decibels is a number of decades, whose power
is relative to that of `Floor`, so that powers are whole numbers. The peak is `max(power)`
(`stats.py:200`), while the flatness is that of the powers of the highest and the lowest value
(`stats.py:205`), as in the code: for negative values in V or Vpp these are not peak and trough, and
`Describes` says nothing of the flatness there. Numbers are exact, so the last bit of a float is not
covered. `Keep`, `Ten` and `OccupiedStep` are folds and the body of one: they are in a form that proofs
can follow.

### `TraceStats`
From the texts of the device to what is shown. `trace stats` and the dialog ask for a unit and a range
(`Ask`), fetch the frequencies and then the values, each of which may fail, and show what `compute_stats`
makes of them; the panel of the main window takes the frequencies of the latest event that had any
(`axis`) for an event without. The unit is not tied to the values, because the code does not compare
it with the device's. `shown` records the texts beside the result, and `Agrees` compares the two.
`TextsAssumption` says what the device sends: as many lines of values as of frequencies, a sweep that
never goes downwards, and values that are not below `Floor`. That the panel may hold frequencies the
device no longer sweeps is the concern of `LiveGraph`.

### `Controller`
What a user of a controller asks for and is shown: `SweepControl`, `TraceStats` and the frequencies
that `Statistics` prints and reads.

### MC modules and proofs
`MC*.tla` adds to the module it is named after what TLC needs: a symmetry set or data.
`*Proofs.tla` holds the theorems about the module it is named after.

## 3. What TLC checks

| Run | Instance | Shows |
|---|---|---|
| `hub_isolation` | 3 controllers, 2 devices, no disconnect or takeover requests | `CommandsByOwner`, `CaptureMatches`, `SelectionByOwner`, refinement of `SingleUserHub` |
| `hub_sessions` | 2 controllers, 1 device, disconnects and takeovers | `SessionHasServer`, `SessionFreed` (fair) |
| `lifecycle` | both network modes, the security modes, 2 peers, a signal at any step | `StoppedIsClean`, `OneMoreRequest`, `AcceptsOn`, `ListenStops` (fair) |
| `registry` | 3 ports | `TypeOK`, `HandlesOwned`, `ClosedForGood`, refinement of `DeviceTable`, `VanishedDropped`, `PluggedRegistered`, `StopEnds` (fair) |
| `subs` | 1 connection, 2 axes, 2 subscriptions | `NoOrphan`, `OneLateEvent`, `AxisKnown`, `AxisConverges`, `EndsWithConnection` (fair) |
| `live_graph` | 2 traces, 2 axes, 3 acts or faults, 2 events waiting | `PushesShown`, `ShownEnabled`, `GraphSettles` (fair) |
| `rpc` | 2 threads, 2 arguments, 3 calls; exceptions on an open connection, torn frames | `OwnResponse`, `NothingLeftBehind`, `NothingForgotten`, refinement of `RemoteCalls`, `AnsweredWhileUp` (fair) |
| `frames` | 2 senders, 3 messages, headers of 2 bytes, payloads of 1 or 2, sockets that hold 3 | `FramesWhole`, refinement of `MessageQueue`, `Arrives` (fair) |
| `ctl` | 2 commands of a user, 2 attempts each, 2 stirs (reads of the push loop, early timeouts), frequencies 1 and 4, threshold 2, top 3; statistics of texts of 4 lines, values -2, 0 and 1, in dBm, V, W and RAW, over 3 ranges | `OwnAnswers`, `ReadbackTrue`, `LnaBeforeSweep`, `StatsAgree`, `FormatReadsBack`, `CommandsEnd` (fair) |

The type invariants of all modules are proved (section 4); only that of `DeviceRegistry` is checked by
a run as well.

*Bounds.* Three controllers are an incumbent, one that is being refused and one still to come; two
devices are needed for a capture to pair the frame of one with the model of another. The hub
properties relate at most two connections. Two ports let one vanish while the other is probed; the
third keeps one registered meanwhile. Three calls by two threads let one thread reuse its slot while
another waits. Two subscriptions are the old one and its replacement. `MaxCalls` and `MaxSubs` bound
counters that only grow; ids are never reused, so a longer run repeats the same situations. Sockets
that hold three bytes are smaller than the largest frame and larger than a header, so a sender
blocks inside a frame and a frame's end shares the sockets with the next one's start. Two peers are
one whose handshake fails and one that waits behind it. Of the graph, two traces are one with a box
and one with the statistics; three acts are a start, a change and the fault or the reconnection
between them. For commands, two attempts are a command and its retry, two user commands a late one
and its successor, two stirs an early timeout and a read of the push loop; 1 and 4 lie on either side
of the threshold, and 4 is clamped. Traces of four points have an inside, two edges and, with values
that are three decades apart, points that outweigh all others; in volts and watts the same values are
negative, zero and positive. The texts are a sweep, one with a garbled line, and one of a single
frequency; at most one value is garbled. In `ctl` a behaviour has commands or statistics that are
shown, not both (`MCNext`): they share no state.
Symmetry is used in `hub_isolation` only, a safety run over interchangeable controllers and devices.

*Deadlock* is checked except where the system really stops: the hub has stopped, its finite set of
connections has all come and gone, or the acts, calls or messages of a bounded run are used up.

*Fairness* is weak fairness of threads that can run (the operating system schedules them), of the
joins and closes that follow each other, of timeouts, and of the hub's answer to a request it has
received. Nothing obliges a peer to send, to leave or to reconnect, an operator to stop the hub, a
user to act, a port to appear. A receive is fair only once the peer is gone, and one in a torn stream
only once the connection or the client has ended (`RecvEnds`). Strong fairness is
assumed where something is tried again and again: the identification and opening of one given port,
and the reads of a subscription, since a device that stays connected answers at some time although
single reads fail.

### Where the code does not do what it says

Three more runs end in a counterexample. Each states what a comment or a docstring says:

| Run | Statement | What happens |
|---|---|---|
| `hub_bad_client` | one bad client does not take the hub down | a handshake that times out or is reset is an `OSError`, which ends the accept loop |
| `rpc_lost_call` | a call raises when the connection dies | the error is stored for the ids in `_pending`, where a waiting call's id is not |
| `hub_dial_deadlock` | `stop()` is safe to call from any thread | in dial mode the signal handler waits for a lock that the thread it has interrupted holds |

The counterexamples of `rpc_lost_call` and `hub_dial_deadlock` are under the fairness above. That none
of the three states is ever left, whatever is scheduled, is proved (`LostForGood`, `StopHangs`,
`DeafForGood` in section 4).

### Other behaviours

The models have other behaviours worth knowing, without a run of their own. In the hub:

* after `session.disconnect` the connection is served on, and its commands use the session of the
  next controller (the isolation properties fail when `Disconnect` requests are allowed);
* a takeover permission that is not used survives an admission that finds no incumbent, although
  the docstring speaks of the next one (`session.py:46`, `:103`);
* a takeover between the test and the clearing at the end of a connection loses the newcomer's
  session (`server.py:155`);
* the automatic selection finds nothing when the first scan ends after the admission;
* an unexpected exception in a scan, or in closing the port of a vanished device (`registry.py:139`),
  ends the poller for good, and nothing restarts it;
* the push loop of a device that has gone skips every read, for ever, although its comment expects
  it to end (`subscriptions.py:142`, `:162`); values may be pushed before any axis;
* the join of a replaced subscription gives up after two seconds, so two loops may push for a while;
* a signal that comes before `_running` is set is lost; a subscribe that has found its device before
  the registry is closed may start a loop after `stop()`, on a closed port.

On the wire and at the device:

* a receive timeout inside a frame makes the controller read the rest of the frame as a header:
  it may then misread messages, stop, or wait for bytes that never come (`MisreadHeader` on), and
  calls on a connection that is up wait for ever (`ReadTears`);
* one send that fails, be it for an integer too large for msgpack, ends the use of the client although the
  connection is up: later calls raise the same exception, and answers that have come become errors
  (`rpc_client.py:136`);
* the serve thread and the push loop can take each other's answers, and a late answer can be taken
  for that to a retry; what is read back may then be a misreading (`Misread`);
* a span, a center with a wide span, or a preset can move the sweep above the threshold without the
  LNA, or switch it off under a high sweep; only the other setters see to it.

In the controller:

* the previous statistics trace stays enabled on the device when the statistics move to another;
  and when no Graph box is checked the statistics trace gets a curve (`main_window.py:579`);
* an event that outlives its subscription can undo the axis of the graph for good, because
  `_on_event` does not look at subscription ids;
* the unit asked for is not compared with the device's (`app.py:758`). Values of zero in a linear unit
  then make all statistics fail (`stats.py:206`), and negative ones in V or Vpp make the trough larger
  than the peak: [-80, -20] has the powers 6400 and 400, and the flatness shown is negative, although
  its docstring calls it the peak-to-trough variation (`stats.py:204`);
* a garbled line in each of the two texts leaves the lengths equal and the values shifted.

## 4. What is proved

Every theorem holds for all values of the constants; the only assumptions are the `ASSUME`s of the
modules (a *none* value is not a member, a bound is a natural number, a size is positive, the modes
are those of the configuration, the traces are finitely many, the texts have equally many lines,
frequencies that never fall and values not below a floor) and, where named, `NoForeignOps`.

* **HubServerProofs.** `TypeCorrect`: type correctness, one lemma per group of actions.
  `SessionAlwaysServed`: `SessionHasServer` is inductive with `TypeOK`, whatever requests are sent.
  The *isolation* theorems (`IsolationCommands`, `IsolationCaptures`,
  `IsolationSelection`) assume `NoForeignOps`: controllers send neither `disconnect` nor
  `force_takeover`. None of the three is inductive. The invariant is `ServingOwns`: a thread
  between its admission and its release is that of the active session. With it, what a handler has
  read (`ReadsOwn`) is still what its session holds. `NoTakeover` and `OpsInUse` carry the assumption
  to each state. The assumption is needed: see the first of the
  behaviours listed above. `HubServesOneUser` maps each step to `SingleUserHub`, under the same
  assumption: an admission finds no session (`NoTakeover`), a selection and a release are by the thread
  of the active session while no other is past its admission (`Idle`), the last read of a lookup
  begins a command on the device the session still selects (`ReadsOwn`), and `LooksUp` says that
  what is selected is a device. `DeafForGood`: once the accept loop has ended, a connection that is
  offered stays so for ever.
* **DeviceRegistryProofs.** `HandlesOwned` needs to know what the scan relies on between its lock
  acquisitions (`ScanInv`): what is still to be probed is not registered, what was registered at
  the snapshot still is. `ClosedForGood` needs the order of `stop` (`StopInv`): the poller is gone
  before the table is closed. `RegistryRefines` uses both: every step of the registry is a step of
  `DeviceTable` or leaves it alone.
* **RpcClientProofs.** `OwnResponse` needs, for each waiting call, that its id is fresh and its own
  (`WaitingIds`), that ids under way and stored are ids already allocated, and that any request,
  response or stored result with that id carries its arguments (`HubData`, `ClientData`,
  `PendingData`). `NothingLeftBehind` needs that
  whatever is under way belongs to a call that waits and has no result yet (`HubLive`, `ClientLive`),
  and that no two messages under way share an id, wherever they are (`HubOnce`, `ClientOnce`,
  `CrossOnce`): storing one response then never hits a call that another response has ended. Id 0 is
  excepted throughout, since a busy hub's refusal uses it too. `NothingForgotten`, the safety half of
  `AnsweredWhileUp` (for a reader that is in step), needs only that no two calls wait for one id (`WaitingApart`): a return then deletes no
  result but its own. `ClientImplementsCalls` maps each step to `RemoteCalls` and needs all of these
  at once, and that no id, 0 included, is in two places (`HubAlone`, `ReplyAlone`), that every request
  under way has an owner (`HubOwned`), and that the requests lie in the order of their ids
  (`InOrder`, so that a busy hub's refusal meets the call asked first). `Came` then says to whom
  a reply has come, wherever it is: the reader moves it and changes nothing (`CameRead`), a reply of
  the hub adds one for the first in `Asked` (`PerformStep`), a return takes its own away
  (`ReturnStep`), and a recorded error spoils those in `_pending` (`SpoilStep`), which `RemoteCalls`
  allows because `error` is set by then (`EndInv`). While the hub can still
  refuse, nothing has come to the client (`FirstInv`). `LostForGood`: a call without a result whose connection has died with no
  response under way, or whose reader is torn or has stopped, waits for ever (`Lost`).
* **SubscriptionsProofs.** `NoOrphan` needs that the subscription being joined has been told to
  stop and that none is active while the next is created (`ManagerInv`). `OneLateEvent` needs that an
  event can be late only if its thread had passed the test of the stop event (`LateInv`). `AxisKnown`
  is about loops that run on; its invariant (`AxisInv`) also follows each event from the read that
  fills it to its sending, and the axis that was last sent.
* **FrameStreamProofs.** `FramesWhole` and the order of messages (`MessagesInOrder`) follow from one picture of the stream
  (`StreamInv`): what is under way is a run of consecutive bytes of whole frames that ends just
  before the byte the lock holder writes next (`LockInv`, `WireInv`) and, until a frame is torn,
  begins just after the last byte the reader has collected (`InStep`). A reader in step therefore
  never misreads a header or a payload. `StreamRefines` maps each step to `MessageQueue`: who
  takes the send lock enqueues, the end of a payload delivers, a timeout inside a
  frame breaks, all else moves bytes and changes nothing.
* **HubLifecycleProofs.** One invariant, `LifeInv`: nothing runs before `start()` has come to it
  (`StartInv`); behind each step of `stop()` lies what the steps before it have achieved, so that a
  poller that has been joined never scans again and a registry that is closed stays empty
  (`StopInv`); a service that is past the test of `_running` has received nothing since the stop, and
  any other at most one request (`RequestInv`). `StopIsClean` needs the second, `AtMostOneRequest`
  the third. `StopHangs`: a thread that the signal has interrupted in a section which the handler has
  still to enter (`Interlocked`) never leaves it.
* **ControllerProofs.** For the commands, one invariant, `LnaInv`. Who waits without doubt waits alone, for the only
  job or answer there is (`AloneInv`); hence `AnswersAreOwn`. In what is still to be sent, a setter
  that needs the LNA comes right after the command that turns it on, and what may turn it off comes
  last (`PlanInv`). `OnAfter(s, l, k)` says that the LNA is on once the first k jobs of s are
  done; every high setter among the jobs, asked or still to be sent finds it so (`PowerInv`), which is
  what `LnaIsOn` needs across retries, late executions and abandoned commands. What has been read
  without doubt is what the device still sweeps (`ReadInv`); hence `ReadbackIsTrue`.
  `StatsAgree` is an invariant of `StatsSpec`: what has been fetched and what the panel keeps are texts
  of the device (`TextsInv`), and what `compute_stats` makes of any two of them agrees with them
  (`ResultAgrees`), for texts of any length, values of either sign, every unit and range.
  `FormatReadsBack` is proved for frequencies of any size. `Induction` is derived from the well-foundedness of `<`, for
  a set in place of a predicate; with it a fold over a sequence is the last value of any function that
  follows its steps, and from there each loop of `stats.py` is followed to what it leaves: what
  parsing keeps (`ParseIs`), the first of the extremes (`ExtremesFirst`), a mean power between the lowest and the highest
  (`MeanBetween`), the largest power (`PeakIs`), which is that of the highest value unless there are
  negative voltages (`FlatnessIs`), the two places where the loop of the occupied bandwidth stops, and that no other
  band is narrower (`LoopFinds`, `OccupiedIsNarrowest`), a sorted permutation and its median
  (`SortedIs`, `MedianIs`). For frequencies, the digits of a fraction add up to it.
* **LiveGraphProofs.** `PushesShown` and `ShownEnabled` only speak of the moments between two
  handlers, so neither is inductive. `GraphInv` says what the list of the running handler still brings
  about: its items come in the order `Ordered` allows, whatever handler made them and wherever an
  error cuts them short (`ListInv`); the hub pushes what is shown unless the list still unsubscribes or
  subscribes (`PushInv`); every shown trace is enabled, or the list still enables it before it
  subscribes (`EnableInv`). `UpdateBrings` and the lemmas before it show that each list the panel
  makes does all this for the traces it is made for. The traces are finitely many, as the items of
  a list come from a set laid out as a sequence.

*Only model-checked:* every liveness property (`SessionFreed`, `AcceptsOn`, `ListenStops`,
`VanishedDropped`, `PluggedRegistered`, `StopEnds`, `AxisConverges`, `EndsWithConnection`,
`GraphSettles`, `AnsweredWhileUp`, `Arrives`, `CommandsEnd`), since reasoning about fairness and
`ENABLED` is beyond the provers at hand. Every safety property that a run checks is proved as well.

## 5. Not modelled, and the plan

Not modelled:

* the raw passthrough, the points of a sweep and the binary read of a capture: like the other plain
  device commands, they change nothing that a property here speaks of;
* battery, files (CSV, PNG, RGB565), formatting and layout: pure conversions and output;
* the calculation modes and the refresh of the trace state in the main window, the connection and
  device dialogs: one RPC call per button, with widgets around it;
* loading, merging and validating configurations, and logging: one thread, done before anything
  starts; `parse_time` and `set_busy`, which nothing calls;
* tsapython, which drives the device in production and is not part of this repository; the link is
  that of `device/_legacy.py`. Unlike that one, `adapter.py:53` does not look at the answer, so a usage
  text is taken for data there;
* the last bits of floating-point numbers in the statistics;
* the `_fmt` of the GUI (`main_window.py:710`, `stats_dialog.py:126`), which rounds a frequency to three
  decimals: `FormatReadsBack` is about the `_fmt_hz` of `tsanet-ctl` only, and does not hold of it;
* the details of a reconnection in the GUI: `LiveGraph` keeps which connection the window and the panel
  use, and whether the hub serves the panel's.

What would come next, by how much it would add:

1. One composition of `HubServer`, `Subscriptions` and `SerialLink`: whose answers a session gets
   while a push loop of an evicted one is still being joined.
2. Session takeovers in `HubLifecycle`, where nobody takes a session over yet.
