# A TLA+ model of InputSync

InputSync shares one keyboard and mouse between machines: a *server* captures
its local input and, when the cursor crosses a screen edge, sends it to a
*client*, which injects it. Clipboards are kept in step and files can be sent.
This directory models the daemon, where all of this happens. All paths below
are relative to `src/crates/`.

## 1. The system

| part | state it keeps | operations | what makes it correct |
|---|---|---|---|
| hook and capture (`platform/src/windows/capture.rs`) | `capturing` flag, modifiers seen, two channels | hook callback, drain thread, `start`, `set_capturing` | input is withheld from the local desktop only while a client has the focus |
| edge detector (`daemon/src/edge.rs`) | route, modifiers, layout, auto-peer | `observe`, `force_local` | one crossing for each edge contact, never to a side without neighbour |
| session (`daemon/src/session.rs`) | peer list, `last_mouse`, the task states | `drain_capture`, `apply_decision`, peer-event tasks, `inbound_loop` | focus, capture, peer list and what the client has pressed agree, whatever breaks when |
| client supervisor (`network/src/client.rs`, `daemon/src/app.rs`) | pending command, connection, two peer lists | `dial`, `hang_up`, event fan-out | one connection at a time, and it is listed exactly while it is up |
| server lifecycle (`daemon/src/app.rs`, `network/src/server.rs`) | endpoint, accept and fan-out tasks, peers | `start_server`, `stop_server`, accept | start and stop are idempotent and leave nothing behind |
| connection (`network/src/{stream,peer_loop,client,server}.rs`, `protocol/`) | handshake state, stream, partial frame | handshake, `write_message`, `read_message`, loops | frames arrive whole, in order, from a build of the same version; both ends learn of the end |
| file transfer (`filetransfer/`, `daemon/src/filetransfer_mgr.rs`) | manifest, offsets, hashers | offer, chunk, `Receiver::begin`, `write_chunk` | what is reported complete is on the disk and verified |
| clipboard (`clipboard/`, `daemon/src/clipboard_mgr.rs`) | `last_hash`, registry of originators | poll loop, formats, request, data | a copy arrives on the other machine, and never bounces back |
| tasks of a connection (`daemon/src/heartbeat.rs`, `network/src/peer_loop.rs`) | bounded queues, one loop for each direction, the heartbeat | send, write, read, answer | each Ping is answered or the connection ends; a lost connection leaves no task behind |
| keys (`platform/src/windows/{capture,keymap,inject}.rs`, `linux/inject.rs`) | keys the user holds, flags, keys the injector holds | key tables, `update_modifiers`, `inject_key`, `release_all_modifiers` | the key the client presses is the one the user holds |
| daemon process (`daemon/src/main.rs`, `app.rs`, `network/src/tls.rs`, `ipc/src/transport.rs`) | configuration file, certificate and key, socket name | start, `load_or_generate`, `listen`, exit | one fingerprint, the configured role, reachable |
| GUI (`gui/src/{main,daemon}.rs`) | child process, throttle, polled status, chosen role | launch, restart, retry, stop, poll | one daemon, with the role chosen last; the window shows what runs |
| IPC server, CLI | reported status | one handler for each request | in the lifecycle modules |

Parts meet in three ways: bounded `mpsc` channels between tasks (hook → drain
thread → `drain_capture`; events → fan-out → session; `PeerHandle` → write
loop), state shared under short locks (`DaemonState`, the session's peer list,
the `EdgeDetector`, `last_hash`), and messages of a QUIC connection.

Hard to test, and what the models aim at: awaits between the steps of a
handover; lists that are fed through different channels; futures that are
dropped while the tasks they spawned live on; full channels; the end of a
connection at any step; a second run in the same process; two streams with no
order between them; queues that hold each other up; files written in place by a
process that may be killed; daemons that start at the same time; tables that
must be each other's inverse. `PROJECT.json` lists each with its line under "hazards",
with the properties that cover it, or the reason why none does.

## 2. Modules

| module | models | kind |
|---|---|---|
| `EdgeDetector` | `edge.rs`: `observe`, `crossing`, `force_local` as pure operators on a detector record | data, used by the next two |
| `FocusHandover` | what a session promises: owner and capture alternate strictly | abstract specification |
| `InputRouting` | hook, drain thread, `drain_capture`, `apply_decision`, peer-event task, streams, client injection | concurrent |
| `PointerMotion` | the same path for coordinates: OS cursor, warp, `last_mouse`, the client's pointer and `last_pos` | concurrent |
| `ClientSupervisor` | supervisor task, detached loops, fan-out, session table | concurrent |
| `ServerLifecycle` | start and stop from several IPC connections, accept loop, fan-out, session | concurrent |
| `PeerConnection` | handshake, framing, read and write loops | two ends and a network |
| `FileTransfer` | `send_files`' offers and chunks, the receiver | two ends and a disk |
| `ClipboardSync` | poll loops and `handle_inbound` of two machines | two ends |
| `PeerTasks` | heartbeat, write, read and inbound loop of both ends and the bounded queues between them | two ends |
| `KeyMaps` | the key tables of `keymap.rs` and `linux/inject.rs`, the flags of `update_modifiers` | data, used by the next |
| `KeyPath` | one keyboard: hook, drain thread, `drain_capture`, injector, with left and right keys apart | concurrent |
| `DaemonStartup` | a daemon process from its configuration to its socket and its end | data and process steps, used by the next |
| `GuiSupervisor` | the window, its child, a daemon of a terminal, crashes, installation | processes |
| `PeerTables` | `Vec::retain`, by which the tables of peers drop entries | data, used by `InputRouting` and the two lifecycles |
| `InputRoutingProofs` | theorems about `EdgeDetector` and `InputRouting`, and about `PointerMotion`, in which the same task handles coordinates | proofs |
| `KeyPathProofs` | theorems about `KeyMaps` and `KeyPath` | proofs |
| `PeerConnectionProofs` | theorems about `PeerConnection`, and about `PeerTasks`, the tasks that use the connection once it is up | proofs |
| `ClientSupervisorProofs`, `ServerLifecycleProofs`, `FileTransferProofs`, `ClipboardSyncProofs`, `GuiSupervisorProofs` | theorems about the module they are named after | proofs |

`MC<M>.tla` holds the small sets that instantiate `<M>`, and one `.cfg` for each
question. A definition's source lines are in "map" of `PROJECT.json`. An
operator commented "Mutant" or "A mutant of" is a wrong version of the definition that follows it:
replacing the one by the other must make a property fail, which is how each
property is known to depend on the code it is about.

### State and actions against the code

**InputRouting.** `raw` is the hook's channel and `sink` `capture_tx`; both use
`try_send`, so a full one drops. `mods` is the drain thread's modifier state,
`capturing` the flag the hook reads, `edge` the detector record
(`EdgeDetector`). `drain_capture` is one task and its `pc` names the await it is
at: waiting, then for an entry *enter → sync → engage* and for a leave *leave →
disengage* (`apply_decision`, `session.rs:256-304`). `SendMessage` is an
awaited send on the peer taken at the start of the step. `peers` and the edge's
auto-peer are written by the peer-event task in two steps, one for each lock
(`session.rs:331-355`). `conn` and `outbound` are the connections and their
control streams; a break keeps any prefix of the messages on their way.
`pressed` is what the injector of each machine holds down; `entered` and
`displaced` are history variables, the latter the connections that were open when
an end of one of the same machine was reported.

**PointerMotion.** One axis of the cursor in full, the other at its middle.
`os` is the server's cursor, clamped to the screen; a crossing warps it two pixels
inside the edge (`edge.rs:209`). `last_mouse` is the variable of `drain_capture`;
`pointer` and `last` are the client's true pointer and the `last_pos` of
`linux/inject.rs`.

**ClientSupervisor.** `cmds` is the command channel, `spawned` the tasks of
the IPC handlers that have not sent yet, `pending` the supervisor's variable.
Connections are named by their dial; one that was cancelled after `Connected`
goes on as the detached tasks of `peer_loop.rs` do. `Track` and `Forward` are
the two steps of the fan-out (`app.rs`), `SessionHandles` the session.

**ServerLifecycle.** Each IPC connection runs `start_server` or `stop_server`
with its awaits; a run of the server has a port, an accept task, a fan-out task
and a session. `greeted` are the clients that have their Welcome while
`handle_connection` has not reported them yet: the report comes even when a Stop
has closed the endpoint in between (`server.rs:132-150`). What `stop_server` does
not touch stays. The listen port is a fixed one: with port 0, which takes any free
port, a second bind would succeed, and that is not modelled.

**PeerConnection.** The stream of each end is a sequence of units, a header or
one byte, and `read_message` takes them one by one. The version check is the one
of the frame header: it refuses a foreign Hello before the comparison in
`server.rs:110`, which therefore never fails, and no "version mismatch" reply
is ever sent.

**FileTransfer.** Contents are sequences of letters, `ChunkSize` is 2. The offer
is on the control stream, the chunks on a stream of their own, and the receiver
may take from either. `Receiver::begin` creates the files one by one and then
inserts the transfer (`HandleOffer`, `CreateFile`, `Insert`); `write_chunk` looks
up, writes and looks up again. The second look-up does not check the file index
(`lib.rs:201-202`): if a shorter offer of another sender has replaced the transfer
in between, it panics, and the loop of that connection is `Dead`. A digest is the
list of chunks it has seen.

**ClipboardSync.** Contents are model values; a hash is the content. The poll
loop is four steps (read, compare and record in `last_hash`, look up, send) and
the arrival of data three (record, set `last_hash`, write), all interleaved.

**PeerTasks.** The established connection of `PeerConnection`, with its tasks
instead of its bytes. `out` and `inbox` are the two channels of an end, `wire`
what QUIC has taken; the message a loop has in hand counts as the first of the
queue it came from. `waiting` is the order in which tasks sleep in
`PeerHandle::send`: tokio's channels are fair, and a `try_send` finds no room
while somebody waits. `handler` is `inbound_loop`, which answers itself, so a
full queue stops it from reading. `lost` is QUIC's verdict, at each end for
itself; `listed` the peer list.

**KeyMaps, KeyPath.** A key is a virtual key on the server, a `KeyCode` on the
wire, a virtual key or an evdev code in `held`, the injector's keys. The tables
are written as in the code, in rows of consecutive arguments. `local` is what
the server's own system saw, which the hook withholds while `capturing`; `since`
the keys forwarded since the crossing, and `early` those of them whose press was
captured before it; the history variable `behind` counts the entries of `events`
that were already there at the crossing. Every movement to the edge is handed on.
`task` has the awaits of `apply_decision` that matter to keys. The routing is simpler than in
`InputRouting` (one client, `Lose` ends it); the keys are in full.

**DaemonStartup, GuiSupervisor.** A process is at a point of `app.rs:28-96`:
reading its configuration, looking for the pair, and then, as calls of their own,
reading both files or truncating and writing each (`tls.rs:31-63`), unlinking and binding the socket. `files` is the
disk, torn contents included. `GuiSupervisor` adds the window: its child, the
throttle of three seconds as ticks, the poll thread, the clicks; and the world:
a window that is killed, a daemon that crashes, one that is started in a
terminal, a binary that is installed late.

## 3. Runs

Passing runs, with the bound that limits each:

| run | question | bounds |
|---|---|---|
| `routing_session` | capture follows route, no input without focus, modifiers released on leave, auto-peer, refinement of `FocusHandover` | two client machines, channels of 1, 5 inputs |
| `routing_emergency` | the peer table holds the connections that were not displaced; the hotkey gives the input back (liveness) | one client machine that connects twice, the second time at any step of the first connection's end; channels of 1, so that every send can block; 4 inputs |
| `pointer_moves` | the deltas add up to the observed motion | 4 movements by -3, 1 or 2 on 8 pixels, channels of 2 |
| `client_requests` | the two peer lists agree and list what is served; an interrupting dial is itself tried (liveness) | 4 requests, 2 servers, event channels of 1 |
| `server_requests` | no endpoint the daemon has not recorded; the status lists what the session has; a stop ends its run (liveness) | 2 IPC connections, 2 runs, 1 client |
| `connection_frames` | frames whole and in order; versions agree; both ends learn of the end (liveness) | 2 messages each way after the handshake, of 0, 2 and 3 bytes, limit 2, 2 versions |
| `tasks_ends` | each Ping is answered or the connection ends; a lost connection leaves no task (liveness) | queues and window of 1, one heartbeat of each end on its way, one copy by the client, input to and chunks for the client without limit |
| `files_transfers` | offsets to resume from are on the disk; every transfer settles (liveness) | 2 transfers of nothing or of 2 files of 2 or 3 letters, 1 edit, 1 break |
| `clipboard_copies` | nothing bounces back; in plain use the last copy arrives (liveness) | 3 copies of 3 contents, 1 lost connection |
| `gui_daemons` | no daemon that nobody owns; the child has the role chosen last; a fingerprint shown stays; the window settles (liveness) | 2 processes ever, 3 clicks, 1 crash or kill, 1 daemon of a terminal, throttle of 2 ticks |
| `keys_path` | a key pressed since the crossing is down on a Windows client while it is held, as itself; a client that was left holds no modifier; no phantom flag | 5 strokes (the emergency chord is four presses) of Esc, right Shift, left Ctrl and the Alt without a side; queues of 1, two events for `drain_capture` |

Channels of one or two places reach every "full" and "empty" branch; two
machines, dials or transfers reach every overlap the code distinguishes, since
no guard in it counts beyond one; five inputs are a crossing, a chord and what
follows it. Counters named `Max...` in the constants are bounds for TLC and
guard only the actions of the environment and, in `PeerConnection`, `Send`.

In `tasks_ends` a queue of one message stands for one of 256. What matters is
that one direction holds more than an end can owe the other: a heartbeat and its
answer and a clipboard exchange here, against three queues of one. If more
heartbeats than that were allowed on their way, both directions could fill with
Pings and stop for good; in the code that takes several hundred, one each two
seconds, over a connection that is lost long before. Input floods one direction
only, and files have streams of their own, which is why neither brings it about.

In `gui_daemons` the two processes are a daemon and its successor, or a child and
what a terminal starts beside it. The safety properties are proved for any number;
`GuiSettles` is checked for two only, since with three the state space is out of
reach.

In `keys_path` the four keys are the emergency chord, and each is of another kind:
one without a modifier flag and never withheld (Esc), one the table does not have
(`VK_MENU`, which still sets a flag), a right-hand key, whose flag the resync turns
into the left one, and a left-hand key. A fifth one, the other Shift, makes the
run too long; two keys of one flag are in the demonstrations, where they matter,
and in the theorems. The proof of
`FollowsKeyboard` found what queues of one event had hidden. While the emergency
hotkey is being handled the hook still captures; a movement to the edge and a
key press behind it then queue up, `drain_capture` crosses again on the first and
forwards the second, but by then the release was not captured and the key stays
down on the client (`session.rs:301`). The run has had two places in `events`
since then. `FollowsKeyboard` speaks of keys whose press was captured after the
crossing, and `FollowsEveryKey`, of all of them, is among the demonstrations.

Two properties of `InputRouting` say "until another connection ends"
(`OthersStay`). That is where the code stops being right: the route outlives the
client that had the focus, `peers.first()` then names another one, and that
client gets input without a `ScreenEnter`. `NoRouteIntoVoid` is about the cause.
`NoInputOutsideFocus` and `ReleasedWhenLeft` are checked with the default layout
and two machines that connect once each. With a configured neighbour that is not
connected the focus crosses to nobody (`edge.rs:122`), and the client that
connects next gets input that it was not told of; a machine that connects again
loses its new handle (`session.rs:348`). Both are among the demonstrations.
`StatusListsSession` is said of the first run and in one direction only, for the
reasons its comment gives.

One run ends in a violation: `keys_linux`, of `FollowsKeyboard`. It is
`keys_path` with a Linux client. `evdev_code` (`linux/inject.rs:291`) adds 8 to
the HID usage and no key arrives as itself; the finding in `PROJECT.json` quotes
the comment that says otherwise.

Further configurations are kept beside these as demonstrations; they are not runs of
the project, and each ends in a counterexample to the property it names. A `_statements`
configuration holds several such properties, one to a line; TLC stops at the
first, so keep the line that is wanted, with the constants its comment names:

| configuration | property | what the counterexample shows |
|---|---|---|
| `MCInputRouting_statements` | `NoStuckModifiers` | the hotkey's own modifiers are pressed on the client at the next crossing (`capture.rs:221`; TESTING.md:411 lists "No stuck modifiers after crossing") |
| `MCInputRouting_statements` | `ReconnectResumes` | the late end of an old connection removes the new handle (`session.rs:348`; PROTOCOL.md:65-66 "and resumes") |
| `MCInputRouting_statements` | `AutoPeerOnlyWithoutLayout` | an explicit layout does not turn the auto-peer off (`edge.rs:128`; the comment at `session.rs:334-335`) |
| `MCInputRouting_statements` | `NoRouteIntoVoid` | the last client leaves while it has the focus: the input stays captured for nobody (`session.rs:349-353`, "don't route into a void") |
| `MCInputRouting_statements` | `NoInputOutsideFocus` | with a configured layout, input for a client that connected after the crossing (`edge.rs:122`, `session.rs:222`) |
| `MCPointerMotion_statements` | `WarpIsNoMotion` | the warp of a crossing is sent as motion (`session.rs:233`; the comment at 224-227) |
| `MCPointerMotion_statements` | `BorderHidesNoMotion` | motion towards the crossed edge vanishes (`edge.rs:209`) |
| `MCPointerMotion_statements` | `EntersAtEntryPoint` | a Linux client enters elsewhere than at the entry point (`linux/inject.rs:158`) |
| `MCPointerMotion_return` | `ReturnsByMouse` | the mouse never brings control back (`edge.rs:149`; TESTING.md:280-281) |
| `MCClientSupervisor_statements` | `AtMostOneConnection` | a second dial detaches the first connection's tasks instead of ending it (`client.rs:232`, "Replaces any current connection") |
| `MCClientSupervisor_statements` | `ClosedPeersLeave` | a cancelled connection that ends stays listed (`client.rs:203`) |
| `MCClientSupervisor_redial` | `LostConnectionRedialed` | a lost connection is not dialed again (`client.rs:208`; PROTOCOL.md:65-66, TESTING.md:320) |
| `MCServerLifecycle_statements` | `StopFreesInput` | a stop leaves the input captured (`app.rs:320`; `ipc/src/lib.rs:38`) |
| `MCServerLifecycle_statements` | `IdleListsNoPeer` | a peer stays listed while idle (`app.rs:326`) |
| `MCServerLifecycle_restart` | `StartCaptures` | the second start of a server gets no input (`capture.rs:81`) |
| `MCFileTransfer_statements` | `EveryFileArrives` | a chunk overtakes its offer and the transfer is refused (`session.rs:455`) |
| `MCFileTransfer_statements` | `VerifiedOnDisk` | a second offer truncates what the first transfer verifies (`filetransfer/src/lib.rs:137`) |
| `MCFileTransfer_statements` | `CompleteIsVerified` | no verification at a whole number of chunks (`filetransfer_mgr.rs:68`) |
| `MCFileTransfer_statements` | `OffsetsOnDisk` | two senders use the same transfer id (`filetransfer/src/lib.rs:145`) |
| `MCClipboardSync_recopy` | `EveryCopyArrives` | content that was advertised once is never advertised again (`clipboard_mgr.rs:73`) |
| `MCClipboardSync_stale` | `EveryCopyArrives` | the poll loop of an earlier run swallows a copy (`session.rs:94`) |
| `MCPeerTasks_statements` | `PingAnswered` | after a message that cannot be encoded one end never writes again, and nobody ends the connection (PROTOCOL.md:73-75: "A missed `Pong` ... terminates the connection"; `heartbeat.rs:2-4` says that it does not) |
| `MCPeerTasks_statements` | `ForgottenEnds` | the same message: both ends forget the connection, and its other tasks run for ever |
| `MCKeyPath_statements` | `HeldModifierShipped` | one of two held Shift keys goes up and the flag with it (`capture.rs:277`) |
| `MCKeyPath_statements` | `SourceReleased` | a modifier held while crossing stays down on the server (`capture.rs:310`; summary.md:95) |
| `MCKeyPath_statements` | `KeysReleased` | a key held at the emergency hotkey stays down on the client (`session.rs:440`) |
| `MCKeyPath_statements` | `LossReleases` | keys held when the connection is lost stay down (`session.rs:382`) |
| `MCKeyPath_statements` | `ResyncedGoesUp` | right Shift held while crossing presses the left one, which nothing releases (`session.rs:480`; TESTING.md:411) |
| `MCKeyPath_statements` | `FollowsEveryKey` | a key press that queued up while the hotkey was being handled crosses over, its release does not (`session.rs:301`; TESTING.md:283-284, "keys go to the right machine, no stuck modifiers") |
| `MCGuiSupervisor_statements` | `PairUsable` | a crash between certificate and key leaves a pair no daemon can start with (`tls.rs:55`) |
| `MCGuiSupervisor_statements` | `OneFingerprint` | two daemons that start together announce two fingerprints (`tls.rs:36`) |
| `MCGuiSupervisor_statements` | `ChildReachable` | a daemon of a terminal takes the child's socket name and dies: the child runs, unreachable (`transport.rs:40`) |
| `MCGuiSupervisor_statements` | `InstalledIsFound` | a binary installed while the window is open is never found (`gui/src/daemon.rs:34`) |

`CHECK_DEADLOCK FALSE` is in every configuration because every system here may
rest: users stop typing, transfers end, connections end.

### Fairness

Weak fairness of the steps of spawned tokio tasks, of the drain thread and of
delivery on an open connection: the runtime is multi-threaded and preemption
is not needed for a ready task to run, and QUIC either delivers or closes a
connection that stays silent. Nothing is assumed of users, of new connections or
of breaks. A send on a full stream is not enabled, so fairness never assumes
that it returns. The one exception is `PushingSpec` in `PointerMotion`, where a
user who keeps pushing the mouse is the hypothesis of the documented gesture.
In `PeerTasks` a full queue is waited for in the channel's own order (`waiting`),
so weak fairness is enough there too; in `GuiSupervisor` the frames of the window,
its poll thread and the steps of a daemon are fair, the user and crashes are not.

## 4. Proofs

Every theorem is proved for all values of the constants that satisfy the
assumption of the module (`...Assumption`, which TLC evaluates on the runs), so
for any number of machines, connections, keys, contents, processes and requests
and for channels of any capacity. Three constants are as narrow as the code:
`ClipboardSync` has two machines, `PeerConnection` two ends, and a session one
route. Seven theorems have hypotheses beyond that, said below with the reason for
each. `None` is assumed to be none of the values it stands beside.

Each safety property that a run checks is stated about moments at which something
has settled: nobody between two awaits, a queue empty. It is therefore not
inductive, and its proof rests on an invariant that says what is true meanwhile,
usually what the events under way will make of the state.

| module | theorem | inductive invariant |
|---|---|---|
| `InputRoutingProofs` | `TypeCorrect`, `CaptureFollowsRouteAlways`, `ImplementsHandover` | `IInv`: `TypeOK`, and `Handing`, which says at which `pc` route and capture may differ and what the decision under way then is |
| | `AutoPeerFollowsTableAlways` | `Binding`: what the peer-event handler still has to do to the auto-peer |
| | `TableTracksConnectionsAlways` | `AllTracked`: a connection is one that the table will list once the waiting events are handled (`WillList`) exactly if it was opened and not displaced. What a report adds to that (`ReportedLists`) and that handling one changes nothing of it (`HandledLists`) is the whole argument |
| | `NoInputOutsideFocusAlways` | `FocusInv`: while nothing broke, the client in front has been told of the focus exactly as far as `drain_capture` has come (`Focused`), and every stream has input only behind a `ScreenEnter` (`Streams`), also when only a prefix of it survives |
| | `ReleasedWhenLeftAlways` | with the same, `AllSynced`: the only `ModifierSync` ever sent is the empty one |
| | `PointerTypeCorrect` (of `PointerMotion`) | `MotionTypes`: `TypeOK`, and what `drain_capture` has in hand between two awaits |
| | `OfferedMotionTelescopes` (of `PointerMotion`) | `MotionCounted`: while a visit lasts, what was sent and dropped is the way from the last local position to `last_mouse`, also with a crossing half applied |
| | `ParkedInside` (of `EdgeDetector`) | none |
| `KeyPathProofs` | `RoundTrip`, `TypeCorrect` | none; `TypeOK` with `CodeType` and `PlatformType` |
| | `NoPhantomModifierAlways` | `FlagInv`: the newest entry about a flag, if it is a press, names a held key (`NewestTrue`), and a set flag without an entry has a held key (`SetFlagTrue`) |
| | `ModifiersReleasedAlways` | `WInv`: syncs are empty, after a leave a wipe follows everything that presses a key (`WipeFollows`), a wipe is due while a modifier is held (`WipeDue`) |
| | `FollowsKeyboardAlways` | `Following`: the newest word about a key, in whichever queue it is, is the truth (`Follows`); with how capture and route take turns (`TakesTurns`), that behind a crossing no key is under way until the capture is on (`NoneCaught`), and that codes come from the table (`Named`) |
| `ClientSupervisorProofs` | `TypeCorrect` | `TypeInv`: `TypeOK` and `Counted`, the dials made and owed against the requests |
| | `ListedUnlessOrphanedAlways`, `TablesAgreeAlways` | `Followed`: the waiting events take the daemon's table to the connection being served, orphans apart, and the session's table to the daemon's (`Reaches`) |
| | `NoDialLost` | `InHandWhileIdle`: the supervisor keeps a dial in hand only between two passes of its loop |
| `ServerLifecycleProofs` | `TypeCorrect` | `TypeInv`: `TypeOK` and what a handler between two awaits has in hand |
| | `RecordedServerRunsAlways` | `Owned`: an open endpoint is recorded or in the hands of one handler (`OneOwner`), one run has the port (`OnePort`), a run not begun has none (`NextRunIsNew`), the status says so (`StatusTold`) |
| | `StatusListsSessionAlways` | `Listed`: of each listed peer the session has it or the events under way give it (`Expected`) |
| | `StopsWhollyAlways` | with `Owned`, `TornDown`: a run whose endpoint was closed is aborted, or in the hands of the request that is about to do it, and its connections are lost or gone |
| `FileTransferProofs` | `FilesTypeCorrect` | `FileTypes`; what refers to a transfer refers to one that was started and to a file of it (`Started`); the files of a registered offer, or of one about to be, exist (`Prepared`) |
| | `OffsetsAreOnDisk` | `FilesTrue`: an offer and the chunk in hand are of the files announced (`Announced`, `InHand`), the offset counts the bytes hashed (`Counted`), and these are on the disk (`OnDisk`), those of the chunk just written too (`Written`) |
| | `VerifiedIsStored` | with the same, `Exact`: a file that one offer alone carries has on the disk what was hashed of it, with the chunk just written, and nothing else |
| `ClipboardSyncProofs` | `TypeCorrect` | `TypeInv`: `TypeOK` and where each loop may be |
| | `NoEchoAlways` | `NothingEchoed`: whatever is in a clipboard, or was read from it by a poll loop, is the user's own copy or has a recorded originator (`ClipSourced`, `PollsSourced`); the originator is recorded before the content is written (`TakeoverKnown`) |
| `PeerConnectionProofs` | `TypeCorrect` | `TypeInv` |
| | `FramesInOrderAlways` | `Following`: what was handed on, the frame in the reader's hands and the units on the wire are, one behind the other, a stretch of what was written (`Carries`), to its end while the link is up |
| | `SessionsAgreeAlways` | `Compared`, on top of `Following`: who has compared the versions by each step of the handshake |
| | `TaskTypeCorrect` (of `PeerTasks`) | `TaskTypes`: `TypeOK` in parts, and that nobody waits for a queue twice |
| | `PingsTraced` (of `PeerTasks`) | `Traced`, with `LossSettles`: after a loss nothing is awaited, and a writer ends by a loss only. A step that takes a message from a place puts it, or its answer, into the next (`HandsOn`) |
| `GuiSupervisorProofs` | `TypeCorrect` | `TypeOK`, which says too that a daemon past its configuration has a role |
| | `NoStrayDaemonAlways` | inductive with `TypeOK` |
| | `RoleAppliedAlways` | `RoleSaved`: the role being applied is the one that was written, and a child was launched after a role was saved |
| | `FingerprintKeptAlways` | `TakeTurns`: while processes are at the pair one at a time, certificate, key, fingerprints shown and what each process has read belong together (`OnePair`) |

`ImplementsHandover` is `Spec => HandoverRefinement`: `InputRouting` implements
`FocusHandover` with the owner mapped to the route. The lemma `RetainedEntries` says what the
three modules with a table of peers need of `Vec::retain`, a sequence of exactly
the entries to be kept. It rests on `PlacesAll`, that counting the members of a
finite set of indices up to each of them numbers them without gaps; both stand at
the head of each of the three proof modules, which are independent of each other.
`AllModifiersListed` shows that `release_all_modifiers` lists what the key tables
give for the eight modifiers, on both platforms.

`NoDialLost`, `StopsWhollyAlways` and `PingsTraced` are the parts of three liveness
properties that can be said without fairness. `DialReplacesDial` says that a dial that interrupts a
connection is made in the end; `NoDialLost`, that until then nothing takes its
place. `StopEndsRun` says that a stopped run ends; `StopsWhollyAlways`, that a Stop
takes down its own run as a whole and no other, whatever requests overlap.
`PingAnswered` says that a heartbeat gets its answer or the connection ends;
`PingsTraced`, that until then it, or its answer, is in a channel, on the wire or
in the hands of a loop: no full channel and no task that ends drops it.

`PointerMotion` and `PeerTasks` are instances (`Motion`, `Tasks`) in the proof
modules of the components they belong to; their theorems assume the assumptions of
the module, which an instance does not bring along. The variables that
`PointerMotion` and `InputRouting` both have stand under their common name there;
no theorem speaks of both modules.

Hypotheses of theorems:

- `NoInputOutsideFocusAlways` and `ReleasedWhenLeftAlways` assume `EachMachineOnce`
  and `DefaultLayout`. `routing_session` has both. Of a machine that connects again
  the handler drops the new handle with the old one, which `ReconnectResumes`
  shows, and its old and new stream end in one injector; `NoInputOutsideFocus` in
  `MCInputRouting_statements` is the counterexample without the second.
  `TableTracksConnectionsAlways` has no such hypothesis: it is about machines that
  connect again as well, and says exactly which of their handles are lost.
- `FollowsKeyboardAlways` assumes a Windows client. `keys_linux` is the
  counterexample for the other.
- `OffsetsAreOnDisk` and `VerifiedIsStored` assume one sender. Every sender numbers
  its transfers from 1 and all of them write to one map of the receiver, so that one
  sender's progress replaces another's: `OffsetsOnDisk` in
  `MCFileTransfer_statements`, with two senders, is the counterexample.
  `VerifiedIsStored` is about files that one offer alone carries; `VerifiedOnDisk`,
  of all files, is the counterexample for the others.
- `PingsTraced` assumes that every message can be encoded (`TooLong = {}`). One that
  cannot ends `write_loop` alone, and with it go the messages behind it:
  `PingAnswered` in `MCPeerTasks_statements` is the counterexample.
- `ParkedInside` assumes a screen of four pixels each way. On one three pixels wide
  the warp of two pixels from the left side ends at the right one.

The proofs corrected the models and their runs in three places. A selection without files has
nothing to send, but `FileTransfer` left the sender at the first chunk of a first
file; the type invariant could not be proved of it, and no selection of the run was
empty then. On a screen narrower than the warp `PointerMotion` put the cursor
outside of it, where the operating system keeps it inside. And the run of `KeyPath` had
queues of one event, which hid the behaviour described in section 3.

Only model-checked is everything under fairness, since the prover has no rules for
`ENABLED`: `EmergencyFreesInput`, `DialReplacesDial`, `StopEndsRun`, `EndsTogether`,
`PingAnswered`, `TasksEnd`, `TransferSettles`, `CopiesArrive`, `GuiSettles`. Every
invariant a passing run checks is proved, and so is the refinement.

No module uses a RECURSIVE operator.

## 5. Not modelled

The verifier of pinned certificates (a comparison), JSON framing of the IPC,
log files, the layout of the GUI's views and its theme, the CLI (one request, one
answer), the enumeration of monitors: no state that changes, or pure input and
output. Of the configuration only the role is modelled, since it alone decides
what a daemon does at its start; `UpdateConfig` changes the configuration in
memory, where only `GetStatus` and `GetConfig` read it, and `init-config` writes a file before any
daemon runs. Windows' named pipe is not modelled: `listen` binds nothing there.
Windows' injector is one call for each mouse event. The size of a wheel notch and
absolute coordinates on Windows are data no property tells apart. `EmergencyStop`
over IPC is one assignment to the reported flag. Code without a caller
(`resume_offsets`, `SenderState`, `Capture::stop`, `Client::run`) is left out, with
one exception: `FileTransferManager::send_files` has none either, no IPC request
reaches it, but the receiver it was written for is live, and `FileTransfer` needs
a sender that talks to it as this one does. A listen port of 0 is not modelled.

## 6. Plan

Done, in this order: `EdgeDetector`, `InputRouting` and its refinement; the two
lifecycles; files; pointer; clipboard; connection; the GUI and the daemon's
start; the key path; the tasks of a connection; and the proofs of section 4, from
the routing to the files, the pointer and the tasks. What is left is a bound on how
far `last_pos` of a Linux client is from its pointer, in terms of the motion its
borders have absorbed.
