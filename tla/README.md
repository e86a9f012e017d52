# Verification of the agents bridge

This directory holds TLA+ models of the daemon under `src-tauri/src/daemon/` and of the
bridge process that connects Claude Code to it (`bridge/src/`), the TLC
configurations that check them on small instances, and TLAPS proofs of what matters most
for every value of the constants.  `PROJECT.json` lists the runs, the theorems, the
mutants that show each property can fail, and the source lines of every definition.
Paths below are relative to `src-tauri/src/daemon/` unless they start with `bridge/` or
`docs/`.

To check a run: `tlc -config MCTaskRouting_gate.cfg MCTaskRouting`.
To check the proofs: `tlapm TaskRoutingProofs.tla`, and likewise `ClaudeSessionProofs`,
`TaskPlacesProofs`, `ClaudeDeliveryProofs`, `BridgeLoopsProofs`, `Lines`, and
`PermissionRelayProofs` and `CodexSessionProofs` (four minutes each).

## The system

The daemon is one tokio program inside a Tauri application.  It lets two coding agents,
Claude and Codex, and a user talk to each other.  All its state is one `DaemonState`
behind an `RwLock`; many tasks read and write it, and every `await` between two locks is
a place where another task may come in.

| Component | State | Operations | Talks to |
|---|---|---|---|
| Command loop, `mod.rs`, `cmd.rs` | the Codex and Claude handles | user input, launch, stop, set role, force disconnect, create / select / clear task, approve review, resume session, attach history, permission verdict | awaits every command before the next; calls all others |
| Message routing, `routing*.rs` | none of its own | prepare, choose a target, send, buffer, observe | called by the command loop, bridge connections, the SDK event task, the Codex session task |
| Offline buffer, `state_delivery.rs` | `buffered_messages` | buffer, take for a role, take for a role and task, migrate | routing, attach, `check_messages`, `set_role` |
| Task flow and review gate, `state_task_flow.rs`, `orchestrator/` | `review_status`, `status`, `ReviewGate.blocked` | stamp, gate, observe, approve | routing and the command loop |
| Task graph, `task_graph/`, `state_snapshot.rs`, `provider/` | tasks, session handles, active task | create, select, register on launch, resume | command loop, Codex launch |
| Bridge control server, `control/handler.rs` | `attached_agents` | attach with conflict check and replay, reply, permission request, cleanup | the bridge process over a WebSocket |
| Claude SDK session, `claude_sdk/`, `control/claude_sdk_handler*.rs`, `state_runtime.rs` | epoch, nonces, socket, generation, ready signal; the child's cell | launch, stop, monitor, recover, attach and clear the socket | a `claude` process, which connects back |
| Claude SDK events, `control/claude_sdk_handler_processing.rs`, `claude_sdk/event_handler*.rs` | an event channel per launch, the preview batch, the owner of the visible result | preview, visible result, control requests | routing, GUI, the bridge's handler |
| Codex session, `codex/` | launch epoch, inject channel, turn tracker, preview, two channels to its socket's pump | start, resume, attach, reply, `check_messages`, reconnect, end | a `codex app-server` process |
| Permission relay, `permission.rs`, `state_permission.rs` | pending requests and buffered verdicts | request, verdict, expiry | GUI, bridge, SDK, Codex |
| Bridge process, `bridge/src/` | two loops, the channels between them, pre-initialize queue, backlog, pending query and permissions | reconnect, forward, reply, query | Claude over MCP, the daemon over a WebSocket |
| Persistence, `state_persistence.rs` | a file | save, load | not called by production code |

The rest (Tauri commands, GUI notifications, prompts, OAuth, the legacy terminal session,
the React frontend) is listed in `PROJECT.json` with the reason it is not modelled.

### What is hard, and what makes each component correct

*Routing.*  Routing a message takes up to four critical sections and a send outside the
lock.  Agents come and go between any two of them.  Correct: each message has exactly one
fate; it is never in two places and never in none; every thread comes back.

*Buffer.*  Taken lists are sent outside the lock and may fail half-way.  Correct: bounded,
nothing replayed twice, nothing forgotten but by the bound.

*Gate.*  Stamp, gate check and effects are separate and refer to the task active at each
moment.  Correct: a message held back can always be released, and is released only by
approval or completion.

*Task graph.*  Launches, attaches, resumes and task selection come in any order.  Correct:
a task points at its own sessions; messages stamped with it go to them.

*Registrations.*  The cleanup of an old connection may run after a new one attached.
Correct: a live connection keeps its registration.

*Claude SDK session.*  Epochs, nonces and generations must keep apart launches, processes
and sockets while the command loop, monitors, processes and sockets all act at once.
Correct: the attached socket belongs to the current launch; no stale cleanup, signal or
time-out harms a newer one; a lost socket is noticed; a stop ends what it stops.

*Permission relay and bridge.*  A request and its verdict cross two processes, a
connection that is replaced, three buffers and a store whose entries age; delivery reads
the connection, sends and buffers in separate critical sections.  Correct: a request is
never answered twice or otherwise than the user did; it is in one place until it is given
up for a reason that can be named; order and bounds hold; nothing is stuck in a queue.

*Claude SDK events.*  Two tasks report the end of one turn under separate locks, and one
field says who owns it, for whatever turn runs.  Events of an older launch may be processed
late; a timer flushes the preview.  Correct: a turn is put before the user once; preview
text has a timer and never outlives its turn.

*Codex session.*  Its connection may break in mid-turn and be opened again while the
app-server works on; the task that reads the socket and the pump that owns it send to each
other over bounded channels.  Correct: an input is started once at most and never
forgotten; a message goes to its target; a lost connection is resolved.

*Bridge loops.*  Each loop does one thing at a time, so that waiting for room or for an
answer stops everything else in it.  Correct: both directions keep their order across
reconnects; nothing is in two places or in none; every wait ends.

## Modules

| Module | Models | Proved in |
|---|---|---|
| `TaskRouting` | routing, buffer, gate, task graph and the connections they depend on | `TaskRoutingProofs`, `TaskPlacesProofs` |
| `ClaudeSession` | the life of a Claude SDK session | `ClaudeSessionProofs` |
| `ClaudeDelivery` | how one answer of Claude reaches the user: SDK events and the bridge's reply | `ClaudeDeliveryProofs` |
| `CodexSession` | one launched Codex session, its connections and its turns | `CodexSessionProofs` |
| `PermissionRelay` | a permission request on its way through bridge, daemon and back | `PermissionRelayProofs` |
| `BridgeLoops` | the two loops of the bridge process and the channels between them | `BridgeLoopsProofs` |
| `Handoff` | the abstract promise of a channel: taken over once, then delivered or given up | |
| `Lines` | nothing of the program: lemmas about numbered things in sequences that form a line | itself |
| `MCTaskRouting` | what is said and launched in the instances of `TaskRouting` | |

The other modules need no more than numbers and model values, which their `.cfg` files
give them.  `BridgeLoops` implements `Handoff` twice, for the messages to Claude and for its
replies, `CodexSession` once, for the inputs of a thread, and `TaskRouting` once, for the
messages it routes; the refinement mapping of each is the place where an item is.

The modules meet at these points.  A message that `TaskRouting` hands to Claude's link is
what `ClaudeDelivery!Send` puts into the process and, over the bridge, what
`BridgeLoops!Route` puts on the socket; handed to Codex it is `CodexSession!Route`.
`SdkResult`, `BridgeReply` and `CodexReply` of `TaskRouting` are `ClaimResult` and
`ShowReply` of `ClaudeDelivery`, `Serve` of `BridgeLoops`, and the outcome `handled` of
`CodexSession`.  `ClaudeSession` is the launch that `ClaudeDelivery` names by a number.

### TaskRouting

A *thread* is whoever can route: the command loop (`Daemon`), a bridge connection's
handler, a Claude SDK session's event task, a Codex session task.  `thread[x]` is its
program counter with the message, target and list it holds across an `await`.  One action
is one critical section, or one send:

| Steps | Code |
|---|---|
| `BridgeReply`, `CodexReply`, `SdkResult`, `SendUserInput` | a message enters: `control/handler.rs` 106, `codex/handler.rs` 41, `claude_sdk/event_handler.rs` 159, `routing_user_input.rs` 9 |
| `Stamp` | `stamp_message_context` |
| `Prepare` | `prepare_task_routing`, and the exit for messages to the user |
| `Choose`, then `Send` or `SendFails` | `routing.rs` 53-119, 121-180 |
| `Observe` | `observe_task_message_effects` |
| `ReplayOne`, `ReplayFails`, `ReplayDone` | `replay_messages`, and the same loop in `codex/mod.rs` 288 |
| `CheckMessages`, `CheckTake` | Codex's `check_messages` |
| `CreateTask`, `SelectTask`, `ApproveReview`, `SetRole`, `Stop`, `Launch`, `AttachKnown`, `ForceDisconnect` | commands of the loop in `mod.rs` |
| `SdkConnect`, `SdkReady`, `CodexAttach`, `LaunchFails`, `Register` | what a launch does while the loop awaits it |
| `BridgeAttach`, `BridgeRejected`, `PeerCloses`, `BridgeCleanup`, `SdkCleanup`, `CodexEnds`, `CodexCancelled`, `ForceClear` | connections |
| `Fills`, `Drains` | the peer of a connection stops taking messages until its channel of 64 is full, and takes them again |

`fate` is a history variable: `live` while the system still has the message, then the one
thing that became of it (`handed` to an open connection, `shown` to the user, `refused`,
`lost` in a channel whose peer has closed, `overflow`, `drained` at completion,
`cancelled` with its Codex session).

Abstractions.  A message is its id, sender, addressee, status and stamp.  Provider session
ids are named for the launch that makes them.  User messages are stamped when sent: only
the command loop changes the active task or a session, and it is busy until all are
routed.  `Launch` merges the stop, the conflict check and the begin of a launch, during
which only connections could act and none reads what they write in between.  A channel
whose receiver is closing may accept one more message, which is lost, or refuse it.  A
Codex session task starts before the launch publishes it, so a session may be over when
it is published (`link' = "gone"` in `CodexAttach`).  A channel is not counted but is full
or not (`link = "full"`): `Send` and `ReplayOne` wait while it is, which may be for ever.  A
bridge refused for a role conflict ends like any other, but with the generation 0 its
handler began with; `first` is the bridge that was given it (`Claims`).  Messages from
"system" are never issued; Claude's reconnection is `ClaudeSession`'s.

### ClaudeSession

Launch attempts are numbered; the number stands for the attempt, its nonce and its
process.  `held` is the set of processes still in their `Arc<Mutex<Option<Child>>>`:
killing takes the process out, which is how a monitor sees that somebody else killed it.
`actor` is what the command loop and each monitor are doing; a monitor is numbered by the
launch it watches, which also stands for its cancel token.  `spawn_runtime` is the same
steps for both (`Begin`, `Spawn`, `Connected` or `NotConnected` and `Abort`, `Publish`).
Sockets go from `new` through `upgrade` (nonce checked by `ws_handler`), `open` (checked
again and attached) and `lost` to `closed`.

Left out: the role and the runtime health written with the connection, the event queue,
GUI notifications, the resume ids, overflow of the 64-bit epoch, and a stop that finds
nothing to stop.

### ClaudeDelivery

Turn *m* is Claude's work on message *m*.  `owner` is `claude_sdk_direct_text_state`.

| Actions | Code |
|---|---|
| `Send`, `Prepare` | `routing.rs` 121-180: the send, and the reset of the owner under the next lock |
| `Enqueue` | the POST of an event after the check of its nonce, `control/claude_sdk_handler.rs` |
| `OnAssistant`, `OnBlock`, `OnDelta`, `OnControl`, `Attempt`, `OnResult`, `OnSilentResult` | the processor of a launch, one event after the other |
| `ClaimResult`, or `SuppressResult` and `FinishResult` | `claude_sdk/event_handler_delivery.rs`, one critical section each |
| `TimerFires` | the flush timer of the preview |
| `ShowReply`, or `SuppressReply` and `FinishReply` | a terminal reply at the bridge's handler |
| `WsAttach`, `WsLost`, `Invalidate`, `Relaunch`, `Attach`, `Detach` | links and launches |
| `StartTurn`, `Say`, `Reply`, `EndTurn` | Claude, external |

`shown` says who put the result of a turn before the user.  `disturbed` are the turns that
shared the daemon with another turn, lost their process or bridge, or began before the
owner had been reset for them: what the code promises, it promises of the others.

Abstractions.  An event is its kind and its turn.  Claude works on one message at a time
and has one POST under way.  A result without text claims nothing.  The `thinking`
indicator is left out: a batch that is taken by its timer may be emitted after `Done`, and
the indicator then stays on.

### CodexSession

A turn is named for its input.  The app-server (external) works on one turn at a time and
reports it in the order response, started, three parts of a message with a tool call
between them, the item, the end; or it says a first message, a *note*, begins another and
is interrupted (`Scripts`).

| Actions | Code |
|---|---|
| `Connect`, `ConnectFails`, `Attach` | the launch, `codex/session.rs` and `codex/mod.rs` |
| `Route`, `Stop`, `MonitorCancels`, `Unregister` | the inject channel, stop, and the health monitor |
| `OnResponse` ... `OnStatus` | the event loop, `codex/session.rs` 217-233 and `codex/session_event.rs` |
| `TakeInput`, `SendRequest`, `SendFails` | its other branch, 234-256 |
| `OnClosed`, `Probe`, `SleepOver`, `Resume`, `ResumeFails`, `End` | the reconnect loop around it |
| `PumpReads`, `PumpPuts`, `PumpSends`, `PumpExits` | `codex/ws_helpers.rs` 75-115 |

Abstractions.  A message comes in three parts, of which only the first has the beginning
the preview looks for; `raw` is the parts the preview buffer is made of.  A complete message
(`OnItemCompleted`) leaves its text in `raw` to the end of the turn, so that the parts of a
second one come behind it; the note comes without parts of its own, as structured or plain
text.  The outcome of a turn is `diverted` when a message for an agent went to the user, and
`handled` otherwise.
Requests of the handshake are left out; what arrives while it runs is thrown away, as in
the code.  The thread's status changes between turns only.  The pump does not stop when its
sender is dropped, and the branch `InjectClosed` is unreachable while the session is
registered.  `attempts` is reset by every connection, so the bound on it is never reached.

### BridgeLoops

`mcp` and `client` are the program counters of the MCP loop and the daemon client; each
loop is at one of its awaits.

| Actions | Code |
|---|---|
| `ReadGreeting`, `Initialize`, `ReplayOne`, `ReplayDone`, `TakeMessage` | `bridge/src/mcp.rs` 35-95 |
| `ReadPart`, `ReadLine`, `SendItem`, `SendRefused`, `QueryEnds`, `EndOfInput` | a line of Claude, `bridge/src/mcp.rs`, `bridge/src/mcp_io.rs` 1-55 |
| `Connect` ... `SeeEnd` | `bridge/src/daemon_client.rs`, `daemon_client_io.rs`, one await each |
| `Route`, `Serve`, `Break` | the daemon's side and the network |
| `SendInitialize`, `Call`, `ClaudeExits` | Claude, external |

A line, `initialize` included, may be read in two parts; `read_line` inside `select!` throws
the first away when a message is received in between (`cut`).  A query that is still waiting when its connection
is lost is answered with an empty list; one found in the backlog cannot be serialized and
is answered with an error.  The late answer to a query that has timed out is given to the
query after it, as in the code.  When Claude's stdin ends the MCP loop ends, and the
client stays until its connection breaks.  Permission requests and verdicts travel in the
same channels and are left to `PermissionRelay`.  Claude reads its stdout as long as it
runs, and writes to the socket end; a connection that can be opened is counted only against
`MaxConns`, so the endless reconnects of a daemon that accepts and closes are cut there.

### PermissionRelay

Requests are numbered in the order Claude makes them, connections in the order the bridge
opens them (which is also their generation).

| Actions | Code |
|---|---|
| `Ask`, `TakeInbound` | the MCP loop: `bridge/src/mcp.rs` 36-42 and 135, `bridge/src/mcp_io.rs` 78 |
| `Connect`, `ConnectFails`, `BufferDuringBackoff`, `BackoffOver`, `Greet`, `ReplayBacklog`, `ReplayDone`, `SendOutbound`, `Receive`, `SeeEnd` | the daemon client, `bridge/src/daemon_client.rs`, one await each |
| `AcceptHello`, `RejectHello`, `ReplayVerdict`, `ReplayEnds`, `StoreRequest`, `HandlerEnds` | the handler of a connection, `control/handler.rs` 53-232, 322 |
| `Forward` | its sender task, `control/handler.rs` 41 |
| `Resolve`, then `DeliverToSdk` or `LookUp`, `Send`, `BufferUndelivered` | `handle_permission_verdict`, one critical section or send each |
| `ForceDisconnect` | the command of the loop |
| `BreakLink`, `Age`, `Exit`, `Start` | the network, the clock, the app |

`lost` is a history variable: why a request or its verdict was given up (`overflow` of the
backlog, `connection` that broke with it, `retries` that ran out, `restart` of the daemon,
`expired`, `drained` from the verdict buffer, `sdk` when it went to the socket of an SDK
session instead, `cut` when the first part of its line was read and thrown away).  `answer`
is what the user answered.

The two channels of the bridge are bounded.  What is sent into a full one waits as its last
item, in the hands of the sender: while `Asking`, the MCP loop reads neither Claude nor its
channel; while `Pushing`, the client does not look at its connection.  The request that
waits when the client ends is denied, those in the channel are not (`GiveUp`).

Abstractions.  A connection that breaks leaves each end any prefix of what was sent to it.
A request is fresh or older than the time to live.  An answer to a request that is not
stored is a step that changes nothing and is left out.  Whether an SDK session is online
beside the bridge, and whether another agent holds the role, is a choice (`ClaudeSession`
and `TaskRouting` model them); so is whether the cleanup of a refused connection, which goes
by generation 0, takes the registration there is.  Only requests and verdicts travel;
whatever else does is in `BridgeLoops`.  The bridge and Claude live throughout; when they end
nobody waits.

## Runs

| Run | Checks | Bounds |
|---|---|---|
| `relay` | `ExactlyOnePlace`, `BufferBounded`, `RegistrationFollowsLink` | two bridge connections, one Codex session, three messages, buffer of two |
| `gate` | `BlockedOnlyUnderReview`, `ReviewingHasRound`, `ExactlyOnePlace`, `GateOpensOnlyOnApproval` | one task, a lead and a coder or reviewer, three messages, buffer of one |
| `sessions` | `TypeOK`, `PointersOwnTheirSessions`, `RoutesStayInTask` | two tasks, one Claude and two Codex launches of every kind, one message |
| `links` | `MessagesAreHandedOver` (`Handoff`); `ThreadsComeBack` under `FairSpec` | one bridge connection, one Codex session, two messages, a role change, buffer of one; both connections may stop taking messages |
| `session` | `TypeOK`, `OnlineIsCurrent`, `ReadyByOwnProcess`, `LiveSocketStays`; `LossIsResolved`, `LoopComesBack` under `FairSpec` | three launch attempts, two sockets, two recovery attempts |
| `permission` | `TypeOK`, `OnePlace`, `ToldWhatTheUserSaid`, `OrderIsKept`; `OutboundLeaves`, `VerdictArrives` under `FairSpec` | two requests, two connections, one restart, two retries; channels, backlog and verdict buffer of one |
| `delivery` | `TypeOK`, `UndisturbedTurnIsAnsweredOnce`, `PreviewHasTimer`, `PreviewIsOfTheTurn` | two messages, two launches, three events besides results, one attach, one fault, event channel of one, two attempts |
| `codex` | `TypeOK`, `TargetIsHonoured`, `PreviewShowsTheMessage`, `StatusFollowsThread`; `InputsAreHandedOver` (`Handoff`) and `LossIsResolved` under `FairSpec` | two inputs, each with one message or two, two connections, one change of the thread's status, channels of one, inject channel of two, preview cap of two of three parts |
| `bridge` | `TypeOK`, `HeardInOrder`, `RepliesInOrder`; `MessagesAreHandedOver`, `RepliesAreHandedOver` (`Handoff`) and `WaitsEnd` under `FairSpec` | two calls, three messages of which one from an unknown sender, two connections, two retries, every channel and buffer of one |
| `candidate`, `review`, `steal` | one property each, violated | the smallest instance that shows it |

Why the bounds are enough.  The races are between a thread holding something and one other
actor that changes what it refers to; two connections of a kind (an old and a new one),
two tasks (the active and another) and three messages (one held, one buffered, one on its
way) make all of these meet, and a buffer of one or two overflows within them.  For the
Claude session three processes allow an old one, its recovery and a new launch at once,
and two sockets an old and a newer one.  With two requests one can be stored, answered or
buffered while the other is queued behind it, and either buffer overflows; two connections
allow the late end of the first while the second is served, and one restart with two
retries both ways out of the back-off.  Each loop of the bridge then waits for room, but
not both at once: that takes two requests and two verdicts at one time.  `bridge`, where
messages and calls share the channels, reaches that state.  For the delivery of a turn, two messages are one that runs and one
that disturbs it, and two launches an old processor beside a new one.  A Codex session
needs a connection that breaks and one that follows, an input that is in hand and one that
waits; a cap of two parts cuts a message of three.  In the bridge, channels of one make both
loops wait with two calls and three messages, and the wedge is reached.  A backlog of one
has no order and no replay that fails half-way: these rest on the theorems
(`RepliesComeInOrder`, `RepliesHandedOver`, `AskedInOrder`), which hold for every bound.
In `links`, one connection of each kind that stalls is enough to keep a thread, the command
loop included, waiting at a send and in a replay.
Deadlock is not checked: with its connections, messages and launches used up an instance
stops, and so may the real system when nobody does anything.

Symmetry: bridge connections in `relay` are interchangeable, and the run checks no liveness.

Fairness.  `TaskRouting!Fairness`: a thread that can take its next step does, since tokio
polls a ready task and a launch ends by itself or at its time-out.  Fair is each thread
as a whole, never one outcome of a step.  `ClaudeSession!Fairness`: the command loop,
monitors and socket handlers go on, timers fire, and the socket of a dead process closes.
`PermissionRelay!FairSpec`: the bridge's two loops, the handlers, the sender tasks and the
command loop go on; the daemon need not be started again, nor a request be answered.
`CodexSession!FairSpec`: the launch, the session task and the pump go on.
`BridgeLoops!FairSpec`: the two loops go on, and with them back-off and the time-out of a
query.
Nothing more is assumed of users, agents, networks or processes that live: neither that the
app-server answers, nor that the daemon serves a query, nor that the peer of a connection
takes what is sent to it (`ThreadsComeBack` excepts a thread that waits for room).  The two
modules of the bridge do assume that Claude reads its stdout as long as it lives and that a
write to the socket completes or fails: `WaitsEnd`, `OutboundLeaves` and `VerdictArrives`
rest on it.

### What the violated properties show

- `candidate`: `docs/dimweave-audit-summary.md` 51 says a message is buffered only when no
  candidate is online.  The stamp names the sender's session, the match compares it with
  the target's, and the lead's message to the coder of its own task is buffered.
- `review`: `orchestrator/review_gate.rs` 6 says the gate blocks lead to coder messages
  during review.  Those already in the offline buffer are handed over at the next attach.
- `steal`: `claude_sdk/event_handler.rs` 80 says a late attach of the bridge cannot steal
  the result in mid-turn.  The owner is reset when the next message is delivered
  (`routing.rs` 146), even if Claude still works on the one before; a bridge that attaches
  then makes the daemon suppress that turn's result, and nobody shows it.

### Known disagreements and losses without a run of their own

The models do what the code does here too, and TLC reaches these states.

- `docs/dimweave-audit-summary.md` 88 says a role is held by one agent.  Conflicts are
  checked before a launch is awaited (`mod.rs` 571: not at all on resume), so a bridge and a
  Codex session can both arrive with the role (`TaskRouting`).
- `claude_sdk/mod.rs` 30 says a stop kills the subprocess and cancels background tasks.
  After a recovery it kills the first child's empty cell (107), and a monitor past its only
  look at the token (`reconnect.rs` 49) launches Claude again (`ClaudeSession`).
- `docs/dimweave-audit-summary.md` 105 says verdicts are buffered while the agent is
  offline.  A bridge that comes back between the look-up and the buffering
  (`permission.rs` 82) has already taken the buffer; the verdict stays there while the
  bridge is online (`PermissionRelay`).
- Line 160 there says permission requests are denied when the channel to the daemon is
  closed.  A request still queued in the bridge when the retries run out is never denied;
  only the one that waits for room and those made later are.  Nor is one whose line was cut.  A verdict sent into a connection that is already dead is
  gone while bridge and Claude live on.
- `state.rs` 16 says an agent's connection carries a generation so that a stale disconnect
  cannot remove a newer one.  A bridge refused for a role conflict has set its agent's name
  (`control/handler.rs` 65) but no generation (38), and its cleanup (84, 198-209) goes by 0,
  the generation of the first bridge ever attached (`state.rs` 102): if that one is still
  attached it is removed, and Claude's connection cleared, while it is online
  (`TaskRouting`; `RegistrationFollowsLink` excepts this case and no other).
- `docs/dimweave-audit-summary.md` 67 and 161 say that messages kept from before `initialize`
  whose replay fails are kept on.  The code puts them back into a local vector of the loop
  it then leaves (`bridge/src/mcp.rs` 57-80); they are `dropped` in `BridgeLoops`.
- Line 248 there says the preview shows the message and never the JSON around it.  The text
  of a turn's first message stays in the buffer (`codex/session_event.rs` 135,
  `codex/structured_output.rs` 100), the deltas of a second one are appended to it, and
  after a plain first message the preview shows the second one's JSON (`CodexSession`;
  `PreviewShowsTheMessage` speaks of the time before the first message is complete).
- After a reconnect in mid-turn Codex's message goes to the user and not to its target,
  and its preview shows the raw JSON (`CodexSession`; both are allowed by the properties
  for turns a broken connection `crossed`, although `docs/agents/codex-chain.md` 488 and
  `docs/dimweave-audit-summary.md` 248 do not name the exception for the preview).
- The session task and the pump of a Codex connection can wait for each other for ever
  (`codex/ws_helpers.rs` 99 and `codex/session.rs` 249), and so can the two loops of the
  bridge (`bridge/src/daemon_client_io.rs` 42 and 51, `bridge/src/mcp_io.rs` 23,
  `bridge/src/mcp.rs` 144).  `LossIsResolved`, `WaitsEnd`, `OutboundLeaves` and
  `VerdictArrives` name these states; with capacities of 64 and 128 they need bursts or a
  peer that stalls.
- A reply the bridge sends after the next message was delivered is shown besides the
  SDK's result of its turn, and a reply to an agent that is suppressed is not routed either;
  both are `disturbed` turns in `ClaudeDelivery`.

## Proofs

For all values of the constants that satisfy the assumption of the module
(`RoutingAssumption`, `SessionAssumption`, `DeliveryAssumption`, `LoopsAssumption`,
`RelayAssumption`, `CodexAssumption`, which ask for capacities and bounds that are numbers
and for model values that are nothing else; `RoutingAssumption` also asks that connections
of different kinds are different things):

`TaskRoutingProofs`: `TypeCorrect`, `GateHoldsOnlyUnderReview`, `ReviewsCanEnd`,
`SessionsBelongToTheirTask`, `GateOpensProperly`, `RegistrationsFollow`,
`MessagesStayInTask`.  The inductive invariant is

    IInv == TypeOK /\ GateInv /\ FreshSessions /\ PointersOwnTheirSessions
              /\ QuietLaunch /\ StampsInv

The gate's two invariants need each other (a round is what keeps messages held, and a
status of Reviewing needs a round) and the graph's types.  The session pointers need
`FreshSessions`: while a launch for a new session is awaited no task owns that session,
because its connection is unused; without it registering could take a session away from
its task.  `QuietLaunch` says that while a launch is awaited the registration it
will take is free: the stop before it has cleared it and only the launch sets it again, so
that it does not take over from a live connection; what `RegistrationsFollow` leaves open is
the first bridge's registration, which the end of a refused connection takes.  `StampsInv` says that whatever can
still be routed, with a thread, on its list or behind a gate, carries the session of its
own task; with the session pointers it makes the agent that `Candidate` finds one of the
task (`MatchStaysInTask`).
The proof follows the state: lemmas show which actions change the graph at all
(`OthersLeaveGraph`, `StepOnGraph`), and each of those is treated once per conjunct.

`TaskPlacesProofs`: `MessagesAreInOnePlace`, `BufferKeepsItsBound` and
`MessagesHandedOver`, the refinement of `Handoff`.  The buffer, each task's gate and each
thread are *places*.  `PlaceInv`, which is inductive with `TypeOK`, says that the messages
in them are those whose fate is open, that no two places share one, that no list holds one
twice, and that a thread which is neither routing nor replaying holds none.  A step lets
two places at most exchange what they hold, gives some of it away for good, or adds what it
issues; `Placed` shows that this keeps the invariant and leaves settled fates alone, and
each action is one of its cases (`ThreadMoves`, `GateMoves`, `BufferMoves`).  For `Handoff`
a message is held when a place has it (`HasIsWhere`), which agrees with its fate
(`StageIs`), and fates settle once.  TLC checks the refinement on `links`, and has checked
it on the instance of `gate`, which takes too long for a run that is repeated.

The lemmas about lists say that appending, cutting, filtering and renaming neither lose
nor double a message.  That the filter which takes messages from
the buffer (`Select`, a recursive function over the positions) has a value at all and
what it picks are shown by the least position at which either could fail
(`SelectionExists`, `SelectionPicks`), and `OverflowFits` is the arithmetic of the bound.
TLC checks `QuietLaunch`, `StampsInv` and `PlaceInv` on the instances of `gate`, `sessions`
and `relay` too (not listed as runs: they restate what is proved).

`ClaudeSessionProofs`: `TypeCorrect`, `OnlineSocketIsCurrent`, `ReadyIsTrue`,
`LateCleanupIsHarmless`.  The inductive invariant is

    IInv == StateTypeOK /\ ActorsOK /\ SocketsOK /\ GenInv /\ ReadyInv /\ OnlineIsCurrent

`GenInv` says attached sockets have distinct generations up to the counter, which is what
lets a cleanup recognise its own socket; `ReadyInv` that a launch waiting to be told is
the pending one and no process is active, so that only its own process can attach.

`ClaudeDeliveryProofs`: `TypeCorrect`, `TimerIsSet`, `OneTurnAtATime`, `AnsweredOnce`,
`PreviewOfItsTurn`.  The inductive invariant of the first two is

    IInv == Typed /\ TimerInv

`Typed` is `TypeOK` in groups, and that no message waits for a process that is gone, which
keeps a dead process from taking up a turn.  `TimerInv` puts the flag the timers go by
between the batch and the timers: text needs the flag, and the flag a timer asleep.  A
start of a block, a result or a new launch resets flag and batch together; were the flag
reset alone, the next text would find no timer.

The other three go by `TurnsInv`, which `OneTurnAtATime` proves and TLC checks on the
instance of `delivery`: each turn that is not `disturbed` is `Running` as long as something
of it is under way and `Resting` before and after.  A turn that runs is `Alone`: whatever
is in the inbox, the channels, the processors and the control handler is its own and at the
launch that runs.  It is `Single`: it begins with an owner, a history and a batch in which
there is nothing of it, and replies once.  Its events, posted or queued, make up one stream
(`Stream`, which the enqueueing of a POST leaves as it is) that its result ends (`Flows`),
so that text in the batch has a result behind it that will take it (`Previewed`).  And
`Answered` is the claim on the visible result: after the bridge has shown its reply it is
attached and the owner is not `Active`, which keeps the SDK's claim from succeeding; after
the SDK has shown the result the owner is `CompletedBySdk` until the last reply is dealt
with; and until one of them has, an owner the SDK has locked stays `Active` up to the
result.  A step of any other turn, a lost process or a detached bridge would break this,
and makes the turn `disturbed`; `RunningGoes` shows that nothing else does, `RunningBegins`
that a message which finds the daemon at rest starts such a turn.

`BridgeLoopsProofs`: `TypeCorrect`, `MessagesComeInOrder`, `RepliesComeInOrder`,
`MessagesHandedOver`, `RepliesHandedOver`.  The inductive invariant of the first three is

    IInv == TypeOK /\ PlaceInv /\ MessagesInv /\ CallsInv

`PlaceInv` says what each position of a loop means for what it holds: no backlog while the
client serves, nothing kept from before `initialize` once it has been replayed.
`MessagesInv` puts all places a message can be in, from what Claude has heard back to the
socket, into one line of sequences that ascend and come one after the other, all before
the message the daemon routes next; `CallsInv` does so for replies, from what the daemon
has received back to Claude's stdin.  Three lemmas about such lines carry the proof:
something is taken out (`LineShrinks`), moves one place on (`LineMoves`) or is put at the
end (`LineGrows`); each action is one of the three for each line.  They are in `Lines`.

The last two say that the loops implement `Handoff`, and rest on

    HandInv == IInv /\ LinkInv /\ MessagesPlaced /\ RepliesPlaced

`MessagesPlaced`: of the messages routed each is on the line or given up, and none both.
`RepliesPlaced`: a reply given up is nowhere on its line, stdin included, so it cannot be
sent on again.  `LinkInv`: a connection leaves nothing behind in the socket when the client
has gone on, or the next `Connect` would lose it silently.  Since the lines ascend, what is
taken from one place is in no other; so every step takes an item from the way to one end
(`MessagesHanded`, `RepliesHanded`), which is a step of `Handoff`, or leaves it
(`MessageSteps`, `ReplySteps`).

`PermissionRelayProofs`: `TypeCorrect`, `EachIsInOnePlace`, `ClaudeIsToldTheAnswer`,
`AskedInOrder`.  The inductive invariant (`RelayIsSound`) is

    IInv == Types /\ ClientInv /\ ConnInv /\ BridgeInv /\ StoreInv /\ PlaceInv
              /\ AskedInv /\ ToldWhatTheUserSaid /\ QueueInv

What holds a request is a *place*: a channel or buffer of the bridge, the store, the
command, the verdict buffer, or one of the four sequences of a connection.  `PlaceInv` says
that places are disjoint, and that a request is in one exactly while Claude waits for it and
it has not been given up.  An action empties one place into another, or into `lost`, and
`PlaceInv` follows from what the two hold before and after.  The greeting is what makes
the connection's part inductive (`ConnInv`): the handler reads it before anything else, so
that no verdict is replayed on a connection whose client could still put its backlog back.
`ToldWhatTheUserSaid` needs that a request under way to the daemon has no answer yet and a
verdict under way to Claude says what was answered, in every place (`BridgeInv`,
`StoreInv`, `ConnInv`).  `OrderIsKept` is the line from the connection back to the
channel (`QueueInv`).  `Exit` and the cleanup of a handler put what they find into the
verdict buffer or give it up: that the buffer then holds each verdict once, and no more than
its capacity, is shown of every state of the fold that does it, by the least number at which
it could fail (`Lines!LeastNumber`).  That a channel of the bridge holds no more than its
capacity and one that waits is an invariant by itself (`RoomInv`, `RoomIsKept`): whoever
sends stops once it waits.

`CodexSessionProofs`: `TypeCorrect`, `TargetsAreHonoured`, `PreviewsShowTheMessage`,
`StatusFollows`, `InputsHandedOver`.  The inductive invariant is

    IInv == Types /\ PositionInv /\ ServerInv /\ LineInv /\ HandedInv /\ WayInv
              /\ ComingInv /\ StatusInv /\ TargetIsHonoured /\ PreviewShowsTheMessage

An input, the request for it and the events of its turn get numbers, 10 m for input m and
its request and one for each of its events (`Mark`).  `LineInv` says that these
increase from the channel the task reads, through the pump, the socket, what the app-server
has yet to say, its queue and the channel to it, to the inject channel.  Every step takes
something out of this line, moves it one place on or puts it at the end, and so keeps it
(`LinePreserved`); a break of the connection takes out what had not arrived.  The rest is
what a turn needs that no broken connection has crossed.  `WayInv`: its link is up and the
tracker knows its request before the app-server does.  `ComingInv`: of what the task has yet
to see of it no event comes without those before it (`Unbroken`), its message comes with the
turn known as one of ours or with the response that will make it known, and each delta of a turn
without a complete message finds the buffer as the events before it leave it.  `TargetIsHonoured` and
`PreviewShowsTheMessage` are read off there when the message and the deltas are handled;
neither is inductive without it.  `StatusInv` follows the last report of the thread's status
from the socket to the task.  `HandedInv` says that an accepted input is in one place, from
which `InputsHandedOver` shows that every step is a step of `Handoff` or leaves it as it is:
what the line says of an input taken from one place makes it the only one there.

Only model-checked: liveness (`ThreadsComeBack`, `LossIsResolved`, `LoopComesBack`,
`OutboundLeaves`, `VerdictArrives`, `WaitsEnd`), which the prover cannot do.  Every invariant
and every action property a passing run checks has a theorem.  `TypeOK` of routing does not
type the elements of the buffer; `PlaceInv` says of them what the theorems need.

## Not modelled

Encoding, wording and layout of messages; session histories read from files; the Codex
home directories; artifacts and indexes (lookup tables); Tauri commands that forward to
the command loop; GUI notifications; role prompts; accounts and login; the legacy terminal
session; the React frontend.  Persistence exists (`state_persistence.rs`) but production
code never calls it: the daemon starts empty, so there is no recovery to model.  `check_messages` takes the role and the messages under
two locks and is modelled as one step per lock.

## Plan

1. The role written with a launch's connection (`claude_sdk/runtime.rs` 129).
2. One composition of `ClaudeSession` and `TaskRouting`, so that a message to Claude can
   cross a recovery.
