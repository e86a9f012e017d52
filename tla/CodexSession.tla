---------------------------- MODULE CodexSession ----------------------------
(***************************************************************************)
(* One launched Codex session: the task that talks to the app-server, the  *)
(* pump of its WebSocket, the channels between them, and the launch and    *)
(* health monitor around them.  Inputs for the thread wait in the inject   *)
(* channel, become turn/start requests, and the events of the turn come    *)
(* back over whatever connection is there.  The connection may break and   *)
(* be opened again on the same thread while the app-server works on; the   *)
(* task then starts with an empty turn tracker and an empty preview.       *)
(*                                                                         *)
(* The app-server is external: it works on one turn at a time, answers a   *)
(* turn/start before it reports on the turn, and reports to the connection *)
(* that has resumed the thread, if there is one.  A turn is named for its  *)
(* input.  Sessions of other epochs are the concern of TaskRouting.        *)
(***************************************************************************)
EXTENDS Integers, Sequences, FiniteSets, SequencesExt

CONSTANTS
  MaxInputs,    \* bound: inputs for the thread
  MaxConns,     \* bound: connections opened
  MaxChanges,   \* bound: changes of the thread's status
  Changes,      \* bound: the statuses it changes to
  InjectCap,    \* capacity of the inject channel, 64 in the code
  InCap,        \* capacity of the channel from the pump, 128 in the code
  OutCap,       \* capacity of the channel to the pump, 64 in the code
  MaxAttempts,  \* MAX_RECONNECT_ATTEMPTS, 5 in the code
  RawCap,       \* RAW_DELTA_CAP, in parts of a message
  None

Inputs == 1..MaxInputs

\* What the app-server says of a turn.  Its last message is structured and comes in parts,
\* of which only the first has the opening brace and the key the preview looks for, before
\* it is complete, an "item"; a message before it, a "note", has any form.
TurnKinds ==
  {"response", "started", "note", "part1", "tool", "part2", "part3", "item", "ended"}
Parts == {"part1", "part2", "part3"}
Threads   == {"active", "idle", "systemError", "archived"}
Statuses  == {"Active", "Paused", "Error", "Completed"}
TurnEvents   == [kind: TurnKinds, turn: Inputs]
StatusEvents == [kind: {"status"}, thread: Threads]
Events   == TurnEvents \cup StatusEvents
Requests == [kind: {"start"}, turn: Inputs] \cup {[kind |-> "answer"]}
\* The content of a completed message: a send_to that names an agent, none or "user" (so
\* is plain text), a status that does not parse, an empty message, whose text may be empty.
Messages == {"target", "plain", "invalid", "empty"}
\* Diverted: addressed to an agent, and shown to the user without being routed.
Outcomes == {"handled", "diverted"}

ASSUME CodexAssumption ==
  /\ MaxInputs \in Nat /\ MaxConns \in Nat \ {0} /\ MaxChanges \in Nat
  /\ InjectCap \in Nat \ {0} /\ InCap \in Nat \ {0} /\ OutCap \in Nat \ {0}
  /\ Changes \subseteq Threads
  /\ MaxAttempts \in Nat \ {0} /\ RawCap \in Nat \ {0}
  /\ None \notin Inputs /\ None \notin Events /\ None \notin Requests /\ None \notin Outcomes

VARIABLES
  launch,      \* the launch: waiting for the handshake, ready, up, failed, stopping, stopped
  registered,  \* codex_inject_tx is this session's
  alive,       \* the app-server runs
  task,        \* the session task: where it is and the request it is sending
  attempts,    \* reconnect_count
  conns,       \* connections opened so far
  link,        \* the socket is up
  pump,        \* the pump: whether it runs, and the event it waits to put
  wire,        \* what has arrived at the socket
  inn,         \* the channel from the pump
  out,         \* the channel to the pump
  inject,      \* the inject channel
  asked,       \* turn/start requests the app-server has
  server,      \* its turn, what it has yet to say, whether it waits for a tool
  pending,     \* pending_injected_requests
  routable,    \* routed_turn_ids
  raw,         \* raw_delta: the parts it is made of, and truncated
  preview,     \* the preview in the GUI: of which turn, and whether it shows raw JSON
  thread,      \* the status of the thread at the app-server
  changes,
  status,      \* the status of the session in the task graph
  accepted,    \* history: inputs that went into the inject channel
  run,         \* history: inputs the app-server took up
  lost,        \* history: inputs it will never see
  finished,    \* history: turns whose end the task has seen
  crossed,     \* history: turns that were under way when a connection broke
  outcome,     \* history: what became of the last complete message of a turn
  intact,      \* history: no report of the status last reported has been lost
  early        \* history: the task was over before the launch had published the session

channelVars == <<wire, inn, out>>
linkVars    == <<conns, link, pump, channelVars>>
launchVars  == <<launch, registered>>
serverVars  == <<asked, server, thread, changes>>
trackerVars == <<pending, routable, raw>>
shownVars   == <<preview, status, outcome>>
inputVars   == <<inject, accepted, run, lost>>
historyVars == <<finished, crossed, intact, early>>
vars == <<launchVars, alive, task, attempts, linkVars, serverVars, trackerVars, shownVars,
          inputVars, historyVars>>

----------------------------------------------------------------------------
Start(m) == [kind |-> "start", turn |-> m]
Answer   == [kind |-> "answer"]
Say(k, m) == [kind |-> k, turn |-> m]

Free     == [turn |-> None, todo |-> <<>>, waits |-> FALSE]
Empty    == [parts |-> <<>>, truncated |-> FALSE]
Hidden   == [turn |-> None, json |-> FALSE]
Off      == [on |-> FALSE, hold |-> None]
On       == [on |-> TRUE, hold |-> None]

At(pc) == task.pc = pc
Goto(pc) == task' = [pc |-> pc, send |-> None]
Started(requests) == {r.turn : r \in {q \in requests : q.kind = "start"}}
Lose(ms) == lost' = lost \cup ms

Init ==
  /\ launch = "waiting" /\ registered = FALSE /\ alive = TRUE
  /\ task = [pc |-> "connect", send |-> None] /\ attempts = 0
  /\ conns = 0 /\ link = FALSE /\ pump = Off
  /\ wire = <<>> /\ inn = <<>> /\ out = <<>>
  /\ asked = <<>> /\ server = Free /\ thread = "idle" /\ changes = 0
  /\ pending = {} /\ routable = {} /\ raw = Empty
  /\ preview = Hidden /\ status = "Active" /\ outcome = [m \in Inputs |-> None]
  /\ inject = <<>> /\ accepted = {} /\ run = {} /\ lost = {}
  /\ finished = {} /\ crossed = {} /\ intact = TRUE /\ early = FALSE

----------------------------------------------------------------------------
(* The launch and the messages it lets in.                                 *)

\* The handshake done, the session is published, whether or not its task still runs, and
\* entered as active in the task graph.  Route stands for the replay of what was buffered.
Attach ==
  /\ launch = "ready"
  /\ launch' = "up" /\ registered' = TRUE /\ status' = "Active"
  /\ early' = At("over")
  /\ UNCHANGED <<alive, task, attempts, linkVars, serverVars, trackerVars, preview, outcome,
                 inputVars, finished, crossed, intact>>

\* A closed channel refuses the input, which stays in the daemon's buffer.
Route(m) ==
  /\ registered /\ m \notin accepted /\ \A n \in 1..(m - 1) : n \in accepted
  /\ ~At("over") /\ Len(inject) < InjectCap
  /\ inject' = Append(inject, m) /\ accepted' = accepted \cup {m}
  /\ UNCHANGED <<launchVars, alive, task, attempts, linkVars, serverVars, trackerVars,
                 shownVars, run, lost, historyVars>>

\* The token is cancelled: the task is dropped wherever it is, and its channels with it;
\* the process is killed or gone already.
Cancel ==
  /\ launch' = "stopping" /\ alive' = FALSE
  /\ Goto("over") /\ inject' = <<>> /\ inn' = <<>> /\ out' = <<>> /\ wire' = <<>>
  /\ link' = FALSE /\ pump' = Off /\ asked' = <<>> /\ server' = Free
  /\ lost' = lost \cup (accepted \ run)
  /\ crossed' = crossed \cup (accepted \ finished) /\ intact' = FALSE
  /\ pending' = {} /\ routable' = {} /\ raw' = Empty
  /\ UNCHANGED <<registered, attempts, conns, thread, changes, shownVars, accepted, run,
                 finished, early>>

Stop == launch = "up" /\ Cancel

\* The health monitor finds that the process has exited.
MonitorCancels == launch = "up" /\ ~alive /\ Cancel

\* invalidate_codex_session, or the monitor's clear_codex_session_if_current.
Unregister ==
  /\ launch = "stopping"
  /\ launch' = "stopped" /\ registered' = FALSE
  /\ UNCHANGED <<alive, task, attempts, linkVars, serverVars, trackerVars, shownVars,
                 inputVars, historyVars>>

----------------------------------------------------------------------------
(* Connecting and reconnecting.  What the app-server says before the       *)
(* handshake is over is read and thrown away.                              *)

\* A connection of its own pump, tracker and preview.
Connected ==
  /\ conns' = conns + 1 /\ link' = TRUE /\ pump' = On
  /\ wire' = <<>> /\ inn' = <<>> /\ out' = <<>>
  /\ pending' = {} /\ routable' = {} /\ raw' = Empty
  /\ attempts' = 0
  /\ Goto("select")

Connect ==
  /\ At("connect") /\ alive /\ conns < MaxConns
  /\ Connected /\ launch' = "ready"
  /\ UNCHANGED <<registered, alive, serverVars, shownVars, inputVars, historyVars>>

\* The launch stops the process and gives up.
ConnectFails ==
  /\ At("connect")
  /\ Goto("over") /\ launch' = "failed" /\ alive' = FALSE
  /\ UNCHANGED <<registered, attempts, linkVars, serverVars, trackerVars, shownVars,
                 inputVars, historyVars>>

\* The event loop has returned WsClosed: is the app-server still there?
Probe ==
  /\ At("probe")
  /\ IF alive /\ attempts < MaxAttempts
     THEN Goto("sleep") /\ attempts' = attempts + 1
     ELSE Goto("ending") /\ UNCHANGED attempts
  /\ UNCHANGED <<launchVars, alive, linkVars, serverVars, trackerVars, shownVars, inputVars,
                 historyVars>>

SleepOver ==
  /\ At("sleep")
  /\ Goto("resume")
  /\ UNCHANGED <<launchVars, alive, attempts, linkVars, serverVars, trackerVars, shownVars,
                 inputVars, historyVars>>

Resume ==
  /\ At("resume") /\ alive /\ conns < MaxConns
  /\ Connected
  /\ UNCHANGED <<launchVars, alive, serverVars, shownVars, inputVars, historyVars>>

\* A refused connection, a failed send or thirty seconds without an answer.
ResumeFails ==
  /\ At("resume")
  /\ Goto("ending")
  /\ UNCHANGED <<launchVars, alive, attempts, linkVars, serverVars, trackerVars, shownVars,
                 inputVars, historyVars>>


\* clear_codex_session_if_current; inputs that were still let in go with the channel.
End ==
  /\ At("ending")
  /\ Goto("over") /\ registered' = FALSE
  /\ inject' = <<>> /\ inn' = <<>> /\ lost' = lost \cup ToSet(inject)
  /\ pending' = {} /\ routable' = {} /\ raw' = Empty
  /\ UNCHANGED <<launch, alive, attempts, conns, link, pump, wire, out, serverVars,
                 shownVars, accepted, run, historyVars>>

----------------------------------------------------------------------------
(* The pump.                                                               *)

PumpReads ==
  /\ pump.on /\ pump.hold = None /\ wire # <<>>
  /\ pump' = [pump EXCEPT !.hold = Head(wire)] /\ wire' = Tail(wire)
  /\ UNCHANGED <<launchVars, alive, task, attempts, conns, link, inn, out, serverVars,
                 trackerVars, shownVars, inputVars, historyVars>>

\* It waits for room, and does nothing else while it waits.
PumpPuts ==
  /\ pump.on /\ pump.hold # None /\ ~At("over") /\ Len(inn) < InCap
  /\ inn' = Append(inn, pump.hold) /\ pump' = On
  /\ UNCHANGED <<launchVars, alive, task, attempts, conns, link, wire, out, serverVars,
                 trackerVars, shownVars, inputVars, historyVars>>

PumpSends ==
  /\ pump.on /\ pump.hold = None /\ link /\ out # <<>>
  /\ out' = Tail(out)
  /\ LET r == Head(out)
     IN  /\ asked' = IF r.kind = "start" THEN Append(asked, r.turn) ELSE asked
         /\ server' = IF r.kind = "answer" THEN [server EXCEPT !.waits = FALSE] ELSE server
  /\ UNCHANGED <<launchVars, alive, task, attempts, conns, link, pump, wire, inn, thread,
                 changes, trackerVars, shownVars, inputVars, historyVars>>

\* The socket is gone, or nobody receives any more.
PumpExits ==
  /\ pump.on
  /\ \/ pump.hold = None /\ ~link /\ (wire = <<>> \/ out # <<>>)
     \/ pump.hold # None /\ At("over")
  /\ pump' = Off /\ wire' = <<>> /\ out' = <<>>
  /\ lost' = lost \cup Started(ToSet(out))
  /\ UNCHANGED <<launchVars, alive, task, attempts, conns, link, inn, serverVars, trackerVars,
                 shownVars, inject, accepted, run, historyVars>>

----------------------------------------------------------------------------
(* The event loop.                                                         *)

Received(kind) == At("select") /\ inn # <<>> /\ Head(inn).kind = kind

Turn == Head(inn).turn

Take == inn' = Tail(inn)

eventFrame == <<launchVars, alive, attempts, conns, link, pump, wire, out, serverVars,
                inputVars, crossed, early>>

OnResponse ==
  /\ Received("response") /\ Take
  /\ pending' = pending \ {Turn}
  /\ routable' = IF Turn \in pending THEN routable \cup {Turn} ELSE routable
  /\ UNCHANGED <<eventFrame, task, raw, shownVars, finished, intact>>

\* Mutant: a turn that starts resets the tracker as well.
OnTurnStartedResets ==
  /\ Received("started") /\ Take
  /\ raw' = Empty /\ preview' = Hidden /\ pending' = {} /\ routable' = {}
  /\ UNCHANGED <<eventFrame, task, status, outcome, finished, intact>>

OnTurnStarted ==
  /\ Received("started") /\ Take
  /\ raw' = Empty /\ preview' = Hidden
  /\ UNCHANGED <<eventFrame, task, pending, routable, status, outcome, finished, intact>>

\* Mutant: the cap is looked at before the part is appended.
IngestedLate(part) ==
  IF Len(raw.parts) > RawCap
  THEN [parts |-> Append(Tail(raw.parts), part), truncated |-> TRUE]
  ELSE [raw EXCEPT !.parts = Append(raw.parts, part)]

\* ingest_delta: what is beyond the cap goes from the front, and the preview stops.
Ingested(part) ==
  LET parts == Append(raw.parts, part)
      over  == Len(parts) - RawCap
  IN  IF over > 0
      THEN [parts |-> SubSeq(parts, over + 1, Len(parts)), truncated |-> TRUE]
      ELSE [raw EXCEPT !.parts = parts]

\* Text that does not begin with the opening of a structured message is shown as it is.
ShowsJson(parts) ==
  Head(parts).kind # "part1" /\ \E i \in DOMAIN parts : parts[i].kind \in Parts

PreviewOf(buffer, turn) == [turn |-> turn, json |-> ShowsJson(buffer.parts)]

\* Mutant: the preview goes on when the buffer has been cut.
OnDeltaCut(part) ==
  /\ Received(part) /\ Take
  /\ raw' = Ingested(Head(inn)) /\ preview' = PreviewOf(raw', Turn)
  /\ UNCHANGED <<eventFrame, task, pending, routable, status, outcome, finished, intact>>

OnDelta(part) ==
  /\ Received(part) /\ Take
  /\ raw' = Ingested(Head(inn))
  /\ preview' = IF raw'.truncated THEN preview ELSE PreviewOf(raw', Turn)
  /\ UNCHANGED <<eventFrame, task, pending, routable, status, outcome, finished, intact>>

Whole(m) == <<Say("part1", m), Say("part2", m), Say("part3", m)>>

\* The text of a complete message; a note that is shown may be plain text.
Texts(kind, content, m) ==
  IF kind = "note" /\ content = "plain" THEN {Whole(m), <<Say("note", m)>>} ELSE {Whole(m)}

\* handle_completed_agent_message: send_to counts only in a turn the tracker knows.
OutcomeOf(content, known) ==
  IF content = "target" /\ ~known THEN "diverted" ELSE "handled"

\* The text replaces what was streamed and stays until the turn ends, so that the deltas of
\* a further message are appended to it.  A message that is shown ends its preview.
OnItemCompleted(kind) ==
  /\ Received(kind) /\ Take
  /\ \E content \in Messages :
       /\ outcome' = [outcome EXCEPT ![Turn] = OutcomeOf(content, Turn \in routable)]
       /\ preview' = IF content \in {"invalid", "empty"} THEN preview ELSE Hidden
       /\ \/ content = "empty" /\ UNCHANGED raw
          \/ \E text \in Texts(kind, content, Turn) : raw' = [raw EXCEPT !.parts = text]
  /\ UNCHANGED <<eventFrame, task, pending, routable, status, finished, intact>>

OnToolCall ==
  /\ Received("tool") /\ Take
  /\ task' = [pc |-> "send", send |-> Answer]
  /\ UNCHANGED <<eventFrame, trackerVars, shownVars, finished, intact>>

\* Mutant: the end of a turn pauses the session.
OnTurnCompletedPauses ==
  /\ Received("ended") /\ Take
  /\ raw' = Empty /\ preview' = Hidden /\ status' = "Paused"
  /\ routable' = routable \ {Turn} /\ finished' = finished \cup {Turn}
  /\ UNCHANGED <<eventFrame, task, pending, outcome, intact>>

OnTurnCompleted ==
  /\ Received("ended") /\ Take
  /\ raw' = Empty /\ preview' = Hidden
  /\ routable' = routable \ {Turn} /\ finished' = finished \cup {Turn}
  /\ UNCHANGED <<eventFrame, task, pending, status, outcome, intact>>

StatusOf(t) ==
  CASE t = "active" -> "Active" [] t = "systemError" -> "Error"
    [] t = "archived" -> "Completed" [] t = "idle" -> "Paused"

\* Before the launch has entered the session in the task graph it is not found.
OnStatus ==
  /\ Received("status") /\ Take
  /\ IF launch = "ready" THEN intact' = FALSE /\ UNCHANGED status
     ELSE status' = StatusOf(Head(inn).thread) /\ UNCHANGED intact
  /\ UNCHANGED <<eventFrame, task, trackerVars, preview, outcome, finished>>

\* Mutant: the end of the channel is skipped like an event of no interest.
OnClosedSkips ==
  /\ At("select") /\ inn = <<>> /\ ~pump.on
  /\ Goto("select")
  /\ UNCHANGED <<launchVars, alive, attempts, linkVars, serverVars, trackerVars, shownVars,
                 inputVars, historyVars>>

OnClosed ==
  /\ At("select") /\ inn = <<>> /\ ~pump.on
  /\ Goto("probe")
  /\ UNCHANGED <<launchVars, alive, attempts, linkVars, serverVars, trackerVars, shownVars,
                 inputVars, historyVars>>

\* Mutant: an input stays in the channel until its request has been sent.
TakeInputPeeks ==
  /\ At("select") /\ inject # <<>>
  /\ task' = [pc |-> "send", send |-> Start(Head(inject))]
  /\ pending' = pending \cup {Head(inject)}
  /\ UNCHANGED <<launchVars, alive, attempts, linkVars, serverVars, routable, raw, shownVars,
                 inputVars, historyVars>>

TakeInput ==
  /\ At("select") /\ inject # <<>>
  /\ inject' = Tail(inject)
  /\ task' = [pc |-> "send", send |-> Start(Head(inject))]
  /\ pending' = pending \cup {Head(inject)}
  /\ UNCHANGED <<launchVars, alive, attempts, linkVars, serverVars, routable, raw, shownVars,
                 accepted, run, lost, historyVars>>

SendRequest ==
  /\ At("send") /\ pump.on /\ Len(out) < OutCap
  /\ out' = Append(out, task.send) /\ Goto("select")
  /\ UNCHANGED <<launchVars, alive, attempts, conns, link, pump, wire, inn, serverVars,
                 trackerVars, shownVars, inputVars, historyVars>>

\* A turn that cannot be started ends the session, an answer that cannot be sent is dropped.
SendFails ==
  /\ At("send") /\ ~pump.on
  /\ IF task.send = Answer THEN Goto("select") /\ UNCHANGED lost
     ELSE Goto("ending") /\ lost' = lost \cup {task.send.turn}
  /\ UNCHANGED <<launchVars, alive, attempts, linkVars, serverVars, trackerVars, shownVars,
                 inject, accepted, run, historyVars>>

----------------------------------------------------------------------------
(* The app-server and the network.                                         *)

\* It reports over a connection whose handshake is over.
Emit(e) == wire' = IF link THEN Append(wire, e) ELSE wire

\* A turn has one message, with a tool call in it, or is interrupted in its second one.
Scripts ==
  {<<"response", "started", "part1", "tool", "part2", "part3", "item", "ended">>,
   <<"response", "started", "note", "part1", "ended">>}

TakeUp ==
  /\ alive /\ server = Free /\ asked # <<>>
  /\ asked' = Tail(asked) /\ run' = run \cup {Head(asked)}
  /\ \E script \in Scripts :
       server' = [turn |-> Head(asked), todo |-> script, waits |-> FALSE]
  /\ UNCHANGED <<launchVars, alive, task, attempts, linkVars, thread, changes, trackerVars,
                 shownVars, inject, accepted, lost, historyVars>>

\* A tool call waits for its answer as long as its connection lasts.
Report ==
  /\ alive /\ server # Free /\ ~(server.waits /\ link)
  /\ LET kind == Head(server.todo) rest == Tail(server.todo)
     IN  /\ Emit(Say(kind, server.turn))
         /\ server' = IF rest = <<>> THEN Free
                      ELSE [server EXCEPT !.todo = rest, !.waits = kind = "tool" /\ link]
  /\ UNCHANGED <<launchVars, alive, task, attempts, conns, link, pump, inn, out, asked, thread,
                 changes, trackerVars, shownVars, inputVars, historyVars>>

\* Taken between its turns, which bounds the interleavings with their events.
ChangeThread(t) ==
  /\ alive /\ conns > 0 /\ server = Free /\ changes < MaxChanges
  /\ thread' = t /\ changes' = changes + 1
  /\ Emit([kind |-> "status", thread |-> t]) /\ intact' = link
  /\ UNCHANGED <<launchVars, alive, task, attempts, conns, link, pump, inn, out, asked,
                 server, trackerVars, shownVars, inputVars, finished, crossed, early>>

\* Of what is on its way to us a prefix may have arrived.
Broken ==
  /\ link' = FALSE
  /\ \E n \in 0..Len(wire) : wire' = SubSeq(wire, 1, n)
  /\ crossed' = crossed \cup (accepted \ finished) /\ intact' = FALSE

Break ==
  /\ link /\ alive
  /\ Broken
  /\ server' = [server EXCEPT !.waits = FALSE]
  /\ UNCHANGED <<launchVars, alive, task, attempts, conns, pump, inn, out, asked, thread,
                 changes, trackerVars, shownVars, inputVars, finished, early>>

Exit ==
  /\ alive
  /\ alive' = FALSE /\ Broken
  /\ asked' = <<>> /\ server' = Free /\ lost' = lost \cup ToSet(asked)
  /\ UNCHANGED <<launchVars, task, attempts, conns, pump, inn, out, thread, changes,
                 trackerVars, shownVars, inject, accepted, run, finished, early>>

----------------------------------------------------------------------------
LaunchStep == Attach \/ MonitorCancels \/ Unregister

ConnectStep ==
  \/ Connect \/ ConnectFails \/ Probe \/ SleepOver \/ Resume \/ ResumeFails \/ End

EventStep ==
  \/ OnResponse \/ OnTurnStarted \/ \E part \in Parts : OnDelta(part)
  \/ OnItemCompleted("note") \/ OnItemCompleted("item")
  \/ OnToolCall \/ OnTurnCompleted \/ OnStatus

LoopStep == EventStep \/ OnClosed \/ TakeInput \/ SendRequest \/ SendFails

TaskStep == ConnectStep \/ LoopStep

PumpStep == PumpReads \/ PumpPuts \/ PumpSends \/ PumpExits

ServerStep == TakeUp \/ Report \/ \E t \in Changes : ChangeThread(t)

Next ==
  \/ LaunchStep \/ TaskStep \/ PumpStep \/ ServerStep
  \/ \E m \in Inputs : Route(m)
  \/ Stop \/ Break \/ Exit

Spec == Init /\ [][Next]_vars

\* The daemon's tasks run; what the app-server, the network and the user do is theirs.
Fairness == WF_vars(LaunchStep) /\ WF_vars(TaskStep) /\ WF_vars(PumpStep)

FairSpec == Spec /\ Fairness

----------------------------------------------------------------------------
(* Properties.                                                             *)

\* Every variable is within its type, and the channels within their capacities.
TypeOK ==
  /\ launch \in {"waiting", "ready", "up", "failed", "stopping", "stopped"}
  /\ registered \in BOOLEAN /\ alive \in BOOLEAN
  /\ task \in [pc: {"connect", "select", "send", "probe", "sleep", "resume", "ending", "over"},
               send: Requests \cup {None}]
  /\ At("send") <=> task.send # None
  /\ attempts \in 0..MaxAttempts /\ conns \in 0..MaxConns /\ link \in BOOLEAN
  /\ pump \in [on: BOOLEAN, hold: Events \cup {None}]
  /\ wire \in Seq(Events) /\ inn \in Seq(Events) /\ Len(inn) <= InCap
  /\ out \in Seq(Requests) /\ Len(out) <= OutCap
  /\ inject \in Seq(Inputs) /\ Len(inject) <= InjectCap
  /\ asked \in Seq(Inputs)
  /\ server \in [turn: Inputs \cup {None}, todo: Seq(TurnKinds), waits: BOOLEAN]
  /\ pending \subseteq Inputs /\ routable \subseteq Inputs
  /\ raw \in [parts: Seq(TurnEvents), truncated: BOOLEAN]
  /\ Len(raw.parts) <= RawCap \/ outcome[Last(raw.parts).turn] # None
  /\ preview \in [turn: Inputs \cup {None}, json: BOOLEAN]
  /\ thread \in Threads /\ changes \in 0..MaxChanges /\ status \in Statuses
  /\ accepted \subseteq Inputs /\ run \subseteq Inputs /\ lost \subseteq Inputs
  /\ finished \subseteq Inputs /\ crossed \subseteq Inputs
  /\ outcome \in [Inputs -> Outcomes \cup {None}] /\ intact \in BOOLEAN /\ early \in BOOLEAN

\* A message addressed to an agent goes to the agent, and to the user only if a connection
\* broke during its turn and the tracker of the turn was forgotten with it.
TargetIsHonoured == \A m \in Inputs : outcome[m] = "diverted" => m \in crossed

\* The preview never shows the raw JSON of the first message of a turn, unless a connection
\* broke during the turn: not when deltas follow a tool call, nor when the buffer is cut at
\* its cap, nor when an earlier turn ended without its message.  (The JSON of a message
\* after one of plain text is shown, which stays in the buffer: session_event.rs 135.)
PreviewShowsTheMessage ==
  preview.json => preview.turn \in crossed \/ outcome[preview.turn] # None

\* The session keeps the status of its thread, unless a connection broke since it changed
\* or the change was reported before the launch had entered the session.
StatusFollowsThread ==
  /\ changes > 0 /\ intact
  /\ \A e \in ToSet(wire) \cup ToSet(inn) \cup ({pump.hold} \ {None}) : e.kind # "status"
  => status = StatusOf(thread)

Held ==
  ToSet(inject) \cup Started({task.send} \ {None}) \cup Started(ToSet(out)) \cup ToSet(asked)

Where == [held |-> Held, delivered |-> run, lost |-> lost]

Stage(m) ==
  LET at == {s \in DOMAIN Where : m \in Where[s]}
  IN  CASE at = {} -> "fresh"
        [] Cardinality(at) = 1 -> CHOOSE s \in at : TRUE
        [] OTHER -> "several"

\* Through reconnects, failed sends and ends of the session, an input is started once at
\* most, and is not forgotten: it waits somewhere until it is started or known to be lost.
Inputs_ == INSTANCE Handoff WITH Items <- Inputs, stage <- [m \in Inputs |-> Stage(m)]
InputsAreHandedOver == Inputs_!Spec

\* The pump waits for room to the task, and the task for room to the pump.
Wedged ==
  /\ pump.hold # None /\ Len(inn) = InCap
  /\ At("send") /\ Len(out) = OutCap

\* A lost connection is opened again or the session ends, unless the two have wedged; and
\* Codex does not stay registered when its session is over, unless it was over before it
\* was registered.
LossIsResolved ==
  /\ conns > 0 /\ ~link ~> link \/ At("over") \/ Wedged
  /\ At("over") ~> ~registered \/ early
=============================================================================
