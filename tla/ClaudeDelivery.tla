--------------------------- MODULE ClaudeDelivery ---------------------------
(***************************************************************************)
(* How one answer of Claude reaches the user.  Claude works for the daemon *)
(* over two paths at once: the SDK events it POSTs, whose last one carries *)
(* the result of the turn, and the reply tool of its bridge.  The daemon   *)
(* keeps one owner of the visible result for whatever turn runs, and two   *)
(* tasks that do not wait for each other, the event processor of a launch  *)
(* and the control handler of the bridge, claim it under separate locks.   *)
(* The same events feed the preview, which a timer flushes.                *)
(*                                                                         *)
(* A turn is the work on one message: turn m answers message m.            *)
(***************************************************************************)
EXTENDS Integers, Sequences, FiniteSets, SequencesExt

CONSTANTS
  MaxMessages,  \* bound: messages sent to Claude
  MaxLaunches,  \* bound: Claude processes
  MaxEvents,    \* bound: events of all turns besides their results
  MaxAttach,    \* bound: times the bridge connects
  MaxFaults,    \* bound: links lost and processes ended or replaced
  QueueCap,     \* capacity of the event channel, 256 in the code
  Tries,        \* attempts to answer a control request, 30 in the code
  None

Turns    == 1..MaxMessages
Launches == 1..MaxLaunches

Owners  == {"Inactive", "Active", "CompletedBySdk", "CompletedByBridge"}
Kinds   == {"assistant", "block", "delta", "control"}
Results == {"result", "silent"}   \* with a text and without one
Events  == [turn: Turns, kind: Kinds \cup Results]

ASSUME DeliveryAssumption ==
  /\ MaxMessages \in Nat /\ MaxLaunches \in Nat \ {0} /\ MaxEvents \in Nat
  /\ MaxAttach \in Nat /\ MaxFaults \in Nat
  /\ QueueCap \in Nat \ {0} /\ Tries \in Nat \ {0}
  /\ None \notin Turns \cup Launches \cup Events

VARIABLES
  owner,      \* claude_sdk_direct_text_state
  attached,   \* the bridge is in attached_agents
  attaches,
  online,     \* claude_sdk_ws_tx is set
  session,    \* the launch whose nonce and event channel the state holds, or None
  launches,
  faults,
  claude,     \* the process: its launch or None, inbox and turn
  events,     \* events it has had so far
  post,       \* per launch, the event of a POST that has passed the nonce check, or None
  queue,      \* per launch, its event channel
  proc,       \* per launch, the task that processes its events
  routing,    \* per message, how far route_message is with it
  replies,    \* what the bridge has sent or will send
  handler,    \* the suppressed reply the control handler of the bridge is at, or None
  buffer,     \* claude_preview_buffer: the turns its text is from
  scheduled,  \* claude_preview_flush_scheduled
  timers,     \* flush timers that are asleep
  shown,      \* history: who put the result of a turn before the user
  locked,     \* history: turns whose text made the SDK the owner
  replied,    \* history: turns answered with the reply tool
  disturbed   \* history: turns that shared the daemon with another, lost their
              \* process or the bridge, or began before the owner was reset

linkVars    == <<attached, attaches, online, session, launches, faults>>
eventVars   == <<events, post, queue, proc>>
replyVars   == <<replies, handler>>
previewVars == <<buffer, scheduled, timers>>
historyVars == <<shown, locked, replied, disturbed>>
vars == <<owner, linkVars, claude, eventVars, routing, replyVars, previewVars, historyVars>>

----------------------------------------------------------------------------
Idle == [pc |-> "idle", event |-> None, tries |-> 0]
Free == None

Process(l) == [launch |-> l, inbox |-> <<>>, turn |-> None]
Dead == Process(None)

Init ==
  /\ owner = "Inactive" /\ attached = FALSE /\ attaches = 0
  /\ online = TRUE /\ session = 1 /\ launches = 1 /\ faults = 0
  /\ claude = Process(1) /\ events = 0
  /\ post = [l \in Launches |-> None]
  /\ queue = [l \in Launches |-> <<>>]
  /\ proc = [l \in Launches |-> Idle]
  /\ routing = [m \in Turns |-> "new"]
  /\ replies = <<>> /\ handler = Free
  /\ buffer = {} /\ scheduled = FALSE /\ timers = 0
  /\ shown = [t \in Turns |-> {}] /\ locked = {} /\ replied = {} /\ disturbed = {}

\* Something of turn t is still under way.
Live(t) ==
  \/ routing[t] = "sent" \/ t \in ToSet(claude.inbox) \/ claude.turn = t
  \/ \E l \in Launches :
       \/ \E e \in ToSet(queue[l]) \cup ({post[l], proc[l].event} \ {None}) : e.turn = t
  \/ t \in ToSet(replies) \/ handler = t

LiveTurns == {t \in Turns : Live(t)}

----------------------------------------------------------------------------
(* The owner of the visible result.                                        *)

RoutesDirectly(state) == ~attached \/ state = "Active"

\* An assistant text: a completed state is forgotten, then the SDK takes the turn if it may.
Begun ==
  LET state == IF owner \in {"CompletedBySdk", "CompletedByBridge"} THEN "Inactive" ELSE owner
  IN  IF RoutesDirectly(state) THEN "Active" ELSE state

SdkMayClaim    == owner = "Active" \/ (owner = "Inactive" /\ ~attached)
\* Mutant: the bridge does not ask whether the SDK has shown the result.
BridgeMayClaimLate == owner # "CompletedByBridge"
BridgeMayClaim == owner \in {"Active", "Inactive"}
ClaimedByBridge == IF owner = "Active" THEN "CompletedByBridge" ELSE owner

----------------------------------------------------------------------------
(* Messages to Claude.                                                     *)

\* route_message hands m to the WebSocket of the SDK, or else to the bridge.
Send(m) ==
  /\ routing[m] = "new" /\ \A n \in Turns : n < m => routing[n] # "new"
  /\ claude.launch # None /\ (online \/ attached)
  /\ routing' = [routing EXCEPT ![m] = "sent"]
  /\ claude' = [claude EXCEPT !.inbox = Append(@, m)]
  /\ disturbed' = IF LiveTurns = {} THEN disturbed ELSE disturbed \cup LiveTurns \cup {m}
  /\ UNCHANGED <<owner, linkVars, eventVars, replyVars, previewVars,
                 shown, locked, replied>>

\* The owner is reset for m, which may have begun by then.
Prepare(m) ==
  /\ routing[m] = "sent"
  /\ routing' = [routing EXCEPT ![m] = "prepared"]
  /\ owner' = "Inactive"
  /\ disturbed' = IF m \in ToSet(claude.inbox) THEN disturbed ELSE disturbed \cup {m}
  /\ UNCHANGED <<linkVars, claude, eventVars, replyVars, previewVars,
                 shown, locked, replied>>

----------------------------------------------------------------------------
(* Links and launches.                                                     *)

WsAttach ==
  /\ claude.launch # None /\ claude.launch = session /\ ~online
  /\ online' = TRUE
  /\ UNCHANGED <<owner, attached, attaches, session, launches, faults, claude, eventVars,
                 routing, replyVars, previewVars, historyVars>>

Fault == faults < MaxFaults /\ faults' = faults + 1

WsLost ==
  /\ online /\ Fault
  /\ online' = FALSE
  /\ UNCHANGED <<owner, attached, attaches, session, launches, claude, eventVars, routing,
                 replyVars, previewVars, historyVars>>

\* The process is gone and its bridge with it, which may leave behind what it had not sent;
\* a POST it was making may come too late for the check of its nonce.
Kill ==
  /\ Fault
  /\ replies' \in {<<>>, replies}
  /\ \E late \in SUBSET {claude.launch} :
       post' = [l \in Launches |-> IF l \in late THEN None ELSE post[l]]
  /\ disturbed' = disturbed \cup LiveTurns /\ locked' = locked \ LiveTurns
  /\ online' = FALSE /\ buffer' = {} /\ scheduled' = FALSE

\* invalidate_claude_sdk_session, when the process has exited or was stopped.
Invalidate ==
  /\ session # None
  /\ Kill
  /\ claude' = Dead /\ session' = None /\ owner' = "Inactive"
  /\ UNCHANGED <<attached, attaches, launches, events, queue, proc, routing, handler, timers,
                 shown, replied>>

\* begin_claude_sdk_launch: the owner is not reset, and the events of the launch before
\* stay in its own channel, which its processor empties.
Relaunch ==
  /\ launches < MaxLaunches
  /\ Kill
  /\ launches' = launches + 1 /\ session' = launches + 1 /\ claude' = Process(launches + 1)
  /\ UNCHANGED <<owner, attached, attaches, events, queue, proc, routing, handler,
                 timers, shown, replied>>

Attach ==
  /\ ~attached /\ attaches < MaxAttach
  /\ attached' = TRUE /\ attaches' = attaches + 1
  /\ UNCHANGED <<owner, online, session, launches, faults, claude, eventVars, routing, replyVars,
                 previewVars, historyVars>>

Detach ==
  /\ Fault /\ attached /\ replies = <<>> /\ handler = Free
  /\ attached' = FALSE
  /\ disturbed' = disturbed \cup LiveTurns
  /\ UNCHANGED <<owner, attaches, online, session, launches, claude, eventVars, routing,
                 replyVars, previewVars, shown, locked, replied>>

----------------------------------------------------------------------------
(* Claude: it takes one message at a time and has one POST under way.      *)

StartTurn ==
  /\ claude.turn = None /\ claude.inbox # <<>>
  /\ claude' = [claude EXCEPT !.inbox = Tail(@), !.turn = Head(claude.inbox)]
  /\ UNCHANGED <<owner, linkVars, eventVars, routing, replyVars, previewVars,
                 historyVars>>

CanPost == claude.turn # None /\ post[claude.launch] = None

Posts(kind) ==
  post' = [post EXCEPT ![claude.launch] = [turn |-> claude.turn, kind |-> kind]]

Say(kind) ==
  /\ CanPost /\ events < MaxEvents
  /\ Posts(kind) /\ events' = events + 1
  /\ UNCHANGED <<owner, linkVars, claude, queue, proc, routing, replyVars, previewVars,
                 historyVars>>

Reply ==
  /\ claude.turn # None /\ claude.turn \notin replied
  /\ replies' = Append(replies, claude.turn) /\ replied' = replied \cup {claude.turn}
  /\ UNCHANGED <<owner, linkVars, claude, eventVars, routing, handler, previewVars,
                 shown, locked, disturbed>>

EndTurn(kind) ==
  /\ CanPost
  /\ Posts(kind) /\ claude' = [claude EXCEPT !.turn = None]
  /\ UNCHANGED <<owner, linkVars, events, queue, proc, routing, replyVars, previewVars,
                 historyVars>>

----------------------------------------------------------------------------
(* The POST that has passed the check of its nonce: the event channel is   *)
(* looked up under another lock, and may be that of the next launch.       *)

Enqueue(l) ==
  /\ post[l] # None
  /\ session # None => Len(queue[session]) < QueueCap
  /\ post' = [post EXCEPT ![l] = None]
  /\ queue' = IF session = None THEN queue
              ELSE [queue EXCEPT ![session] = Append(@, post[l])]
  /\ UNCHANGED <<owner, linkVars, claude, events, proc, routing, replyVars, previewVars,
                 historyVars>>

----------------------------------------------------------------------------
(* The processor of a launch: one event after the other.                   *)

Ready(l, kind) == proc[l] = Idle /\ queue[l] # <<>> /\ Head(queue[l]).kind = kind
At(l, pc) == proc[l].pc = pc

Dequeue(l) == queue' = [queue EXCEPT ![l] = Tail(@)]
Goto(l, pc) == proc' = [proc EXCEPT ![l] = IF pc = "idle" THEN Idle ELSE [@ EXCEPT !.pc = pc]]
Begin(l, pc) == proc' = [proc EXCEPT ![l] = [pc |-> pc, event |-> Head(queue[l]), tries |-> 0]]

OnAssistant(l) ==
  /\ Ready(l, "assistant") /\ Dequeue(l)
  /\ owner' = Begun
  /\ LET t == Head(queue[l]).turn
     IN  locked' = IF Begun = "Active" /\ routing[t] = "prepared" THEN locked \cup {t} ELSE locked
  /\ UNCHANGED <<linkVars, claude, events, post, proc, routing, replyVars, previewVars,
                 shown, replied, disturbed>>

\* clear_claude_preview_batch.
OnBlock(l) ==
  /\ Ready(l, "block") /\ Dequeue(l)
  /\ buffer' = {} /\ scheduled' = FALSE
  /\ UNCHANGED <<owner, linkVars, claude, events, post, proc, routing, replyVars, timers,
                 historyVars>>

\* append_claude_preview_delta: the first text of a batch starts its timer.
OnDelta(l) ==
  /\ Ready(l, "delta") /\ Dequeue(l)
  /\ buffer' = buffer \cup {Head(queue[l]).turn} /\ scheduled' = TRUE
  /\ timers' = IF scheduled THEN timers ELSE timers + 1
  /\ UNCHANGED <<owner, linkVars, claude, events, post, proc, routing, replyVars,
                 historyVars>>

OnControl(l) ==
  /\ Ready(l, "control") /\ Dequeue(l) /\ Begin(l, "control")
  /\ UNCHANGED <<owner, linkVars, claude, events, post, routing, replyVars, previewVars,
                 historyVars>>

\* Mutant: one attempt too many.
AttemptOnce(l) ==
  /\ At(l, "control")
  /\ proc' = IF online \/ proc[l].tries = Tries
             THEN [proc EXCEPT ![l] = Idle] ELSE [proc EXCEPT ![l].tries = @ + 1]
  /\ UNCHANGED <<owner, linkVars, claude, events, post, queue, routing, replyVars, previewVars,
                 historyVars>>

\* The answer to a control request waits for a WebSocket, whichever that is, and holds up
\* the events behind it while it does.
Attempt(l) ==
  /\ At(l, "control")
  /\ proc' = IF online \/ proc[l].tries + 1 = Tries
             THEN [proc EXCEPT ![l] = Idle] ELSE [proc EXCEPT ![l].tries = @ + 1]
  /\ UNCHANGED <<owner, linkVars, claude, events, post, queue, routing, replyVars, previewVars,
                 historyVars>>

\* Mutant: the result leaves the batch to its timer.
OnResultOnly(l) ==
  /\ Ready(l, "result") /\ Dequeue(l) /\ Begin(l, "claim")
  /\ UNCHANGED <<owner, linkVars, claude, events, post, routing, replyVars, previewVars,
                 historyVars>>

\* The result takes the batch first; one without a text claims nothing.
OnResult(l) ==
  /\ Ready(l, "result") /\ Dequeue(l) /\ Begin(l, "claim")
  /\ buffer' = {} /\ scheduled' = FALSE
  /\ UNCHANGED <<owner, linkVars, claude, events, post, routing, replyVars, timers,
                 historyVars>>

OnSilentResult(l) ==
  /\ Ready(l, "silent") /\ Dequeue(l)
  /\ buffer' = {} /\ scheduled' = FALSE
  /\ locked' = locked \ {Head(queue[l]).turn}
  /\ UNCHANGED <<owner, linkVars, claude, events, post, proc, routing, replyVars, timers,
                 shown, replied, disturbed>>

ClaimResult(l) ==
  /\ At(l, "claim") /\ SdkMayClaim
  /\ owner' = "CompletedBySdk" /\ Goto(l, "idle")
  /\ shown' = [shown EXCEPT ![proc[l].event.turn] = @ \cup {"sdk"}]
  /\ UNCHANGED <<linkVars, claude, events, post, queue, routing, replyVars, previewVars,
                 locked, replied, disturbed>>

SuppressResult(l) ==
  /\ At(l, "claim") /\ ~SdkMayClaim
  /\ Goto(l, "finish")
  /\ UNCHANGED <<owner, linkVars, claude, events, post, queue, routing, replyVars, previewVars,
                 historyVars>>

FinishResult(l) ==
  /\ At(l, "finish") /\ Goto(l, "idle")
  /\ owner' = "Inactive"
  /\ UNCHANGED <<linkVars, claude, events, post, queue, routing, replyVars, previewVars,
                 historyVars>>

----------------------------------------------------------------------------
(* The timer of a preview batch.                                           *)

\* Mutant: the flag stays set when the batch is taken.
TimerFiresOnce ==
  /\ timers > 0
  /\ timers' = timers - 1 /\ buffer' = {}
  /\ UNCHANGED <<owner, linkVars, claude, eventVars, routing, replyVars, scheduled, historyVars>>

TimerFires ==
  /\ timers > 0
  /\ timers' = timers - 1 /\ scheduled' = FALSE /\ buffer' = {}
  /\ UNCHANGED <<owner, linkVars, claude, eventVars, routing, replyVars, historyVars>>

----------------------------------------------------------------------------
(* A terminal reply of the bridge at its control handler.                  *)

ShowReply ==
  /\ attached /\ handler = Free /\ replies # <<>> /\ BridgeMayClaim
  /\ replies' = Tail(replies)
  /\ owner' = ClaimedByBridge
  /\ shown' = [shown EXCEPT ![Head(replies)] = @ \cup {"bridge"}]
  /\ UNCHANGED <<linkVars, claude, eventVars, routing, handler, previewVars, locked, replied,
                 disturbed>>

SuppressReply ==
  /\ attached /\ handler = Free /\ replies # <<>> /\ ~BridgeMayClaim
  /\ replies' = Tail(replies) /\ handler' = Head(replies)
  /\ UNCHANGED <<owner, linkVars, claude, eventVars, routing, previewVars, historyVars>>

FinishReply ==
  /\ handler # Free
  /\ handler' = Free /\ owner' = "Inactive"
  /\ UNCHANGED <<linkVars, claude, eventVars, routing, replies, previewVars,
                 historyVars>>

----------------------------------------------------------------------------
RouteStep(m) == Send(m) \/ Prepare(m)

LinkStep == WsAttach \/ WsLost \/ Invalidate \/ Relaunch \/ Attach \/ Detach

ClaudeStep ==
  \/ StartTurn \/ Reply
  \/ \E kind \in Kinds : Say(kind)
  \/ \E kind \in Results : EndTurn(kind)

ProcessorStep(l) ==
  \/ OnAssistant(l) \/ OnBlock(l) \/ OnDelta(l)
  \/ OnControl(l) \/ Attempt(l)
  \/ OnResult(l) \/ OnSilentResult(l) \/ ClaimResult(l) \/ SuppressResult(l) \/ FinishResult(l)

HandlerStep == ShowReply \/ SuppressReply \/ FinishReply

Next ==
  \/ \E m \in Turns : RouteStep(m)
  \/ LinkStep \/ ClaudeStep
  \/ \E l \in Launches : Enqueue(l) \/ ProcessorStep(l)
  \/ TimerFires \/ HandlerStep

Spec == Init /\ [][Next]_vars

----------------------------------------------------------------------------
(* Properties.                                                             *)

\* Every variable is within its type.
TypeOK ==
  /\ owner \in Owners
  /\ attached \in BOOLEAN /\ attaches \in 0..MaxAttach /\ online \in BOOLEAN
  /\ session \in Launches \cup {None} /\ launches \in Launches /\ faults \in 0..MaxFaults
  /\ claude \in [launch: Launches \cup {None}, inbox: Seq(Turns),
                 turn: Turns \cup {None}] /\ events \in 0..MaxEvents
  /\ claude.launch = session /\ (claude.turn # None => session # None)
  /\ online => session # None
  /\ post \in [Launches -> Events \cup {None}]
  /\ queue \in [Launches -> Seq(Events)]
  /\ proc \in [Launches ->
       [pc: {"idle", "control", "claim", "finish"},
        event: Events \cup {None}, tries: 0..(Tries - 1)]]
  /\ \A l \in Launches : proc[l].pc = "idle" <=> proc[l].event = None
  /\ routing \in [Turns -> {"new", "sent", "prepared"}]
  /\ replies \in Seq(Turns)
  /\ handler \in Turns \cup {None}
  /\ buffer \subseteq Turns /\ scheduled \in BOOLEAN /\ timers \in Nat
  /\ shown \in [Turns -> SUBSET {"sdk", "bridge"}]
  /\ locked \subseteq Turns /\ replied \subseteq Turns /\ disturbed \subseteq Turns

Settled(t) == routing[t] = "prepared" /\ ~Live(t)

\* Whatever the order in which the SDK's result and the bridge's reply come in, and whether
\* or not the bridge attaches while Claude works, a turn that had the daemon to itself is
\* put before the user once at most, and at least once when the SDK had taken it or the
\* bridge had replied (the two claims of state_delivery.rs).
UndisturbedTurnIsAnsweredOnce ==
  \A t \in Turns \ disturbed :
    /\ Cardinality(shown[t]) <= 1
    /\ Settled(t) /\ t \in locked \cup replied => shown[t] # {}

\* No text waits in the preview buffer without a timer that will flush it, although the
\* start of a block, a result and a new launch reset the flag the timers go by.
PreviewHasTimer == buffer # {} => timers > 0

\* A timer that fires after its turn finds nothing of it: the text of a turn is flushed
\* before the turn is over, so that it does not run into the preview of the next.
PreviewIsOfTheTurn == \A t \in buffer \ disturbed : Live(t)

\* Once a text of the turn made the SDK the owner, its result is not lost: "late bridge
\* attach cannot steal the final visible result mid-turn" (event_handler.rs:79).
LockedTurnIsAnswered ==
  \A t \in locked : Settled(t) => shown[t] # {}
=============================================================================
