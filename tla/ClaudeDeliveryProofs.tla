------------------------- MODULE ClaudeDeliveryProofs -------------------------
(***************************************************************************)
(* Theorems about the answers of Claude, for every number of messages,     *)
(* launches, events, attaches and faults and every capacity of the event   *)
(* channel.                                                                *)
(***************************************************************************)
EXTENDS ClaudeDelivery, SequenceTheorems, FiniteSetTheorems, TLAPS

----------------------------------------------------------------------------
(* The types, in the groups that actions share.                            *)

LinkTypes ==
  /\ attached \in BOOLEAN /\ attaches \in 0..MaxAttach /\ online \in BOOLEAN
  /\ session \in Launches \cup {None} /\ launches \in Launches /\ faults \in 0..MaxFaults
  /\ online => session # None

ClaudeTypes ==
  /\ claude \in [launch: Launches \cup {None}, inbox: Seq(Turns), turn: Turns \cup {None}]
  /\ claude.launch = session /\ (claude.turn # None => session # None)

\* No message waits for a process that is gone.
DeadIsEmpty == session = None => claude.inbox = <<>>

EventTypes ==
  /\ events \in 0..MaxEvents
  /\ post \in [Launches -> Events \cup {None}]
  /\ queue \in [Launches -> Seq(Events)]

Steps == [pc: {"idle", "control", "claim", "finish"},
          event: Events \cup {None}, tries: 0..(Tries - 1)]

ProcTypes ==
  /\ proc \in [Launches -> Steps]
  /\ \A l \in Launches : proc[l].pc = "idle" <=> proc[l].event = None

RouteTypes == owner \in Owners /\ routing \in [Turns -> {"new", "sent", "prepared"}]

ReplyTypes == replies \in Seq(Turns) /\ handler \in Turns \cup {None}

PreviewTypes == buffer \subseteq Turns /\ scheduled \in BOOLEAN /\ timers \in Nat

HistoryTypes ==
  /\ shown \in [Turns -> SUBSET {"sdk", "bridge"}]
  /\ locked \subseteq Turns /\ replied \subseteq Turns /\ disturbed \subseteq Turns

Typed ==
  /\ LinkTypes /\ ClaudeTypes /\ DeadIsEmpty /\ EventTypes /\ ProcTypes
  /\ RouteTypes /\ ReplyTypes /\ PreviewTypes /\ HistoryTypes

\* A batch that holds text has its timer set, and a timer that is set is asleep.
TimerInv == (buffer # {} => scheduled) /\ (scheduled => timers > 0)

IInv == Typed /\ TimerInv

\* The types in their groups are the types.
LEMMA GroupsAreTypes == Typed => TypeOK
BY DEF Typed, TypeOK, LinkTypes, ClaudeTypes, EventTypes, ProcTypes, Steps, RouteTypes,
       ReplyTypes, PreviewTypes, HistoryTypes

----------------------------------------------------------------------------
(* Sequences and processors.                                               *)

\* The first of a sequence and what follows it keep the type of its elements.
LEMMA FirstIsTyped ==
  ASSUME NEW S, NEW s \in Seq(S), s # <<>>
  PROVE  Head(s) \in S /\ Tail(s) \in Seq(S)
OBVIOUS

\* An element of the type may be put last.
LEMMA LastIsTyped ==
  ASSUME NEW S, NEW s \in Seq(S), NEW x \in S
  PROVE  Append(s, x) \in Seq(S)
OBVIOUS

\* None is neither a turn, a launch nor an event.
LEMMA NoneIsNone ==
  None \notin Turns /\ None \notin Launches /\ None \notin Events
BY DeliveryAssumption

\* Taking the first event of a channel keeps the types of all.
LEMMA DequeueIsTyped ==
  ASSUME EventTypes, NEW l \in Launches, queue[l] # <<>>, Dequeue(l),
         UNCHANGED <<events, post>>
  PROVE  EventTypes' /\ Head(queue[l]) \in Events
<1>1. Head(queue[l]) \in Events /\ Tail(queue[l]) \in Seq(Events)
  BY FirstIsTyped DEF EventTypes
<1> QED BY <1>1 DEF EventTypes, Dequeue

\* A processor that begins an event is at work on it.
LEMMA BeginIsTyped ==
  ASSUME ProcTypes, NEW l \in Launches, NEW pc \in {"control", "claim"},
         Head(queue[l]) \in Events, Begin(l, pc)
  PROVE  ProcTypes'
<1> DEFINE p == [pc |-> pc, event |-> Head(queue[l]), tries |-> 0]
<1>1. 0 \in 0..(Tries - 1)  BY DeliveryAssumption
<1>2. p \in Steps  BY <1>1 DEF Steps
<1>3. p.pc # "idle" /\ p.event # None  BY NoneIsNone
<1>4. proc' = [proc EXCEPT ![l] = p]  BY DEF Begin
<1> HIDE DEF p
<1> QED BY <1>2, <1>3, <1>4 DEF ProcTypes

\* A processor that is done is idle.
LEMMA IdleIsTyped ==
  ASSUME ProcTypes, NEW l \in Launches, proc' = [proc EXCEPT ![l] = Idle]
  PROVE  ProcTypes'
<1>1. 0 \in 0..(Tries - 1)  BY DeliveryAssumption
<1>2. Idle \in Steps  BY <1>1 DEF Idle, Steps
<1>3. Idle.pc = "idle" /\ Idle.event = None  BY DEF Idle
<1> HIDE DEF Idle
<1> QED BY <1>2, <1>3 DEF ProcTypes

----------------------------------------------------------------------------
(* Each action keeps the types.                                            *)

LEMMA RouteStepTypes == ASSUME Typed, NEW m \in Turns, RouteStep(m) PROVE Typed'
<1>1. CASE Send(m)
  <2>1. claude.launch # None /\ claude' = [claude EXCEPT !.inbox = Append(@, m)]
        /\ routing' = [routing EXCEPT ![m] = "sent"]
        /\ UNCHANGED <<owner, linkVars, eventVars, replyVars, previewVars, shown, locked, replied>>
    BY <1>1 DEF Send
  <2>2. disturbed' \subseteq Turns  BY <1>1 DEF Send, LiveTurns, Typed, HistoryTypes
  <2>3. Append(claude.inbox, m) \in Seq(Turns)  BY LastIsTyped DEF Typed, ClaudeTypes
  <2>4. ClaudeTypes' /\ DeadIsEmpty'
    BY <2>1, <2>3 DEF Typed, ClaudeTypes, DeadIsEmpty, linkVars
  <2>5. LinkTypes' /\ EventTypes' /\ ProcTypes' /\ ReplyTypes' /\ PreviewTypes'
    BY <2>1 DEF Typed, LinkTypes, EventTypes, ProcTypes, ReplyTypes, PreviewTypes,
                linkVars, eventVars, replyVars, previewVars
  <2>6. RouteTypes'  BY <2>1 DEF Typed, RouteTypes
  <2>7. HistoryTypes'  BY <2>1, <2>2 DEF Typed, HistoryTypes
  <2> QED BY <2>4, <2>5, <2>6, <2>7 DEF Typed
<1>2. CASE Prepare(m)
  <2>1. /\ routing' = [routing EXCEPT ![m] = "prepared"] /\ owner' = "Inactive"
        /\ UNCHANGED <<linkVars, claude, eventVars, replyVars, previewVars, shown, locked, replied>>
    BY <1>2 DEF Prepare
  <2>2. disturbed' \subseteq Turns  BY <1>2 DEF Prepare, Typed, HistoryTypes
  <2>3. /\ LinkTypes' /\ ClaudeTypes' /\ DeadIsEmpty' /\ EventTypes' /\ ProcTypes' /\ ReplyTypes'
        /\ PreviewTypes'
    BY <2>1 DEF Typed, LinkTypes, ClaudeTypes, DeadIsEmpty, EventTypes, ProcTypes, ReplyTypes,
                PreviewTypes, linkVars, eventVars, replyVars, previewVars
  <2>4. RouteTypes'  BY <2>1 DEF Typed, RouteTypes, Owners
  <2>5. HistoryTypes'  BY <2>1, <2>2 DEF Typed, HistoryTypes
  <2> QED BY <2>3, <2>4, <2>5 DEF Typed
<1> QED BY <1>1, <1>2 DEF RouteStep

\* What the end or the replacement of a process leaves of the types, of links that change too.
LEMMA KillIsTyped ==
  ASSUME Typed, Kill, UNCHANGED <<events, queue, proc, routing, handler, timers, shown, replied>>
  PROVE  /\ EventTypes' /\ ProcTypes' /\ ReplyTypes' /\ PreviewTypes' /\ HistoryTypes'
         /\ faults' \in 0..MaxFaults /\ online' = FALSE
<1>1. EventTypes'  BY DEF Typed, Kill, EventTypes
<1>2. ProcTypes'  BY DEF Typed, ProcTypes
<1>3. ReplyTypes'
  <2>1. replies' \in {<<>>, replies} /\ handler' = handler  BY DEF Kill
  <2>2. <<>> \in Seq(Turns)  OBVIOUS
  <2> QED BY <2>1, <2>2 DEF Typed, ReplyTypes
<1>4. PreviewTypes'  BY DEF Typed, Kill, PreviewTypes
<1>5. HistoryTypes'
  <2>1. LiveTurns \subseteq Turns  BY DEF LiveTurns
  <2> QED BY <2>1 DEF Typed, Kill, HistoryTypes
<1>6. faults' \in 0..MaxFaults  BY DeliveryAssumption DEF Typed, LinkTypes, Kill, Fault
<1> QED BY <1>1, <1>2, <1>3, <1>4, <1>5, <1>6 DEF Kill

LEMMA LinkStepTypes == ASSUME Typed, LinkStep PROVE Typed'
<1>1. CASE WsAttach
  <2>1. LinkTypes'  BY <1>1, NoneIsNone DEF WsAttach, Typed, LinkTypes, ClaudeTypes
  <2>2. ClaudeTypes' /\ DeadIsEmpty'  BY <1>1 DEF WsAttach, Typed, ClaudeTypes, DeadIsEmpty
  <2>3. EventTypes' /\ ProcTypes' /\ RouteTypes' /\ ReplyTypes' /\ PreviewTypes' /\ HistoryTypes'
    BY <1>1 DEF WsAttach, Typed, EventTypes, ProcTypes, RouteTypes, ReplyTypes, PreviewTypes,
                HistoryTypes, eventVars, replyVars, previewVars, historyVars
  <2> QED BY <2>1, <2>2, <2>3 DEF Typed
<1>2. CASE WsLost
  <2>1. LinkTypes'
    <3>1. /\ faults < MaxFaults /\ faults' = faults + 1 /\ online' = FALSE
          /\ UNCHANGED <<attached, attaches, session, launches>>
      BY <1>2 DEF WsLost, Fault
    <3>2. faults' \in 0..MaxFaults  BY <3>1, DeliveryAssumption DEF Typed, LinkTypes
    <3> QED BY <3>1, <3>2 DEF Typed, LinkTypes
  <2>2. ClaudeTypes' /\ DeadIsEmpty'  BY <1>2 DEF WsLost, Typed, ClaudeTypes, DeadIsEmpty
  <2>3. EventTypes' /\ ProcTypes' /\ RouteTypes' /\ ReplyTypes' /\ PreviewTypes' /\ HistoryTypes'
    BY <1>2 DEF WsLost, Typed, EventTypes, ProcTypes, RouteTypes, ReplyTypes, PreviewTypes,
                HistoryTypes, eventVars, replyVars, previewVars, historyVars
  <2> QED BY <2>1, <2>2, <2>3 DEF Typed
<1>3. CASE Invalidate
  <2>1. /\ EventTypes' /\ ProcTypes' /\ ReplyTypes' /\ PreviewTypes' /\ HistoryTypes'
        /\ faults' \in 0..MaxFaults /\ online' = FALSE
    BY <1>3, KillIsTyped DEF Invalidate
  <2>2. LinkTypes'  BY <1>3, <2>1 DEF Invalidate, Typed, LinkTypes
  <2>3. ClaudeTypes' /\ DeadIsEmpty'
    BY <1>3 DEF Invalidate, Dead, Process, ClaudeTypes, DeadIsEmpty
  <2>4. RouteTypes'  BY <1>3 DEF Invalidate, Typed, RouteTypes, Owners
  <2> QED BY <2>1, <2>2, <2>3, <2>4 DEF Typed
<1>4. CASE Relaunch
  <2>1. /\ EventTypes' /\ ProcTypes' /\ ReplyTypes' /\ PreviewTypes' /\ HistoryTypes'
        /\ faults' \in 0..MaxFaults /\ online' = FALSE
    BY <1>4, KillIsTyped DEF Relaunch
  <2>2. launches + 1 \in Launches
    BY <1>4, DeliveryAssumption DEF Relaunch, Typed, LinkTypes, Launches
  <2>3. LinkTypes'  BY <1>4, <2>1, <2>2 DEF Relaunch, Typed, LinkTypes
  <2>4. ClaudeTypes' /\ DeadIsEmpty'
    BY <1>4, <2>2, NoneIsNone DEF Relaunch, Process, ClaudeTypes, DeadIsEmpty
  <2>5. RouteTypes'  BY <1>4 DEF Relaunch, Typed, RouteTypes
  <2> QED BY <2>1, <2>3, <2>4, <2>5 DEF Typed
<1>5. CASE Attach
  <2>1. LinkTypes'  BY <1>5, DeliveryAssumption DEF Attach, Typed, LinkTypes
  <2>2. ClaudeTypes' /\ DeadIsEmpty'  BY <1>5 DEF Attach, Typed, ClaudeTypes, DeadIsEmpty
  <2>3. EventTypes' /\ ProcTypes' /\ RouteTypes' /\ ReplyTypes' /\ PreviewTypes' /\ HistoryTypes'
    BY <1>5 DEF Attach, Typed, EventTypes, ProcTypes, RouteTypes, ReplyTypes, PreviewTypes,
                HistoryTypes, eventVars, replyVars, previewVars, historyVars
  <2> QED BY <2>1, <2>2, <2>3 DEF Typed
<1>6. CASE Detach
  <2>1. LinkTypes'
    <3>1. /\ faults < MaxFaults /\ faults' = faults + 1 /\ attached' = FALSE
          /\ UNCHANGED <<attaches, online, session, launches>>
      BY <1>6 DEF Detach, Fault
    <3>2. faults' \in 0..MaxFaults  BY <3>1, DeliveryAssumption DEF Typed, LinkTypes
    <3> QED BY <3>1, <3>2 DEF Typed, LinkTypes
  <2>2. ClaudeTypes' /\ DeadIsEmpty'  BY <1>6 DEF Detach, Typed, ClaudeTypes, DeadIsEmpty
  <2>3. EventTypes' /\ ProcTypes' /\ RouteTypes' /\ ReplyTypes' /\ PreviewTypes'
    BY <1>6 DEF Detach, Typed, EventTypes, ProcTypes, RouteTypes, ReplyTypes, PreviewTypes,
                eventVars, replyVars, previewVars
  <2>4. HistoryTypes'
    <3>1. LiveTurns \subseteq Turns  BY DEF LiveTurns
    <3> QED BY <1>6, <3>1 DEF Detach, Typed, HistoryTypes
  <2> QED BY <2>1, <2>2, <2>3, <2>4 DEF Typed
<1> QED BY <1>1, <1>2, <1>3, <1>4, <1>5, <1>6 DEF LinkStep

\* A POST of the turn in hand is an event.
LEMMA PostIsTyped ==
  ASSUME Typed, NEW kind \in Kinds \cup Results, CanPost, Posts(kind), UNCHANGED queue,
         events' \in 0..MaxEvents
  PROVE  EventTypes'
<1>1. claude.turn \in Turns  BY DEF Typed, ClaudeTypes, CanPost
<1>2. [turn |-> claude.turn, kind |-> kind] \in Events  BY <1>1 DEF Events
<1> QED BY <1>2 DEF Typed, EventTypes, Posts

LEMMA ClaudeStepTypes == ASSUME Typed, ClaudeStep PROVE Typed'
<1>1. CASE StartTurn
  <2>1. Head(claude.inbox) \in Turns /\ Tail(claude.inbox) \in Seq(Turns)
    BY <1>1, FirstIsTyped DEF StartTurn, Typed, ClaudeTypes
  <2>2. session # None  BY <1>1 DEF StartTurn, Typed, DeadIsEmpty
  <2>3. ClaudeTypes' /\ DeadIsEmpty'
    BY <1>1, <2>1, <2>2 DEF StartTurn, Typed, ClaudeTypes, DeadIsEmpty, linkVars
  <2>4. /\ LinkTypes' /\ EventTypes' /\ ProcTypes' /\ RouteTypes' /\ ReplyTypes' /\ PreviewTypes'
        /\ HistoryTypes'
    BY <1>1 DEF StartTurn, Typed, LinkTypes, EventTypes, ProcTypes, RouteTypes, ReplyTypes,
                PreviewTypes, HistoryTypes, linkVars, eventVars, replyVars, previewVars,
                historyVars
  <2> QED BY <2>3, <2>4 DEF Typed
<1>2. CASE Reply
  <2>1. claude.turn \in Turns  BY <1>2 DEF Reply, Typed, ClaudeTypes
  <2>2. Append(replies, claude.turn) \in Seq(Turns)
    BY <2>1, LastIsTyped DEF Typed, ReplyTypes
  <2>3. ReplyTypes' /\ HistoryTypes'
    BY <1>2, <2>1, <2>2 DEF Reply, Typed, ReplyTypes, HistoryTypes
  <2>4. /\ LinkTypes' /\ ClaudeTypes' /\ DeadIsEmpty' /\ EventTypes' /\ ProcTypes' /\ RouteTypes'
        /\ PreviewTypes'
    BY <1>2 DEF Reply, Typed, LinkTypes, ClaudeTypes, DeadIsEmpty, EventTypes, ProcTypes,
                RouteTypes, PreviewTypes, linkVars, eventVars, previewVars
  <2> QED BY <2>3, <2>4 DEF Typed
<1>3. ASSUME NEW kind \in Kinds, Say(kind) PROVE Typed'
  <2>1. events' \in 0..MaxEvents  BY <1>3, DeliveryAssumption DEF Say, Typed, EventTypes
  <2>2. EventTypes'  BY <1>3, <2>1, PostIsTyped DEF Say
  <2>3. /\ LinkTypes' /\ ClaudeTypes' /\ DeadIsEmpty' /\ ProcTypes' /\ RouteTypes' /\ ReplyTypes'
        /\ PreviewTypes' /\ HistoryTypes'
    BY <1>3 DEF Say, Typed, LinkTypes, ClaudeTypes, DeadIsEmpty, ProcTypes, RouteTypes,
                ReplyTypes, PreviewTypes, HistoryTypes, linkVars, replyVars, previewVars,
                historyVars
  <2> QED BY <2>2, <2>3 DEF Typed
<1>4. ASSUME NEW kind \in Results, EndTurn(kind) PROVE Typed'
  <2>1. events' \in 0..MaxEvents  BY <1>4 DEF EndTurn, Typed, EventTypes
  <2>2. EventTypes'  BY <1>4, <2>1, PostIsTyped DEF EndTurn
  <2>3. ClaudeTypes' /\ DeadIsEmpty'
    BY <1>4 DEF EndTurn, Typed, ClaudeTypes, DeadIsEmpty, linkVars
  <2>4. /\ LinkTypes' /\ ProcTypes' /\ RouteTypes' /\ ReplyTypes' /\ PreviewTypes'
        /\ HistoryTypes'
    BY <1>4 DEF EndTurn, Typed, LinkTypes, ProcTypes, RouteTypes, ReplyTypes, PreviewTypes,
                HistoryTypes, linkVars, replyVars, previewVars, historyVars
  <2> QED BY <2>2, <2>3, <2>4 DEF Typed
<1> QED BY <1>1, <1>2, <1>3, <1>4 DEF ClaudeStep

LEMMA EnqueueTypes == ASSUME Typed, NEW l \in Launches, Enqueue(l) PROVE Typed'
<1>1. post[l] \in Events  BY DEF Enqueue, Typed, EventTypes
<1>2. post' \in [Launches -> Events \cup {None}]  BY DEF Enqueue, Typed, EventTypes
<1>3. queue' \in [Launches -> Seq(Events)]
  <2>1. CASE session = None  BY <2>1 DEF Enqueue, Typed, EventTypes
  <2>2. CASE session # None
    <3>1. session \in Launches  BY <2>2 DEF Typed, LinkTypes
    <3>2. Append(queue[session], post[l]) \in Seq(Events)
      BY <1>1, <3>1, LastIsTyped DEF Typed, EventTypes
    <3>3. queue' = [queue EXCEPT ![session] = Append(queue[session], post[l])]
      BY <2>2 DEF Enqueue
    <3> QED BY <3>1, <3>2, <3>3 DEF Typed, EventTypes
  <2> QED BY <2>1, <2>2
<1>4. EventTypes'  BY <1>2, <1>3 DEF Enqueue, Typed, EventTypes
<1>5. /\ LinkTypes' /\ ClaudeTypes' /\ DeadIsEmpty' /\ ProcTypes' /\ RouteTypes' /\ ReplyTypes'
      /\ PreviewTypes' /\ HistoryTypes'
  BY DEF Enqueue, Typed, LinkTypes, ClaudeTypes, DeadIsEmpty, ProcTypes, RouteTypes, ReplyTypes,
         PreviewTypes, HistoryTypes, linkVars, replyVars, previewVars, historyVars
<1> QED BY <1>4, <1>5 DEF Typed

\* An owner that an assistant text leaves behind is one.
LEMMA BegunIsTyped == ASSUME owner \in Owners PROVE Begun \in Owners
BY DEF Begun, Owners

LEMMA ProcessorTypes == ASSUME Typed, NEW l \in Launches, ProcessorStep(l) PROVE Typed'
<1>1. CASE OnAssistant(l)
  <2>1. EventTypes' /\ Head(queue[l]) \in Events
    BY <1>1, DequeueIsTyped DEF OnAssistant, Ready, Typed
  <2>2. Head(queue[l]).turn \in Turns  BY <2>1 DEF Events
  <2>3. locked' \subseteq Turns  BY <1>1, <2>2 DEF OnAssistant, Typed, HistoryTypes
  <2>4. RouteTypes'  BY <1>1, BegunIsTyped DEF OnAssistant, Typed, RouteTypes
  <2>5. HistoryTypes'  BY <1>1, <2>3 DEF OnAssistant, Typed, HistoryTypes
  <2>6. /\ LinkTypes' /\ ClaudeTypes' /\ DeadIsEmpty'
        /\ ProcTypes' /\ ReplyTypes' /\ PreviewTypes'
    BY <1>1 DEF OnAssistant, Typed, LinkTypes, ClaudeTypes, DeadIsEmpty, ProcTypes, ReplyTypes,
                PreviewTypes, eventVars, linkVars, previewVars, replyVars
  <2> QED BY <2>1, <2>4, <2>5, <2>6 DEF Typed
<1>2. CASE OnBlock(l)
  <2>1. EventTypes' /\ Head(queue[l]) \in Events
    BY <1>2, DequeueIsTyped DEF OnBlock, Ready, Typed
  <2>2. PreviewTypes'  BY <1>2 DEF OnBlock, Typed, PreviewTypes
  <2>3. /\ LinkTypes' /\ ClaudeTypes' /\ DeadIsEmpty' /\ ProcTypes'
        /\ RouteTypes' /\ ReplyTypes' /\ HistoryTypes'
    BY <1>2 DEF OnBlock, Typed, LinkTypes, ClaudeTypes, DeadIsEmpty, ProcTypes, RouteTypes,
                ReplyTypes, HistoryTypes, eventVars, historyVars, linkVars, replyVars
  <2> QED BY <2>1, <2>2, <2>3 DEF Typed
<1>3. CASE OnDelta(l)
  <2>1. EventTypes' /\ Head(queue[l]) \in Events
    BY <1>3, DequeueIsTyped DEF OnDelta, Ready, Typed
  <2>2. Head(queue[l]).turn \in Turns  BY <2>1 DEF Events
  <2>3. buffer' \subseteq Turns /\ timers' \in Nat  BY <1>3, <2>2 DEF OnDelta, Typed, PreviewTypes
  <2>4. PreviewTypes'  BY <1>3, <2>3 DEF OnDelta, PreviewTypes
  <2>5. /\ LinkTypes' /\ ClaudeTypes' /\ DeadIsEmpty' /\ ProcTypes'
        /\ RouteTypes' /\ ReplyTypes' /\ HistoryTypes'
    BY <1>3 DEF OnDelta, Typed, LinkTypes, ClaudeTypes, DeadIsEmpty, ProcTypes, RouteTypes,
                ReplyTypes, HistoryTypes, eventVars, historyVars, linkVars, replyVars
  <2> QED BY <2>1, <2>4, <2>5 DEF Typed
<1>4. CASE OnControl(l)
  <2>1. EventTypes' /\ Head(queue[l]) \in Events
    BY <1>4, DequeueIsTyped DEF OnControl, Ready, Typed
  <2>2. ProcTypes'  BY <1>4, <2>1, BeginIsTyped DEF OnControl, Typed
  <2>3. /\ LinkTypes' /\ ClaudeTypes' /\ DeadIsEmpty' /\ RouteTypes'
        /\ ReplyTypes' /\ PreviewTypes' /\ HistoryTypes'
    BY <1>4 DEF OnControl, Typed, LinkTypes, ClaudeTypes, DeadIsEmpty, RouteTypes, ReplyTypes,
                PreviewTypes, HistoryTypes, historyVars, linkVars, previewVars, replyVars
  <2> QED BY <2>1, <2>2, <2>3 DEF Typed
<1>5. CASE Attempt(l)
  <2>1. ProcTypes'
    <3>1. CASE online \/ proc[l].tries + 1 = Tries
      BY <1>5, <3>1, IdleIsTyped DEF Attempt, Typed
    <3>2. CASE ~(online \/ proc[l].tries + 1 = Tries)
      <4>1. proc[l] \in Steps /\ proc[l].pc # "idle" /\ proc[l].event # None
        BY <1>5 DEF Attempt, At, Typed, ProcTypes
      <4>2. proc[l].tries + 1 \in 0..(Tries - 1)  BY <3>2, <4>1, DeliveryAssumption DEF Steps
      <4>3. [proc[l] EXCEPT !.tries = proc[l].tries + 1] \in Steps  BY <4>1, <4>2 DEF Steps
      <4>4. proc' = [proc EXCEPT ![l] = [proc[l] EXCEPT !.tries = proc[l].tries + 1]]
        BY <1>5, <3>2 DEF Attempt
      <4>5. /\ [proc[l] EXCEPT !.tries = proc[l].tries + 1].pc = proc[l].pc
            /\ [proc[l] EXCEPT !.tries = proc[l].tries + 1].event = proc[l].event
        BY <4>1 DEF Steps
      <4> QED BY <4>1, <4>3, <4>4, <4>5 DEF Typed, ProcTypes
    <3> QED BY <3>1, <3>2
  <2>2. /\ LinkTypes' /\ ClaudeTypes' /\ DeadIsEmpty' /\ EventTypes'
        /\ RouteTypes' /\ ReplyTypes' /\ PreviewTypes' /\ HistoryTypes'
    BY <1>5 DEF Attempt, Typed, LinkTypes, ClaudeTypes, DeadIsEmpty, EventTypes, RouteTypes,
                ReplyTypes, PreviewTypes, HistoryTypes, historyVars, linkVars, previewVars,
                replyVars
  <2> QED BY <2>1, <2>2 DEF Typed
<1>6. CASE OnResult(l)
  <2>1. EventTypes' /\ Head(queue[l]) \in Events
    BY <1>6, DequeueIsTyped DEF OnResult, Ready, Typed
  <2>2. ProcTypes'  BY <1>6, <2>1, BeginIsTyped DEF OnResult, Typed
  <2>3. PreviewTypes'  BY <1>6 DEF OnResult, Typed, PreviewTypes
  <2>4. /\ LinkTypes' /\ ClaudeTypes' /\ DeadIsEmpty'
        /\ RouteTypes' /\ ReplyTypes' /\ HistoryTypes'
    BY <1>6 DEF OnResult, Typed, LinkTypes, ClaudeTypes, DeadIsEmpty, RouteTypes, ReplyTypes,
                HistoryTypes, historyVars, linkVars, replyVars
  <2> QED BY <2>1, <2>2, <2>3, <2>4 DEF Typed
<1>7. CASE OnSilentResult(l)
  <2>1. EventTypes' /\ Head(queue[l]) \in Events
    BY <1>7, DequeueIsTyped DEF OnSilentResult, Ready, Typed
  <2>2. locked' \subseteq Turns  BY <1>7 DEF OnSilentResult, Typed, HistoryTypes
  <2>3. PreviewTypes'  BY <1>7 DEF OnSilentResult, Typed, PreviewTypes
  <2>4. HistoryTypes'  BY <1>7, <2>2 DEF OnSilentResult, Typed, HistoryTypes
  <2>5. /\ LinkTypes' /\ ClaudeTypes' /\ DeadIsEmpty'
        /\ ProcTypes' /\ RouteTypes' /\ ReplyTypes'
    BY <1>7 DEF OnSilentResult, Typed, LinkTypes, ClaudeTypes, DeadIsEmpty, ProcTypes, RouteTypes,
                ReplyTypes, eventVars, linkVars, replyVars
  <2> QED BY <2>1, <2>3, <2>4, <2>5 DEF Typed
<1>8. CASE ClaimResult(l)
  <2>1. proc[l].event \in Events  BY <1>8 DEF ClaimResult, At, Typed, ProcTypes, Steps
  <2>2. proc[l].event.turn \in Turns  BY <2>1 DEF Events
  <2>3. ProcTypes'  BY <1>8, IdleIsTyped DEF ClaimResult, Goto, Typed
  <2>4. RouteTypes'  BY <1>8 DEF ClaimResult, Typed, RouteTypes, Owners
  <2>5. HistoryTypes'  BY <1>8, <2>2 DEF ClaimResult, Typed, HistoryTypes
  <2>6. /\ LinkTypes' /\ ClaudeTypes' /\ DeadIsEmpty'
        /\ EventTypes' /\ ReplyTypes' /\ PreviewTypes'
    BY <1>8 DEF ClaimResult, Typed, LinkTypes, ClaudeTypes, DeadIsEmpty, EventTypes, ReplyTypes,
                PreviewTypes, eventVars, linkVars, previewVars, replyVars
  <2> QED BY <2>3, <2>4, <2>5, <2>6 DEF Typed
<1>9. CASE SuppressResult(l)
  <2>1. ProcTypes'
    <3>1. proc[l] \in Steps /\ proc[l].event # None
      BY <1>9 DEF SuppressResult, At, Typed, ProcTypes
    <3>2. proc' = [proc EXCEPT ![l] = [proc[l] EXCEPT !.pc = "finish"]]
      BY <1>9 DEF SuppressResult, Goto
    <3>3. /\ [proc[l] EXCEPT !.pc = "finish"] \in Steps
          /\ [proc[l] EXCEPT !.pc = "finish"].pc = "finish"
          /\ [proc[l] EXCEPT !.pc = "finish"].event = proc[l].event
      BY <3>1 DEF Steps
    <3> QED BY <3>1, <3>2, <3>3 DEF Typed, ProcTypes
  <2>2. /\ LinkTypes' /\ ClaudeTypes' /\ DeadIsEmpty' /\ EventTypes'
        /\ RouteTypes' /\ ReplyTypes' /\ PreviewTypes' /\ HistoryTypes'
    BY <1>9 DEF SuppressResult, Typed, LinkTypes, ClaudeTypes, DeadIsEmpty, EventTypes,
                RouteTypes, ReplyTypes, PreviewTypes, HistoryTypes, historyVars, linkVars,
                previewVars, replyVars
  <2> QED BY <2>1, <2>2 DEF Typed
<1>10. CASE FinishResult(l)
  <2>1. ProcTypes'  BY <1>10, IdleIsTyped DEF FinishResult, Goto, Typed
  <2>2. RouteTypes'  BY <1>10 DEF FinishResult, Typed, RouteTypes, Owners
  <2>3. /\ LinkTypes' /\ ClaudeTypes' /\ DeadIsEmpty' /\ EventTypes'
        /\ ReplyTypes' /\ PreviewTypes' /\ HistoryTypes'
    BY <1>10 DEF FinishResult, Typed, LinkTypes, ClaudeTypes, DeadIsEmpty, EventTypes, ReplyTypes,
                PreviewTypes, HistoryTypes, eventVars, historyVars, linkVars, previewVars,
                replyVars
  <2> QED BY <2>1, <2>2, <2>3 DEF Typed
<1> QED
  BY <1>1, <1>2, <1>3, <1>4, <1>5, <1>6, <1>7, <1>8, <1>9, <1>10 DEF ProcessorStep

LEMMA TimerTypes == ASSUME Typed, TimerFires PROVE Typed'
<1>1. PreviewTypes'
  <2>1. timers - 1 \in Nat  BY DEF TimerFires, Typed, PreviewTypes
  <2> QED BY <2>1 DEF TimerFires, Typed, PreviewTypes
<1>2. /\ LinkTypes' /\ ClaudeTypes' /\ DeadIsEmpty' /\ EventTypes' /\ ProcTypes'
      /\ RouteTypes' /\ ReplyTypes' /\ HistoryTypes'
  BY DEF TimerFires, Typed, LinkTypes, ClaudeTypes, DeadIsEmpty, EventTypes, ProcTypes, RouteTypes,
         ReplyTypes, HistoryTypes, historyVars, linkVars, eventVars, replyVars
<1> QED BY <1>1, <1>2 DEF Typed

LEMMA HandlerTypes == ASSUME Typed, HandlerStep PROVE Typed'
<1>1. CASE ShowReply
  <2>1. Head(replies) \in Turns /\ Tail(replies) \in Seq(Turns)
    BY <1>1, FirstIsTyped DEF ShowReply, Typed, ReplyTypes
  <2>2. RouteTypes'  BY <1>1 DEF ShowReply, ClaimedByBridge, Typed, RouteTypes, Owners
  <2>3. ReplyTypes'  BY <1>1, <2>1 DEF ShowReply, Typed, ReplyTypes
  <2>4. HistoryTypes'  BY <1>1, <2>1 DEF ShowReply, Typed, HistoryTypes
  <2>5. /\ LinkTypes' /\ ClaudeTypes' /\ DeadIsEmpty'
        /\ EventTypes' /\ ProcTypes' /\ PreviewTypes'
    BY <1>1 DEF ShowReply, Typed, LinkTypes, ClaudeTypes, DeadIsEmpty, EventTypes, ProcTypes,
                PreviewTypes, eventVars, linkVars, previewVars
  <2> QED BY <2>2, <2>3, <2>4, <2>5 DEF Typed
<1>2. CASE SuppressReply
  <2>1. Head(replies) \in Turns /\ Tail(replies) \in Seq(Turns)
    BY <1>2, FirstIsTyped DEF SuppressReply, Typed, ReplyTypes
  <2>2. ReplyTypes'  BY <1>2, <2>1 DEF SuppressReply, Typed, ReplyTypes
  <2>3. /\ LinkTypes' /\ ClaudeTypes' /\ DeadIsEmpty' /\ EventTypes'
        /\ ProcTypes' /\ RouteTypes' /\ PreviewTypes' /\ HistoryTypes'
    BY <1>2 DEF SuppressReply, Typed, LinkTypes, ClaudeTypes, DeadIsEmpty, EventTypes, ProcTypes,
                RouteTypes, PreviewTypes, HistoryTypes, eventVars, historyVars, linkVars,
                previewVars
  <2> QED BY <2>2, <2>3 DEF Typed
<1>3. CASE FinishReply
  <2>1. RouteTypes'  BY <1>3 DEF FinishReply, Typed, RouteTypes, Owners
  <2>2. ReplyTypes'  BY <1>3 DEF FinishReply, Free, Typed, ReplyTypes
  <2>3. /\ LinkTypes' /\ ClaudeTypes' /\ DeadIsEmpty' /\ EventTypes'
        /\ ProcTypes' /\ PreviewTypes' /\ HistoryTypes'
    BY <1>3 DEF FinishReply, Typed, LinkTypes, ClaudeTypes, DeadIsEmpty, EventTypes, ProcTypes,
                PreviewTypes, HistoryTypes, eventVars, historyVars, linkVars, previewVars
  <2> QED BY <2>1, <2>2, <2>3 DEF Typed
<1> QED BY <1>1, <1>2, <1>3 DEF HandlerStep

\* A step that is none keeps the types.
LEMMA StutterTypes == ASSUME Typed, UNCHANGED vars PROVE Typed'
<1>1. UNCHANGED <<owner, claude, routing, linkVars, eventVars, replyVars, previewVars, historyVars>>
  BY DEF vars
<1> QED
  BY <1>1 DEF Typed, LinkTypes, ClaudeTypes, DeadIsEmpty, EventTypes, ProcTypes, RouteTypes,
              ReplyTypes, PreviewTypes, HistoryTypes, linkVars, eventVars, replyVars,
              previewVars, historyVars

----------------------------------------------------------------------------
(* The timers.                                                             *)

\* A step of whatever else leaves the batch and its timers alone, and the start of a block,
\* a result, a new launch or a timer empties the batch together with its flag.
LEMMA TimersStep == ASSUME Typed, TimerInv, Next PROVE TimerInv'
<1>1. timers \in Nat /\ scheduled \in BOOLEAN  BY DEF Typed, PreviewTypes
<1>2. ASSUME UNCHANGED previewVars PROVE TimerInv'  BY <1>2 DEF TimerInv, previewVars
<1>3. ASSUME buffer' = {}, scheduled' = FALSE PROVE TimerInv'  BY <1>3 DEF TimerInv
<1>4. ASSUME NEW m \in Turns, RouteStep(m) PROVE TimerInv'
  BY <1>2, <1>4 DEF RouteStep, Send, Prepare
<1>5. CASE LinkStep
  BY <1>2, <1>3, <1>5 DEF LinkStep, WsAttach, WsLost, Invalidate, Relaunch, Kill, Attach, Detach
<1>6. CASE ClaudeStep  BY <1>2, <1>6 DEF ClaudeStep, StartTurn, Reply, Say, EndTurn
<1>7. ASSUME NEW l \in Launches, Enqueue(l) PROVE TimerInv'  BY <1>2, <1>7 DEF Enqueue
<1>8. ASSUME NEW l \in Launches, ProcessorStep(l) PROVE TimerInv'
  <2>1. CASE OnDelta(l)
    <3>1. scheduled' = TRUE /\ timers' = IF scheduled THEN timers ELSE timers + 1
      BY <2>1 DEF OnDelta
    <3>2. timers' > 0  BY <1>1, <3>1 DEF TimerInv
    <3> QED BY <3>1, <3>2 DEF TimerInv
  <2>2. CASE OnBlock(l) \/ OnResult(l) \/ OnSilentResult(l)
    BY <1>3, <2>2 DEF OnBlock, OnResult, OnSilentResult
  <2>3. CASE \/ OnAssistant(l) \/ OnControl(l) \/ Attempt(l) \/ ClaimResult(l)
             \/ SuppressResult(l) \/ FinishResult(l)
    BY <1>2, <2>3 DEF OnAssistant, OnControl, Attempt, ClaimResult, SuppressResult, FinishResult
  <2> QED BY <1>8, <2>1, <2>2, <2>3 DEF ProcessorStep
<1>9. CASE TimerFires  BY <1>3, <1>9 DEF TimerFires
<1>10. CASE HandlerStep  BY <1>2, <1>10 DEF HandlerStep, ShowReply, SuppressReply, FinishReply
<1> QED BY <1>4, <1>5, <1>6, <1>7, <1>8, <1>9, <1>10 DEF Next

----------------------------------------------------------------------------
(* The theorems.                                                           *)

LEMMA Begins == Init => IInv
<1> SUFFICES ASSUME Init PROVE IInv  OBVIOUS
<1>1. 1 \in Launches  BY DeliveryAssumption DEF Launches
<1>2. LinkTypes
  <2>1. session \in Launches /\ launches \in Launches /\ session # None
    BY <1>1, NoneIsNone DEF Init
  <2>2. attaches \in 0..MaxAttach /\ faults \in 0..MaxFaults  BY DeliveryAssumption DEF Init
  <2>3. attached \in BOOLEAN /\ online \in BOOLEAN  BY DEF Init
  <2> QED BY <2>1, <2>2, <2>3 DEF LinkTypes
<1>3. ClaudeTypes /\ DeadIsEmpty
  <2>1. claude = [launch |-> 1, inbox |-> <<>>, turn |-> None] /\ session = 1
    BY DEF Init, Process
  <2> QED BY <1>1, <2>1, NoneIsNone DEF ClaudeTypes, DeadIsEmpty
<1>4. EventTypes  BY DeliveryAssumption DEF Init, EventTypes
<1>5. ProcTypes
  <2>1. 0 \in 0..(Tries - 1)  BY DeliveryAssumption
  <2> QED BY <2>1 DEF Init, Idle, ProcTypes, Steps
<1>6. RouteTypes /\ ReplyTypes  BY DEF Init, Free, RouteTypes, ReplyTypes, Owners
<1>7. PreviewTypes /\ TimerInv  BY DEF Init, PreviewTypes, TimerInv
<1>8. HistoryTypes  BY DEF Init, HistoryTypes
<1> QED BY <1>2, <1>3, <1>4, <1>5, <1>6, <1>7, <1>8 DEF IInv, Typed

LEMMA Goes == IInv /\ [Next]_vars => IInv'
<1> SUFFICES ASSUME IInv, [Next]_vars PROVE IInv'  OBVIOUS
<1>1. CASE Next
  <2>1. Typed'
    BY <1>1, RouteStepTypes, LinkStepTypes, ClaudeStepTypes, EnqueueTypes, ProcessorTypes,
       TimerTypes, HandlerTypes
    DEF IInv, Next
  <2> QED BY <1>1, <2>1, TimersStep DEF IInv
<1>2. CASE UNCHANGED vars
  BY <1>2, StutterTypes DEF IInv, TimerInv, vars, previewVars
<1> QED BY <1>1, <1>2

\* The types hold, and every batch of preview text that is not empty has its timer, whatever
\* the links, the launches and the events of old ones do.
THEOREM Inductive == Spec => []IInv
BY Begins, Goes, PTL DEF Spec

\* The state of a turn's delivery keeps its types: the launch whose process runs is the one
\* the daemon knows, and a WebSocket is only there while it knows one.
THEOREM TypeCorrect == Spec => []TypeOK
<1>1. IInv => TypeOK  BY GroupsAreTypes DEF IInv
<1> QED BY Inductive, <1>1, PTL

\* No preview text waits without a timer that will flush it.
THEOREM TimerIsSet == Spec => []PreviewHasTimer
<1>1. IInv => PreviewHasTimer
  BY DEF IInv, Typed, PreviewTypes, TimerInv, PreviewHasTimer
<1> QED BY Inductive, <1>1, PTL

----------------------------------------------------------------------------
(* A turn that has the daemon to itself.  What is under way is all its     *)
(* own; its events come in one stream, which its result ends.              *)

\* The events on their way to the processor of a launch, and those of the one that runs.
Stream(l) == IF post[l] = None THEN queue[l] ELSE Append(queue[l], post[l])

Coming == Stream(session)
Doing  == proc[session].pc

\* All events are of turn t; none is a result; none but the last is; the last is.
Theirs(s, t)  == \A i \in DOMAIN s : s[i].turn = t
Open(s)       == \A i \in DOMAIN s : s[i].kind \notin Results
ResultLast(s) == \A i \in 1..(Len(s) - 1) : s[i].kind \notin Results
Ended(s)      == s # <<>> => s[Len(s)].kind \in Results

\* The processors of other launches have nothing to do.
OthersIdle ==
  \A l \in Launches : l # session => post[l] = None /\ queue[l] = <<>> /\ proc[l].pc = "idle"

\* Nothing but turn t is under way, and all of it with the launch that runs.
Alone(t) ==
  /\ session # None /\ OthersIdle
  /\ routing[t] # "new" /\ \A u \in Turns : routing[u] = "sent" => u = t
  /\ claude.inbox \in {<<>>, <<t>>} /\ claude.turn \in {None, t}
  /\ replies \in {<<>>, <<t>>} /\ handler \in {None, t}
  /\ Theirs(Coming, t)
  /\ Doing # "idle" => proc[session].event.turn = t

\* It begins with nothing done, and replies once.
Single(t) ==
  /\ claude.inbox = <<t>> =>
       /\ claude.turn = None /\ Coming = <<>> /\ Doing = "idle" /\ t \notin replied
       /\ t \notin locked /\ shown[t] = {} /\ t \notin buffer
  /\ replies = <<t>> => t \in replied /\ handler = None
  /\ handler = t => t \in replied

\* Its result is the last event: none is there while it runs, and when it is over the result
\* is to come or has come.
Flows(t) ==
  /\ ResultLast(Coming)
  /\ claude.turn = t => Open(Coming) /\ Doing \in {"idle", "control"}
  /\ claude.turn # t /\ claude.inbox = <<>> =>
       /\ Ended(Coming)
       /\ Coming = <<>> => Doing # "control"
  /\ Doing \in {"claim", "finish"} => Coming = <<>> /\ claude.turn # t

\* Where one of the two has shown its answer the other cannot, and where the SDK has taken it
\* the result is to come.
Answered(t) ==
  /\ "bridge" \in shown[t] => attached /\ owner # "Active" /\ "sdk" \notin shown[t]
  /\ "sdk" \in shown[t] =>
       /\ claude.turn # t /\ claude.inbox = <<>> /\ Coming = <<>> /\ Doing = "idle"
       /\ owner = "CompletedBySdk" \/ replies = <<>>
  /\ routing[t] = "prepared" /\ shown[t] = {} =>
       /\ owner \in {"Inactive", "Active"} /\ handler = None
       /\ t \in replied => replies = <<t>>
       /\ t \in locked => /\ owner = "Active"
                          /\ claude.turn = t \/ Coming # <<>> \/ Doing = "claim"

\* Text of it in the preview waits for its result.
Previewed(t) == t \in buffer => claude.turn = t \/ Coming # <<>>

Running(t) == Alone(t) /\ Single(t) /\ Flows(t) /\ Answered(t) /\ Previewed(t)

\* What is over, or has not begun.
Resting(t) ==
  /\ ~({"sdk", "bridge"} \subseteq shown[t]) /\ t \notin buffer
  /\ routing[t] = "prepared" /\ t \in locked \cup replied => shown[t] # {}
  /\ routing[t] = "new" => t \notin locked /\ t \notin replied /\ shown[t] = {}

TurnsInv == \A t \in Turns \ disturbed : IF Live(t) THEN Running(t) ELSE Resting(t)

----------------------------------------------------------------------------
(* Streams of events.                                                      *)

\* The elements of a sequence, of what follows its first, and with one more.
LEMMA ElementsOf ==
  ASSUME NEW S, NEW s \in Seq(S), NEW x \in S
  PROVE  /\ s # <<>> => Head(s) \in ToSet(s) /\ ToSet(Tail(s)) \subseteq ToSet(s)
         /\ ToSet(Append(s, x)) = ToSet(s) \cup {x}
         /\ (\A y \in S : y \notin ToSet(s)) => s = <<>>
         /\ ToSet(<<>>) = {}
<1>1. ASSUME s # <<>> PROVE Head(s) \in ToSet(s) /\ ToSet(Tail(s)) \subseteq ToSet(s)
  <2>1. /\ 1 \in DOMAIN s /\ Head(s) = s[1]
        /\ \A i \in DOMAIN Tail(s) : i + 1 \in DOMAIN s /\ Tail(s)[i] = s[i + 1]
    BY <1>1
  <2> QED BY <2>1 DEF ToSet
<1>2. ToSet(Append(s, x)) = ToSet(s) \cup {x}
  <2>1. /\ DOMAIN s = 1..Len(s) /\ DOMAIN Append(s, x) = 1..(Len(s) + 1) /\ Len(s) \in Nat
        /\ \A i \in 1..Len(s) : Append(s, x)[i] = s[i]
        /\ Append(s, x)[Len(s) + 1] = x
    OBVIOUS
  <2> QED BY <2>1 DEF ToSet
<1>3. ASSUME s # <<>> PROVE \E y \in S : y \in ToSet(s)
  <2>1. Head(s) \in S  BY <1>3
  <2> QED BY <1>1, <1>3, <2>1
<1>4. ToSet(<<>>) = {}  BY DEF ToSet
<1> QED BY <1>1, <1>2, <1>3, <1>4

\* What is said of a stream stays so when its first event is taken.
LEMMA StreamTakes ==
  ASSUME NEW s \in Seq(Events), s # <<>>, NEW t, Theirs(s, t), ResultLast(s)
  PROVE  /\ Head(s) \in Events /\ Head(s).turn = t
         /\ Theirs(Tail(s), t) /\ ResultLast(Tail(s))
         /\ Open(s) => Head(s).kind \notin Results /\ Open(Tail(s))
         /\ Ended(s) => Ended(Tail(s))
         /\ Ended(s) /\ Head(s).kind \notin Results => Tail(s) # <<>>
         /\ Head(s).kind \in Results => Tail(s) = <<>>
<1> DEFINE r == Tail(s)
<1>1. /\ Len(s) \in Nat \ {0} /\ DOMAIN s = 1..Len(s) /\ Head(s) = s[1] /\ 1 \in DOMAIN s
      /\ r \in Seq(Events) /\ Len(r) = Len(s) - 1 /\ DOMAIN r = 1..(Len(s) - 1)
      /\ \A i \in 1..(Len(s) - 1) : r[i] = s[i + 1]
      /\ r = <<>> <=> Len(s) = 1
  <2>1. Len(s) \in Nat \ {0} /\ DOMAIN s = 1..Len(s)  OBVIOUS
  <2>2. /\ r \in Seq(Events) /\ Len(r) = Len(s) - 1
        /\ \A i \in 1..(Len(s) - 1) : r[i] = s[i + 1]
    OBVIOUS
  <2>3. DOMAIN r = 1..(Len(s) - 1)  BY <2>2
  <2>4. r = <<>> <=> Len(r) = 0  BY <2>2
  <2>5. Head(s) = s[1] /\ 1 \in DOMAIN s  BY <2>1
  <2> HIDE DEF r
  <2>6. r = <<>> <=> Len(s) = 1  BY <2>1, <2>2, <2>4
  <2> QED BY <2>1, <2>2, <2>3, <2>5, <2>6
<1> HIDE DEF r
<1>2. Head(s) \in Events  OBVIOUS
<1>3. Head(s).turn = t /\ Theirs(r, t)  BY <1>1 DEF Theirs
<1>4. ResultLast(r)  BY <1>1 DEF ResultLast
<1>5. Open(s) => Head(s).kind \notin Results /\ Open(r)
  <2>1. \A i \in DOMAIN r : i + 1 \in DOMAIN s /\ r[i] = s[i + 1]  BY <1>1
  <2> QED BY <1>1, <2>1 DEF Open
<1>6. Ended(s) => Ended(r)  BY <1>1 DEF Ended
<1>7. Ended(s) /\ Head(s).kind \notin Results => r # <<>>  BY <1>1 DEF Ended
<1>8. Head(s).kind \in Results => r = <<>>
  <2>1. 1 \in 1..(Len(s) - 1) => Head(s).kind \notin Results  BY <1>1 DEF ResultLast
  <2> QED BY <1>1, <2>1
<1> QED BY <1>2, <1>3, <1>4, <1>5, <1>6, <1>7, <1>8 DEF r

\* An event of the turn at the end of a stream without a result.
LEMMA StreamGets ==
  ASSUME NEW s \in Seq(Events), NEW e \in Events, Open(s)
  PROVE  /\ Append(s, e) # <<>> /\ ResultLast(Append(s, e))
         /\ Theirs(s, e.turn) => Theirs(Append(s, e), e.turn)
         /\ e.kind \notin Results => Open(Append(s, e))
         /\ e.kind \in Results => Ended(Append(s, e))
<1> DEFINE r == Append(s, e)
<1>1. /\ Len(s) \in Nat /\ DOMAIN s = 1..Len(s) /\ r \in Seq(Events) /\ r # <<>>
      /\ Len(r) = Len(s) + 1 /\ DOMAIN r = 1..(Len(s) + 1)
      /\ \A i \in 1..Len(s) : r[i] = s[i]
      /\ r[Len(s) + 1] = e
  OBVIOUS
<1> HIDE DEF r
<1>2. ResultLast(r)  BY <1>1 DEF ResultLast, Open
<1>3. ASSUME Theirs(s, e.turn) PROVE Theirs(r, e.turn)
  <2> SUFFICES ASSUME NEW i \in DOMAIN r PROVE r[i].turn = e.turn  BY DEF Theirs
  <2>1. CASE i = Len(s) + 1  BY <1>1, <2>1
  <2>2. CASE i # Len(s) + 1  BY <1>1, <1>3, <2>2 DEF Theirs
  <2> QED BY <2>1, <2>2
<1>4. ASSUME e.kind \notin Results PROVE Open(r)
  <2> SUFFICES ASSUME NEW i \in DOMAIN r PROVE r[i].kind \notin Results  BY DEF Open
  <2>1. CASE i = Len(s) + 1  BY <1>1, <1>4, <2>1
  <2>2. CASE i # Len(s) + 1  BY <1>1, <2>2 DEF Open
  <2> QED BY <2>1, <2>2
<1>5. e.kind \in Results => Ended(r)  BY <1>1 DEF Ended
<1> QED BY <1>1, <1>2, <1>3, <1>4, <1>5 DEF r

\* Nothing is wrong with a stream that is empty.
LEMMA StreamIsEmpty ==
  ASSUME NEW t
  PROVE  Theirs(<<>>, t) /\ Open(<<>>) /\ ResultLast(<<>>) /\ Ended(<<>>)
BY DEF Theirs, Open, ResultLast, Ended

\* The first of a sequence, and what follows it with one more.
LEMMA TailOfAppend ==
  ASSUME NEW S, NEW s \in Seq(S), s # <<>>, NEW x \in S
  PROVE  /\ Append(s, x) # <<>> /\ Head(Append(s, x)) = Head(s)
         /\ Tail(Append(s, x)) = Append(Tail(s), x)
<1> DEFINE u == Tail(Append(s, x))
           v == Append(Tail(s), x)
<1>1. /\ Len(s) \in Nat \ {0} /\ Tail(s) \in Seq(S) /\ Len(Tail(s)) = Len(s) - 1
      /\ \A i \in 1..(Len(s) - 1) : Tail(s)[i] = s[i + 1]
  OBVIOUS
<1>2. /\ u \in Seq(S) /\ Len(u) = Len(s) /\ u[Len(s)] = x
      /\ \A i \in 1..(Len(s) - 1) : u[i] = s[i + 1]
  BY <1>1
<1>3. /\ v \in Seq(S) /\ Len(v) = Len(s) /\ v[Len(s)] = x
      /\ \A i \in 1..(Len(s) - 1) : v[i] = s[i + 1]
  BY <1>1
<1> HIDE DEF u, v
<1>4. \A i \in 1..Len(s) : u[i] = v[i]
  <2> SUFFICES ASSUME NEW i \in 1..Len(s) PROVE u[i] = v[i]  OBVIOUS
  <2>1. CASE i = Len(s)  BY <1>2, <1>3, <2>1
  <2>2. CASE i # Len(s)
    <3>1. Len(s) \in Nat  OBVIOUS
    <3>2. i \in 1..(Len(s) - 1)  BY <2>2, <3>1
    <3> QED BY <1>2, <1>3, <3>2
  <2> QED BY <2>1, <2>2
<1>5. u = v  BY <1>2, <1>3, <1>4, SeqEqual
<1>6. Append(s, x) # <<>> /\ Head(Append(s, x)) = Head(s)  BY <1>1
<1> QED BY <1>5, <1>6 DEF u, v

\* The stream of a launch is one of events.
LEMMA StreamIsTyped ==
  ASSUME EventTypes, NEW l \in Launches
  PROVE  /\ Stream(l) \in Seq(Events)
         /\ Stream(l) = <<>> <=> post[l] = None /\ queue[l] = <<>>
<1>1. queue[l] \in Seq(Events) /\ post[l] \in Events \cup {None}  BY DEF EventTypes
<1>2. CASE post[l] = None  BY <1>1, <1>2 DEF Stream
<1>3. CASE post[l] # None
  <2>1. post[l] \in Events  BY <1>1, <1>3
  <2>2. Append(queue[l], post[l]) \in Seq(Events)  BY <1>1, <2>1, LastIsTyped
  <2>3. Append(queue[l], post[l]) # <<>>  BY <1>1, <2>1
  <2> QED BY <1>3, <2>2, <2>3 DEF Stream
<1> QED BY <1>2, <1>3

\* The event a processor takes is the first of its stream.
LEMMA StreamDequeues ==
  ASSUME EventTypes, NEW l \in Launches, queue[l] # <<>>, Dequeue(l), post' = post
  PROVE  /\ Stream(l) # <<>> /\ Head(Stream(l)) = Head(queue[l])
         /\ Stream(l)' = Tail(Stream(l))
         /\ \A k \in Launches \ {l} : queue'[k] = queue[k]
<1>1. /\ queue[l] \in Seq(Events) /\ post[l] \in Events \cup {None}
      /\ queue'[l] = Tail(queue[l])
      /\ \A k \in Launches \ {l} : queue'[k] = queue[k]
  BY DEF EventTypes, Dequeue
<1>2. CASE post[l] = None  BY <1>1, <1>2 DEF Stream
<1>3. CASE post[l] # None
  <2>1. post[l] \in Events  BY <1>1, <1>3
  <2>2. /\ Append(queue[l], post[l]) # <<>>
        /\ Head(Append(queue[l], post[l])) = Head(queue[l])
        /\ Tail(Append(queue[l], post[l])) = Append(Tail(queue[l]), post[l])
    BY <1>1, <2>1, TailOfAppend
  <2> QED BY <1>1, <1>3, <2>2 DEF Stream
<1> QED BY <1>1, <1>2, <1>3

----------------------------------------------------------------------------
(* A turn of which nothing is under way.                                   *)

\* Nothing of turn t is in the channel of a launch or at its ends.
Clear(l, t) ==
  /\ \A e \in ToSet(queue[l]) : e.turn # t
  /\ post[l] # None => post[l].turn # t
  /\ proc[l].event # None => proc[l].event.turn # t

Quiet(t) ==
  /\ routing[t] # "sent" /\ t \notin ToSet(claude.inbox) /\ claude.turn # t
  /\ \A l \in Launches : Clear(l, t)
  /\ t \notin ToSet(replies) /\ handler # t

\* This is what it is for a turn not to be live.
LEMMA QuietOrLive == ASSUME NEW t \in Turns PROVE Quiet(t) <=> ~Live(t)
BY DEF Quiet, Live, Clear

\* What keeps a channel clear of a turn, and its history and its batch as they are.
Unmoved(t) ==
  /\ routing'[t] = routing[t] /\ shown'[t] = shown[t]
  /\ t \in locked' => t \in locked
  /\ t \in replied' => t \in replied
  /\ t \in buffer' => t \in buffer

\* What is over stays so when its history stays as it is.
LEMMA RestStays ==
  ASSUME NEW t \in Turns, Resting(t), Unmoved(t)
  PROVE  Resting(t)'
BY DEF Resting, Unmoved

\* When a processor takes an event its channel stays clear of what it was clear of.
LEMMA DequeueIsClear ==
  ASSUME EventTypes, NEW l \in Launches, queue[l] # <<>>, Dequeue(l), post' = post,
         NEW t \in Turns, \A k \in Launches : Clear(k, t),
         \/ proc' = proc
         \/ \E pc \in {"control", "claim"} : Begin(l, pc)
  PROVE  /\ \A k \in Launches : Clear(k, t)'
         /\ Head(queue[l]) \in Events /\ Head(queue[l]).turn \in Turns /\ Head(queue[l]).turn # t
<1>1. queue[l] \in Seq(Events)  BY DEF EventTypes
<1>2. Head(queue[l]) \in Events /\ Head(queue[l]) \in ToSet(queue[l])
      /\ ToSet(Tail(queue[l])) \subseteq ToSet(queue[l])
  <2>1. Head(queue[l]) \in Events  BY <1>1, FirstIsTyped
  <2> QED BY <1>1, <2>1, ElementsOf
<1>3. Head(queue[l]).turn \in Turns  BY <1>2 DEF Events
<1>4. Head(queue[l]).turn # t  BY <1>2 DEF Clear
<1>5. ASSUME NEW k \in Launches PROVE Clear(k, t)'
  <2>1. Clear(k, t)  OBVIOUS
  <2>2. \A e \in ToSet(queue'[k]) : e.turn # t
    <3>1. queue'[k] = IF k = l THEN Tail(queue[l]) ELSE queue[k]  BY DEF Dequeue, EventTypes
    <3> QED BY <1>2, <2>1, <3>1 DEF Clear
  <2>3. proc'[k].event # None => proc'[k].event.turn # t
    <3>1. CASE proc' = proc  BY <2>1, <3>1 DEF Clear
    <3>2. CASE \E pc \in {"control", "claim"} : Begin(l, pc)
      <4>1. PICK pc : Begin(l, pc)  BY <3>2
      <4>2. proc'[k] = proc[k] \/ proc'[k].event = Head(queue[l])
            \/ k \notin DOMAIN proc
        BY <4>1 DEF Begin
      <4>3. k \notin DOMAIN proc => proc'[k] = proc[k]
        BY <4>1 DEF Begin
      <4> QED BY <1>4, <2>1, <4>2, <4>3 DEF Clear
    <3> QED BY <3>1, <3>2
  <2> QED BY <2>1, <2>2, <2>3 DEF Clear
<1> QED BY <1>2, <1>3, <1>4, <1>5

\* Where nothing changes for the processors nothing comes to their channels.
LEMMA ClearStays ==
  ASSUME NEW t \in Turns, \A l \in Launches : Clear(l, t), UNCHANGED <<post, queue, proc>>
  PROVE  \A l \in Launches : Clear(l, t)'
BY DEF Clear

\* A processor that goes on with its event has no other.
LEMMA GotoIsClear ==
  ASSUME ProcTypes, NEW l \in Launches, NEW t \in Turns, \A k \in Launches : Clear(k, t),
         UNCHANGED <<post, queue>>,
         \/ proc' = [proc EXCEPT ![l] = Idle]
         \/ proc' = [proc EXCEPT ![l].tries = @ + 1]
         \/ proc' = [proc EXCEPT ![l] = [@ EXCEPT !.pc = "finish"]]
  PROVE  \A k \in Launches : Clear(k, t)'
<1> SUFFICES ASSUME NEW k \in Launches PROVE Clear(k, t)'  OBVIOUS
<1>1. Clear(k, t)  OBVIOUS
<1>2. proc'[k].event = proc[k].event \/ proc'[k].event = None
  <2>1. proc \in [Launches -> Steps] /\ proc[k] \in Steps  BY DEF ProcTypes
  <2>2. CASE proc' = [proc EXCEPT ![l] = Idle]  BY <2>1, <2>2 DEF Idle
  <2>3. CASE proc' = [proc EXCEPT ![l].tries = @ + 1]  BY <2>1, <2>3 DEF Steps
  <2>4. CASE proc' = [proc EXCEPT ![l] = [@ EXCEPT !.pc = "finish"]]  BY <2>1, <2>4 DEF Steps
  <2> QED BY <2>2, <2>3, <2>4
<1> QED BY <1>1, <1>2 DEF Clear

\* What is over stays over, whatever the turns that are not do.
LEMMA QuietStays ==
  ASSUME Typed, Next, NEW t \in Turns, Quiet(t), ~Send(t)
  PROVE  Quiet(t)' /\ Unmoved(t)
<1>1. /\ EventTypes /\ ProcTypes /\ claude.inbox \in Seq(Turns) /\ replies \in Seq(Turns)
      /\ routing \in [Turns -> {"new", "sent", "prepared"}]
      /\ shown \in [Turns -> SUBSET {"sdk", "bridge"}]
      /\ claude.turn \in Turns \cup {None} /\ t # None
      /\ claude \in [launch: Launches \cup {None}, inbox: Seq(Turns), turn: Turns \cup {None}]
  BY NoneIsNone DEF Typed, ClaudeTypes, ReplyTypes, RouteTypes, HistoryTypes
<1>2. /\ routing[t] # "sent" /\ t \notin ToSet(claude.inbox) /\ claude.turn # t
      /\ \A l \in Launches : Clear(l, t)
      /\ t \notin ToSet(replies) /\ handler # t
  BY DEF Quiet
<1>3. ASSUME UNCHANGED <<routing, claude, replies, handler>>, \A l \in Launches : Clear(l, t)'
      PROVE  Quiet(t)'
  BY <1>2, <1>3 DEF Quiet
<1>4. ASSUME UNCHANGED eventVars PROVE \A l \in Launches : Clear(l, t)'
  BY <1>2, <1>4, ClearStays DEF eventVars
<1>5. ASSUME UNCHANGED <<routing, historyVars, buffer>> PROVE Unmoved(t)
  BY <1>5 DEF Unmoved, historyVars
<1>6. ASSUME NEW m \in Turns, RouteStep(m) PROVE Quiet(t)' /\ Unmoved(t)
  <2>1. CASE Send(m)
    <3>1. m # t /\ routing' = [routing EXCEPT ![m] = "sent"]
          /\ claude' = [claude EXCEPT !.inbox = Append(claude.inbox, m)]
          /\ UNCHANGED <<eventVars, replies, handler, buffer, shown, locked, replied>>
      BY <2>1 DEF Send, replyVars, previewVars
    <3>2. claude'.inbox = Append(claude.inbox, m) /\ claude'.turn = claude.turn
      BY <1>1, <3>1
    <3>3. t \notin ToSet(claude'.inbox)  BY <1>1, <1>2, <3>1, <3>2, ElementsOf
    <3>4. routing'[t] = routing[t]  BY <1>1, <3>1
    <3>5. Quiet(t)'  BY <1>2, <1>4, <3>1, <3>2, <3>3, <3>4 DEF Quiet
    <3> QED BY <3>1, <3>4, <3>5 DEF Unmoved
  <2>2. CASE Prepare(m)
    <3>1. m # t /\ routing' = [routing EXCEPT ![m] = "prepared"]
          /\ UNCHANGED <<claude, eventVars, replies, handler, buffer, shown, locked, replied>>
      BY <1>2, <2>2 DEF Prepare, replyVars, previewVars
    <3>2. routing'[t] = routing[t]  BY <1>1, <3>1
    <3>3. Quiet(t)'  BY <1>2, <1>4, <3>1, <3>2 DEF Quiet
    <3> QED BY <3>1, <3>2, <3>3 DEF Unmoved
  <2> QED BY <1>6, <2>1, <2>2 DEF RouteStep
<1>7. ASSUME LinkStep PROVE Quiet(t)' /\ Unmoved(t)
  <2>1. CASE WsAttach \/ WsLost \/ Attach
    BY <1>3, <1>4, <1>5, <2>1 DEF WsAttach, WsLost, Attach, replyVars, previewVars
  <2>2. CASE Detach
    <3>1. UNCHANGED <<routing, claude, eventVars, replies, handler, buffer, shown, locked,
                      replied>>
      BY <2>2 DEF Detach, replyVars, previewVars
    <3> QED BY <1>3, <1>4, <3>1 DEF Unmoved
  <2>3. ASSUME Kill, UNCHANGED <<queue, proc, routing, handler, shown, replied>>,
               claude'.inbox = <<>>, claude'.turn = None
        PROVE  Quiet(t)' /\ Unmoved(t)
    <3>1. /\ replies' \in {<<>>, replies} /\ locked' = locked \ LiveTurns /\ buffer' = {}
          /\ \A l \in Launches : post'[l] \in {None, post[l]}
      BY <2>3 DEF Kill
    <3>2. t \notin ToSet(replies') /\ t \notin ToSet(claude'.inbox)
      <4>1. ToSet(<<>>) = {}  BY DEF ToSet
      <4> QED BY <1>2, <2>3, <3>1, <4>1
    <3>3. \A l \in Launches : Clear(l, t)'  BY <1>2, <2>3, <3>1 DEF Clear
    <3>4. Quiet(t)'  BY <1>1, <1>2, <2>3, <3>2, <3>3 DEF Quiet
    <3> QED BY <2>3, <3>1, <3>4 DEF Unmoved
  <2>4. CASE Invalidate  BY <2>3, <2>4 DEF Invalidate, Dead, Process
  <2>5. CASE Relaunch  BY <2>3, <2>5 DEF Relaunch, Process
  <2> QED BY <1>7, <2>1, <2>2, <2>4, <2>5 DEF LinkStep
<1>8. ASSUME ClaudeStep PROVE Quiet(t)' /\ Unmoved(t)
  <2>1. CASE StartTurn
    <3>1. /\ claude.inbox # <<>>
          /\ claude' = [claude EXCEPT !.inbox = Tail(claude.inbox), !.turn = Head(claude.inbox)]
          /\ UNCHANGED <<routing, eventVars, replies, handler, buffer, historyVars>>
      BY <2>1 DEF StartTurn, replyVars, previewVars
    <3>2. claude'.inbox = Tail(claude.inbox) /\ claude'.turn = Head(claude.inbox)  BY <1>1, <3>1
    <3>3. t \notin ToSet(claude'.inbox) /\ claude'.turn # t
      BY <1>1, <1>2, <3>1, <3>2, ElementsOf
    <3>4. Quiet(t)'  BY <1>2, <1>4, <3>1, <3>3 DEF Quiet
    <3> QED BY <1>5, <3>1, <3>4
  <2>2. CASE Reply
    <3>1. /\ claude.turn \in Turns /\ replies' = Append(replies, claude.turn)
          /\ replied' = replied \cup {claude.turn}
          /\ UNCHANGED <<routing, claude, eventVars, handler, buffer, shown, locked>>
      BY <1>1, <2>2 DEF Reply, previewVars
    <3>2. t \notin ToSet(replies')  BY <1>1, <1>2, <3>1, ElementsOf
    <3>3. Quiet(t)'  BY <1>2, <1>4, <3>1, <3>2 DEF Quiet
    <3> QED BY <1>2, <3>1, <3>3 DEF Unmoved
  <2>3. ASSUME NEW kind, CanPost, Posts(kind), UNCHANGED <<queue, proc>>
        PROVE  \A l \in Launches : Clear(l, t)'
    <3> SUFFICES ASSUME NEW l \in Launches PROVE Clear(l, t)'  OBVIOUS
    <3>1. post'[l] = post[l] \/ post'[l].turn = claude.turn
      BY <2>3 DEF Posts, EventTypes, Typed
    <3>2. Clear(l, t)  BY <1>2
    <3> QED BY <1>2, <2>3, <3>1, <3>2 DEF Clear
  <2>4. ASSUME NEW kind \in Kinds, Say(kind) PROVE Quiet(t)' /\ Unmoved(t)
    <3>1. /\ \A l \in Launches : Clear(l, t)'
          /\ UNCHANGED <<routing, claude, replies, handler, buffer, historyVars>>
      BY <2>3, <2>4 DEF Say, replyVars, previewVars
    <3> QED BY <1>3, <1>5, <3>1
  <2>5. ASSUME NEW kind \in Results, EndTurn(kind) PROVE Quiet(t)' /\ Unmoved(t)
    <3>1. /\ \A l \in Launches : Clear(l, t)'
          /\ claude' = [claude EXCEPT !.turn = None]
          /\ UNCHANGED <<routing, replies, handler, buffer, historyVars>>
      BY <2>3, <2>5 DEF EndTurn, replyVars, previewVars
    <3>2. claude'.inbox = claude.inbox /\ claude'.turn = None  BY <1>1, <3>1
    <3>3. Quiet(t)'  BY <1>1, <1>2, <3>1, <3>2 DEF Quiet
    <3> QED BY <1>5, <3>1, <3>3
  <2> QED BY <1>8, <2>1, <2>2, <2>4, <2>5 DEF ClaudeStep
<1>9. ASSUME NEW l \in Launches, Enqueue(l) PROVE Quiet(t)' /\ Unmoved(t)
  <2>1. post[l] \in Events /\ post[l].turn # t
    BY <1>1, <1>2, <1>9 DEF Enqueue, EventTypes, Clear
  <2>2. ASSUME NEW k \in Launches PROVE Clear(k, t)'
    <3>1. Clear(k, t) /\ queue[k] \in Seq(Events)  BY <1>1, <1>2 DEF EventTypes
    <3>2. queue'[k] \in {queue[k], Append(queue[k], post[l])}
      BY <1>1, <1>9 DEF Enqueue, EventTypes
    <3>3. \A e \in ToSet(queue'[k]) : e.turn # t
      <4>1. \A e \in ToSet(queue[k]) : e.turn # t  BY <3>1 DEF Clear
      <4>2. ToSet(Append(queue[k], post[l])) = ToSet(queue[k]) \cup {post[l]}
        BY <2>1, <3>1, ElementsOf
      <4> QED BY <2>1, <3>2, <4>1, <4>2
    <3>4. post'[k] \in {None, post[k]} /\ proc' = proc  BY <1>1, <1>9 DEF Enqueue, EventTypes
    <3> QED BY <3>1, <3>3, <3>4 DEF Clear
  <2>3. UNCHANGED <<routing, claude, replies, handler, buffer, historyVars>>
    BY <1>9 DEF Enqueue, replyVars, previewVars
  <2> QED BY <1>3, <1>5, <2>2, <2>3
<1>10. ASSUME NEW l \in Launches, ProcessorStep(l) PROVE Quiet(t)' /\ Unmoved(t)
  <2>1. UNCHANGED <<routing, claude, replies, handler>>
    BY <1>10 DEF ProcessorStep, OnAssistant, OnBlock, OnDelta, OnControl, Attempt, OnResult,
                 OnSilentResult, ClaimResult, SuppressResult, FinishResult, replyVars
  <2>2. CASE \/ OnAssistant(l) \/ OnBlock(l) \/ OnDelta(l) \/ OnControl(l) \/ OnResult(l)
             \/ OnSilentResult(l)
    <3>1. /\ queue[l] # <<>> /\ Dequeue(l) /\ post' = post
          /\ proc' = proc \/ \E pc \in {"control", "claim"} : Begin(l, pc)
      BY <2>2 DEF Ready, OnAssistant, OnBlock, OnDelta, OnControl, OnResult, OnSilentResult
    <3>2. (\A k \in Launches : Clear(k, t)') /\ Head(queue[l]).turn # t
      BY <1>1, <1>2, <3>1, DequeueIsClear
    <3>3. Quiet(t)'  BY <1>3, <2>1, <3>2
    <3>4. Unmoved(t)
      BY <2>1, <2>2, <3>2
      DEF Unmoved, OnAssistant, OnBlock, OnDelta, OnControl, OnResult, OnSilentResult,
          historyVars, previewVars
    <3> QED BY <3>3, <3>4
  <2>3. CASE Attempt(l) \/ ClaimResult(l) \/ SuppressResult(l) \/ FinishResult(l)
    <3>1. UNCHANGED <<post, queue>>
      BY <2>3 DEF Attempt, ClaimResult, SuppressResult, FinishResult
    <3>2. \/ proc' = [proc EXCEPT ![l] = Idle]
          \/ proc' = [proc EXCEPT ![l].tries = @ + 1]
          \/ proc' = [proc EXCEPT ![l] = [@ EXCEPT !.pc = "finish"]]
      BY <2>3 DEF Attempt, ClaimResult, SuppressResult, FinishResult, Goto
    <3>3. \A k \in Launches : Clear(k, t)'  BY <1>1, <1>2, <3>1, <3>2, GotoIsClear
    <3>4. Quiet(t)'  BY <1>3, <2>1, <3>3
    <3>5. Unmoved(t)
      <4>1. CASE ClaimResult(l)
        <5>1. proc[l].pc # "idle" /\ proc[l].event # None
          BY <1>1, <4>1 DEF ClaimResult, At, ProcTypes
        <5>2. proc[l].event.turn # t  BY <1>2, <5>1 DEF Clear
        <5>3. /\ shown' = [shown EXCEPT ![proc[l].event.turn] = @ \cup {"sdk"}]
              /\ UNCHANGED <<buffer, locked, replied>>
          BY <4>1 DEF ClaimResult, previewVars
        <5>4. shown'[t] = shown[t]  BY <1>1, <5>2, <5>3
        <5> QED BY <2>1, <5>3, <5>4 DEF Unmoved
      <4>2. CASE Attempt(l) \/ SuppressResult(l) \/ FinishResult(l)
        BY <1>5, <2>1, <4>2 DEF Attempt, SuppressResult, FinishResult, previewVars
      <4> QED BY <2>3, <4>1, <4>2
    <3> QED BY <3>4, <3>5
  <2> QED BY <1>10, <2>2, <2>3 DEF ProcessorStep
<1>11. ASSUME TimerFires PROVE Quiet(t)' /\ Unmoved(t)
  <2>1. UNCHANGED <<routing, claude, replies, handler, historyVars, eventVars>> /\ buffer' = {}
    BY <1>11 DEF TimerFires, replyVars
  <2> QED BY <1>3, <1>4, <2>1 DEF Unmoved, historyVars
<1>12. ASSUME HandlerStep PROVE Quiet(t)' /\ Unmoved(t)
  <2>1. UNCHANGED <<routing, claude, eventVars, buffer, locked, replied>>
    BY <1>12 DEF HandlerStep, ShowReply, SuppressReply, FinishReply, previewVars, historyVars
  <2>2. CASE ShowReply \/ SuppressReply
    <3>1. replies # <<>> /\ replies' = Tail(replies)  BY <2>2 DEF ShowReply, SuppressReply
    <3>2. /\ Head(replies) \in Turns /\ Head(replies) # t
          /\ t \notin ToSet(replies')
      <4>1. Head(replies) \in Turns  BY <1>1, <3>1, FirstIsTyped
      <4> QED BY <1>1, <1>2, <3>1, <4>1, ElementsOf
    <3>3. handler' = handler \/ handler' = Head(replies)
      BY <2>2 DEF ShowReply, SuppressReply
    <3>4. shown'[t] = shown[t]
      BY <1>1, <2>2, <3>2 DEF ShowReply, SuppressReply, historyVars
    <3>5. Quiet(t)'  BY <1>2, <1>4, <2>1, <3>2, <3>3 DEF Quiet
    <3> QED BY <2>1, <3>4, <3>5 DEF Unmoved
  <2>3. CASE FinishReply
    <3>1. handler' = None /\ replies' = replies /\ shown' = shown
      BY <2>3 DEF FinishReply, Free, historyVars
    <3>2. Quiet(t)'  BY <1>1, <1>2, <1>4, <2>1, <3>1 DEF Quiet
    <3> QED BY <2>1, <3>1, <3>2 DEF Unmoved
  <2> QED BY <1>12, <2>2, <2>3 DEF HandlerStep
<1> QED BY <1>6, <1>7, <1>8, <1>9, <1>10, <1>11, <1>12 DEF Next

\* A turn that ran alone and of which nothing is left is over.
LEMMA RunningEnds ==
  ASSUME Typed, NEW t \in Turns, Running(t), Quiet(t)
  PROVE  Resting(t)
<1>1. session \in Launches /\ EventTypes /\ ProcTypes /\ shown[t] \in SUBSET {"sdk", "bridge"}
  BY DEF Typed, LinkTypes, HistoryTypes, Running, Alone
<1>2. claude.inbox = <<>> /\ claude.turn # t /\ replies = <<>> /\ handler # t
  <2>1. ToSet(<<t>>) = {t}  BY DEF ToSet
  <2> QED BY <2>1 DEF Quiet, Running, Alone
<1>3. Doing = "idle"
  <2>1. Doing # "idle" => proc[session].event # None /\ proc[session].event.turn = t
    BY <1>1 DEF Running, Alone, Doing, ProcTypes
  <2> QED BY <1>1, <2>1 DEF Quiet, Clear
<1>4. Coming = <<>>
  <2> SUFFICES ASSUME Coming # <<>> PROVE FALSE  OBVIOUS
  <2>1. Coming \in Seq(Events) /\ Theirs(Coming, t)
    BY <1>1, StreamIsTyped DEF Running, Alone, Coming
  <2>2. queue[session] \in Seq(Events) /\ Clear(session, t)  BY <1>1 DEF EventTypes, Quiet
  <2>3. CASE post[session] = None
    <3>1. Coming = queue[session]  BY <2>3 DEF Coming, Stream
    <3>2. 1 \in DOMAIN Coming /\ Coming[1] \in ToSet(queue[session])
      BY <2>1, <3>1 DEF ToSet
    <3> QED BY <2>1, <2>2, <3>2 DEF Theirs, Clear
  <2>4. CASE post[session] # None
    <3>1. Coming = Append(queue[session], post[session]) /\ post[session] \in Events
      BY <1>1, <2>4 DEF Coming, Stream, EventTypes
    <3>2. Len(queue[session]) + 1 \in DOMAIN Coming
          /\ Coming[Len(queue[session]) + 1] = post[session]
      BY <2>2, <3>1
    <3> QED BY <2>1, <2>2, <2>4, <3>2 DEF Theirs, Clear
  <2> QED BY <2>3, <2>4
<1>5. routing[t] # "new" /\ ~({"sdk", "bridge"} \subseteq shown[t])
  BY DEF Running, Alone, Answered
<1>6. t \notin buffer  BY <1>2, <1>4 DEF Running, Previewed
<1>7. routing[t] = "prepared" /\ t \in locked \cup replied => shown[t] # {}
  <2>1. <<t>> # <<>>  OBVIOUS
  <2> QED BY <1>2, <1>3, <1>4, <2>1 DEF Running, Answered
<1> QED BY <1>5, <1>6, <1>7 DEF Resting

\* A message that finds the daemon at rest has it to itself.
LEMMA RunningBegins ==
  ASSUME Typed, NEW t \in Turns, Resting(t), Send(t), \A u \in Turns : Quiet(u)
  PROVE  Running(t)'
<1>1. /\ EventTypes /\ ProcTypes /\ claude.inbox \in Seq(Turns) /\ replies \in Seq(Turns)
      /\ routing \in [Turns -> {"new", "sent", "prepared"}]
      /\ claude.turn \in Turns \cup {None} /\ handler \in Turns \cup {None} /\ t # None
      /\ claude \in [launch: Launches \cup {None}, inbox: Seq(Turns), turn: Turns \cup {None}]
      /\ session = claude.launch /\ session \in Launches \cup {None}
  BY NoneIsNone DEF Typed, LinkTypes, ClaudeTypes, ReplyTypes, RouteTypes
<1>2. /\ routing[t] = "new" /\ claude.launch # None
      /\ routing' = [routing EXCEPT ![t] = "sent"]
      /\ claude' = [claude EXCEPT !.inbox = Append(claude.inbox, t)]
      /\ UNCHANGED <<session, post, queue, proc, replies, handler, shown, locked, replied, buffer>>
  BY DEF Send, linkVars, eventVars, replyVars, previewVars
<1>3. claude.inbox = <<>> /\ claude.turn = None /\ replies = <<>> /\ handler = None
  <2>1. \A u \in Turns : u \notin ToSet(claude.inbox) /\ claude.turn # u
                         /\ u \notin ToSet(replies) /\ handler # u
    BY DEF Quiet
  <2> QED BY <1>1, <2>1, ElementsOf
<1>4. ASSUME NEW l \in Launches
      PROVE  post[l] = None /\ queue[l] = <<>> /\ proc[l].pc = "idle"
  <2>1. \A u \in Turns : Clear(l, u)  BY DEF Quiet
  <2>2. /\ queue[l] \in Seq(Events) /\ post[l] \in Events \cup {None}
        /\ proc[l].event \in Events \cup {None}
        /\ proc[l].pc = "idle" <=> proc[l].event = None
    BY <1>1 DEF EventTypes, ProcTypes, Steps
  <2>3. \A e \in Events : e.turn \in Turns  BY DEF Events
  <2>4. queue[l] = <<>>
    <3>1. \A e \in Events : e \notin ToSet(queue[l])  BY <2>1, <2>3 DEF Clear
    <3>2. queue[l] # <<>> => Head(queue[l]) \in Events /\ Head(queue[l]) \in ToSet(queue[l])
      <4>1. queue[l] # <<>> => Head(queue[l]) \in Events  BY <2>2
      <4> QED BY <2>2, <4>1, ElementsOf
    <3> QED BY <3>1, <3>2
  <2> QED BY <2>1, <2>2, <2>3, <2>4 DEF Clear
<1>5. /\ session' \in Launches /\ session' # None /\ OthersIdle'
      /\ Coming' = <<>> /\ Doing' = "idle"
  BY <1>1, <1>2, <1>4 DEF OthersIdle, Coming, Doing, Stream
<1>6. claude'.inbox = <<t>> /\ claude'.turn = None  BY <1>1, <1>2, <1>3
<1>7. Alone(t)'
  <2>1. routing'[t] # "new" /\ \A u \in Turns : routing'[u] = "sent" => u = t
    BY <1>1, <1>2 DEF Quiet
  <2>2. Theirs(Coming', t)  BY <1>5, StreamIsEmpty
  <2> QED BY <1>2, <1>3, <1>5, <1>6, <2>1, <2>2 DEF Alone
<1>8. t \notin locked /\ t \notin replied /\ shown[t] = {} /\ t \notin buffer
  BY <1>2 DEF Resting
<1>9. Single(t)'  BY <1>1, <1>2, <1>3, <1>5, <1>6, <1>8 DEF Single
<1>10. Flows(t)'
  <2>1. <<t>> # <<>> /\ t # None  BY <1>1
  <2> QED BY <1>5, <1>6, <2>1, StreamIsEmpty DEF Flows
<1>11. Answered(t)'
  <2>1. routing'[t] = "sent"  BY <1>1, <1>2
  <2> QED BY <1>2, <1>8, <2>1 DEF Answered
<1>12. Previewed(t)'  BY <1>2, <1>8 DEF Previewed
<1> QED BY <1>7, <1>9, <1>10, <1>11, <1>12 DEF Running

----------------------------------------------------------------------------
(* A turn that has the daemon to itself keeps it until it is over.         *)

\* Where the processors do nothing, the stream stays as it is.
LEMMA StreamStays ==
  ASSUME UNCHANGED <<session, post, queue, proc>>
  PROVE  /\ Coming' = Coming /\ Doing' = Doing /\ (OthersIdle => OthersIdle')
         /\ proc'[session'].event = proc[session].event
BY DEF Coming, Doing, Stream, OthersIdle

\* The types a step on a running turn needs.
LEMMA RunningTypes ==
  ASSUME Typed, NEW t \in Turns, Running(t)
  PROVE  /\ session \in Launches /\ EventTypes /\ ProcTypes /\ Coming \in Seq(Events) /\ t # None
         /\ Doing \in {"idle", "control", "claim", "finish"}
         /\ routing \in [Turns -> {"new", "sent", "prepared"}] /\ owner \in Owners
         /\ shown \in [Turns -> SUBSET {"sdk", "bridge"}]
         /\ claude \in [launch: Launches \cup {None}, inbox: Seq(Turns), turn: Turns \cup {None}]
         /\ claude.launch = session /\ attached \in BOOLEAN
<1>1. session \in Launches /\ EventTypes /\ ProcTypes  BY DEF Typed, LinkTypes, Running, Alone
<1>2. Coming \in Seq(Events)  BY <1>1, StreamIsTyped DEF Coming
<1>3. Doing \in {"idle", "control", "claim", "finish"}  BY <1>1 DEF ProcTypes, Steps, Doing
<1>4. /\ routing \in [Turns -> {"new", "sent", "prepared"}] /\ owner \in Owners
      /\ shown \in [Turns -> SUBSET {"sdk", "bridge"}] /\ claude.launch = session
      /\ attached \in BOOLEAN
  BY DEF Typed, RouteTypes, HistoryTypes, ClaudeTypes, LinkTypes
<1>5. claude \in [launch: Launches \cup {None}, inbox: Seq(Turns), turn: Turns \cup {None}]
  BY DEF Typed, ClaudeTypes
<1> QED BY <1>1, <1>2, <1>3, <1>4, <1>5, NoneIsNone

\* The launch whose processor is at work is the one that runs.
LEMMA Mine ==
  ASSUME NEW t, Running(t), NEW l \in Launches,
         post[l] # None \/ queue[l] # <<>> \/ proc[l].pc # "idle"
  PROVE  l = session
BY DEF Running, Alone, OthersIdle

\* No other message is sent to it, and its owner is reset before it begins.
LEMMA RouteRuns ==
  ASSUME Typed, NEW t \in Turns, Live(t), Running(t), NEW m \in Turns, RouteStep(m),
         t \notin disturbed'
  PROVE  Running(t)'
<1>1. ~Send(m)
  <2>1. t \in LiveTurns  BY DEF LiveTurns
  <2> QED BY <2>1 DEF Send
<1>2. Prepare(m)  BY <1>1 DEF RouteStep
<1>3. m = t  BY <1>2 DEF Prepare, Running, Alone
<1>4. /\ routing' = [routing EXCEPT ![t] = "prepared"] /\ owner' = "Inactive"
      /\ UNCHANGED <<session, attached, claude, post, queue, proc, replies, handler, buffer,
                     shown, locked, replied>>
  BY <1>2, <1>3 DEF Prepare, linkVars, eventVars, replyVars, previewVars
<1>5. claude.inbox = <<t>>
  <2>1. t \in ToSet(claude.inbox) /\ claude.inbox \in {<<>>, <<t>>}
    BY <1>2, <1>3 DEF Prepare, Running, Alone
  <2>2. ToSet(<<>>) = {}  BY DEF ToSet
  <2> QED BY <2>1, <2>2
<1>6. Coming' = Coming /\ Doing' = Doing /\ (OthersIdle => OthersIdle')
      /\ proc'[session'].event = proc[session].event
  BY <1>4, StreamStays
<1>7. Alone(t)'
  <2>1. routing'[t] # "new" /\ \A u \in Turns : routing'[u] = "sent" => u = t
    BY <1>4, RunningTypes DEF Running, Alone
  <2> QED BY <1>4, <1>6, <2>1 DEF Running, Alone
<1>8. Single(t)'  BY <1>4, <1>6 DEF Running, Single
<1>9. Flows(t)' /\ Previewed(t)'  BY <1>4, <1>6 DEF Running, Flows, Previewed
<1>10. Answered(t)'
  <2>1. t \notin replied /\ t \notin locked /\ shown[t] = {}  BY <1>5 DEF Running, Single
  <2>2. handler = None  BY <2>1 DEF Running, Single, Alone
  <2> QED BY <1>4, <2>1, <2>2 DEF Answered
<1> QED BY <1>7, <1>8, <1>9, <1>10 DEF Running

\* It loses neither its process nor its bridge; the bridge may attach while it runs.
LEMMA LinkRuns ==
  ASSUME Typed, NEW t \in Turns, Live(t), Running(t), LinkStep, t \notin disturbed'
  PROVE  Running(t)'
<1>1. t \in LiveTurns  BY DEF LiveTurns
<1>2. ~(Invalidate \/ Relaunch \/ Detach)  BY <1>1 DEF Invalidate, Relaunch, Kill, Detach
<1>3. WsAttach \/ WsLost \/ Attach  BY <1>2 DEF LinkStep
<1>4. /\ UNCHANGED <<owner, session, claude, post, queue, proc, routing, replies, handler, buffer,
                     shown, locked, replied>>
      /\ attached' = attached \/ attached' = TRUE
  BY <1>3 DEF WsAttach, WsLost, Attach, eventVars, replyVars, previewVars, historyVars
<1>5. Coming' = Coming /\ Doing' = Doing /\ (OthersIdle => OthersIdle')
      /\ proc'[session'].event = proc[session].event
  BY <1>4, StreamStays
<1>6. Alone(t)'  BY <1>4, <1>5 DEF Running, Alone
<1>7. Single(t)' /\ Flows(t)' /\ Previewed(t)'
  BY <1>4, <1>5 DEF Running, Single, Flows, Previewed
<1>8. Answered(t)'  BY <1>4, <1>5 DEF Running, Answered
<1> QED BY <1>6, <1>7, <1>8 DEF Running

\* A POST of the turn comes to the end of its stream.
LEMMA PostsToStream ==
  ASSUME Typed, NEW t \in Turns, Running(t), NEW kind \in Kinds \cup Results, CanPost,
         Posts(kind), UNCHANGED <<session, queue, proc>>
  PROVE  /\ claude.turn = t /\ claude.inbox = <<>>
         /\ OthersIdle' /\ Theirs(Coming', t) /\ ResultLast(Coming') /\ Coming' # <<>>
         /\ kind \notin Results => Open(Coming')
         /\ kind \in Results => Ended(Coming')
         /\ Doing' = Doing /\ Doing \in {"idle", "control"}
         /\ proc'[session'].event = proc[session].event
<1> DEFINE e == [turn |-> t, kind |-> kind]
<1>1. claude.turn = t  BY DEF CanPost, Running, Alone
<1>2. claude.inbox = <<>>  BY <1>1, RunningTypes DEF Running, Alone, Single
<1>3. /\ claude.launch = session /\ session \in Launches /\ post[session] = None
      /\ post \in [Launches -> Events \cup {None}] /\ e \in Events
  BY RunningTypes DEF CanPost, Events, EventTypes
<1>4. post' = [post EXCEPT ![session] = e]  BY <1>1, <1>3 DEF Posts
<1>5. Coming = queue[session] /\ Coming' = Append(Coming, e)
  BY <1>3, <1>4, NoneIsNone DEF Coming, Stream
<1>6. Open(Coming) /\ Theirs(Coming, t) /\ Doing \in {"idle", "control"} /\ Coming \in Seq(Events)
  BY <1>1, RunningTypes DEF Running, Flows, Alone
<1>7. e.turn = t /\ e.kind = kind  OBVIOUS
<1>8. OthersIdle'
  BY <1>3, <1>4 DEF Running, Alone, OthersIdle
<1> HIDE DEF e
<1>9. /\ Append(Coming, e) # <<>> /\ ResultLast(Append(Coming, e)) /\ Theirs(Append(Coming, e), t)
      /\ kind \notin Results => Open(Append(Coming, e))
      /\ kind \in Results => Ended(Append(Coming, e))
  BY <1>3, <1>6, <1>7, StreamGets
<1>10. Doing' = Doing /\ proc'[session'].event = proc[session].event  BY DEF Doing
<1> QED BY <1>1, <1>2, <1>5, <1>6, <1>8, <1>9, <1>10

\* It starts, speaks, replies once and ends with its result.
LEMMA ClaudeRuns ==
  ASSUME Typed, NEW t \in Turns, Running(t), ClaudeStep
  PROVE  Running(t)'
<1>0. <<t>> # <<>> /\ t # None /\ Tail(<<t>>) = <<>> /\ Head(<<t>>) = t  BY RunningTypes
<1>1. CASE StartTurn
  <2>1. claude.inbox = <<t>>  BY <1>1 DEF StartTurn, Running, Alone
  <2>2. claude' = [claude EXCEPT !.inbox = <<>>, !.turn = t]
    BY <1>0, <1>1, <2>1 DEF StartTurn
  <2>3. claude'.inbox = <<>> /\ claude'.turn = t  BY <2>2, RunningTypes
  <2>4. UNCHANGED <<owner, attached, session, post, queue, proc, routing, replies, handler, buffer,
                    shown, locked, replied>>
    BY <1>1 DEF StartTurn, linkVars, eventVars, replyVars, previewVars, historyVars
  <2>5. Coming' = Coming /\ Doing' = Doing /\ (OthersIdle => OthersIdle')
        /\ proc'[session'].event = proc[session].event
    BY <2>4, StreamStays
  <2>6. Coming = <<>> /\ Doing = "idle" /\ t \notin locked /\ t \notin buffer /\ shown[t] = {}
    BY <2>1 DEF Running, Single
  <2>7. Alone(t)'  BY <2>3, <2>4, <2>5 DEF Running, Alone
  <2>8. Single(t)'  BY <1>0, <2>3, <2>4, <2>5 DEF Running, Single
  <2>9. Flows(t)'  BY <2>3, <2>5, <2>6, StreamIsEmpty DEF Flows
  <2>10. Answered(t)'  BY <2>4, <2>6 DEF Running, Answered
  <2>11. Previewed(t)'  BY <2>4, <2>6 DEF Previewed
  <2> QED BY <2>7, <2>8, <2>9, <2>10, <2>11 DEF Running
<1>2. CASE Reply
  <2>1. claude.turn = t /\ t \notin replied  BY <1>2 DEF Reply, Running, Alone
  <2>2. replies = <<>> /\ handler = None  BY <2>1 DEF Running, Single, Alone
  <2>3. replies' = <<t>> /\ replied' = replied \cup {t}  BY <1>2, <2>1, <2>2 DEF Reply
  <2>4. UNCHANGED <<owner, attached, session, claude, post, queue, proc, routing, handler, buffer,
                    shown, locked>>
    BY <1>2 DEF Reply, linkVars, eventVars, previewVars
  <2>5. Coming' = Coming /\ Doing' = Doing /\ (OthersIdle => OthersIdle')
        /\ proc'[session'].event = proc[session].event
    BY <2>4, StreamStays
  <2>6. Alone(t)'  BY <2>3, <2>4, <2>5 DEF Running, Alone
  <2>7. Single(t)'  BY <1>0, <2>1, <2>2, <2>3, <2>4, <2>5 DEF Running, Single
  <2>8. Flows(t)' /\ Previewed(t)'  BY <2>4, <2>5 DEF Running, Flows, Previewed
  <2>9. Answered(t)'  BY <2>1, <2>3, <2>4, <2>5 DEF Running, Answered
  <2> QED BY <2>6, <2>7, <2>8, <2>9 DEF Running
<1>3. ASSUME NEW kind \in Kinds, Say(kind) PROVE Running(t)'
  <2>1. kind \notin Results  BY <1>3 DEF Kinds, Results
  <2>2. /\ CanPost /\ Posts(kind)
        /\ UNCHANGED <<owner, attached, session, claude, queue, proc, routing, replies, handler,
                       buffer, shown, locked, replied>>
    BY <1>3 DEF Say, linkVars, replyVars, previewVars, historyVars
  <2>3. /\ claude.turn = t /\ claude.inbox = <<>>
        /\ OthersIdle' /\ Theirs(Coming', t) /\ ResultLast(Coming') /\ Coming' # <<>>
        /\ Open(Coming') /\ Doing' = Doing /\ Doing \in {"idle", "control"}
        /\ proc'[session'].event = proc[session].event
    BY <1>3, <2>1, <2>2, PostsToStream
  <2>4. Alone(t)'  BY <2>2, <2>3 DEF Running, Alone
  <2>5. Single(t)'  BY <1>0, <2>2, <2>3 DEF Running, Single
  <2>6. Flows(t)'  BY <2>2, <2>3 DEF Flows
  <2>7. Answered(t)'  BY <2>2, <2>3 DEF Running, Answered
  <2>8. Previewed(t)'  BY <2>3 DEF Previewed
  <2> QED BY <2>4, <2>5, <2>6, <2>7, <2>8 DEF Running
<1>4. ASSUME NEW kind \in Results, EndTurn(kind) PROVE Running(t)'
  <2>1. /\ CanPost /\ Posts(kind) /\ claude' = [claude EXCEPT !.turn = None]
        /\ UNCHANGED <<owner, attached, session, queue, proc, routing, replies, handler,
                       buffer, shown, locked, replied>>
    BY <1>4 DEF EndTurn, linkVars, replyVars, previewVars, historyVars
  <2>2. claude'.inbox = claude.inbox /\ claude'.turn = None  BY <2>1, RunningTypes
  <2>3. /\ claude.turn = t /\ claude.inbox = <<>>
        /\ OthersIdle' /\ Theirs(Coming', t) /\ ResultLast(Coming') /\ Coming' # <<>>
        /\ Ended(Coming') /\ Doing' = Doing /\ Doing \in {"idle", "control"}
        /\ proc'[session'].event = proc[session].event
    BY <1>4, <2>1, PostsToStream
  <2>4. Alone(t)'  BY <2>1, <2>2, <2>3 DEF Running, Alone
  <2>5. Single(t)'  BY <1>0, <2>1, <2>2, <2>3 DEF Running, Single
  <2>6. Flows(t)'  BY <1>0, <2>2, <2>3 DEF Flows
  <2>7. Answered(t)'  BY <2>1, <2>2, <2>3 DEF Running, Answered
  <2>8. Previewed(t)'  BY <2>3 DEF Previewed
  <2> QED BY <2>4, <2>5, <2>6, <2>7, <2>8 DEF Running
<1> QED BY <1>1, <1>2, <1>3, <1>4 DEF ClaudeStep

\* Its event channel is that of its own launch.
LEMMA EnqueueRuns ==
  ASSUME Typed, NEW t \in Turns, Running(t), NEW l \in Launches, Enqueue(l)
  PROVE  Running(t)'
<1>1. l = session /\ session # None  BY Mine DEF Enqueue, Running, Alone
<1>2. /\ post[session] # None /\ post' = [post EXCEPT ![session] = None]
      /\ queue' = [queue EXCEPT ![session] = Append(queue[session], post[session])]
      /\ UNCHANGED <<owner, attached, session, claude, proc, routing, replies, handler, buffer,
                     shown, locked, replied>>
  BY <1>1 DEF Enqueue, linkVars, replyVars, previewVars, historyVars
<1>3. Coming' = Coming  BY <1>1, <1>2, RunningTypes DEF Coming, Stream, EventTypes
<1>4. Doing' = Doing /\ OthersIdle' /\ proc'[session'].event = proc[session].event
  BY <1>2, RunningTypes DEF Doing, Running, Alone, OthersIdle, EventTypes
<1>5. Alone(t)'  BY <1>2, <1>3, <1>4 DEF Running, Alone
<1>6. Single(t)' /\ Flows(t)' /\ Previewed(t)'
  BY <1>2, <1>3, <1>4 DEF Running, Single, Flows, Previewed
<1>7. Answered(t)'  BY <1>2, <1>3, <1>4 DEF Running, Answered
<1> QED BY <1>5, <1>6, <1>7 DEF Running

\* The event a processor takes is of the turn that runs, at that turn's launch.
LEMMA Takes ==
  ASSUME Typed, NEW t \in Turns, Running(t), NEW l \in Launches, NEW kind, Ready(l, kind),
         Dequeue(l), UNCHANGED <<session, post>>,
         proc' = proc \/ \E pc \in {"control", "claim"} : Begin(l, pc)
  PROVE  /\ l = session /\ Head(queue[l]).turn = t /\ claude.inbox = <<>> /\ Doing = "idle"
         /\ Coming # <<>> /\ OthersIdle' /\ Theirs(Coming', t) /\ ResultLast(Coming')
         /\ Open(Coming) => kind \notin Results /\ Open(Coming')
         /\ Ended(Coming) => Ended(Coming')
         /\ Ended(Coming) /\ kind \notin Results => Coming' # <<>>
         /\ kind \in Results => Coming' = <<>>
         /\ proc' = proc => Doing' = "idle"
         /\ \A pc \in {"control", "claim"} :
              Begin(l, pc) => Doing' = pc /\ proc'[session'].event.turn = t
<1>1. proc[l] = Idle /\ queue[l] # <<>> /\ Head(queue[l]).kind = kind  BY DEF Ready
<1>2. l = session  BY <1>1, Mine
<1>3. /\ session \in Launches /\ EventTypes /\ ProcTypes /\ Coming \in Seq(Events)
  BY RunningTypes
<1>4. /\ Coming # <<>> /\ Head(Coming) = Head(queue[l]) /\ Coming' = Tail(Coming)
      /\ \A k \in Launches \ {l} : queue'[k] = queue[k]
  BY <1>1, <1>2, <1>3, StreamDequeues DEF Coming
<1>5. Theirs(Coming, t) /\ ResultLast(Coming)  BY DEF Running, Alone, Flows
<1>6. /\ Head(Coming).turn = t
      /\ Theirs(Tail(Coming), t) /\ ResultLast(Tail(Coming))
      /\ Open(Coming) => Head(Coming).kind \notin Results /\ Open(Tail(Coming))
      /\ Ended(Coming) => Ended(Tail(Coming))
      /\ Ended(Coming) /\ Head(Coming).kind \notin Results => Tail(Coming) # <<>>
      /\ Head(Coming).kind \in Results => Tail(Coming) = <<>>
  BY <1>3, <1>4, <1>5, StreamTakes
<1>7. claude.inbox = <<>> /\ Doing = "idle"
  <2>1. Doing = "idle"  BY <1>1, <1>2 DEF Doing, Idle
  <2> QED BY <1>4, <2>1 DEF Running, Alone, Single
<1>8. ASSUME NEW k \in Launches \ {l} PROVE proc'[k] = proc[k]
  <2>1. proc \in [Launches -> Steps]  BY <1>3 DEF ProcTypes
  <2> QED BY <2>1 DEF Begin
<1>9. OthersIdle'  BY <1>2, <1>4, <1>8 DEF Running, Alone, OthersIdle
<1>10. proc' = proc => Doing' = "idle"  BY <1>7 DEF Doing
<1>11. ASSUME NEW pc \in {"control", "claim"}, Begin(l, pc)
       PROVE  Doing' = pc /\ proc'[session'].event.turn = t
  <2>1. proc'[l] = [pc |-> pc, event |-> Head(queue[l]), tries |-> 0]
    BY <1>3, <1>11 DEF Begin, ProcTypes
  <2> QED BY <1>2, <1>4, <1>6, <2>1 DEF Doing
<1> QED BY <1>1, <1>2, <1>4, <1>6, <1>7, <1>9, <1>10, <1>11

\* Its events change the owner and the preview only as long as its result is to come.
LEMMA TakesRuns ==
  ASSUME Typed, NEW t \in Turns, Running(t), NEW l \in Launches, ProcessorStep(l),
         \/ OnAssistant(l) \/ OnBlock(l) \/ OnDelta(l) \/ OnControl(l) \/ OnResult(l)
         \/ OnSilentResult(l)
  PROVE  Running(t)'
<1> DEFINE other == /\ UNCHANGED <<attached, session, claude, post, routing, replies, handler,
                                   shown, replied>>
                    /\ Dequeue(l)
<1>0. <<t>> # <<>> /\ t # None /\ owner \in Owners  BY RunningTypes
<1>1. other
  BY DEF OnAssistant, OnBlock, OnDelta, OnControl, OnResult, OnSilentResult, linkVars, replyVars,
         historyVars
<1>2. ASSUME NEW kind, Ready(l, kind),
             proc' = proc \/ \E pc \in {"control", "claim"} : Begin(l, pc),
             proc' # proc => Doing' # "idle" /\ (Doing' = "claim" <=> kind \in Results)
                             /\ Doing' \in {"control", "claim"}
      PROVE  Alone(t)' /\ Flows(t)'
  <2>1. /\ l = session /\ claude.inbox = <<>> /\ Doing = "idle"
        /\ Coming # <<>> /\ OthersIdle' /\ Theirs(Coming', t) /\ ResultLast(Coming')
        /\ Open(Coming) => kind \notin Results /\ Open(Coming')
        /\ Ended(Coming) => Ended(Coming')
        /\ Ended(Coming) /\ kind \notin Results => Coming' # <<>>
        /\ kind \in Results => Coming' = <<>>
        /\ proc' = proc => Doing' = "idle"
        /\ \A pc \in {"control", "claim"} :
             Begin(l, pc) => Doing' = pc /\ proc'[session'].event.turn = t
    BY <1>1, <1>2, Takes
  <2>2. Alone(t)'
    <3>1. Doing' # "idle" => proc'[session'].event.turn = t  BY <1>2, <2>1
    <3> QED BY <1>1, <2>1, <3>1 DEF Running, Alone
  <2>3. Flows(t)'
    <3>1. claude.turn = t => Open(Coming)  BY DEF Running, Flows
    <3>2. claude.turn # t => Ended(Coming)  BY <2>1 DEF Running, Flows
    <3>3. claude.turn = t => Doing' \in {"idle", "control"} /\ Open(Coming')
      BY <1>2, <2>1, <3>1
    <3>4. claude.turn # t => Ended(Coming') /\ (Coming' = <<>> => Doing' # "control")
      BY <1>2, <2>1, <3>2
    <3>5. Doing' \in {"claim", "finish"} => Coming' = <<>> /\ claude.turn # t
      BY <1>2, <2>1, <3>3
    <3> QED BY <1>1, <2>1, <3>3, <3>4, <3>5 DEF Flows
  <2> QED BY <2>2, <2>3
\* An event that is no result leaves the turn running or its result to come.
<1>3. ASSUME NEW kind, Ready(l, kind), proc' = proc \/ Begin(l, "control"), kind \notin Results
      PROVE  /\ Alone(t)' /\ Flows(t)' /\ claude.inbox = <<>> /\ Coming # <<>>
             /\ claude.turn = t \/ Coming' # <<>>
             /\ Head(queue[l]).turn = t
  <2>1. /\ claude.inbox = <<>> /\ Coming # <<>> /\ Head(queue[l]).turn = t
        /\ Ended(Coming) => Coming' # <<>>
        /\ proc' = proc => Doing' = "idle"
        /\ Begin(l, "control") => Doing' = "control"
    BY <1>1, <1>3, Takes
  <2>2. claude.turn = t \/ Coming' # <<>>  BY <2>1 DEF Running, Flows
  <2>3. Alone(t)' /\ Flows(t)'  BY <1>2, <1>3, <2>1
  <2> QED BY <2>1, <2>2, <2>3
<1>4. ASSUME claude.inbox = <<>> PROVE Single(t)'
  BY <1>0, <1>1, <1>4 DEF Running, Single
<1>5. ASSUME claude.inbox = <<>>, Coming # <<>> PROVE "sdk" \notin shown[t]
  BY <1>5 DEF Running, Answered
<1>6. CASE OnAssistant(l)
  <2>1. Ready(l, "assistant") /\ proc' = proc /\ owner' = Begun /\ buffer' = buffer
        /\ locked' = LET u == Head(queue[l]).turn
                     IN  IF Begun = "Active" /\ routing[u] = "prepared" THEN locked \cup {u}
                         ELSE locked
    BY <1>6 DEF OnAssistant, previewVars
  <2>2. /\ Alone(t)' /\ Flows(t)' /\ claude.inbox = <<>> /\ Coming # <<>>
        /\ claude.turn = t \/ Coming' # <<>>
        /\ Head(queue[l]).turn = t
    <3>1. "assistant" \notin Results  BY DEF Results
    <3> QED BY <1>3, <2>1, <3>1
  <2>3. locked' = IF Begun = "Active" /\ routing[t] = "prepared" THEN locked \cup {t}
                  ELSE locked
    BY <2>1, <2>2
  <2>4. Answered(t)'
    <3>1. "bridge" \in shown[t] => attached /\ owner # "Active"  BY DEF Running, Answered
    <3>2. "bridge" \in shown[t] => Begun # "Active"  BY <3>1 DEF Begun, RoutesDirectly
    <3>3. Begun \in {"Inactive", "Active"} /\ (owner = "Active" => Begun = "Active")
      BY <1>0 DEF Begun, RoutesDirectly, Owners
    <3>4. "sdk" \notin shown[t]  BY <1>5, <2>2
    <3>5. routing[t] = "prepared" /\ shown[t] = {} =>
            /\ handler = None
            /\ t \in replied => replies = <<t>>
            /\ t \in locked => owner = "Active"
      BY DEF Running, Answered
    <3>6. routing[t] = "prepared" /\ shown[t] = {} /\ t \in locked' => Begun = "Active"
      BY <2>3, <3>3, <3>5
    <3> HIDE DEF other
    <3>7. /\ "bridge" \in shown'[t] => attached' /\ owner' # "Active" /\ "sdk" \notin shown'[t]
          /\ "sdk" \notin shown'[t]
      BY <1>1, <2>1, <3>1, <3>2, <3>4 DEF other
    <3>8. routing'[t] = "prepared" /\ shown'[t] = {} =>
            /\ owner' \in {"Inactive", "Active"} /\ handler' = None
            /\ t \in replied' => replies' = <<t>>
            /\ t \in locked' => owner' = "Active" /\ (claude'.turn = t \/ Coming' # <<>>)
      BY <1>1, <2>1, <2>2, <3>3, <3>5, <3>6 DEF other
    <3> QED BY <3>7, <3>8 DEF Answered
  <2>5. Previewed(t)'  BY <1>1, <2>2 DEF Previewed
  <2>6. Single(t)'  BY <1>4, <2>2
  <2> QED BY <2>2, <2>4, <2>5, <2>6 DEF Running
\* What the preview and the requests do leaves the owner alone.
<1>7. ASSUME UNCHANGED <<owner, locked>>, claude.inbox = <<>>, Coming # <<>>,
             claude.turn = t \/ Coming' # <<>>
      PROVE  Answered(t)' /\ Previewed(t)'
  <2>1. Answered(t)'  BY <1>1, <1>5, <1>7 DEF Running, Answered
  <2>2. Previewed(t)'  BY <1>1, <1>7 DEF Previewed
  <2> QED BY <2>1, <2>2
<1>8. CASE OnBlock(l) \/ OnDelta(l) \/ OnControl(l)
  <2>1. /\ UNCHANGED <<owner, locked>> /\ (proc' = proc \/ Begin(l, "control"))
        /\ \E kind \in Kinds : Ready(l, kind)
    BY <1>8 DEF OnBlock, OnDelta, OnControl, historyVars, Kinds
  <2>2. PICK kind \in Kinds : Ready(l, kind)  BY <2>1
  <2>3. kind \notin Results  BY DEF Kinds, Results
  <2>4. /\ Alone(t)' /\ Flows(t)' /\ claude.inbox = <<>> /\ Coming # <<>>
        /\ claude.turn = t \/ Coming' # <<>>
    BY <1>3, <2>1, <2>2, <2>3
  <2>5. Single(t)'  BY <1>4, <2>4
  <2>6. Answered(t)' /\ Previewed(t)'  BY <1>7, <2>1, <2>4
  <2> QED BY <2>4, <2>5, <2>6 DEF Running
<1>9. CASE OnResult(l)
  <2>1. /\ Ready(l, "result") /\ Begin(l, "claim") /\ "result" \in Results /\ buffer' = {}
        /\ UNCHANGED <<owner, locked>>
    BY <1>9 DEF OnResult, historyVars, Results
  <2>2. claude.inbox = <<>> /\ Coming # <<>> /\ Doing' = "claim"  BY <1>1, <2>1, Takes
  <2>3. Alone(t)' /\ Flows(t)'  BY <1>2, <2>1, <2>2
  <2>4. Answered(t)'  BY <1>1, <1>5, <2>1, <2>2 DEF Running, Answered
  <2>5. Single(t)'  BY <1>4, <2>2
  <2>6. Previewed(t)'  BY <2>1 DEF Previewed
  <2> QED BY <2>3, <2>4, <2>5, <2>6 DEF Running
<1>10. CASE OnSilentResult(l)
  <2>1. /\ Ready(l, "silent") /\ proc' = proc /\ "silent" \in Results /\ buffer' = {}
        /\ owner' = owner /\ locked' = locked \ {Head(queue[l]).turn}
    BY <1>10 DEF OnSilentResult, Results
  <2>2. claude.inbox = <<>> /\ Coming # <<>> /\ Head(queue[l]).turn = t  BY <1>1, <2>1, Takes
  <2>3. Alone(t)' /\ Flows(t)'  BY <1>2, <2>1
  <2>4. t \notin locked'  BY <2>1, <2>2
  <2>5. Answered(t)'  BY <1>1, <1>5, <2>1, <2>2, <2>4 DEF Running, Answered
  <2>6. Single(t)'  BY <1>4, <2>2
  <2>7. Previewed(t)'  BY <2>1 DEF Previewed
  <2> QED BY <2>3, <2>5, <2>6, <2>7 DEF Running
<1> QED BY <1>6, <1>8, <1>9, <1>10

\* What a processor does with the event it is at leaves the stream of the turn alone.
LEMMA AtWork ==
  ASSUME Typed, NEW t \in Turns, Running(t), NEW l \in Launches, NEW pc, At(l, pc), pc # "idle",
         UNCHANGED <<session, post, queue>>,
         \E p : proc' = [proc EXCEPT ![l] = p] /\ (p.pc # "idle" => p.event = proc[l].event)
  PROVE  /\ l = session /\ Doing = pc /\ proc[l].event.turn = t /\ claude.inbox = <<>>
         /\ OthersIdle' /\ Coming' = Coming
         /\ Doing' # "idle" => proc'[session'].event.turn = t
<1>1. l = session  BY Mine DEF At
<1>2. Doing = pc  BY <1>1 DEF At, Doing
<1>3. proc[l].event.turn = t /\ claude.inbox = <<>>
  BY <1>1, <1>2 DEF Running, Alone, Single
<1>4. Coming' = Coming  BY DEF Coming, Stream
<1>5. PICK p : proc' = [proc EXCEPT ![l] = p] /\ (p.pc # "idle" => p.event = proc[l].event)
  OBVIOUS
<1>6. \A k \in Launches : proc'[k] = IF k = l THEN p ELSE proc[k]
  BY <1>5, RunningTypes DEF ProcTypes
<1>7. OthersIdle'  BY <1>1, <1>6 DEF Running, Alone, OthersIdle
<1>8. Doing' # "idle" => proc'[session'].event.turn = t
  BY <1>1, <1>3, <1>5, <1>6 DEF Doing
<1> QED BY <1>1, <1>2, <1>3, <1>4, <1>7, <1>8

\* The result claims what the bridge has not, or is suppressed and resets the owner.
LEMMA WorkRuns ==
  ASSUME Typed, NEW t \in Turns, Running(t), NEW l \in Launches,
         Attempt(l) \/ ClaimResult(l) \/ SuppressResult(l) \/ FinishResult(l)
  PROVE  Running(t)'
<1>0. /\ <<t>> # <<>> /\ t # None /\ owner \in Owners
      /\ shown \in [Turns -> SUBSET {"sdk", "bridge"}] /\ proc[l] \in Steps
      /\ claude.turn \in {None, t}
  BY RunningTypes DEF ProcTypes, Running, Alone
<1>1. UNCHANGED <<attached, session, claude, post, queue, routing, replies, handler, buffer,
                  locked, replied>>
  BY DEF Attempt, ClaimResult, SuppressResult, FinishResult, linkVars, replyVars, previewVars,
         historyVars
<1>2. ASSUME OthersIdle', Coming' = Coming, Doing' # "idle" => proc'[session'].event.turn = t
      PROVE  Alone(t)'
  BY <1>1, <1>2 DEF Running, Alone
<1>3. CASE Attempt(l)
  <2>1. /\ At(l, "control") /\ UNCHANGED <<owner, shown>>
        /\ proc' = IF online \/ proc[l].tries + 1 = Tries
                   THEN [proc EXCEPT ![l] = Idle] ELSE [proc EXCEPT ![l].tries = @ + 1]
    BY <1>3 DEF Attempt, historyVars
  <2>2. \E p : /\ proc' = [proc EXCEPT ![l] = p] /\ (p.pc # "idle" => p.event = proc[l].event)
               /\ p.pc \in {"idle", "control"}
    <3>1. CASE online \/ proc[l].tries + 1 = Tries
      <4>1. proc' = [proc EXCEPT ![l] = Idle]  BY <2>1, <3>1
      <4> WITNESS Idle
      <4> QED BY <4>1 DEF Idle
    <3>2. CASE ~(online \/ proc[l].tries + 1 = Tries)
      <4> WITNESS [proc[l] EXCEPT !.tries = proc[l].tries + 1]
      <4> QED BY <1>0, <2>1, <3>2 DEF At, Steps
    <3> QED BY <3>1, <3>2
  <2>3. /\ l = session /\ Doing = "control" /\ claude.inbox = <<>> /\ OthersIdle'
        /\ Coming' = Coming
        /\ Doing' # "idle" => proc'[session'].event.turn = t
    BY <1>1, <2>1, <2>2, AtWork
  <2>4. Doing' \in {"idle", "control"}
    <3>1. PICK p : proc' = [proc EXCEPT ![l] = p] /\ p.pc \in {"idle", "control"}  BY <2>2
    <3> QED BY <1>1, <2>3, <3>1, RunningTypes DEF Doing, ProcTypes
  <2>5. Alone(t)'  BY <1>2, <2>3
  <2>6. Single(t)'  BY <1>0, <1>1, <2>3 DEF Running, Single
  <2>7. Flows(t)'  BY <1>1, <2>3, <2>4 DEF Running, Flows
  <2>8. Answered(t)'  BY <1>1, <2>1, <2>3, <2>4 DEF Running, Answered
  <2>9. Previewed(t)'  BY <1>1, <2>3 DEF Running, Previewed
  <2> QED BY <2>5, <2>6, <2>7, <2>8, <2>9 DEF Running
<1>4. ASSUME NEW pc \in {"claim", "finish"}, At(l, pc), NEW qc \in {"idle", "finish"}, Goto(l, qc)
      PROVE  /\ l = session /\ Doing = pc /\ proc[l].event.turn = t /\ Doing' = qc
             /\ Alone(t)' /\ Single(t)' /\ Flows(t)' /\ Previewed(t)'
             /\ claude.turn # t /\ claude.inbox = <<>> /\ Coming = <<>> /\ Coming' = <<>>
  <2> DEFINE p == IF qc = "idle" THEN Idle ELSE [proc[l] EXCEPT !.pc = qc]
  <2>1. proc' = [proc EXCEPT ![l] = p] /\ (p.pc # "idle" => p.event = proc[l].event) /\ p.pc = qc
    BY <1>0, <1>4 DEF Goto, Idle, Steps
  <2> HIDE DEF p
  <2>2. /\ l = session /\ Doing = pc /\ proc[l].event.turn = t /\ claude.inbox = <<>>
        /\ OthersIdle' /\ Coming' = Coming
        /\ Doing' # "idle" => proc'[session'].event.turn = t
    BY <1>1, <1>4, <2>1, AtWork
  <2>3. Doing' = qc  BY <1>1, <2>1, <2>2, RunningTypes DEF Doing, ProcTypes
  <2>4. Coming = <<>> /\ claude.turn # t  BY <2>2 DEF Running, Flows
  <2>5. Alone(t)'  BY <1>2, <2>2
  <2>6. Single(t)'  BY <1>0, <1>1, <2>2 DEF Running, Single
  <2>7. Flows(t)'  BY <1>1, <2>2, <2>3, <2>4, StreamIsEmpty DEF Running, Flows
  <2>8. Previewed(t)'  BY <1>1, <2>2 DEF Running, Previewed
  <2> QED BY <2>2, <2>3, <2>4, <2>5, <2>6, <2>7, <2>8
<1>5. CASE ClaimResult(l)
  <2>1. /\ At(l, "claim") /\ SdkMayClaim /\ owner' = "CompletedBySdk" /\ Goto(l, "idle")
        /\ shown' = [shown EXCEPT ![proc[l].event.turn] = @ \cup {"sdk"}]
    BY <1>5 DEF ClaimResult
  <2>2. /\ proc[l].event.turn = t /\ Doing' = "idle"
        /\ Alone(t)' /\ Single(t)' /\ Flows(t)' /\ Previewed(t)'
        /\ claude.turn # t /\ claude.inbox = <<>> /\ Coming' = <<>>
    BY <1>4, <2>1
  <2>3. shown'[t] = shown[t] \cup {"sdk"}  BY <1>0, <2>1, <2>2
  <2>4. "bridge" \notin shown[t]  BY <2>1 DEF Running, Answered, SdkMayClaim
  <2>5. Answered(t)'  BY <1>1, <2>1, <2>2, <2>3, <2>4 DEF Answered
  <2> QED BY <2>2, <2>5 DEF Running
<1>6. CASE SuppressResult(l)
  <2>1. At(l, "claim") /\ ~SdkMayClaim /\ Goto(l, "finish") /\ UNCHANGED <<owner, shown>>
    BY <1>6 DEF SuppressResult, historyVars
  <2>2. /\ Doing = "claim" /\ Doing' = "finish"
        /\ Alone(t)' /\ Single(t)' /\ Flows(t)' /\ Previewed(t)'
    BY <1>4, <2>1
  <2>3. owner # "Active"  BY <2>1 DEF SdkMayClaim
  <2>4. "sdk" \notin shown[t]  BY <2>2 DEF Running, Answered
  <2>5. Answered(t)'  BY <1>1, <2>1, <2>3, <2>4 DEF Running, Answered
  <2> QED BY <2>2, <2>5 DEF Running
<1>7. CASE FinishResult(l)
  <2>1. At(l, "finish") /\ Goto(l, "idle") /\ owner' = "Inactive" /\ shown' = shown
    BY <1>7 DEF FinishResult, historyVars
  <2>2. /\ Doing = "finish" /\ claude.turn # t /\ Coming = <<>>
        /\ Alone(t)' /\ Single(t)' /\ Flows(t)' /\ Previewed(t)'
    BY <1>4, <2>1
  <2>3. "sdk" \notin shown[t]  BY <2>2 DEF Running, Answered
  <2>4. routing[t] = "prepared" /\ shown[t] = {} => t \notin locked
    BY <2>2 DEF Running, Answered
  <2>5. Answered(t)'  BY <1>1, <2>1, <2>3, <2>4 DEF Running, Answered
  <2> QED BY <2>2, <2>5 DEF Running
<1> QED BY <1>3, <1>5, <1>6, <1>7

\* A flush of the preview is of no account to it.
LEMMA TimerRuns ==
  ASSUME Typed, NEW t \in Turns, Running(t), TimerFires
  PROVE  Running(t)'
<1>1. /\ UNCHANGED <<owner, attached, session, claude, post, queue, proc, routing, replies,
                     handler, shown, locked, replied>>
      /\ buffer' = {}
  BY DEF TimerFires, linkVars, eventVars, replyVars, historyVars
<1>2. Coming' = Coming /\ Doing' = Doing /\ (OthersIdle => OthersIdle')
      /\ proc'[session'].event = proc[session].event
  BY <1>1, StreamStays
<1>3. Alone(t)'  BY <1>1, <1>2 DEF Running, Alone
<1>4. Single(t)' /\ Flows(t)' /\ Previewed(t)'
  BY <1>1, <1>2 DEF Running, Single, Flows, Previewed
<1>5. Answered(t)'  BY <1>1, <1>2 DEF Running, Answered
<1> QED BY <1>3, <1>4, <1>5 DEF Running

\* The reply claims what the SDK has not, or is suppressed and resets the owner.
LEMMA HandlerRuns ==
  ASSUME Typed, NEW t \in Turns, Running(t), HandlerStep
  PROVE  Running(t)'
<1>0. /\ <<t>> # <<>> /\ t # None /\ Tail(<<t>>) = <<>> /\ Head(<<t>>) = t /\ owner \in Owners
      /\ shown \in [Turns -> SUBSET {"sdk", "bridge"}]
  BY RunningTypes
<1>1. UNCHANGED <<attached, session, claude, post, queue, proc, routing, buffer, locked, replied>>
  BY DEF HandlerStep, ShowReply, SuppressReply, FinishReply, linkVars, eventVars, previewVars,
         historyVars
<1>2. Coming' = Coming /\ Doing' = Doing /\ (OthersIdle => OthersIdle')
      /\ proc'[session'].event = proc[session].event
  BY <1>1, StreamStays
<1>3. ASSUME replies' \in {<<>>, <<t>>}, handler' \in {None, t} PROVE Alone(t)'
  BY <1>1, <1>2, <1>3 DEF Running, Alone
<1>4. Flows(t)' /\ Previewed(t)'  BY <1>1, <1>2 DEF Running, Flows, Previewed
<1>5. CASE ShowReply
  <2>1. /\ attached /\ handler = None /\ replies # <<>> /\ BridgeMayClaim
        /\ replies' = Tail(replies) /\ owner' = ClaimedByBridge /\ handler' = handler
        /\ shown' = [shown EXCEPT ![Head(replies)] = @ \cup {"bridge"}]
    BY <1>5 DEF ShowReply, Free
  <2>2. replies = <<t>>  BY <2>1 DEF Running, Alone
  <2>3. replies' = <<>> /\ shown'[t] = shown[t] \cup {"bridge"}  BY <1>0, <2>1, <2>2
  <2>4. "sdk" \notin shown[t]  BY <1>0, <2>1, <2>2 DEF Running, Answered, BridgeMayClaim
  <2>5. owner' # "Active"  BY <2>1 DEF ClaimedByBridge
  <2>6. t \in replied /\ claude.inbox # <<t>>  BY <2>2 DEF Running, Single
  <2>7. Alone(t)'  BY <1>3, <2>1, <2>3
  <2>8. Single(t)'  BY <1>0, <1>1, <2>1, <2>3, <2>6 DEF Single
  <2>9. Answered(t)'  BY <1>1, <2>1, <2>3, <2>4, <2>5 DEF Answered
  <2> QED BY <1>4, <2>7, <2>8, <2>9 DEF Running
<1>6. CASE SuppressReply
  <2>1. /\ replies # <<>> /\ ~BridgeMayClaim /\ replies' = Tail(replies)
        /\ handler' = Head(replies) /\ UNCHANGED <<owner, shown>>
    BY <1>6 DEF SuppressReply, historyVars
  <2>2. replies = <<t>>  BY <2>1 DEF Running, Alone
  <2>3. replies' = <<>> /\ handler' = t  BY <1>0, <2>1, <2>2
  <2>4. t \in replied /\ claude.inbox # <<t>>  BY <2>2 DEF Running, Single
  <2>5. ~(routing[t] = "prepared" /\ shown[t] = {})
    BY <2>1 DEF Running, Answered, BridgeMayClaim
  <2>6. Alone(t)'  BY <1>3, <2>3
  <2>7. Single(t)'  BY <1>0, <1>1, <2>3, <2>4 DEF Single
  <2>8. Answered(t)'  BY <1>1, <1>2, <2>1, <2>3, <2>5 DEF Running, Answered
  <2> QED BY <1>4, <2>6, <2>7, <2>8 DEF Running
<1>7. CASE FinishReply
  <2>1. /\ handler # None /\ handler' = None /\ owner' = "Inactive" /\ UNCHANGED <<replies, shown>>
    BY <1>7 DEF FinishReply, Free, historyVars
  <2>2. handler = t  BY <2>1 DEF Running, Alone
  <2>3. replies = <<>> /\ t \in replied  BY <1>0, <2>1, <2>2 DEF Running, Single, Alone
  <2>4. claude.inbox # <<t>>  BY <2>3 DEF Running, Single
  <2>5. ~(routing[t] = "prepared" /\ shown[t] = {})  BY <2>1 DEF Running, Answered
  <2>6. Alone(t)'  BY <1>3, <2>1, <2>3
  <2>7. Single(t)'  BY <1>0, <1>1, <2>1, <2>3, <2>4 DEF Single
  <2>8. Answered(t)'  BY <1>1, <1>2, <2>1, <2>3, <2>5 DEF Running, Answered
  <2> QED BY <1>4, <2>6, <2>7, <2>8 DEF Running
<1> QED BY <1>5, <1>6, <1>7 DEF HandlerStep

\* Whatever step is taken, a turn that still has the daemon to itself after it goes on as it did.
LEMMA RunningGoes ==
  ASSUME Typed, NEW t \in Turns, Live(t), Running(t), Next, t \notin disturbed'
  PROVE  Running(t)'
<1>1. ASSUME NEW l \in Launches, ProcessorStep(l) PROVE Running(t)'
  BY <1>1, TakesRuns, WorkRuns DEF ProcessorStep
<1> QED BY <1>1, RouteRuns, LinkRuns, ClaudeRuns, EnqueueRuns, TimerRuns, HandlerRuns DEF Next

----------------------------------------------------------------------------
(* The turns, one after the other.                                         *)

\* What has been disturbed stays so.
LEMMA DisturbedStays == ASSUME Next PROVE disturbed \subseteq disturbed'
<1>1. ASSUME UNCHANGED historyVars PROVE disturbed' = disturbed  BY <1>1 DEF historyVars
<1> QED
  BY <1>1 DEF Next, RouteStep, Send, Prepare, LinkStep, WsAttach, WsLost, Invalidate, Relaunch,
              Kill, Attach, Detach, ClaudeStep, StartTurn, Say, Reply, EndTurn, Enqueue, ProcessorStep,
              OnAssistant, OnBlock, OnDelta, OnControl, Attempt, OnResult, OnSilentResult,
              ClaimResult, SuppressResult, FinishResult, TimerFires, HandlerStep, ShowReply,
              SuppressReply, FinishReply

\* A turn that runs does so until nothing of it is left, and then is over.
RunsOrEnds == \A t \in Turns : Running(t) => IF Live(t) THEN Running(t) ELSE Resting(t)

LEMMA RunningRunsOrEnds == Typed => RunsOrEnds
BY RunningEnds, QuietOrLive DEF RunsOrEnds

LEMMA RunningRunsOrEndsNext == Typed' => RunsOrEnds'
BY RunningRunsOrEnds, PTL

\* At the start no turn has begun.
LEMMA TurnsBegin == Init => TurnsInv
<1> SUFFICES ASSUME Init, NEW t \in Turns PROVE ~Live(t) /\ Resting(t)
  BY DEF TurnsInv
<1>1. t # None  BY NoneIsNone
<1>2. ToSet(<<>>) = {}  BY DEF ToSet
<1>3. Quiet(t)
  <2>1. \A l \in Launches : Clear(l, t)  BY <1>2 DEF Init, Idle, Clear
  <2> QED BY <1>1, <1>2, <2>1 DEF Init, Process, Free, Quiet
<1>4. Resting(t)  BY DEF Init, Resting
<1> QED BY <1>3, <1>4, QuietOrLive

\* A turn that is over stays over, unless its message is sent only now.
LEMMA TurnsGo == IInv /\ TurnsInv /\ [Next]_vars => TurnsInv'
<1> SUFFICES ASSUME IInv, TurnsInv, [Next]_vars, NEW t \in Turns, t \notin disturbed'
             PROVE  IF Live(t)' THEN Running(t)' ELSE Resting(t)'
  BY DEF TurnsInv
<1>1. Typed /\ Typed'  BY Goes DEF IInv
<1>2. CASE Next
  <2>1. t \notin disturbed  BY <1>2, DisturbedStays
  <2>2. ASSUME Running(t)' PROVE IF Live(t)' THEN Running(t)' ELSE Resting(t)'
    BY <1>1, <2>2, RunningRunsOrEndsNext DEF RunsOrEnds
  <2>3. CASE Live(t)
    <3>1. Running(t)  BY <2>1, <2>3 DEF TurnsInv
    <3> QED BY <1>1, <1>2, <2>2, <2>3, <3>1, RunningGoes
  <2>4. CASE ~Live(t)
    <3>1. Quiet(t) /\ Resting(t)  BY <2>1, <2>4, QuietOrLive DEF TurnsInv
    <3>2. CASE Send(t)
      <4>1. LiveTurns = {}  BY <3>2 DEF Send
      <4>2. \A u \in Turns : Quiet(u)  BY <4>1, QuietOrLive DEF LiveTurns
      <4> QED BY <1>1, <2>2, <3>1, <3>2, <4>2, RunningBegins
    <3>3. CASE ~Send(t)
      <4>1. Quiet(t)' /\ Unmoved(t)  BY <1>1, <1>2, <3>1, <3>3, QuietStays
      <4>2. Resting(t)'  BY <3>1, <4>1, RestStays
      <4>3. ~Live(t)'  BY <4>1 DEF Quiet, Live, Clear
      <4> QED BY <4>2, <4>3
    <3> QED BY <3>2, <3>3
  <2> QED BY <2>3, <2>4
<1>3. CASE UNCHANGED vars
  <2>1. UNCHANGED <<owner, attached, session, claude, post, queue, proc, routing, replies, handler,
                    buffer, shown, locked, replied, disturbed>>
    BY <1>3 DEF vars, linkVars, eventVars, replyVars, previewVars, historyVars
  <2>2. t \notin disturbed  BY <2>1
  <2>3. Live(t)' <=> Live(t)  BY <2>1 DEF Live
  <2>4. Resting(t) => Resting(t)'  BY <2>1 DEF Resting
  <2>5. Running(t) => Running(t)'
    <3>1. Coming' = Coming /\ Doing' = Doing /\ (OthersIdle => OthersIdle')
          /\ proc'[session'].event = proc[session].event
      BY <2>1, StreamStays
    <3>2. Alone(t) => Alone(t)'  BY <2>1, <3>1 DEF Alone
    <3>3. Single(t) => Single(t)'  BY <2>1, <3>1 DEF Single
    <3>4. Flows(t) => Flows(t)'  BY <2>1, <3>1 DEF Flows
    <3>5. Answered(t) => Answered(t)'  BY <2>1, <3>1 DEF Answered
    <3>6. Previewed(t) => Previewed(t)'  BY <2>1, <3>1 DEF Previewed
    <3> QED BY <3>2, <3>3, <3>4, <3>5, <3>6 DEF Running
  <2> QED BY <2>2, <2>3, <2>4, <2>5 DEF TurnsInv
<1> QED BY <1>2, <1>3

\* A turn that has the daemon to itself is the only thing under way until it is over, its events
\* end with its result, and of the two who may show its answer the one that did not come first
\* finds the owner in a state that keeps it from doing so too.
THEOREM OneTurnAtATime == Spec => []TurnsInv
<1>1. Init => IInv /\ TurnsInv  BY Begins, TurnsBegin
<1>2. IInv /\ TurnsInv /\ [Next]_vars => IInv' /\ TurnsInv'  BY Goes, TurnsGo
<1> QED BY <1>1, <1>2, PTL DEF Spec

\* A turn that had the daemon to itself is put before the user once at most, and at least once
\* when the SDK had taken it or the bridge had replied.
THEOREM AnsweredOnce == Spec => []UndisturbedTurnIsAnsweredOnce
<1>1. IInv /\ TurnsInv => UndisturbedTurnIsAnsweredOnce
  <2> SUFFICES ASSUME IInv, TurnsInv, NEW t \in Turns \ disturbed
               PROVE  /\ Cardinality(shown[t]) <= 1
                      /\ Settled(t) /\ t \in locked \cup replied => shown[t] # {}
    BY DEF UndisturbedTurnIsAnsweredOnce
  <2>1. shown[t] \in SUBSET {"sdk", "bridge"}  BY DEF IInv, Typed, HistoryTypes
  <2>2. ~({"sdk", "bridge"} \subseteq shown[t])
    BY DEF TurnsInv, Running, Answered, Resting
  <2>3. shown[t] = {} \/ shown[t] = {"sdk"} \/ shown[t] = {"bridge"}  BY <2>1, <2>2
  <2>4. Cardinality(shown[t]) <= 1
    <3>1. Cardinality({}) = 0  BY FS_EmptySet
    <3>2. Cardinality({"sdk"}) = 1 /\ Cardinality({"bridge"}) = 1  BY FS_Singleton
    <3> QED BY <2>3, <3>1, <3>2
  <2>5. Settled(t) /\ t \in locked \cup replied => shown[t] # {}
    BY DEF TurnsInv, Settled, Resting
  <2> QED BY <2>4, <2>5
<1> QED BY <1>1, Inductive, OneTurnAtATime, PTL

\* The preview holds text of a turn that had the daemon to itself only as long as the turn is
\* under way.
THEOREM PreviewOfItsTurn == Spec => []PreviewIsOfTheTurn
<1>1. IInv /\ TurnsInv => PreviewIsOfTheTurn
  <2> SUFFICES ASSUME IInv, TurnsInv, NEW t \in buffer \ disturbed PROVE Live(t)
    BY DEF PreviewIsOfTheTurn
  <2>1. t \in Turns \ disturbed  BY DEF IInv, Typed, PreviewTypes
  <2>2. ~Resting(t)  BY DEF Resting
  <2> QED BY <2>1, <2>2 DEF TurnsInv
<1> QED BY <1>1, Inductive, OneTurnAtATime, PTL
=============================================================================
