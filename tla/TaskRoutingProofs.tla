------------------------- MODULE TaskRoutingProofs -------------------------
(***************************************************************************)
(* Theorems about TaskRouting, for every set of connections and tasks and  *)
(* every bound.                                                            *)
(***************************************************************************)
EXTENDS TaskRouting, SequenceTheorems, TLAPS

----------------------------------------------------------------------------
(* Which actions touch the task graph and the gate *)

\* Only these actions change the task graph or the gate's messages.
GraphAction ==
  \/ \E x \in Threads : Prepare(x) \/ Observe(x)
  \/ \E t \in Tasks : CreateTask(t)
  \/ \E t \in Tasks \cup {None} : SelectTask(t)
  \/ ApproveReview
  \/ CodexAttach \/ Register
  \/ \E s \in Sessions : AttachKnown(s)

\* A step of a routing thread changes the graph as Prepare or Observe, or not at all.
LEMMA StepOnGraph ==
  ASSUME NEW x \in Threads, Step(x)
  PROVE  Prepare(x) \/ Observe(x) \/ UNCHANGED <<graphVars, blocked>>
  BY DEF Step, Stamp, Choose, Send, SendFails, ReplayOne, ReplayFails, ReplayDone

\* Every other step of the system leaves the graph and the gate alone.
LEMMA OthersLeaveGraph ==
  ASSUME [Next]_vars
  PROVE  GraphAction \/ UNCHANGED <<graphVars, blocked>>
<1>1. CASE UserCommand
  <2>1. ASSUME NEW target \in Targets, SendUserInput(target) PROVE UNCHANGED <<graphVars, blocked>>
    BY <2>1 DEF SendUserInput
  <2>2. ASSUME NEW a \in Agents, Stop(a) PROVE UNCHANGED <<graphVars, blocked>>
    BY <2>2 DEF Stop
  <2>3. ASSUME NEW l \in Launches, NEW c \in Sessions, Launch(l, c)
        PROVE  UNCHANGED <<graphVars, blocked>>
    BY <2>3 DEF Launch
  <2>4. ASSUME NEW a, NEW r, SetRole(a, r) PROVE UNCHANGED <<graphVars, blocked>>
    BY <2>4 DEF SetRole
  <2>5. ForceDisconnect => UNCHANGED <<graphVars, blocked>>
    BY DEF ForceDisconnect
  <2> QED BY <1>1, <2>1, <2>2, <2>3, <2>4, <2>5 DEF UserCommand, GraphAction
<1>2. CASE DaemonStep
  <2>1. LaunchFails \/ SdkReady \/ ForceClear => UNCHANGED <<graphVars, blocked>>
    BY DEF LaunchFails, SdkReady, ForceClear
  <2> QED BY <1>2, <2>1, StepOnGraph DEF DaemonStep, GraphAction, Threads
<1>3. CASE SdkConnect
  BY <1>3 DEF SdkConnect
<1>4. ASSUME NEW c \in Conns, Step(c) \/ Peer(c)
      PROVE  GraphAction \/ UNCHANGED <<graphVars, blocked>>
  <2>1. Peer(c) => UNCHANGED <<graphVars, blocked>>
    BY DEF Peer, PeerCloses, Fills, Drains
  <2> QED BY <1>4, <2>1, StepOnGraph DEF GraphAction, Threads
<1>5. ASSUME NEW c \in BridgeConns, BridgeNext(c) PROVE UNCHANGED <<graphVars, blocked>>
  BY <1>5 DEF BridgeNext, BridgeAttach, BridgeRejected, BridgeReply, Reply, BridgeCleanup
<1>6. ASSUME NEW c \in SdkConns, SdkResult(c) \/ SdkCleanup(c)
      PROVE  UNCHANGED <<graphVars, blocked>>
  BY <1>6 DEF SdkResult, Reply, SdkCleanup
<1>7. ASSUME NEW c \in CodexConns, CodexNext(c) PROVE UNCHANGED <<graphVars, blocked>>
  BY <1>7 DEF CodexNext, CodexReply, Reply, CheckMessages, CheckTake, CodexEnds, CodexCancelled
<1>8. CASE UNCHANGED vars
  BY <1>8 DEF vars
<1> QED BY <1>1, <1>2, <1>3, <1>4, <1>5, <1>6, <1>7, <1>8 DEF Next

----------------------------------------------------------------------------
(* The task graph and the gate *)

\* The empty list of a gate is a sequence.
LEMMA EmptyIsSeq == IsSeq(<<>>)
  BY DEF IsSeq

\* Appending to the messages of a gate keeps them a sequence, one longer.
LEMMA AppendIsSeq ==
  ASSUME NEW s, IsSeq(s), NEW m
  PROVE  IsSeq(Append(s, m)) /\ Len(Append(s, m)) = Len(s) + 1 /\ Len(s) \in Nat
<1> DEFINE S == {s[i] : i \in DOMAIN s} \cup {m}
           r == Append(s, m)
<1>1. s \in Seq(S)
  BY SeqMonotonic DEF IsSeq
<1>2. r \in Seq(S) /\ Len(r) = Len(s) + 1 /\ Len(s) \in Nat
  BY <1>1, AppendProperties, LenProperties
<1>3. r \in [1..Len(r) -> {r[i] : i \in DOMAIN r}]
  BY <1>2, LenProperties
<1>4. r \in Seq({r[i] : i \in DOMAIN r})
  BY <1>2, <1>3, IsASeq
<1> QED BY <1>2, <1>4 DEF IsSeq

GateInv == GraphTypeOK /\ BlockedOnlyUnderReview /\ ReviewingHasRound

\* A message held back goes to the gate of the active task only while that task has
\* an open round (routing.rs 28-44, review_gate.rs 27-37).
LEMMA GatePrepare ==
  ASSUME GateInv, NEW x \in Threads, Prepare(x)
  PROVE  GateInv'
<1>1. CASE UNCHANGED blocked
  BY <1>1 DEF Prepare, GateInv, GraphTypeOK, BlockedOnlyUnderReview, ReviewingHasRound, graphVars
<1>2. CASE /\ GateBlocks(thread[x].msg)
           /\ blocked' = [blocked EXCEPT ![active] = Append(@, thread[x].msg)]
  <2>1. UNCHANGED graphVars
    BY DEF Prepare
  <2>2. active \in Tasks /\ review[active] # None
    BY <1>2 DEF GateBlocks, ShouldBlock, GateInv, GraphTypeOK
  <2>3. DOMAIN blocked' = Tasks /\ \A t \in Tasks : IsSeq(blocked'[t])
    BY <1>2, <2>2, AppendIsSeq DEF GateInv, GraphTypeOK
  <2>4. GraphTypeOK'
    BY <2>1, <2>3 DEF graphVars, GateInv, GraphTypeOK
  <2>5. BlockedOnlyUnderReview'
    BY <1>2, <2>1, <2>2 DEF graphVars, GateInv, GraphTypeOK, BlockedOnlyUnderReview
  <2> QED BY <2>1, <2>4, <2>5 DEF graphVars, GateInv, ReviewingHasRound
<1> QED BY <1>1, <1>2 DEF Prepare

\* What a message observed does to the task: a round opened or kept goes with any
\* status, and the round ends only when the task completes.
LEMMA FlowKeepsRounds ==
  ASSUME GateInv, NEW t \in Tasks, NEW m
  PROVE  /\ Flow(m, t).review \in Reviews \cup {None}
         /\ Flow(m, t).status \in {"Draft", "Implementing", "Reviewing", "Done"}
         /\ Flow(m, t).status = "Reviewing" => Flow(m, t).review # None
         /\ ~Completes(m) /\ review[t] # None => Flow(m, t).review # None
         /\ Completes(m) => Flow(m, t).status = "Done"
<1> DEFINE f == Flow(m, t)
<1>1. CASE Completes(m)
  <2>1. f = [review |-> None, status |-> "Done"]
    BY <1>1 DEF Flow, Completes
  <2> QED BY <1>1, <2>1
<1>2. CASE ~Completes(m)
  <2>1. \/ f = [review |-> "PendingLeadReview", status |-> "Reviewing"]
        \/ f = [review |-> "InReview", status |-> "Reviewing"]
        \/ f = [review |-> "PendingLeadReview", status |-> "Implementing"]
        \/ f = [review |-> "PendingLeadApproval", status |-> status[t]]
        \/ f = [review |-> review[t], status |-> status[t]]
    BY <1>2 DEF Flow, Completes
  <2>2. f.review \in Reviews \/ (f.review = review[t] /\ f.status = status[t])
    <3> HIDE DEF f
    <3> QED BY <2>1 DEF Reviews
  <2>3. f.status \in {"Reviewing", "Implementing", status[t]}
    BY <2>1
  <2> QED BY <1>2, <2>2, <2>3, RoutingAssumption
       DEF GateInv, GraphTypeOK, ReviewingHasRound, Reviews
<1> QED BY <1>1, <1>2

\* The effects of a message delivered keep the gate's invariant: completing a task
\* ends its round and drains its gate in the same step (task_flow.rs 17-52).
LEMMA GateObserve ==
  ASSUME GateInv, NEW x \in Threads, Observe(x)
  PROVE  GateInv'
<1> DEFINE m == thread[x].msg
<1>1. UNCHANGED <<created, active, session, owner>>
  BY DEF Observe
<1>2. CASE active = None
  BY <1>1, <1>2 DEF Observe, GateInv, GraphTypeOK, BlockedOnlyUnderReview, ReviewingHasRound
<1>3. CASE active # None
  <2>1. active \in Tasks
    BY <1>3 DEF GateInv, GraphTypeOK
  <2>2. /\ review' = [review EXCEPT ![active] = Flow(m, active).review]
        /\ status' = [status EXCEPT ![active] = Flow(m, active).status]
        /\ IF Completes(m) THEN blocked' = [blocked EXCEPT ![active] = <<>>]
                           ELSE UNCHANGED blocked
    BY <1>3 DEF Observe
  <2>3. GraphTypeOK'
    <3>1. DOMAIN blocked' = Tasks /\ \A t \in Tasks : IsSeq(blocked'[t])
      BY <2>1, <2>2, EmptyIsSeq DEF GateInv, GraphTypeOK
    <3>2. review' \in [Tasks -> Reviews \cup {None}]
          /\ status' \in [Tasks -> {"Draft", "Implementing", "Reviewing", "Done"}]
      BY <2>1, <2>2, FlowKeepsRounds DEF GateInv, GraphTypeOK
    <3> QED BY <1>1, <3>1, <3>2 DEF GateInv, GraphTypeOK
  <2>4. BlockedOnlyUnderReview'
    BY <2>1, <2>2, FlowKeepsRounds DEF GateInv, GraphTypeOK, BlockedOnlyUnderReview
  <2>5. ReviewingHasRound'
    BY <2>1, <2>2, FlowKeepsRounds DEF GateInv, GraphTypeOK, ReviewingHasRound
  <2> QED BY <2>3, <2>4, <2>5 DEF GateInv
<1> QED BY <1>2, <1>3

\* Approval ends the round, releases the gate and leaves "Reviewing" in one step.
LEMMA GateApprove ==
  ASSUME GateInv, ApproveReview
  PROVE  GateInv'
<1>1. /\ active \in Tasks
      /\ status' = [status EXCEPT ![active] = "Implementing"]
      /\ review' = [review EXCEPT ![active] = None]
      /\ blocked' = [blocked EXCEPT ![active] = <<>>]
      /\ UNCHANGED <<created, active, session, owner>>
  BY DEF ApproveReview, Approve, GateInv, GraphTypeOK
<1>2. DOMAIN blocked' = Tasks /\ \A t \in Tasks : IsSeq(blocked'[t])
  BY <1>1, EmptyIsSeq DEF GateInv, GraphTypeOK
<1>3. review' \in [Tasks -> Reviews \cup {None}]
      /\ status' \in [Tasks -> {"Draft", "Implementing", "Reviewing", "Done"}]
  BY <1>1 DEF GateInv, GraphTypeOK
<1>4. GraphTypeOK'
  BY <1>1, <1>2, <1>3 DEF GateInv, GraphTypeOK
<1>5. BlockedOnlyUnderReview' /\ ReviewingHasRound'
  BY <1>1 DEF GateInv, GraphTypeOK, BlockedOnlyUnderReview, ReviewingHasRound
<1> QED BY <1>4, <1>5 DEF GateInv

\* Registering and resuming keep the graph's types.
LEMMA ResumeTypes ==
  ASSUME GraphTypeOK, NEW s \in Sessions, owner[s] # None, ResumeSession(s), UNCHANGED created
  PROVE  /\ active' \in created' \cup {None}
         /\ session' \in [Tasks -> [{"lead", "coder"} -> Sessions \cup {None}]]
         /\ UNCHANGED owner
<1>1. owner[s].task \in created /\ owner[s].task \in Tasks /\ owner[s].role \in {"lead", "coder"}
  BY DEF GraphTypeOK
<1> QED BY <1>1 DEF ResumeSession, GraphTypeOK

\* A launch that registers gives the session to the active task, which exists.
LEMMA RegisterTypes ==
  ASSUME GraphTypeOK, NEW s \in Sessions, NEW a, NEW r, RegisterOnLaunch(a, s, r),
         UNCHANGED created
  PROVE  /\ UNCHANGED active
         /\ session' \in [Tasks -> [{"lead", "coder"} -> Sessions \cup {None}]]
         /\ owner' \in [Sessions -> [task : Tasks, role : {"lead", "coder"}] \cup {None}]
         /\ \A q \in Sessions : owner'[q] # None => owner'[q].task \in created'
<1>1. SlotOf(a, r) \in {"lead", "coder"}
  BY DEF SlotOf
<1>2. CASE active = None
  BY <1>2 DEF RegisterOnLaunch, GraphTypeOK
<1>3. CASE active # None
  <2>1. /\ active \in created /\ active \in Tasks
        /\ session' = [session EXCEPT ![active][SlotOf(a, r)] = s]
        /\ owner' = [owner EXCEPT ![s] = [task |-> active, role |-> SlotOf(a, r)]]
        /\ UNCHANGED active
    BY <1>3 DEF RegisterOnLaunch, GraphTypeOK
  <2>2. session' \in [Tasks -> [{"lead", "coder"} -> Sessions \cup {None}]]
    BY <1>1, <2>1 DEF GraphTypeOK
  <2>3. [task |-> active, role |-> SlotOf(a, r)] \in [task : Tasks, role : {"lead", "coder"}]
    BY <1>1, <2>1
  <2>4. owner' \in [Sessions -> [task : Tasks, role : {"lead", "coder"}] \cup {None}]
    BY <2>1, <2>3 DEF GraphTypeOK
  <2>5. \A q \in Sessions : owner'[q] # None => owner'[q].task \in created'
    BY <2>1 DEF GraphTypeOK
  <2> QED BY <2>1, <2>2, <2>4, <2>5
<1> QED BY <1>2, <1>3

\* An action that only moves sessions and the active task keeps the gate's invariant.
LEMMA GateSessions ==
  ASSUME GateInv, LaunchTypeOK,
         CodexAttach \/ Register \/ (\E s \in Sessions : AttachKnown(s))
  PROVE  GateInv'
<1>1. UNCHANGED <<created, review, status, blocked>>
  BY DEF CodexAttach, Register, AttachKnown
<1>2. At(Daemon, "await") \/ At(Daemon, "register") => launch # None /\ launch.session \in Sessions
  BY DEF LaunchTypeOK, At
<1>3. CASE CodexAttach
  <2>1. launch.session \in Sessions /\ launch # None
    BY <1>2, <1>3 DEF CodexAttach
  <2>2. CASE launch.then = "new"
    <3>1. RegisterOnLaunch("codex", launch.session, launch.role)
      BY <1>3, <2>2 DEF CodexAttach
    <3> QED BY <1>1, <2>1, <3>1, RegisterTypes
         DEF GateInv, GraphTypeOK, BlockedOnlyUnderReview, ReviewingHasRound
  <2>3. CASE launch.then # "new" /\ owner[launch.session] # None
    <3>1. ResumeSession(launch.session)
      BY <1>3, <2>3 DEF CodexAttach
    <3> QED BY <1>1, <2>1, <2>3, <3>1, ResumeTypes
         DEF GateInv, GraphTypeOK, BlockedOnlyUnderReview, ReviewingHasRound
  <2>4. CASE launch.then # "new" /\ owner[launch.session] = None
    <3>1. UNCHANGED <<active, session, owner>>
      BY <1>3, <2>4 DEF CodexAttach
    <3> QED BY <1>1, <3>1 DEF GateInv, GraphTypeOK, BlockedOnlyUnderReview, ReviewingHasRound
  <2> QED BY <2>2, <2>3, <2>4
<1>4. CASE Register
  <2>1. launch.session \in Sessions /\ launch # None
    BY <1>2, <1>4 DEF Register
  <2>2. CASE launch.then = "attach"
    <3>1. RegisterOnLaunch(launch.agent, launch.session, launch.role)
      BY <1>4, <2>2 DEF Register
    <3> QED BY <1>1, <2>1, <3>1, RegisterTypes
         DEF GateInv, GraphTypeOK, BlockedOnlyUnderReview, ReviewingHasRound
  <2>3. CASE launch.then # "attach"
    <3>1. ResumeSession(launch.session) /\ owner[launch.session] # None
      BY <1>4, <2>1, <2>3 DEF Register, LaunchTypeOK, At
    <3> QED BY <1>1, <2>1, <3>1, ResumeTypes
         DEF GateInv, GraphTypeOK, BlockedOnlyUnderReview, ReviewingHasRound
  <2> QED BY <2>2, <2>3
<1>5. ASSUME NEW s \in Sessions, AttachKnown(s) PROVE GateInv'
  <2>1. ResumeSession(s) /\ owner[s] # None
    BY <1>5 DEF AttachKnown
  <2> QED BY <1>1, <2>1, ResumeTypes
       DEF GateInv, GraphTypeOK, BlockedOnlyUnderReview, ReviewingHasRound
<1> QED BY <1>3, <1>4, <1>5

\* One step of the system keeps the gate's invariant.
LEMMA GateStep ==
  ASSUME GateInv, LaunchTypeOK, [Next]_vars
  PROVE  GateInv'
<1>1. CASE UNCHANGED <<graphVars, blocked>>
  BY <1>1 DEF GateInv, GraphTypeOK, BlockedOnlyUnderReview, ReviewingHasRound, graphVars
<1>2. ASSUME NEW t \in Tasks, CreateTask(t) PROVE GateInv'
  BY <1>2 DEF CreateTask, GateInv, GraphTypeOK, BlockedOnlyUnderReview, ReviewingHasRound
<1>3. ASSUME NEW t \in Tasks \cup {None}, SelectTask(t) PROVE GateInv'
  BY <1>3 DEF SelectTask, GateInv, GraphTypeOK, BlockedOnlyUnderReview, ReviewingHasRound
<1> QED BY <1>1, <1>2, <1>3, GatePrepare, GateObserve, GateApprove, GateSessions,
           OthersLeaveGraph DEF GraphAction

----------------------------------------------------------------------------
(* Agents and connections *)

\* Only these actions change what the daemon knows of agents and connections.
AgentAction ==
  \/ \E a \in Agents, r \in AgentRoles : SetRole(a, r)
  \/ \E a \in Agents : Stop(a)
  \/ \E l \in Launches, c \in Sessions : Launch(l, c)
  \/ ForceDisconnect \/ LaunchFails \/ SdkConnect \/ SdkReady \/ CodexAttach \/ ForceClear
  \/ \E c \in Conns : Peer(c)
  \/ \E c \in BridgeConns : BridgeAttach(c) \/ BridgeRejected(c) \/ BridgeCleanup(c)
  \/ \E c \in SdkConns : SdkCleanup(c)
  \/ \E c \in CodexConns : CodexEnds(c)

\* Routing, buffering and task commands leave what is known of the agents alone.
LEMMA OthersLeaveAgents ==
  ASSUME [Next]_vars
  PROVE  AgentAction \/ UNCHANGED agentVars
<1>1. ASSUME NEW x \in Threads, Step(x) PROVE UNCHANGED agentVars
  BY <1>1 DEF Step, Stamp, Prepare, Choose, Send, SendFails, Observe, ReplayOne, ReplayFails,
              ReplayDone
<1>2. CASE UserCommand
  <2>1. ASSUME NEW target \in Targets, SendUserInput(target) PROVE UNCHANGED agentVars
    BY <2>1 DEF SendUserInput
  <2>2. ASSUME NEW t, CreateTask(t) \/ SelectTask(t) PROVE UNCHANGED agentVars
    BY <2>2 DEF CreateTask, SelectTask
  <2>3. ApproveReview => UNCHANGED agentVars
    BY DEF ApproveReview, Approve
  <2>4. ASSUME NEW s \in Sessions, AttachKnown(s) PROVE UNCHANGED agentVars
    BY <2>4 DEF AttachKnown
  <2>5. ASSUME NEW ch \in RoleChanges, SetRole(ch.agent, ch.role) PROVE AgentAction
    BY <2>5, RoutingAssumption DEF AgentAction
  <2> QED BY <1>2, <2>1, <2>2, <2>3, <2>4, <2>5 DEF UserCommand, AgentAction
<1>3. CASE DaemonStep
  <2>1. Register => UNCHANGED agentVars
    BY DEF Register
  <2> QED BY <1>1, <1>3, <2>1 DEF DaemonStep, AgentAction, Threads
<1>4. ASSUME NEW c \in BridgeConns, BridgeNext(c) PROVE AgentAction \/ UNCHANGED agentVars
  <2>1. BridgeReply(c) => UNCHANGED agentVars
    BY DEF BridgeReply, Reply
  <2> QED BY <1>4, <2>1 DEF BridgeNext, AgentAction
<1>5. ASSUME NEW c \in SdkConns, SdkResult(c) \/ SdkCleanup(c)
      PROVE  AgentAction \/ UNCHANGED agentVars
  BY <1>5 DEF SdkResult, Reply, AgentAction
<1>6. ASSUME NEW c \in CodexConns, CodexNext(c) PROVE AgentAction \/ UNCHANGED agentVars
  <2>1. CodexReply(c) \/ CheckMessages(c) \/ CheckTake(c) \/ CodexCancelled(c) => UNCHANGED agentVars
    BY DEF CodexReply, Reply, CheckMessages, CheckTake, CodexCancelled
  <2> QED BY <1>6, <2>1 DEF CodexNext, AgentAction
<1>7. CASE UNCHANGED vars
  BY <1>7 DEF vars
<1>8. CASE SdkConnect
  BY <1>8 DEF AgentAction
<1>9. ASSUME NEW c \in Conns, Step(c) \/ Peer(c) PROVE AgentAction \/ UNCHANGED agentVars
  BY <1>1, <1>9 DEF AgentAction, Threads
<1> QED BY <1>2, <1>3, <1>4, <1>5, <1>6, <1>7, <1>8, <1>9 DEF Next

\* Stopping an agent's session keeps the types.
LEMMA StoppedTypes ==
  ASSUME AgentTypeOK, NEW a \in Agents, Stopped(a)
  PROVE  /\ link' \in [Conns -> {"new", "open", "full", "down", "refused", "gone"}]
         /\ connection' \in [Agents -> Sessions \cup {None}]
         /\ sdk' \in SdkConns \cup {None} /\ inject' \in CodexConns \cup {None}
         /\ \A c \in Conns : link'[c] = "new" <=> link[c] = "new"
  BY DEF Stopped, AgentTypeOK

\* Every step keeps the types of the agents, connections and seats.
LEMMA AgentStep ==
  ASSUME AgentTypeOK, LaunchTypeOK, [Next]_vars
  PROVE  AgentTypeOK'
<1> USE DEF AgentTypeOK
<1>1. CASE UNCHANGED agentVars
  BY <1>1 DEF agentVars
<1>2. ASSUME NEW a \in Agents, NEW r \in AgentRoles, SetRole(a, r) PROVE AgentTypeOK'
  BY <1>2 DEF SetRole
<1>3. ASSUME NEW a \in Agents, Stop(a) PROVE AgentTypeOK'
  BY <1>3, StoppedTypes DEF Stop
<1>4. ASSUME NEW l \in Launches, NEW c \in Sessions, Launch(l, c) PROVE AgentTypeOK'
  <2>1. l.agent \in Agents
    BY RoutingAssumption
  <2> QED BY <1>4, <2>1, StoppedTypes DEF Launch
<1>5. CASE ForceDisconnect \/ ForceClear
  BY <1>5 DEF ForceDisconnect, ForceClear, Agents
<1>6. launch # None => /\ launch.session \in Sessions /\ launch.role \in AgentRoles
                       /\ thread[Daemon].arg \in Sessions
  BY DEF LaunchTypeOK, ConnsOf, Sessions
<1>7. At(Daemon, "await") => launch # None
  BY DEF LaunchTypeOK, At
<1>8. CASE LaunchFails \/ SdkConnect
  BY <1>6, <1>7, <1>8 DEF LaunchFails, SdkConnect, Conns, Sessions
<1>9. CASE SdkReady
  BY <1>6, <1>7, <1>9 DEF SdkReady, Agents
<1>10. CASE CodexAttach
  <2>1. /\ launch.session \in Sessions /\ launch.role \in AgentRoles
        /\ thread[Daemon].arg \in CodexConns
    BY <1>6, <1>7, <1>10 DEF CodexAttach
  <2>2. link' \in [Conns -> {"new", "open", "full", "down", "refused", "gone"}]
    BY <1>10, <2>1 DEF CodexAttach, Conns
  <2>3. role' \in [Agents -> AgentRoles] /\ connection' \in [Agents -> Sessions \cup {None}]
    BY <1>10, <2>1 DEF CodexAttach, Agents
  <2>4. seat' \in [CodexConns -> AgentRoles \cup {None}] /\ inject' \in CodexConns \cup {None}
    BY <1>10, <2>1 DEF CodexAttach
  <2> QED BY <1>10, <2>2, <2>3, <2>4 DEF CodexAttach
<1>11. ASSUME NEW c \in Conns, Peer(c) PROVE AgentTypeOK'
  BY <1>11 DEF Peer, PeerCloses, Fills, Drains
<1>12. ASSUME NEW c \in BridgeConns, BridgeAttach(c) \/ BridgeRejected(c) \/ BridgeCleanup(c)
       PROVE  AgentTypeOK'
  BY <1>12 DEF BridgeAttach, BridgeRejected, BridgeCleanup, Conns, Agents
<1>13. ASSUME NEW c \in SdkConns, SdkCleanup(c) PROVE AgentTypeOK'
  BY <1>13 DEF SdkCleanup, Conns
<1>14. ASSUME NEW c \in CodexConns, CodexEnds(c) PROVE AgentTypeOK'
  BY <1>14 DEF CodexEnds, Conns, Agents
<1> QED BY <1>1, <1>2, <1>3, <1>4, <1>5, <1>8, <1>9, <1>10, <1>11, <1>12, <1>13, <1>14,
           OthersLeaveAgents DEF AgentAction

----------------------------------------------------------------------------
(* The command loop and its launch *)

\* The other threads' steps leave the command loop where it is, and it routes and
\* replays without touching what it knows of the launch until the replay is over.
LaunchSame ==
  /\ launch' = launch
  /\ \/ thread'[Daemon].pc = thread[Daemon].pc /\ thread'[Daemon].arg = thread[Daemon].arg
     \/ launch = None /\ thread'[Daemon].pc \notin {"await", "replay", "register"}

ThreadTypeOK ==
  /\ DOMAIN thread = Threads
  /\ \A x \in Threads : thread[x] = Thread(thread[x].pc, thread[x].msg, thread[x].arg, thread[x].todo)
  /\ \A x \in Conns : thread[x].pc \notin {"await", "register"}

\* A step of a routing thread keeps the threads' records, and ends a launch only
\* together with the replay it belongs to.
LEMMA ThreadStep ==
  ASSUME LaunchTypeOK, NEW x \in Threads, Step(x)
  PROVE  /\ ThreadTypeOK'
         /\ LaunchSame \/ (x = Daemon /\ ReplayDone(Daemon))
<1> USE DEF LaunchTypeOK, ThreadTypeOK, LaunchSame, Become, Go, Replays, Thread, Idle, At, Threads
<1> Daemon \notin Conns
  BY RoutingAssumption
<1>1. CASE Stamp(x)
  BY <1>1 DEF Stamp
<1>2. CASE Prepare(x)
  BY <1>2 DEF Prepare, Proceed
<1>3. CASE Choose(x)
  BY <1>3 DEF Choose, Proceed
<1>4. CASE Send(x)
  BY <1>4 DEF Send
<1>5. CASE SendFails(x)
  BY <1>5 DEF SendFails, Proceed
<1>6. CASE Observe(x)
  BY <1>6 DEF Observe, Proceed
<1>7. CASE ReplayOne(x)
  BY <1>7 DEF ReplayOne
<1>8. CASE ReplayFails(x)
  BY <1>8 DEF ReplayFails
<1>9. CASE ReplayDone(x)
  BY <1>9 DEF ReplayDone
<1> QED BY <1>1, <1>2, <1>3, <1>4, <1>5, <1>6, <1>7, <1>8, <1>9 DEF Step

\* A session once registered stays registered.
LEMMA OwnerGrows ==
  ASSUME GraphTypeOK, LaunchTypeOK, [Next]_vars, NEW s \in Sessions, owner[s] # None
  PROVE  owner'[s] # None
<1>1. CASE UNCHANGED owner
  BY <1>1
<1>2. ASSUME NEW q, NEW a, NEW r, RegisterOnLaunch(a, q, r) PROVE owner'[s] # None
  <2>1. CASE active = None
    BY <1>2, <2>1 DEF RegisterOnLaunch
  <2>2. CASE active # None
    <3>1. [task |-> active, role |-> SlotOf(a, r)] \in [task : Tasks, role : {"lead", "coder"}]
      BY <2>2 DEF GraphTypeOK, SlotOf
    <3> QED BY <1>2, <2>2, <3>1, RoutingAssumption DEF RegisterOnLaunch, GraphTypeOK
  <2> QED BY <2>1, <2>2
<1>3. CASE CodexAttach \/ Register
  BY <1>1, <1>2, <1>3 DEF CodexAttach, Register, ResumeSession
<1>4. ASSUME NEW q \in Sessions, AttachKnown(q) PROVE owner'[s] # None
  BY <1>1, <1>4 DEF AttachKnown, ResumeSession
<1>5. ASSUME NEW x \in Threads, Prepare(x) \/ Observe(x) PROVE owner'[s] # None
  BY <1>1, <1>5 DEF Prepare, Observe, graphVars
<1>6. ASSUME NEW t, CreateTask(t) \/ SelectTask(t) PROVE owner'[s] # None
  BY <1>1, <1>6 DEF CreateTask, SelectTask
<1>7. CASE ApproveReview
  BY <1>1, <1>7 DEF ApproveReview, Approve
<1> QED BY <1>1, <1>3, <1>4, <1>5, <1>6, <1>7, OthersLeaveGraph DEF GraphAction, graphVars

\* Whatever a connection's thread does, the command loop and its launch stay as they are.
LEMMA ConnThread ==
  ASSUME LaunchTypeOK, NEW c \in Conns, NEW th, Become(c, th),
         th = Thread(th.pc, th.msg, th.arg, th.todo), th.pc \notin {"await", "register"},
         UNCHANGED launch
  PROVE  ThreadTypeOK' /\ LaunchSame
<1> Daemon \notin Conns
  BY RoutingAssumption
<1> QED BY DEF LaunchTypeOK, ThreadTypeOK, LaunchSame, Become, Threads

\* Connections keep their threads' records and never await or register a launch.
LEMMA Connections ==
  ASSUME LaunchTypeOK,
         \/ \E c \in Conns : Step(c) \/ Peer(c)
         \/ \E c \in BridgeConns : BridgeNext(c)
         \/ \E c \in SdkConns : SdkResult(c) \/ SdkCleanup(c)
         \/ \E c \in CodexConns : CodexNext(c)
  PROVE  ThreadTypeOK' /\ LaunchSame
<1>1. CASE UNCHANGED <<thread, launch>>
  BY <1>1 DEF LaunchTypeOK, ThreadTypeOK, LaunchSame
<1>2. ASSUME NEW c \in Conns, NEW from, NEW reply, NEW pc, pc \in {"stamp", "prepare"},
             Reply(c, from, reply, pc)
      PROVE  ThreadTypeOK' /\ LaunchSame
  BY <1>2, ConnThread DEF Reply, Thread
<1>3. ASSUME NEW c \in Conns, Step(c) PROVE ThreadTypeOK' /\ LaunchSame
  BY <1>3, ThreadStep, RoutingAssumption DEF Threads
<1>4. ASSUME NEW c \in BridgeConns, BridgeNext(c) PROVE ThreadTypeOK' /\ LaunchSame
  <2>1. CASE BridgeAttach(c)
    BY <2>1, ConnThread DEF BridgeAttach, Thread, Conns
  <2>2. CASE BridgeReply(c)
    BY <1>2, <2>2 DEF BridgeReply, Conns
  <2>3. CASE BridgeRejected(c) \/ BridgeCleanup(c)
    BY <1>1, <2>3 DEF BridgeRejected, BridgeCleanup
  <2> QED BY <1>4, <2>1, <2>2, <2>3 DEF BridgeNext
<1>5. ASSUME NEW c \in SdkConns, SdkResult(c) \/ SdkCleanup(c) PROVE ThreadTypeOK' /\ LaunchSame
  BY <1>1, <1>2, <1>5 DEF SdkResult, SdkCleanup, Conns
<1>6. ASSUME NEW c \in CodexConns, CodexNext(c) PROVE ThreadTypeOK' /\ LaunchSame
  <2>1. CASE CodexReply(c)
    BY <1>2, <2>1 DEF CodexReply, Conns
  <2>2. CASE CheckMessages(c)
    BY <2>2, ConnThread DEF CheckMessages, Thread, Conns
  <2>3. CASE CheckTake(c) \/ CodexCancelled(c)
    BY <2>3, ConnThread DEF CheckTake, CodexCancelled, Thread, Idle, Conns
  <2>4. CASE CodexEnds(c)
    BY <1>1, <2>4 DEF CodexEnds
  <2> QED BY <1>6, <2>1, <2>2, <2>3, <2>4 DEF CodexNext
<1>7. ASSUME NEW c \in Conns, Peer(c) PROVE ThreadTypeOK' /\ LaunchSame
  BY <1>1, <1>7 DEF Peer, PeerCloses, Fills, Drains
<1> QED BY <1>3, <1>4, <1>5, <1>6, <1>7

\* The actions that start, advance or end a launch.
LaunchAction ==
  \/ \E l \in Launches, c \in Sessions : Launch(l, c)
  \/ LaunchFails \/ SdkReady \/ CodexAttach \/ Register
  \/ ReplayDone(Daemon)

\* Everything else leaves the launch alone.
LEMMA OthersLeaveLaunch ==
  ASSUME LaunchTypeOK, [Next]_vars
  PROVE  LaunchAction \/ (ThreadTypeOK' /\ LaunchSame)
<1> Daemon \notin Conns
  BY RoutingAssumption
<1>1. ASSUME UNCHANGED <<thread, launch>> PROVE ThreadTypeOK' /\ LaunchSame
  BY <1>1 DEF LaunchTypeOK, ThreadTypeOK, LaunchSame
<1>2. ASSUME thread[Daemon] = Idle, UNCHANGED launch, NEW list, Proceed(Daemon, list)
      PROVE  ThreadTypeOK' /\ LaunchSame
  <2>1. \/ thread' = [thread EXCEPT ![Daemon] = Idle]
        \/ thread' = [thread EXCEPT ![Daemon] = Thread("prepare", Head(list), None, Tail(list))]
    BY <1>2 DEF Proceed, Become
  <2> QED BY <1>2, <2>1
      DEF LaunchTypeOK, ThreadTypeOK, LaunchSame, Thread, Idle, Threads
<1>3. CASE UserCommand
  <2>1. ASSUME NEW target \in Targets, SendUserInput(target) PROVE ThreadTypeOK' /\ LaunchSame
    BY <1>2, <2>1 DEF SendUserInput
  <2>2. CASE ApproveReview
    BY <1>2, <2>2 DEF ApproveReview, Approve
  <2>3. ASSUME NEW t, CreateTask(t) \/ SelectTask(t) PROVE ThreadTypeOK' /\ LaunchSame
    BY <1>1, <2>3 DEF CreateTask, SelectTask
  <2>4. ASSUME NEW a, NEW r, SetRole(a, r) \/ Stop(a) PROVE ThreadTypeOK' /\ LaunchSame
    BY <1>1, <2>4 DEF SetRole, Stop
  <2>5. ASSUME NEW s \in Sessions, AttachKnown(s) PROVE ThreadTypeOK' /\ LaunchSame
    BY <1>1, <2>5 DEF AttachKnown
  <2>6. CASE ForceDisconnect
    BY <2>6, RoutingAssumption
    DEF ForceDisconnect, LaunchTypeOK, ThreadTypeOK, LaunchSame, Become, Thread, Idle, Threads
  <2> QED BY <1>3, <2>1, <2>2, <2>3, <2>4, <2>5, <2>6 DEF UserCommand, LaunchAction
<1>4. CASE DaemonStep
  <2>1. CASE ForceClear
    BY <2>1, RoutingAssumption
    DEF ForceClear, LaunchTypeOK, ThreadTypeOK, LaunchSame, Become, Thread, Idle, Threads, At
  <2> QED BY <1>4, <2>1, ThreadStep DEF DaemonStep, LaunchAction, Threads
<1>5. CASE SdkConnect
  BY <1>1, <1>5 DEF SdkConnect
<1>6. CASE UNCHANGED vars
  BY <1>1, <1>6 DEF vars
<1> QED BY <1>3, <1>4, <1>5, <1>6, Connections DEF Next

\* What the sessions need besides their types: a session not launched yet is
\* registered nowhere, and a launch for a new session has its own.
FreshSessions ==
  /\ \A s \in Sessions : owner[s] # None => link[s] # "new"
  /\ launch # None =>
       /\ launch.then \in {"new", "attach"} => launch.session = thread[Daemon].arg
       /\ thread[Daemon].pc # "await" => link[thread[Daemon].arg] # "new"
       /\ launch.then = "attach" => owner[launch.session] = None
       /\ launch.then = "new" /\ thread[Daemon].pc = "await" => owner[launch.session] = None

\* A launch that starts is well-formed, and one that asks for a new session asks for
\* one that no task owns: its connection is unused.
LEMMA LaunchStart ==
  ASSUME TypeOK, FreshSessions, NEW l \in Launches, NEW c \in Sessions, Launch(l, c)
  PROVE  LaunchTypeOK' /\ FreshSessions'
<1> Daemon \notin Conns
  BY RoutingAssumption
<1>1. l \in [agent : Agents, role : AgentRoles, then : Then]
  BY RoutingAssumption
<1>2. thread[Daemon] = Idle /\ launch = None /\ c \in ConnsOf(l.agent) /\ link[c] = "new" /\ c \in Conns
  BY DEF Launch, TypeOK, LaunchTypeOK, Idle, Thread, Sessions, Conns
<1>3. UNCHANGED owner
  BY DEF Launch, graphVars
<1>4. \A x \in Conns : link'[x] = "new" <=> link[x] = "new"
  BY <1>1, StoppedTypes DEF Launch, TypeOK
<1>5. \A s \in Sessions : owner'[s] # None => link'[s] # "new"
  BY <1>3, <1>4 DEF FreshSessions, Sessions, Conns
<1>6. CASE UNCHANGED <<launch, thread>>
  BY <1>2, <1>3, <1>5, <1>6 DEF TypeOK, LaunchTypeOK, FreshSessions
<1>7. ASSUME NEW s \in Asked(l, c),
             launch' = [agent |-> l.agent, role |-> l.role, then |-> l.then, session |-> s],
             Become(Daemon, Thread("await", None, c, <<>>))
      PROVE  LaunchTypeOK' /\ FreshSessions'
  <2>1. /\ s \in Sessions
        /\ l.then \in {"new", "attach"} => s = c
        /\ l.then = "resume" => owner[s] # None
    BY <1>1, <1>7 DEF Asked, Registered, ConnsOf, Sessions, Then
  <2>2. launch' \in [agent : Agents, role : AgentRoles, then : Then, session : Sessions]
    BY <1>1, <1>7, <2>1
  <2>3. launch' # None
    BY <2>2, RoutingAssumption
  <2>4. thread' = [thread EXCEPT ![Daemon] = Thread("await", None, c, <<>>)]
    BY <1>7 DEF Become
  <2>5. LaunchTypeOK'
    <3>1. ThreadTypeOK'
      BY <2>4 DEF ThreadTypeOK, TypeOK, LaunchTypeOK, Thread, Threads
    <3>2. thread'[Daemon] = Thread("await", None, c, <<>>)
      BY <2>4 DEF TypeOK, LaunchTypeOK, Threads
    <3>3. launch'.agent = l.agent /\ launch'.then = l.then /\ launch'.session = s
      BY <1>7
    <3> QED BY <1>2, <1>3, <2>1, <2>2, <2>3, <3>1, <3>2, <3>3
         DEF LaunchTypeOK, ThreadTypeOK, Thread, ConnsOf
  <2>6. FreshSessions'
    <3>1. thread'[Daemon].pc = "await" /\ thread'[Daemon].arg = c
      BY <2>4 DEF TypeOK, LaunchTypeOK, Threads, Thread
    <3>2. launch'.then = l.then /\ launch'.session = s
      BY <1>7
    <3>3. owner'[c] = None
      BY <1>2, <1>3 DEF FreshSessions
    <3> QED BY <1>5, <2>1, <3>1, <3>2, <3>3 DEF FreshSessions
  <2> QED BY <2>5, <2>6
<1> QED BY <1>6, <1>7 DEF Launch

\* A connection once used stays used.
LEMMA UsedStaysUsed ==
  ASSUME TypeOK, [Next]_vars, NEW c \in Conns, link[c] # "new"
  PROVE  link'[c] # "new"
<1> USE DEF TypeOK, AgentTypeOK
<1>1. CASE UNCHANGED link
  BY <1>1
<1>2. ASSUME NEW l \in Launches, NEW d \in Sessions, Launch(l, d) PROVE link'[c] # "new"
  BY <1>2, StoppedTypes, RoutingAssumption DEF Launch
<1>3. ASSUME NEW a \in Agents, Stop(a) PROVE link'[c] # "new"
  BY <1>3, StoppedTypes DEF Stop
<1>4. CASE LaunchFails \/ SdkConnect \/ CodexAttach
  BY <1>4 DEF LaunchFails, SdkConnect, CodexAttach
<1>5. ASSUME NEW d \in Conns,
             \/ Peer(d) \/ BridgeAttach(d) \/ BridgeRejected(d) \/ BridgeCleanup(d)
             \/ SdkCleanup(d) \/ CodexEnds(d)
      PROVE  link'[c] # "new"
  BY <1>5 DEF Peer, PeerCloses, Fills, Drains, BridgeAttach, BridgeRejected, BridgeCleanup, SdkCleanup,
         CodexEnds
<1>6. ASSUME NEW a, NEW r, SetRole(a, r) PROVE UNCHANGED link
  BY <1>6 DEF SetRole
<1>7. CASE ForceDisconnect \/ ForceClear \/ SdkReady
  BY <1>1, <1>7 DEF ForceDisconnect, ForceClear, SdkReady
<1> QED BY <1>1, <1>2, <1>3, <1>4, <1>5, <1>6, <1>7, OthersLeaveAgents
        DEF AgentAction, agentVars, Conns

\* Outside a launch only sessions of the graph are taken up: none is registered.
LEMMA OwnerSame ==
  ASSUME TypeOK, [Next]_vars, ~CodexAttach, ~Register
  PROVE  UNCHANGED owner
<1>1. ASSUME NEW x \in Threads, Prepare(x) \/ Observe(x) PROVE UNCHANGED owner
  BY <1>1 DEF Prepare, Observe, graphVars
<1>2. ASSUME NEW t, CreateTask(t) \/ SelectTask(t) PROVE UNCHANGED owner
  BY <1>2 DEF CreateTask, SelectTask
<1>3. CASE ApproveReview
  BY <1>3 DEF ApproveReview, Approve
<1>4. ASSUME NEW s \in Sessions, AttachKnown(s) PROVE UNCHANGED owner
  BY <1>4 DEF AttachKnown, ResumeSession
<1> QED BY <1>1, <1>2, <1>3, <1>4, OthersLeaveGraph DEF GraphAction, graphVars

\* Every step keeps the launch well-formed, and what is known of fresh sessions.
LEMMA LaunchSteps ==
  ASSUME TypeOK, FreshSessions, [Next]_vars
  PROVE  LaunchTypeOK' /\ FreshSessions'
<1> Daemon \notin Conns
  BY RoutingAssumption
<1> DEFINE loop == thread[Daemon]
<1>1. launch # None => loop.arg \in Conns /\ launch.session \in Sessions
  BY DEF TypeOK, LaunchTypeOK, ConnsOf, Conns, Sessions
<1>2. ASSUME ThreadTypeOK', UNCHANGED owner, launch' = None,
             thread'[Daemon].pc \notin {"await", "replay", "register"}
      PROVE  LaunchTypeOK' /\ FreshSessions'
  BY <1>2, UsedStaysUsed DEF ThreadTypeOK, LaunchTypeOK, FreshSessions, Sessions, Conns
<1>3. CASE LaunchFails
  <2>1. At(Daemon, "await") /\ launch' = None /\ Become(Daemon, Idle) /\ UNCHANGED owner
    BY <1>3 DEF LaunchFails, graphVars
  <2> QED BY <1>2, <2>1 DEF TypeOK, LaunchTypeOK, ThreadTypeOK, Become, Thread, Idle, Threads
<1>4. CASE SdkReady
  <2>1. /\ loop.pc = "await" /\ launch # None /\ link[loop.arg] # "new"
        /\ UNCHANGED <<owner, link>>
    BY <1>4 DEF SdkReady, TypeOK, LaunchTypeOK, At, graphVars
  <2>2. CASE launch.then \in {"attach", "resume"}
    <3>1. UNCHANGED launch /\ thread' = [thread EXCEPT ![Daemon] = Thread("register", None, loop.arg, <<>>)]
      BY <1>4, <2>2 DEF SdkReady, Become
    <3>2. ThreadTypeOK' /\ thread'[Daemon].pc = "register" /\ thread'[Daemon].arg = loop.arg
      BY <3>1 DEF TypeOK, LaunchTypeOK, ThreadTypeOK, Thread, Threads
    <3> QED BY <2>1, <2>2, <3>1, <3>2 DEF TypeOK, LaunchTypeOK, ThreadTypeOK, FreshSessions, ConnsOf
  <2>3. CASE launch.then \notin {"attach", "resume"}
    <3>1. launch' = None /\ thread' = [thread EXCEPT ![Daemon] = Idle]
      BY <1>4, <2>3 DEF SdkReady, Become
    <3>2. ThreadTypeOK' /\ thread'[Daemon].pc = "idle"
      BY <3>1 DEF TypeOK, LaunchTypeOK, ThreadTypeOK, Thread, Idle, Threads
    <3> QED BY <1>2, <2>1, <3>1, <3>2
  <2> QED BY <2>2, <2>3
<1>5. CASE CodexAttach
  <2>1. /\ loop.pc = "await" /\ launch # None /\ loop.arg \in CodexConns /\ UNCHANGED launch
        /\ thread' = [thread EXCEPT ![Daemon] =
                        Thread("replay", None, loop.arg, Taken(launch.role, None))]
        /\ link' \in {[link EXCEPT ![loop.arg] = v] : v \in {"open", "gone"}}
    BY <1>5 DEF CodexAttach, TypeOK, LaunchTypeOK, At, Become
  <2>2. ThreadTypeOK' /\ thread'[Daemon].pc = "replay" /\ thread'[Daemon].arg = loop.arg
    BY <2>1 DEF TypeOK, LaunchTypeOK, ThreadTypeOK, Thread, Threads
  <2>3. link'[loop.arg] # "new"
    BY <1>1, <2>1 DEF TypeOK, AgentTypeOK
  <2>4. launch.then = "resume" => owner'[launch.session] # None
    BY <1>1, <2>1, OwnerGrows DEF TypeOK, LaunchTypeOK
  <2>5. /\ launch.then = "attach" => owner'[launch.session] = None
        /\ \A s \in Sessions : owner'[s] # None =>
             owner[s] # None \/ (launch.then = "new" /\ s = launch.session)
    BY <1>1, <1>5, <2>1
    DEF CodexAttach, RegisterOnLaunch, ResumeSession, FreshSessions, TypeOK, GraphTypeOK
  <2>6. \A s \in Sessions : owner'[s] # None => link'[s] # "new"
    BY <2>1, <2>3, <2>5, UsedStaysUsed DEF FreshSessions, Sessions, Conns
  <2>7. LaunchTypeOK'
    BY <2>1, <2>2, <2>4 DEF TypeOK, LaunchTypeOK, ThreadTypeOK, ConnsOf
  <2> QED BY <2>1, <2>2, <2>3, <2>5, <2>6, <2>7 DEF FreshSessions
<1>6. CASE Register
  <2>1. loop.pc = "register" /\ launch # None /\ launch' = None
        /\ thread' = [thread EXCEPT ![Daemon] = Idle] /\ UNCHANGED link
    BY <1>6 DEF Register, TypeOK, LaunchTypeOK, At, Become, agentVars
  <2>2. ThreadTypeOK' /\ thread'[Daemon].pc = "idle"
    BY <2>1 DEF TypeOK, LaunchTypeOK, ThreadTypeOK, Thread, Idle, Threads
  <2>3. \A s \in Sessions : owner'[s] # None =>
          owner[s] # None \/ (launch.then = "attach" /\ s = launch.session)
    BY <1>1, <1>6, <2>1 DEF Register, RegisterOnLaunch, ResumeSession, TypeOK, GraphTypeOK
  <2>4. \A s \in Sessions : owner'[s] # None => link'[s] # "new"
    BY <2>1, <2>3 DEF FreshSessions
  <2> QED BY <2>1, <2>2, <2>4 DEF LaunchTypeOK, ThreadTypeOK, FreshSessions
<1>7. CASE ReplayDone(Daemon)
  <2>1. loop.pc = "replay" /\ launch # None /\ UNCHANGED <<owner, link>>
    BY <1>7 DEF ReplayDone, TypeOK, LaunchTypeOK, At, graphVars, agentVars
  <2>2. CASE launch.then = "attach"
    <3>1. UNCHANGED launch /\ thread' = [thread EXCEPT ![Daemon] = Thread("register", None, loop.arg, <<>>)]
      BY <1>7, <2>2 DEF ReplayDone, Become
    <3>2. ThreadTypeOK' /\ thread'[Daemon].pc = "register" /\ thread'[Daemon].arg = loop.arg
      BY <3>1 DEF TypeOK, LaunchTypeOK, ThreadTypeOK, Thread, Threads
    <3> QED BY <2>1, <2>2, <3>1, <3>2 DEF TypeOK, LaunchTypeOK, ThreadTypeOK, FreshSessions, ConnsOf
  <2>3. CASE launch.then # "attach"
    <3>1. launch' = None /\ thread' = [thread EXCEPT ![Daemon] = Idle]
      BY <1>7, <2>3 DEF ReplayDone, Become
    <3>2. ThreadTypeOK' /\ thread'[Daemon].pc = "idle"
      BY <3>1 DEF TypeOK, LaunchTypeOK, ThreadTypeOK, Thread, Idle, Threads
    <3> QED BY <1>2, <2>1, <3>1, <3>2
  <2> QED BY <2>2, <2>3
<1>8. ASSUME ThreadTypeOK', LaunchSame, UNCHANGED owner PROVE LaunchTypeOK' /\ FreshSessions'
  <2>1. CASE launch = None
    BY <1>8, <2>1, UsedStaysUsed
    DEF TypeOK, LaunchTypeOK, ThreadTypeOK, LaunchSame, FreshSessions, Sessions, Conns
  <2>2. CASE launch # None
    <3>1. thread'[Daemon].pc = loop.pc /\ thread'[Daemon].arg = loop.arg /\ UNCHANGED launch
      BY <1>8, <2>2 DEF LaunchSame
    <3>2. LaunchTypeOK'
      BY <1>8, <2>2, <3>1 DEF TypeOK, LaunchTypeOK, ThreadTypeOK, ConnsOf
    <3>3. \A s \in Sessions : owner'[s] # None => link'[s] # "new"
      BY <1>8, UsedStaysUsed DEF FreshSessions, Sessions, Conns
    <3> QED BY <1>1, <1>8, <2>2, <3>1, <3>2, <3>3, UsedStaysUsed DEF FreshSessions
  <2> QED BY <2>1, <2>2
<1> QED BY <1>3, <1>4, <1>5, <1>6, <1>7, <1>8, LaunchStart, OthersLeaveLaunch, OwnerSame
        DEF LaunchAction, TypeOK

----------------------------------------------------------------------------
(* The sessions tasks point at *)

\* Resuming points a task back at a session it owns already.
LEMMA ResumeKeepsPointers ==
  ASSUME GraphTypeOK, PointersOwnTheirSessions, NEW s \in Sessions, owner[s] # None,
         ResumeSession(s)
  PROVE  PointersOwnTheirSessions'
<1>1. owner[s] \in [task : Tasks, role : {"lead", "coder"}]
  BY DEF GraphTypeOK
<1>2. owner[s] = [task |-> owner[s].task, role |-> owner[s].role]
  BY <1>1
<1> QED BY <1>1, <1>2 DEF ResumeSession, GraphTypeOK, PointersOwnTheirSessions

\* Registering is safe because the session registered belongs to no task yet.
LEMMA RegisterKeepsPointers ==
  ASSUME GraphTypeOK, PointersOwnTheirSessions, NEW s \in Sessions, owner[s] = None,
         NEW a, NEW r, RegisterOnLaunch(a, s, r)
  PROVE  PointersOwnTheirSessions'
<1>1. SlotOf(a, r) \in {"lead", "coder"}
  BY DEF SlotOf
<1>2. CASE active = None
  BY <1>2 DEF RegisterOnLaunch, PointersOwnTheirSessions
<1>3. CASE active # None
  <2>1. /\ active \in Tasks
        /\ session' = [session EXCEPT ![active][SlotOf(a, r)] = s]
        /\ owner' = [owner EXCEPT ![s] = [task |-> active, role |-> SlotOf(a, r)]]
    BY <1>3 DEF RegisterOnLaunch, GraphTypeOK
  <2>2. SUFFICES ASSUME NEW t \in Tasks, NEW q \in {"lead", "coder"}, session'[t][q] # None
                 PROVE  owner'[session'[t][q]] = [task |-> t, role |-> q]
    BY DEF PointersOwnTheirSessions
  <2>3. CASE t = active /\ q = SlotOf(a, r)
    BY <1>1, <2>1, <2>3 DEF GraphTypeOK
  <2>4. CASE ~(t = active /\ q = SlotOf(a, r))
    <3>1. session'[t][q] = session[t][q]
      BY <1>1, <2>1, <2>4 DEF GraphTypeOK
    <3>2. owner[session[t][q]] = [task |-> t, role |-> q] /\ session[t][q] \in Sessions
      <4>1. session[t][q] # None /\ session[t][q] \in Sessions \cup {None}
        BY <2>2, <3>1 DEF GraphTypeOK
      <4>2. owner[session[t][q]] = [task |-> t, role |-> q]
        BY <4>1 DEF PointersOwnTheirSessions
      <4> QED BY <4>1, <4>2
    <3>3. session[t][q] # s
      <4>1. [task |-> t, role |-> q] \in [task : Tasks, role : {"lead", "coder"}]
        OBVIOUS
      <4> QED BY <3>2, <4>1, RoutingAssumption
    <3> QED BY <2>1, <3>1, <3>2, <3>3 DEF GraphTypeOK
  <2> QED BY <2>3, <2>4
<1> QED BY <1>2, <1>3

\* Every step keeps the tasks pointing at sessions of their own.
LEMMA PointersStep ==
  ASSUME TypeOK, FreshSessions, PointersOwnTheirSessions, [Next]_vars
  PROVE  PointersOwnTheirSessions'
<1> USE DEF TypeOK
<1>1. ASSUME UNCHANGED <<session, owner>> PROVE PointersOwnTheirSessions'
  BY <1>1 DEF PointersOwnTheirSessions
<1>2. At(Daemon, "await") \/ At(Daemon, "register") => launch # None /\ launch.session \in Sessions
  BY DEF LaunchTypeOK, At
<1>3. CASE CodexAttach
  <2>1. launch # None /\ launch.session \in Sessions /\ thread[Daemon].pc = "await"
    BY <1>2, <1>3 DEF CodexAttach, At
  <2>2. CASE launch.then = "new"
    <3>1. RegisterOnLaunch("codex", launch.session, launch.role) /\ owner[launch.session] = None
      BY <1>3, <2>1, <2>2 DEF CodexAttach, FreshSessions
    <3> QED BY <2>1, <3>1, RegisterKeepsPointers
  <2>3. CASE launch.then # "new" /\ owner[launch.session] # None
    <3>1. ResumeSession(launch.session)
      BY <1>3, <2>3 DEF CodexAttach
    <3> QED BY <2>1, <2>3, <3>1, ResumeKeepsPointers
  <2>4. CASE launch.then # "new" /\ owner[launch.session] = None
    BY <1>1, <1>3, <2>4 DEF CodexAttach
  <2> QED BY <2>2, <2>3, <2>4
<1>4. CASE Register
  <2>1. launch # None /\ launch.session \in Sessions /\ thread[Daemon].pc = "register"
    BY <1>2, <1>4 DEF Register, At
  <2>2. CASE launch.then = "attach"
    <3>1. /\ RegisterOnLaunch(launch.agent, launch.session, launch.role)
          /\ owner[launch.session] = None
      BY <1>4, <2>1, <2>2 DEF Register, FreshSessions
    <3> QED BY <2>1, <3>1, RegisterKeepsPointers
  <2>3. CASE launch.then # "attach"
    <3>1. ResumeSession(launch.session) /\ owner[launch.session] # None
      BY <1>4, <2>1, <2>3 DEF Register, LaunchTypeOK
    <3> QED BY <2>1, <3>1, ResumeKeepsPointers
  <2> QED BY <2>2, <2>3
<1>5. ASSUME NEW s \in Sessions, AttachKnown(s) PROVE PointersOwnTheirSessions'
  BY <1>5, ResumeKeepsPointers DEF AttachKnown
<1>6. ASSUME NEW x \in Threads, Prepare(x) \/ Observe(x) PROVE UNCHANGED <<session, owner>>
  BY <1>6 DEF Prepare, Observe, graphVars
<1>7. ASSUME NEW t, CreateTask(t) \/ SelectTask(t) PROVE UNCHANGED <<session, owner>>
  BY <1>7 DEF CreateTask, SelectTask
<1>8. CASE ApproveReview
  BY <1>1, <1>8 DEF ApproveReview, Approve
<1> QED BY <1>1, <1>3, <1>4, <1>5, <1>6, <1>7, <1>8, OthersLeaveGraph DEF GraphAction, graphVars

----------------------------------------------------------------------------
(* Registrations follow their connections *)

\* While a launch is awaited the registration it will take is free: the launch
\* stopped the session before it, and only the launch itself registers another.
QuietLaunch ==
  At(Daemon, "await") =>
    /\ thread[Daemon].arg \in CodexConns => inject = None
    /\ thread[Daemon].arg \in SdkConns /\ link[thread[Daemon].arg] = "new" => sdk = None

\* A Codex session's channel is registered by its launch and cleared otherwise.
LEMMA InjectOnlyByLaunch ==
  ASSUME [Next]_vars, ~CodexAttach
  PROVE  inject' = inject \/ inject' = None
<1>1. ASSUME NEW a \in Agents, Stopped(a) PROVE inject' = inject \/ inject' = None
  BY <1>1 DEF Stopped
<1>2. ASSUME NEW l \in Launches, NEW c \in Sessions, Launch(l, c)
      PROVE  inject' = inject \/ inject' = None
  BY <1>1, <1>2, RoutingAssumption DEF Launch
<1>3. ASSUME NEW a \in Agents, Stop(a) PROVE inject' = inject \/ inject' = None
  BY <1>1, <1>3 DEF Stop
<1>4. ASSUME NEW a, NEW r, SetRole(a, r) PROVE UNCHANGED inject
  BY <1>4 DEF SetRole
<1>5. ForceDisconnect \/ LaunchFails \/ SdkConnect \/ SdkReady \/ ForceClear => UNCHANGED inject
  BY DEF ForceDisconnect, LaunchFails, SdkConnect, SdkReady, ForceClear
<1>6. ASSUME NEW c, \/ Peer(c) \/ BridgeAttach(c) \/ BridgeRejected(c)
                    \/ BridgeCleanup(c) \/ SdkCleanup(c)
      PROVE  UNCHANGED inject
  BY <1>6 DEF Peer, PeerCloses, Fills, Drains, BridgeAttach, BridgeRejected, BridgeCleanup, SdkCleanup
<1>7. ASSUME NEW c, CodexEnds(c) PROVE inject' = inject \/ inject' = None
  BY <1>7 DEF CodexEnds
<1> QED BY <1>2, <1>3, <1>4, <1>5, <1>6, <1>7, OthersLeaveAgents DEF AgentAction, agentVars

\* Claude's socket is registered when it connects and cleared otherwise.
LEMMA SdkOnlyByConnect ==
  ASSUME [Next]_vars, ~SdkConnect
  PROVE  sdk' = sdk \/ sdk' = None
<1>1. ASSUME NEW a \in Agents, Stopped(a) PROVE sdk' = sdk \/ sdk' = None
  BY <1>1 DEF Stopped
<1>2. ASSUME NEW l \in Launches, NEW c \in Sessions, Launch(l, c)
      PROVE  sdk' = sdk \/ sdk' = None
  BY <1>1, <1>2, RoutingAssumption DEF Launch
<1>3. ASSUME NEW a \in Agents, Stop(a) PROVE sdk' = sdk \/ sdk' = None
  BY <1>1, <1>3 DEF Stop
<1>4. ASSUME NEW a, NEW r, SetRole(a, r) PROVE UNCHANGED sdk
  BY <1>4 DEF SetRole
<1>5. ForceDisconnect \/ LaunchFails \/ CodexAttach \/ SdkReady \/ ForceClear => UNCHANGED sdk
  BY DEF ForceDisconnect, LaunchFails, CodexAttach, SdkReady, ForceClear
<1>6. ASSUME NEW c, \/ Peer(c) \/ BridgeAttach(c) \/ BridgeRejected(c)
                    \/ BridgeCleanup(c) \/ CodexEnds(c)
      PROVE  UNCHANGED sdk
  BY <1>6 DEF Peer, PeerCloses, Fills, Drains, BridgeAttach, BridgeRejected, BridgeCleanup, CodexEnds
<1>7. ASSUME NEW c, SdkCleanup(c) PROVE sdk' = sdk \/ sdk' = None
  BY <1>7 DEF SdkCleanup
<1> QED BY <1>2, <1>3, <1>4, <1>5, <1>6, <1>7, OthersLeaveAgents DEF AgentAction, agentVars

\* A launch frees the registration before it is awaited (the Stopped of each provider).
LEMMA LaunchFrees ==
  ASSUME TypeOK, NEW l \in Launches, NEW c \in Sessions, Launch(l, c)
  PROVE  QuietLaunch'
<1>1. thread[Daemon] = Idle /\ c \in ConnsOf(l.agent) /\ Stopped(l.agent)
  BY DEF Launch
<1>2. l.agent = "claude" \/ l.agent = "codex"
  BY RoutingAssumption DEF Agents
<1>3. CASE UNCHANGED thread
  BY <1>1, <1>3 DEF QuietLaunch, At, Idle, Thread
<1>4. CASE Become(Daemon, Thread("await", None, c, <<>>))
  <2>1. thread'[Daemon].arg = c
    BY <1>4 DEF Become, Thread, TypeOK, LaunchTypeOK, Threads
  <2>2. CASE l.agent = "claude"
    BY <1>1, <2>1, <2>2, RoutingAssumption DEF Stopped, ConnsOf, QuietLaunch
  <2>3. CASE l.agent # "claude"
    BY <1>1, <2>1, <2>3, RoutingAssumption DEF Stopped, ConnsOf, QuietLaunch
  <2> QED BY <2>2, <2>3
<1> QED BY <1>3, <1>4 DEF Launch

\* Every step keeps the registration of an awaited launch free.
LEMMA QuietStep ==
  ASSUME TypeOK, QuietLaunch, [Next]_vars
  PROVE  QuietLaunch'
<1> Daemon \notin Conns
  BY RoutingAssumption
<1>1. CASE \E l \in Launches, c \in Sessions : Launch(l, c)
  BY <1>1, LaunchFrees
<1>2. CASE LaunchFails \/ SdkReady \/ CodexAttach \/ Register \/ ReplayDone(Daemon)
  <2>1. thread'[Daemon].pc # "await"
    BY <1>2 DEF LaunchFails, SdkReady, CodexAttach, Register, ReplayDone, Become, Thread, Idle,
                TypeOK, LaunchTypeOK, Threads
  <2> QED BY <2>1 DEF QuietLaunch, At
<1>3. CASE LaunchSame /\ ~CodexAttach
  <2> SUFFICES ASSUME At(Daemon, "await")' PROVE QuietLaunch'
    BY DEF QuietLaunch
  <2>1. At(Daemon, "await") /\ thread'[Daemon].arg = thread[Daemon].arg
    BY <1>3 DEF LaunchSame, At
  <2>2. thread[Daemon].arg \in Conns
    BY <2>1 DEF At, TypeOK, LaunchTypeOK, ConnsOf, Conns
  <2>3. thread[Daemon].arg \in CodexConns => inject' = None
    BY <1>3, <2>1, InjectOnlyByLaunch DEF QuietLaunch
  <2>4. ASSUME thread[Daemon].arg \in SdkConns, link'[thread[Daemon].arg] = "new"
        PROVE  sdk' = None
    <3>1. link[thread[Daemon].arg] = "new"
      BY <2>2, <2>4, UsedStaysUsed
    <3>2. ~SdkConnect
      BY <2>2, <2>4 DEF SdkConnect, TypeOK, AgentTypeOK
    <3> QED BY <2>1, <2>4, <3>1, <3>2, SdkOnlyByConnect DEF QuietLaunch
  <2> QED BY <2>1, <2>3, <2>4 DEF QuietLaunch
<1> QED BY <1>1, <1>2, <1>3, OthersLeaveLaunch DEF LaunchAction, TypeOK

\* A stopped session's connections are not open any more.
LEMMA StoppedCloses ==
  ASSUME NEW a \in Agents, Stopped(a)
  PROVE  /\ \A c \in ConnsOf(a) : c \in Conns /\ ~Lives(c)
         /\ a = "claude" => UNCHANGED inject
         /\ a # "claude" => UNCHANGED sdk
  BY DEF Stopped, ConnsOf, Conns, Lives

\* One step: a live connection stays registered until a newer one takes over.
Follows ==
  /\ \A c \in CodexConns : inject = c /\ Lives(c) => inject' = c
  /\ \A c \in SdkConns : sdk = c /\ Lives(c) => sdk' = c
  /\ \A c \in BridgeConns :
       bridge = c /\ Lives(c) =>
         \/ bridge' \in {c} \cup {b \in BridgeConns : link[b] = "new"}
         \/ thread'[Daemon].pc = "disconnect"
         \/ bridge' = None /\ c = first /\ RefusedHandlerEnds

\* Stopping a session ends its own registration and nobody else's.
LEMMA StoppedFollows ==
  ASSUME NEW a \in Agents, Stopped(a), UNCHANGED bridge
  PROVE  Follows
<1>1. \A c \in ConnsOf(a) : ~Lives(c)
  BY StoppedCloses
<1>2. CASE a = "claude"
  BY <1>1, <1>2, StoppedCloses DEF Follows, ConnsOf
<1>3. CASE a # "claude"
  BY <1>1, <1>3, StoppedCloses DEF Follows, ConnsOf
<1> QED BY <1>2, <1>3

\* No step of any actor takes the registration from an open connection.
LEMMA FollowsStep ==
  ASSUME TypeOK, QuietLaunch, [Next]_vars
  PROVE  Follows
<1>1. ASSUME UNCHANGED <<bridge, sdk, inject>> PROVE Follows
  BY <1>1 DEF Follows
<1>2. ASSUME NEW l \in Launches, NEW c \in Sessions, Launch(l, c) PROVE Follows
  <2>1. l.agent \in Agents /\ Stopped(l.agent) /\ UNCHANGED bridge
    BY <1>2, RoutingAssumption DEF Launch
  <2> QED BY <2>1, StoppedFollows
<1>3. ASSUME NEW a \in Agents, Stop(a) PROVE Follows
  <2>1. Stopped(a) /\ UNCHANGED bridge
    BY <1>3 DEF Stop
  <2> QED BY <2>1, StoppedFollows
<1>4. CASE ForceDisconnect
  <2>1. thread'[Daemon].pc = "disconnect" /\ UNCHANGED <<sdk, inject>>
    BY <1>4 DEF ForceDisconnect, Become, Thread, TypeOK, LaunchTypeOK, Threads
  <2> QED BY <2>1 DEF Follows, Lives
<1>5. CASE SdkConnect
  <2>1. sdk = None /\ UNCHANGED <<bridge, inject>>
    BY <1>5 DEF SdkConnect, QuietLaunch
  <2> QED BY <2>1, RoutingAssumption DEF Follows, Conns
<1>6. CASE CodexAttach
  <2>1. inject = None /\ UNCHANGED <<bridge, sdk>>
    BY <1>6 DEF CodexAttach, QuietLaunch
  <2> QED BY <2>1, RoutingAssumption DEF Follows, Conns
<1>7. ASSUME NEW c \in BridgeConns, BridgeAttach(c) PROVE Follows
  BY <1>7 DEF BridgeAttach, Follows
<1>8. ASSUME NEW c \in BridgeConns, BridgeCleanup(c) PROVE Follows
  <2>1. link'[c] = "gone" /\ UNCHANGED <<sdk, inject>>
    BY <1>8 DEF BridgeCleanup, TypeOK, AgentTypeOK, Conns
  <2>2. CASE link[c] = "refused"
    <3>1. RefusedHandlerEnds
      BY <2>1, <2>2 DEF RefusedHandlerEnds
    <3>2. (bridge' = None /\ bridge = first) \/ bridge' = bridge
      BY <1>8, <2>2 DEF BridgeCleanup, Claims
    <3> QED BY <2>1, <3>1, <3>2 DEF Follows, Lives
  <2>3. CASE link[c] # "refused"
    <3>1. bridge' = IF bridge = c THEN None ELSE bridge
      BY <1>8, <2>3, RoutingAssumption DEF BridgeCleanup, Claims, Conns
    <3> QED BY <2>1, <3>1 DEF Follows, Lives
  <2> QED BY <2>2, <2>3
<1>9. ASSUME NEW c \in SdkConns, SdkCleanup(c) PROVE Follows
  <2>1. link'[c] = "gone" /\ UNCHANGED <<bridge, inject>> /\ sdk' = IF sdk = c THEN None ELSE sdk
    BY <1>9 DEF SdkCleanup, TypeOK, AgentTypeOK, Conns
  <2> QED BY <2>1 DEF Follows, Lives
<1>10. ASSUME NEW c \in CodexConns, CodexEnds(c) PROVE Follows
  <2>1. link'[c] = "gone" /\ UNCHANGED <<bridge, sdk>>
        /\ inject' = IF inject = c THEN None ELSE inject
    BY <1>10 DEF CodexEnds, TypeOK, AgentTypeOK, Conns
  <2> QED BY <2>1 DEF Follows, Lives
<1>11. ASSUME NEW a, NEW r, SetRole(a, r) PROVE UNCHANGED <<bridge, sdk, inject>>
  BY <1>11 DEF SetRole
<1>12. LaunchFails \/ SdkReady \/ ForceClear => UNCHANGED <<bridge, sdk, inject>>
  BY DEF LaunchFails, SdkReady, ForceClear
<1>13. ASSUME NEW c, Peer(c) \/ BridgeRejected(c) PROVE UNCHANGED <<bridge, sdk, inject>>
  BY <1>13 DEF Peer, PeerCloses, Fills, Drains, BridgeRejected
<1> QED BY <1>1, <1>2, <1>3, <1>4, <1>5, <1>6, <1>7, <1>8, <1>9, <1>10, <1>11, <1>12, <1>13,
           OthersLeaveAgents DEF AgentAction, agentVars

----------------------------------------------------------------------------
(* The task a message is stamped with *)

\* A session once registered keeps its task and role.
LEMMA OwnerKept ==
  ASSUME TypeOK, FreshSessions, [Next]_vars, NEW s \in Sessions, owner[s] # None
  PROVE  owner'[s] = owner[s]
<1> USE DEF TypeOK
<1>1. ASSUME NEW q \in Sessions, owner[q] = None, NEW a, NEW r, RegisterOnLaunch(a, q, r)
      PROVE  owner'[s] = owner[s]
  BY <1>1 DEF RegisterOnLaunch, GraphTypeOK
<1>2. CASE CodexAttach
  <2>1. launch # None /\ launch.session \in Sessions /\ thread[Daemon].pc = "await"
    BY <1>2 DEF CodexAttach, LaunchTypeOK, At
  <2>2. CASE launch.then = "new"
    <3>1. RegisterOnLaunch("codex", launch.session, launch.role) /\ owner[launch.session] = None
      BY <1>2, <2>1, <2>2 DEF CodexAttach, FreshSessions
    <3> QED BY <1>1, <2>1, <3>1
  <2>3. CASE launch.then # "new"
    BY <1>2, <2>3 DEF CodexAttach, ResumeSession
  <2> QED BY <2>2, <2>3
<1>3. CASE Register
  <2>1. launch # None /\ launch.session \in Sessions
    BY <1>3 DEF Register, LaunchTypeOK, At
  <2>2. CASE launch.then = "attach"
    <3>1. /\ RegisterOnLaunch(launch.agent, launch.session, launch.role)
          /\ owner[launch.session] = None
      BY <1>3, <2>1, <2>2 DEF Register, FreshSessions
    <3> QED BY <1>1, <2>1, <3>1
  <2>3. CASE launch.then # "attach"
    BY <1>3, <2>3 DEF Register, ResumeSession
  <2> QED BY <2>2, <2>3
<1> QED BY <1>2, <1>3, OwnerSame

\* A message on its way carries no session but one of the task it carries; o is the
\* registry of sessions.
Stamped(m, o) ==
  /\ m = [id |-> m.id, from |-> m.from, to |-> m.to, status |-> m.status,
          task |-> m.task, session |-> m.session]
  /\ m.task \in Tasks \cup {None}
  /\ m.session # None =>
       /\ m.task # None /\ m.session \in Sessions
       /\ o[m.session] # None /\ o[m.session].task = m.task

StampedList(s, o) == IsSeq(s) /\ \A i \in DOMAIN s : Stamped(s[i], o)

\* Whatever can still be routed carries the session of its own task: the message of
\* each thread, the messages it goes on with, and those that wait at a gate.
StampsInv ==
  /\ \A x \in Threads :
       /\ thread[x].pc \in {"stamp", "prepare", "choose"} => Stamped(thread[x].msg, owner)
       /\ thread[x].pc # "replay" => StampedList(thread[x].todo, owner)
  /\ \A t \in Tasks : StampedList(blocked[t], owner)

\* A session registered later changes no stamp.
LEMMA StampsStay ==
  ASSUME TypeOK, FreshSessions, [Next]_vars
  PROVE  /\ \A m : Stamped(m, owner) => Stamped(m, owner')
         /\ \A s : StampedList(s, owner) => StampedList(s, owner')
<1>1. \A q \in Sessions : owner[q] # None => owner'[q] = owner[q]
  BY OwnerKept
<1>2. ASSUME NEW m, Stamped(m, owner) PROVE Stamped(m, owner')
  BY <1>1, <1>2 DEF Stamped
<1>3. ASSUME NEW s, StampedList(s, owner) PROVE StampedList(s, owner')
  BY <1>2, <1>3 DEF StampedList
<1> QED BY <1>2, <1>3

\* The empty list carries nothing.
LEMMA EmptyIsStamped ==
  ASSUME NEW o
  PROVE  StampedList(<<>>, o)
<1>1. DOMAIN <<>> = {}
  OBVIOUS
<1> QED BY <1>1, EmptyIsSeq DEF StampedList

\* A sequence over some set is a sequence.
LEMMA SeqIsSeq ==
  ASSUME NEW S, NEW s \in Seq(S)
  PROVE  IsSeq(s)
<1>1. s \in [1..Len(s) -> {s[i] : i \in DOMAIN s}] /\ Len(s) \in Nat
  BY LenProperties
<1>2. s \in Seq({s[i] : i \in DOMAIN s})
  BY <1>1, IsASeq
<1> QED BY <1>2 DEF IsSeq

\* The first message of a list and the rest of it carry what the list carries.
LEMMA NextIsStamped ==
  ASSUME NEW o, NEW s, StampedList(s, o), s # <<>>
  PROVE  Stamped(Head(s), o) /\ StampedList(Tail(s), o)
<1> DEFINE S == {s[i] : i \in DOMAIN s}
<1>1. s \in Seq(S)
  BY DEF StampedList, IsSeq
<1>2. /\ Head(s) = s[1] /\ 1 \in DOMAIN s
      /\ Tail(s) \in Seq(S)
      /\ \A i \in DOMAIN Tail(s) : Tail(s)[i] = s[i + 1] /\ i + 1 \in DOMAIN s
  BY <1>1, HeadTailProperties, LenProperties, EmptySeq
<1>3. IsSeq(Tail(s))
  BY <1>2, SeqIsSeq
<1>4. \A i \in DOMAIN s : Stamped(s[i], o)
  BY DEF StampedList
<1> QED BY <1>2, <1>3, <1>4 DEF StampedList

\* A message held back joins those that wait.
LEMMA AppendIsStamped ==
  ASSUME NEW o, NEW s, StampedList(s, o), NEW m, Stamped(m, o)
  PROVE  StampedList(Append(s, m), o)
<1> DEFINE S == {s[i] : i \in DOMAIN s} \cup {m}
           r == Append(s, m)
<1>1. s \in Seq(S)
  BY SeqMonotonic DEF StampedList, IsSeq
<1>2. IsSeq(r)
  BY AppendIsSeq DEF StampedList
<1>3. /\ DOMAIN r = 1..(Len(s) + 1) /\ DOMAIN s = 1..Len(s) /\ Len(s) \in Nat
      /\ \A i \in 1..Len(s) : r[i] = s[i]
      /\ r[Len(s) + 1] = m
  BY <1>1, AppendProperties, LenProperties
<1>4. \A i \in DOMAIN s : Stamped(s[i], o)
  BY DEF StampedList
<1>5. \A i \in DOMAIN r : Stamped(r[i], o)
  BY <1>3, <1>4
<1> QED BY <1>2, <1>5 DEF StampedList

\* What is left to show of a thread that takes a step.
StampedThread(th, o) ==
  /\ th.pc \in {"stamp", "prepare", "choose"} => Stamped(th.msg, o)
  /\ th.pc # "replay" => StampedList(th.todo, o)

\* One thread's step keeps the invariant when its new state does.
LEMMA OneThread ==
  ASSUME TypeOK, FreshSessions, StampsInv, [Next]_vars,
         \A t \in Tasks : StampedList(blocked'[t], owner),
         NEW x \in Threads, NEW th, Become(x, th), StampedThread(th, owner)
  PROVE  StampsInv'
<1>1. thread' = [thread EXCEPT ![x] = th] /\ DOMAIN thread = Threads
  BY DEF Become, TypeOK, LaunchTypeOK
<1>2. StampedThread(th, owner')
  BY StampsStay DEF StampedThread
<1>3. ASSUME NEW y \in Threads PROVE StampedThread(thread'[y], owner')
  <2>1. CASE y = x
    <3>1. thread'[y] = th
      BY <1>1, <2>1
    <3> QED BY <1>2, <3>1
  <2>2. CASE y # x
    <3>1. thread'[y] = thread[y]
      BY <1>1, <2>2
    <3>2. StampedThread(thread[y], owner)
      BY DEF StampsInv, StampedThread
    <3> QED BY <3>1, <3>2, StampsStay DEF StampedThread
  <2> QED BY <2>1, <2>2
<1>4. \A t \in Tasks : StampedList(blocked'[t], owner')
  BY StampsStay DEF StampsInv
<1> QED BY <1>3, <1>4 DEF StampsInv, StampedThread

\* Going on with a list keeps the invariant when the list does.
LEMMA ProceedThread ==
  ASSUME NEW o, NEW list, StampedList(list, o)
  PROVE  StampedThread(IF list = <<>> THEN Idle
                       ELSE Thread("prepare", Head(list), None, Tail(list)), o)
  BY NextIsStamped, EmptyIsStamped DEF StampedThread, Thread, Idle

\* A step that leaves the threads and the gates alone keeps the invariant.
LEMMA NoThread ==
  ASSUME TypeOK, FreshSessions, StampsInv, [Next]_vars, UNCHANGED <<thread, blocked>>
  PROVE  StampsInv'
  BY StampsStay DEF StampsInv

\* A thread that idles, or replays, or awaits something without a list carries nothing.
LEMMA BareThread ==
  ASSUME NEW o, NEW pc, pc \notin {"stamp", "prepare", "choose"}, NEW arg, NEW list,
         pc = "replay" \/ list = <<>>
  PROVE  StampedThread(Thread(pc, None, arg, list), o) /\ StampedThread(Idle, o)
  BY EmptyIsStamped DEF StampedThread, Thread, Idle

\* The lead and coder session a task points at belongs to it.
LEMMA PointedSession ==
  ASSUME GraphTypeOK, PointersOwnTheirSessions, NEW t \in Tasks, NEW r, SessionFor(t, r) # None
  PROVE  /\ r \in {"lead", "coder"} /\ SessionFor(t, r) \in Sessions
         /\ owner[SessionFor(t, r)] # None /\ owner[SessionFor(t, r)].task = t
<1>1. r \in {"lead", "coder"} /\ SessionFor(t, r) = session[t][r]
  BY DEF SessionFor
<1>2. session[t][r] \in Sessions
  BY <1>1 DEF GraphTypeOK
<1>3. owner[session[t][r]] = [task |-> t, role |-> r]
  BY <1>1 DEF PointersOwnTheirSessions
<1>4. [task |-> t, role |-> r] \in [task : Tasks, role : {"lead", "coder"}]
  BY <1>1
<1>5. owner[session[t][r]] # None
  BY <1>3, <1>4, RoutingAssumption
<1> QED BY <1>1, <1>2, <1>3, <1>5

\* A message stamped carries the active task and its sender's session of that task
\* (state_task_flow.rs 107-142).
LEMMA StampIsRight ==
  ASSUME TypeOK, FreshSessions, StampsInv, PointersOwnTheirSessions, [Next]_vars,
         NEW x \in Threads, Stamp(x)
  PROVE  StampsInv'
<1> DEFINE m == thread[x].msg
           stamped == IF active = None THEN m
                      ELSE [m EXCEPT !.task = active, !.session = SessionFor(active, m.from)]
<1>1. /\ Become(x, Thread("prepare", stamped, None, thread[x].todo))
      /\ thread[x].pc = "stamp" /\ UNCHANGED blocked
  BY DEF Stamp, At
<1>2. Stamped(m, owner) /\ StampedList(thread[x].todo, owner)
  BY <1>1 DEF StampsInv
<1>3. Stamped(stamped, owner)
  <2>1. CASE active = None
    BY <1>2, <2>1
  <2>2. CASE active # None
    <3> DEFINE s == SessionFor(active, m.from)
    <3>1. active \in Tasks
      BY <2>2 DEF TypeOK, GraphTypeOK
    <3>2. s # None => s \in Sessions /\ owner[s] # None /\ owner[s].task = active
      BY <3>1, PointedSession DEF TypeOK
    <3>3. stamped = [id |-> m.id, from |-> m.from, to |-> m.to, status |-> m.status,
                     task |-> active, session |-> s]
      <4> HIDE DEF s
      <4>1. m = [id |-> m.id, from |-> m.from, to |-> m.to, status |-> m.status,
                 task |-> m.task, session |-> m.session]
        BY <1>2 DEF Stamped
      <4>2. stamped = [m EXCEPT !.task = active, !.session = s]
        BY <2>2 DEF s
      <4> HIDE DEF stamped, m
      <4> QED BY <4>1, <4>2
    <3> HIDE DEF s, stamped
    <3> QED BY <2>2, <3>1, <3>2, <3>3 DEF Stamped
  <2> QED BY <2>1, <2>2
<1>4. StampedThread(Thread("prepare", stamped, None, thread[x].todo), owner)
  BY <1>2, <1>3 DEF StampedThread, Thread
<1>5. \A t \in Tasks : StampedList(blocked'[t], owner)
  BY <1>1 DEF StampsInv
<1> QED BY <1>1, <1>4, <1>5, OneThread

\* A thread that takes its message on, or goes on with the next, keeps the stamps.
LEMMA StampsRoute ==
  ASSUME TypeOK, FreshSessions, StampsInv, PointersOwnTheirSessions, [Next]_vars,
         NEW x \in Threads, Step(x)
  PROVE  StampsInv'
<1>1. \A t \in Tasks : StampedList(blocked[t], owner)
  BY DEF StampsInv
<1>2. StampedThread(thread[x], owner)
  BY DEF StampsInv, StampedThread
<1>3. ASSUME Proceed(x, thread[x].todo), thread[x].pc # "replay",
             \A t \in Tasks : StampedList(blocked'[t], owner)
      PROVE  StampsInv'
  <2>1. StampedList(thread[x].todo, owner)
    BY <1>2, <1>3 DEF StampedThread
  <2> QED BY <1>3, <2>1, OneThread, ProceedThread DEF Proceed
<1>4. ASSUME NEW pc, NEW arg, Go(x, pc, arg), UNCHANGED blocked, thread[x].pc # "replay",
             pc = "choose" => thread[x].pc = "prepare", pc \in {"choose", "send", "observe"}
      PROVE  StampsInv'
  <2>1. StampedThread(Thread(pc, thread[x].msg, arg, thread[x].todo), owner)
    BY <1>2, <1>4 DEF StampedThread, Thread
  <2> QED BY <1>1, <1>4, <2>1, OneThread DEF Go
<1>5. ASSUME NEW list, Replays(x, list), UNCHANGED blocked PROVE StampsInv'
  BY <1>1, <1>5, OneThread, BareThread DEF Replays
<1>6. CASE Prepare(x)
  <2>1. thread[x].pc = "prepare"
    BY <1>6 DEF Prepare, At
  <2>2. CASE /\ GateBlocks(thread[x].msg) /\ Proceed(x, thread[x].todo)
             /\ blocked' = [blocked EXCEPT ![active] = Append(@, thread[x].msg)]
    <3>1. active \in Tasks /\ DOMAIN blocked = Tasks
      BY <2>2 DEF GateBlocks, TypeOK, GraphTypeOK
    <3>2. Stamped(thread[x].msg, owner)
      BY <1>2, <2>1 DEF StampedThread
    <3>3. \A t \in Tasks : StampedList(blocked'[t], owner)
      BY <1>1, <2>2, <3>1, <3>2, AppendIsStamped
    <3> QED BY <1>3, <2>1, <2>2, <3>3
  <2>3. CASE Go(x, "observe", None) /\ UNCHANGED blocked
    BY <1>4, <2>1, <2>3
  <2>4. CASE Go(x, "choose", None) /\ UNCHANGED blocked
    BY <1>4, <2>1, <2>4
  <2> QED BY <1>6, <2>2, <2>3, <2>4 DEF Prepare
<1>7. CASE Choose(x)
  <2>1. thread[x].pc = "choose" /\ UNCHANGED blocked
    BY <1>7 DEF Choose, At
  <2>2. CASE Proceed(x, thread[x].todo)
    BY <1>1, <1>3, <2>1, <2>2
  <2>3. CASE Go(x, "send", Candidate(thread[x].msg))
    BY <1>4, <2>1, <2>3
  <2> QED BY <1>7, <2>2, <2>3 DEF Choose
<1>8. CASE Send(x)
  <2>1. thread[x].pc = "send" /\ UNCHANGED blocked /\ Go(x, "observe", None)
    BY <1>8 DEF Send, At
  <2> QED BY <1>4, <2>1
<1>9. CASE SendFails(x)
  <2>1. thread[x].pc = "send" /\ UNCHANGED blocked /\ Proceed(x, thread[x].todo)
    BY <1>9 DEF SendFails, At
  <2> QED BY <1>1, <1>3, <2>1
<1>10. CASE Observe(x)
  <2>1. thread[x].pc = "observe" /\ Proceed(x, thread[x].todo)
    BY <1>10 DEF Observe, At
  <2>2. CASE UNCHANGED blocked
    BY <1>1, <1>3, <2>1, <2>2
  <2>3. CASE active # None /\ blocked' = [blocked EXCEPT ![active] = <<>>]
    <3>1. active \in Tasks /\ DOMAIN blocked = Tasks
      BY <2>3 DEF TypeOK, GraphTypeOK
    <3>2. \A t \in Tasks : StampedList(blocked'[t], owner)
      BY <1>1, <2>3, <3>1, EmptyIsStamped
    <3> QED BY <1>3, <2>1, <3>2
  <2> QED BY <1>10, <2>2, <2>3 DEF Observe
<1>11. CASE ReplayOne(x)
  BY <1>5, <1>11 DEF ReplayOne
<1>12. CASE ReplayFails(x)
  BY <1>5, <1>12 DEF ReplayFails
<1>13. CASE ReplayDone(x)
  <2>1. /\ UNCHANGED blocked
        /\ \/ Become(x, Idle)
           \/ Become(x, Thread("register", None, thread[x].arg, <<>>))
    BY <1>13 DEF ReplayDone
  <2>2. StampedThread(Idle, owner) /\ StampedThread(Thread("register", None, thread[x].arg, <<>>), owner)
    BY BareThread
  <2> QED BY <1>1, <2>1, <2>2, OneThread
<1> QED BY <1>6, <1>7, <1>8, <1>9, <1>10, <1>11, <1>12, <1>13, StampIsRight DEF Step

\* What the user addresses is a list of roles.
LEMMA TargetsAreListed == ASSUME NEW target PROVE \E S : UserTargets(target) \in Seq(S)
<1> DEFINE S == {target, role["claude"], role["codex"]} \cup
                  (IF active = None THEN {} ELSE {Preferred(active)})
<1>1. CASE target # "auto"
  <2>1. UserTargets(target) = <<target>>
    BY <1>1 DEF UserTargets
  <2>2. <<target>> \in Seq({target})
    OBVIOUS
  <2> QED BY <2>1, <2>2
<1>2. CASE target = "auto" /\ active # None /\ Compatible(Preferred(active))
  <2>1. UserTargets(target) = <<Preferred(active)>>
    BY <1>2 DEF UserTargets
  <2>2. <<Preferred(active)>> \in Seq({Preferred(active)})
    OBVIOUS
  <2> QED BY <2>1, <2>2
<1>3. CASE target = "auto" /\ ~(active # None /\ Compatible(Preferred(active)))
  <2> DEFINE hit(a) == Online(a) /\ Compatible(role[a])
             R == {role["claude"], role["codex"]}
             one == IF hit("claude") THEN <<role["claude"]>> ELSE <<>>
             two == IF hit("codex") /\ ~(hit("claude") /\ role["claude"] = role["codex"])
                    THEN <<role["codex"]>> ELSE <<>>
  <2>1. UserTargets(target) = one \o two
    BY <1>3 DEF UserTargets
  <2>2. one \in Seq(R) /\ two \in Seq(R)
    <3>1. <<>> \in Seq(R) /\ <<role["claude"]>> \in Seq(R) /\ <<role["codex"]>> \in Seq(R)
      OBVIOUS
    <3> QED BY <3>1
  <2>3. one \o two \in Seq(R)
    BY <2>2, ConcatProperties
  <2> QED BY <2>1, <2>3
<1> QED BY <1>1, <1>2, <1>3

\* The user's messages carry the active task and no session.
LEMMA StampsInput ==
  ASSUME TypeOK, FreshSessions, StampsInv, [Next]_vars, NEW target, SendUserInput(target)
  PROVE  StampsInv'
<1> DEFINE to == UserTargets(target)
           input(i) == [id |-> issued + i, from |-> "user", to |-> to[i], status |-> "done",
                        task |-> active, session |-> None]
           list == [i \in 1..Len(to) |-> input(i)]
<1>1. Proceed(Daemon, list) /\ UNCHANGED blocked
  BY DEF SendUserInput
<1>2. active \in Tasks \cup {None}
  BY DEF TypeOK, GraphTypeOK
<1>3. \A i : Stamped(input(i), owner)
  BY <1>2 DEF Stamped
<1>4. Len(to) \in Nat
  BY TargetsAreListed, LenProperties
<1>5. StampedList(list, owner)
  <2> DEFINE S == {input(i) : i \in 1..Len(to)}
  <2>1. list \in [1..Len(to) -> S]
    OBVIOUS
  <2>2. list \in Seq(S)
    BY <1>4, <2>1, IsASeq
  <2>3. \A i \in DOMAIN list : list[i] = input(i)
    OBVIOUS
  <2>4. IsSeq(list)
    BY <2>2, SeqIsSeq
  <2> HIDE DEF list, input
  <2> QED BY <1>3, <2>3, <2>4 DEF StampedList
<1> HIDE DEF list
<1>6. StampedThread(IF list = <<>> THEN Idle
                    ELSE Thread("prepare", Head(list), None, Tail(list)), owner)
  BY <1>5, ProceedThread
<1> QED BY <1>1, <1>6, OneThread DEF Proceed, StampsInv, Threads

\* The messages approval releases carry what they carried at the gate.
LEMMA StampsApprove ==
  ASSUME TypeOK, FreshSessions, StampsInv, [Next]_vars, ApproveReview
  PROVE  StampsInv'
<1>1. /\ active \in Tasks /\ DOMAIN blocked = Tasks
      /\ blocked' = [blocked EXCEPT ![active] = <<>>]
      /\ Proceed(Daemon, blocked[active])
  BY DEF ApproveReview, Approve, TypeOK, GraphTypeOK
<1>2. \A t \in Tasks : StampedList(blocked'[t], owner)
  BY <1>1, EmptyIsStamped DEF StampsInv
<1>3. StampedList(blocked[active], owner)
  BY <1>1 DEF StampsInv
<1> QED BY <1>1, <1>2, <1>3, ProceedThread, OneThread DEF Proceed, Threads

\* An agent's message enters without a task or a session.
LEMMA StampsReply ==
  ASSUME TypeOK, FreshSessions, StampsInv, [Next]_vars,
         NEW c \in Conns, NEW from, NEW reply, NEW pc, Reply(c, from, reply, pc)
  PROVE  StampsInv'
<1>1. Stamped(NewMessage(from, reply), owner)
  BY DEF Stamped, NewMessage
<1>2. StampedThread(Thread(pc, NewMessage(from, reply), None, <<>>), owner)
  BY <1>1, EmptyIsStamped DEF StampedThread, Thread
<1> QED BY <1>2, OneThread DEF Reply, Threads, StampsInv

\* Launches, replays and disconnections route nothing.
LEMMA StampsBare ==
  ASSUME TypeOK, FreshSessions, StampsInv, [Next]_vars,
         NEW x \in Threads, NEW pc, pc \notin {"stamp", "prepare", "choose"},
         NEW arg, NEW list, pc = "replay" \/ list = <<>>,
         Become(x, Thread(pc, None, arg, list)) \/ Become(x, Idle), UNCHANGED blocked
  PROVE  StampsInv'
<1>1. \A t \in Tasks : StampedList(blocked'[t], owner)
  BY DEF StampsInv
<1>2. StampedThread(Thread(pc, None, arg, list), owner) /\ StampedThread(Idle, owner)
  BY BareThread
<1> QED BY <1>1, <1>2, OneThread

\* Every step keeps what can still be routed stamped with the session of its own task.
LEMMA StampsStep ==
  ASSUME TypeOK, FreshSessions, StampsInv, PointersOwnTheirSessions, [Next]_vars
  PROVE  StampsInv'
<1> Daemon \in Threads /\ \A c \in Conns : c \in Threads
  BY DEF Threads
<1>1. ASSUME Become(Daemon, Idle), UNCHANGED blocked PROVE StampsInv'
  BY <1>1, StampsBare DEF Idle
<1>2. CASE UserCommand
  <2>1. ASSUME NEW t, CreateTask(t) \/ SelectTask(t) PROVE StampsInv'
    BY <2>1, NoThread DEF CreateTask, SelectTask
  <2>2. ASSUME NEW a, NEW r, SetRole(a, r) \/ Stop(a) PROVE StampsInv'
    BY <2>2, NoThread DEF SetRole, Stop
  <2>3. ASSUME NEW s \in Sessions, AttachKnown(s) PROVE StampsInv'
    BY <2>3, NoThread DEF AttachKnown
  <2>4. ASSUME NEW l \in Launches, NEW c \in Sessions, Launch(l, c) PROVE StampsInv'
    <3>1. UNCHANGED blocked /\ (Become(Daemon, Thread("await", None, c, <<>>)) \/ UNCHANGED thread)
      BY <2>4 DEF Launch
    <3> QED BY <3>1, NoThread, StampsBare
  <2>5. CASE ForceDisconnect
    <3>1. UNCHANGED blocked /\ Become(Daemon, Thread("disconnect", None, None, <<>>))
      BY <2>5 DEF ForceDisconnect
    <3> QED BY <3>1, StampsBare
  <2>6. ASSUME NEW target \in Targets, SendUserInput(target) PROVE StampsInv'
    BY <2>6, StampsInput
  <2> QED BY <1>2, <2>1, <2>2, <2>3, <2>4, <2>5, <2>6, StampsApprove DEF UserCommand
<1>3. CASE DaemonStep
  <2>1. CASE LaunchFails \/ Register \/ ForceClear
    BY <1>1, <2>1 DEF LaunchFails, Register, ForceClear
  <2>2. CASE SdkReady
    <3>1. /\ UNCHANGED blocked
          /\ \/ Become(Daemon, Thread("register", None, thread[Daemon].arg, <<>>))
             \/ Become(Daemon, Idle)
      BY <2>2 DEF SdkReady
    <3> QED BY <3>1, StampsBare
  <2>3. CASE CodexAttach
    <3>1. /\ UNCHANGED blocked
          /\ Become(Daemon, Thread("replay", None, thread[Daemon].arg, Taken(launch.role, None)))
      BY <2>3 DEF CodexAttach
    <3> QED BY <3>1, StampsBare
  <2> QED BY <1>3, <2>1, <2>2, <2>3, StampsRoute DEF DaemonStep
<1>4. CASE SdkConnect
  BY <1>4, NoThread DEF SdkConnect
<1>5. ASSUME NEW c \in Conns, Step(c) \/ Peer(c) PROVE StampsInv'
  <2>1. Peer(c) => UNCHANGED <<thread, blocked>>
    BY DEF Peer, PeerCloses, Fills, Drains
  <2> QED BY <1>5, <2>1, NoThread, StampsRoute
<1>6. ASSUME NEW c \in BridgeConns, BridgeNext(c) PROVE StampsInv'
  <2>1. c \in Conns
    BY DEF Conns
  <2>2. CASE BridgeAttach(c)
    <3>1. UNCHANGED blocked /\ Become(c, Thread("replay", None, c, Taken(role["claude"], None)))
      BY <2>2 DEF BridgeAttach
    <3> QED BY <2>1, <3>1, StampsBare
  <2>3. CASE BridgeRejected(c) \/ BridgeCleanup(c)
    BY <2>3, NoThread DEF BridgeRejected, BridgeCleanup
  <2>4. CASE BridgeReply(c)
    BY <2>1, <2>4, StampsReply DEF BridgeReply
  <2> QED BY <1>6, <2>2, <2>3, <2>4 DEF BridgeNext
<1>7. ASSUME NEW c \in SdkConns, SdkResult(c) \/ SdkCleanup(c) PROVE StampsInv'
  <2>1. c \in Conns
    BY DEF Conns
  <2>2. CASE SdkResult(c)
    BY <2>1, <2>2, StampsReply DEF SdkResult
  <2>3. CASE SdkCleanup(c)
    BY <2>3, NoThread DEF SdkCleanup
  <2> QED BY <1>7, <2>2, <2>3
<1>8. ASSUME NEW c \in CodexConns, CodexNext(c) PROVE StampsInv'
  <2>1. c \in Conns
    BY DEF Conns
  <2>2. CASE CodexReply(c)
    BY <2>1, <2>2, StampsReply DEF CodexReply
  <2>3. CASE CheckMessages(c)
    <3>1. UNCHANGED blocked /\ Become(c, Thread("check", None, active, <<>>))
      BY <2>3 DEF CheckMessages
    <3> QED BY <2>1, <3>1, StampsBare
  <2>4. CASE CheckTake(c) \/ CodexCancelled(c)
    <3>1. UNCHANGED blocked /\ Become(c, Idle)
      BY <2>4 DEF CheckTake, CodexCancelled
    <3> QED BY <2>1, <3>1, StampsBare
  <2>5. CASE CodexEnds(c)
    BY <2>5, NoThread DEF CodexEnds
  <2> QED BY <1>8, <2>2, <2>3, <2>4, <2>5 DEF CodexNext
<1>9. CASE UNCHANGED vars
  BY <1>9, NoThread DEF vars
<1> QED BY <1>2, <1>3, <1>4, <1>5, <1>6, <1>7, <1>8, <1>9 DEF Next

\* Only the choice of an agent puts a thread before the send.
LEMMA OnlyChooseSends ==
  ASSUME TypeOK, [Next]_vars, NEW x \in Threads, At(x, "choose"), At(x, "send")'
  PROVE  Choose(x)
<1> USE DEF At
<1>1. DOMAIN thread = Threads
  BY DEF TypeOK, LaunchTypeOK
<1>2. ASSUME NEW y \in Threads, NEW th, Become(y, th), th.pc # "send" \/ y # x PROVE FALSE
  BY <1>1, <1>2 DEF Become
<1>3. ASSUME NEW y \in Threads, NEW list, Proceed(y, list) PROVE FALSE
  BY <1>2, <1>3 DEF Proceed, Thread, Idle
<1>4. ASSUME UNCHANGED thread PROVE FALSE
  BY <1>4
<1>5. ASSUME NEW y \in Threads, NEW pc, pc # "send", NEW msg, NEW arg, NEW list,
             Become(y, Thread(pc, msg, arg, list))
      PROVE  FALSE
  BY <1>2, <1>5 DEF Thread
<1>6. ASSUME NEW y \in Threads, Become(y, Idle) PROVE FALSE
  BY <1>2, <1>6 DEF Idle, Thread
<1>7. ASSUME NEW y \in Threads, Step(y) PROVE Choose(x)
  <2>1. CASE Stamp(y)
    BY <1>5, <2>1 DEF Stamp
  <2>2. CASE Prepare(y)
    <3>1. Proceed(y, thread[y].todo) \/ Go(y, "observe", None) \/ Go(y, "choose", None)
      BY <2>2 DEF Prepare
    <3> QED BY <1>3, <1>5, <3>1 DEF Go
  <2>3. CASE Choose(y)
    <3>1. CASE y = x
      BY <2>3, <3>1
    <3>2. CASE y # x
      <4>1. Proceed(y, thread[y].todo) \/ Go(y, "send", Candidate(thread[y].msg))
        BY <2>3 DEF Choose
      <4> QED BY <1>2, <1>3, <3>2, <4>1 DEF Go
    <3> QED BY <3>1, <3>2
  <2>4. CASE Send(y)
    <3>1. Go(y, "observe", None)
      BY <2>4 DEF Send
    <3> QED BY <1>5, <3>1 DEF Go
  <2>5. CASE SendFails(y) \/ Observe(y)
    BY <1>3, <2>5 DEF SendFails, Observe
  <2>6. CASE ReplayOne(y)
    BY <1>5, <2>6 DEF ReplayOne, Replays
  <2>7. CASE ReplayFails(y)
    BY <1>5, <2>7 DEF ReplayFails, Replays
  <2>8. CASE ReplayDone(y)
    <3>1. Become(y, Idle) \/ Become(y, Thread("register", None, thread[y].arg, <<>>))
      BY <2>8 DEF ReplayDone
    <3> QED BY <1>5, <1>6, <3>1
  <2> QED BY <1>7, <2>1, <2>2, <2>3, <2>4, <2>5, <2>6, <2>7, <2>8 DEF Step
<1> Daemon \in Threads /\ \A c \in Conns : c \in Threads
  BY DEF Threads
<1>8. CASE UserCommand
  <2>1. ASSUME NEW t, CreateTask(t) \/ SelectTask(t) PROVE FALSE
    BY <1>4, <2>1 DEF CreateTask, SelectTask
  <2>2. ASSUME NEW a, NEW r, SetRole(a, r) \/ Stop(a) PROVE FALSE
    BY <1>4, <2>2 DEF SetRole, Stop
  <2>3. ASSUME NEW s \in Sessions, AttachKnown(s) PROVE FALSE
    BY <1>4, <2>3 DEF AttachKnown
  <2>4. ASSUME NEW l \in Launches, NEW c \in Sessions, Launch(l, c) PROVE FALSE
    <3>1. Become(Daemon, Thread("await", None, c, <<>>)) \/ UNCHANGED thread
      BY <2>4 DEF Launch
    <3> QED BY <1>4, <1>5, <3>1
  <2>5. CASE ForceDisconnect
    BY <1>5, <2>5 DEF ForceDisconnect
  <2>6. ASSUME NEW target \in Targets, SendUserInput(target) PROVE FALSE
    BY <1>3, <2>6 DEF SendUserInput
  <2>7. CASE ApproveReview
    BY <1>3, <2>7 DEF ApproveReview, Approve
  <2> QED BY <1>8, <2>1, <2>2, <2>3, <2>4, <2>5, <2>6, <2>7 DEF UserCommand
<1>9. CASE DaemonStep
  <2>1. CASE LaunchFails \/ Register \/ ForceClear
    BY <1>6, <2>1 DEF LaunchFails, Register, ForceClear
  <2>2. CASE SdkReady
    <3>1. \/ Become(Daemon, Thread("register", None, thread[Daemon].arg, <<>>))
          \/ Become(Daemon, Idle)
      BY <2>2 DEF SdkReady
    <3> QED BY <1>5, <1>6, <3>1
  <2>3. CASE CodexAttach
    <3>1. Become(Daemon, Thread("replay", None, thread[Daemon].arg, Taken(launch.role, None)))
      BY <2>3 DEF CodexAttach
    <3> QED BY <1>5, <3>1
  <2> QED BY <1>7, <1>9, <2>1, <2>2, <2>3 DEF DaemonStep
<1>10. CASE SdkConnect
  BY <1>4, <1>10 DEF SdkConnect
<1>11. ASSUME NEW c \in Conns, NEW from, NEW reply, NEW pc, pc \in {"stamp", "prepare"},
              Reply(c, from, reply, pc)
       PROVE  FALSE
  BY <1>5, <1>11 DEF Reply
<1>12. ASSUME NEW c \in Conns, Step(c) \/ Peer(c) PROVE Choose(x)
  <2>1. Peer(c) => UNCHANGED thread
    BY DEF Peer, PeerCloses, Fills, Drains
  <2> QED BY <1>4, <1>7, <1>12, <2>1
<1>13. ASSUME NEW c \in BridgeConns, BridgeNext(c) PROVE FALSE
  <2>1. c \in Conns
    BY DEF Conns
  <2>2. CASE BridgeAttach(c)
    <3>1. Become(c, Thread("replay", None, c, Taken(role["claude"], None)))
      BY <2>2 DEF BridgeAttach
    <3> QED BY <1>5, <2>1, <3>1
  <2>3. CASE BridgeRejected(c) \/ BridgeCleanup(c)
    BY <1>4, <2>3 DEF BridgeRejected, BridgeCleanup
  <2>4. CASE BridgeReply(c)
    BY <1>11, <2>1, <2>4 DEF BridgeReply
  <2> QED BY <1>13, <2>2, <2>3, <2>4 DEF BridgeNext
<1>14. ASSUME NEW c \in SdkConns, SdkResult(c) \/ SdkCleanup(c) PROVE FALSE
  <2>1. c \in Conns
    BY DEF Conns
  <2>2. SdkCleanup(c) => UNCHANGED thread
    BY DEF SdkCleanup
  <2> QED BY <1>4, <1>11, <1>14, <2>1, <2>2 DEF SdkResult
<1>15. ASSUME NEW c \in CodexConns, CodexNext(c) PROVE FALSE
  <2>1. c \in Conns
    BY DEF Conns
  <2>2. CASE CodexReply(c)
    BY <1>11, <2>1, <2>2 DEF CodexReply
  <2>3. CASE CheckMessages(c)
    BY <1>5, <2>1, <2>3 DEF CheckMessages
  <2>4. CASE CheckTake(c) \/ CodexCancelled(c)
    BY <1>6, <2>1, <2>4 DEF CheckTake, CodexCancelled
  <2>5. CASE CodexEnds(c)
    BY <1>4, <2>5 DEF CodexEnds
  <2> QED BY <1>15, <2>2, <2>3, <2>4, <2>5 DEF CodexNext
<1>16. CASE UNCHANGED vars
  BY <1>4, <1>16 DEF vars
<1> QED BY <1>8, <1>9, <1>10, <1>12, <1>13, <1>14, <1>15, <1>16 DEF Next

\* An agent that matches a message of a task is connected to a session of that task.
LEMMA MatchStaysInTask ==
  ASSUME TypeOK, PointersOwnTheirSessions, NEW m, Stamped(m, owner),
         m.to \in {"lead", "coder"}, m.task # None, NEW a \in Agents, AgentMatches(a, m)
  PROVE  connection[a] # None /\ owner[connection[a]] # None
         /\ owner[connection[a]].task = m.task
<1>1. m.task \in Tasks /\ None \notin Sessions
  BY RoutingAssumption DEF Stamped, Sessions, Conns
<1>2. CASE m.session # None /\ Matches(a, m.session)
  BY <1>1, <1>2 DEF Stamped, Matches
<1>3. CASE /\ SessionFor(m.task, m.to) # None
           /\ Matches(a, SessionFor(m.task, m.to))
  BY <1>1, <1>3, PointedSession DEF Matches, TypeOK
<1> QED BY <1>2, <1>3 DEF AgentMatches

\* The connection chosen is Codex's channel or one of Claude's, and its agent matches.
LEMMA CandidateMatches ==
  ASSUME TypeOK, NEW m, Candidate(m) # None
  PROVE  \/ Candidate(m) \in CodexConns /\ AgentMatches("codex", m)
         \/ Candidate(m) \notin CodexConns /\ AgentMatches("claude", m)
<1> DEFINE fits(a) == role[a] = m.to /\ AgentMatches(a, m)
<1>1. \/ Candidate(m) = sdk /\ fits("claude")
      \/ Candidate(m) = bridge /\ fits("claude")
      \/ Candidate(m) = inject /\ fits("codex")
  BY DEF Candidate
<1> QED BY <1>1, RoutingAssumption DEF TypeOK, AgentTypeOK, Sessions

\* One step: a message of a task is sent only to an agent whose session belongs to it.
StaysInTask ==
  \A x \in Threads :
    LET m == thread[x].msg
        c == thread'[x].arg
    IN  /\ At(x, "choose") /\ thread'[x].pc = "send" /\ c # None
        /\ m.to \in {"lead", "coder"} /\ m.task # None
        => LET s == connection[IF c \in CodexConns THEN "codex" ELSE "claude"]
           IN  s # None /\ owner[s] # None /\ owner[s].task = m.task

\* The choice of an agent keeps a message in its task.
LEMMA StaysStep ==
  ASSUME TypeOK, PointersOwnTheirSessions, StampsInv, [Next]_vars
  PROVE  StaysInTask
<1> SUFFICES ASSUME NEW x \in Threads, At(x, "choose"), thread'[x].pc = "send",
                    thread'[x].arg # None, thread[x].msg.to \in {"lead", "coder"},
                    thread[x].msg.task # None
             PROVE  LET s == connection[IF thread'[x].arg \in CodexConns THEN "codex" ELSE "claude"]
                    IN  /\ s # None /\ owner[s] # None
                        /\ owner[s].task = thread[x].msg.task
  BY DEF StaysInTask
<1> DEFINE m == thread[x].msg
<1>1. Choose(x)
  BY OnlyChooseSends DEF At
<1>2. Stamped(m, owner)
  BY DEF At, StampsInv
<1>3. thread'[x].arg = Candidate(m)
  <2>1. DOMAIN thread = Threads
    BY DEF TypeOK, LaunchTypeOK
  <2>2. CASE Proceed(x, thread[x].todo)
    BY <2>1, <2>2 DEF Proceed, Become, Thread, Idle
  <2>3. CASE Go(x, "send", Candidate(m))
    BY <2>1, <2>3 DEF Go, Become, Thread
  <2> QED BY <1>1, <2>2, <2>3 DEF Choose
<1>4. "codex" \in Agents /\ "claude" \in Agents
  BY DEF Agents
<1> HIDE DEF m
<1>5. CASE Candidate(m) \in CodexConns
  <2>1. AgentMatches("codex", m)
    BY <1>3, <1>5, CandidateMatches
  <2> QED BY <1>2, <1>3, <1>4, <1>5, <2>1, MatchStaysInTask DEF m
<1>6. CASE Candidate(m) \notin CodexConns
  <2>1. AgentMatches("claude", m)
    BY <1>3, <1>6, CandidateMatches
  <2> QED BY <1>2, <1>3, <1>4, <1>6, <2>1, MatchStaysInTask DEF m
<1> QED BY <1>5, <1>6

\* Nothing is on its way at the start.
LEMMA StampsInit == Init => StampsInv
<1> SUFFICES ASSUME Init PROVE StampsInv
  OBVIOUS
<1>1. \A t \in Tasks : StampedList(blocked[t], owner)
  BY EmptyIsStamped DEF Init
<1>2. ASSUME NEW x \in Threads PROVE StampedThread(thread[x], owner)
  <2>1. thread[x] = Idle
    BY DEF Init
  <2> QED BY <2>1, EmptyIsStamped DEF StampedThread, Idle, Thread
<1> QED BY <1>1, <1>2 DEF StampsInv, StampedThread

----------------------------------------------------------------------------
(* The theorems *)

IInv ==
  /\ TypeOK /\ GateInv
  /\ FreshSessions /\ PointersOwnTheirSessions
  /\ QuietLaunch /\ StampsInv

\* The invariant holds at the start: no task, no session, nothing held back.
LEMMA InitInv == Init => IInv
<1> SUFFICES ASSUME Init PROVE IInv
  OBVIOUS
<1> USE RoutingAssumption DEF Init
<1>1. GateInv
  BY EmptyIsSeq DEF GateInv, GraphTypeOK, BlockedOnlyUnderReview, ReviewingHasRound
<1>2. AgentTypeOK
  BY DEF AgentTypeOK, Agents, AgentRoles
<1>3. LaunchTypeOK
  BY DEF LaunchTypeOK, Idle, Thread, Threads
<1>4. FreshSessions /\ PointersOwnTheirSessions
  BY DEF FreshSessions, PointersOwnTheirSessions
<1>5. QuietLaunch
  BY DEF QuietLaunch, At, Idle, Thread, Threads
<1> QED BY <1>1, <1>2, <1>3, <1>4, <1>5, StampsInit DEF IInv, TypeOK, GateInv

\* The invariant is inductive.
LEMMA StepInv == IInv /\ [Next]_vars => IInv'
  BY GateStep, AgentStep, LaunchSteps, PointersStep, QuietStep, StampsStep
  DEF IInv, TypeOK, GateInv

\* The inductive invariant holds in every state the daemon can reach.
THEOREM Inductive == Spec => []IInv
  BY InitInv, StepInv, PTL DEF Spec

\* The daemon's state keeps its types: the task graph, what is known of the agents,
\* and the launch the command loop awaits.
THEOREM TypeCorrect == Spec => []TypeOK
  BY Inductive, PTL DEF IInv

\* Messages wait at a task's gate only while it is under review.
THEOREM GateHoldsOnlyUnderReview == Spec => []BlockedOnlyUnderReview
<1>1. IInv => BlockedOnlyUnderReview
  BY DEF IInv, GateInv
<1> QED BY Inductive, <1>1, PTL

\* A task shown as under review has a round that approval or completion can end.
THEOREM ReviewsCanEnd == Spec => []ReviewingHasRound
<1>1. IInv => ReviewingHasRound
  BY DEF IInv, GateInv
<1> QED BY Inductive, <1>1, PTL

\* A task's lead and coder sessions are its own, whatever was launched, attached
\* or resumed in which order.
THEOREM SessionsBelongToTheirTask == Spec => []PointersOwnTheirSessions
<1>1. IInv => PointersOwnTheirSessions
  BY DEF IInv
<1> QED BY Inductive, <1>1, PTL

\* A gate lets its messages go only on approval of the review, or on completion.
THEOREM GateOpensProperly == Spec => GateOpensOnlyOnApproval
<1> DEFINE P == \A t \in Tasks :
                  Len(blocked'[t]) < Len(blocked[t]) =>
                    \/ review[t] = "PendingLeadApproval" /\ status'[t] = "Implementing"
                    \/ status'[t] = "Done"
<1>1. IInv /\ [Next]_vars => [P]_vars
  <2> SUFFICES ASSUME IInv, [Next]_vars PROVE P
    OBVIOUS
  <2>1. ASSUME UNCHANGED blocked PROVE P
    <3>1. \A t \in Tasks : Len(blocked[t]) \in Nat
      BY AppendIsSeq DEF IInv, GateInv, GraphTypeOK
    <3> QED BY <2>1, <3>1
  <2>2. ASSUME NEW x \in Threads, Prepare(x) PROVE P
    <3>1. CASE UNCHANGED blocked
      BY <2>1, <3>1
    <3>2. CASE /\ GateBlocks(thread[x].msg)
               /\ blocked' = [blocked EXCEPT ![active] = Append(@, thread[x].msg)]
      <4>1. active \in Tasks
        BY <3>2 DEF GateBlocks, IInv, GateInv, GraphTypeOK
      <4>2. \A t \in Tasks : Len(blocked[t]) \in Nat
        BY AppendIsSeq DEF IInv, GateInv, GraphTypeOK
      <4>3. Len(blocked'[active]) = Len(blocked[active]) + 1
        BY <3>2, <4>1, AppendIsSeq DEF IInv, GateInv, GraphTypeOK
      <4>4. \A t \in Tasks : t # active => blocked'[t] = blocked[t]
        BY <3>2 DEF IInv, GateInv, GraphTypeOK
      <4> QED BY <4>1, <4>2, <4>3, <4>4
    <3> QED BY <2>2, <3>1, <3>2 DEF Prepare
  <2>3. ASSUME NEW x \in Threads, Observe(x) PROVE P
    <3>1. CASE UNCHANGED blocked
      BY <2>1, <3>1
    <3>2. CASE /\ active # None /\ Completes(thread[x].msg)
               /\ blocked' = [blocked EXCEPT ![active] = <<>>]
               /\ status' = [status EXCEPT ![active] = Flow(thread[x].msg, active).status]
      <4>1. active \in Tasks
        BY <3>2 DEF IInv, GateInv, GraphTypeOK
      <4>2. status'[active] = "Done"
        BY <3>2, <4>1, FlowKeepsRounds DEF IInv, GateInv, GraphTypeOK
      <4>3. \A t \in Tasks : t # active => blocked'[t] = blocked[t] /\ Len(blocked[t]) \in Nat
        BY <3>2, AppendIsSeq DEF IInv, GateInv, GraphTypeOK
      <4> QED BY <4>2, <4>3
    <3> QED BY <2>3, <3>1, <3>2 DEF Observe
  <2>4. CASE ApproveReview
    <3>1. /\ active \in Tasks /\ review[active] = "PendingLeadApproval"
          /\ status' = [status EXCEPT ![active] = "Implementing"]
          /\ blocked' = [blocked EXCEPT ![active] = <<>>]
      BY <2>4 DEF ApproveReview, Approve, IInv, GateInv, GraphTypeOK
    <3>2. \A t \in Tasks : t # active => blocked'[t] = blocked[t] /\ Len(blocked[t]) \in Nat
      BY <3>1, AppendIsSeq DEF IInv, GateInv, GraphTypeOK
    <3>3. status'[active] = "Implementing"
      BY <3>1 DEF IInv, GateInv, GraphTypeOK
    <3> QED BY <3>1, <3>2, <3>3
  <2>5. ASSUME NEW t, CreateTask(t) \/ SelectTask(t) PROVE UNCHANGED blocked
    BY <2>5 DEF CreateTask, SelectTask
  <2>6. CodexAttach \/ Register => UNCHANGED blocked
    BY DEF CodexAttach, Register
  <2>7. ASSUME NEW s \in Sessions, AttachKnown(s) PROVE UNCHANGED blocked
    BY <2>7 DEF AttachKnown
  <2> QED BY <2>1, <2>2, <2>3, <2>4, <2>5, <2>6, <2>7, OthersLeaveGraph DEF GraphAction
<1>2. [][P]_vars => GateOpensOnlyOnApproval
  BY DEF GateOpensOnlyOnApproval
<1> QED BY Inductive, <1>1, <1>2, PTL DEF Spec

\* A live connection stays the one its agent is reached by until a newer one takes
\* over or the user disconnects it; no late cleanup of another one ends it, but that
\* of a refused one the first bridge's registration.
THEOREM RegistrationsFollow == Spec => RegistrationFollowsLink
<1>1. IInv /\ [Next]_vars => [Follows]_vars
  BY FollowsStep DEF IInv
<1>2. [][Follows]_vars => RegistrationFollowsLink
  BY DEF RegistrationFollowsLink, Follows
<1> QED BY Inductive, <1>1, <1>2, PTL DEF Spec

\* A message stamped with a task is sent only to an agent whose session belongs to it.
THEOREM MessagesStayInTask == Spec => RoutesStayInTask
<1>1. IInv /\ [Next]_vars => [StaysInTask]_vars
  BY StaysStep DEF IInv
<1>2. [][StaysInTask]_vars => RoutesStayInTask
  BY DEF RoutesStayInTask, StaysInTask
<1> QED BY Inductive, <1>1, <1>2, PTL DEF Spec
============================================================================
