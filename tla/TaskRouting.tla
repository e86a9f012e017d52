---------------------------- MODULE TaskRouting ----------------------------
(***************************************************************************)
(* The daemon's message routing: the task graph and its review gate, the   *)
(* buffer for offline roles, and the threads that route at the same time   *)
(* (the command loop, each Claude bridge connection, the Claude SDK event  *)
(* task, each Codex session task).  All of them share one DaemonState      *)
(* behind a tokio RwLock; an action is one critical section of that lock,  *)
(* or one send on a channel outside it.                                    *)
(*                                                                         *)
(* Claude reconnection, terminal-reply ownership and permissions have      *)
(* modules of their own.                                                   *)
(***************************************************************************)
EXTENDS Integers, Sequences, FiniteSets

CONSTANTS
  Daemon,       \* the command loop's thread (daemon::run)
  BridgeConns,  \* bridge WebSocket connections of agent "claude", each used once
  SdkConns,     \* Claude SDK sessions (a launch and its WebSocket), each used once
  CodexConns,   \* Codex session tasks and their inject channels, each used once
  Tasks,
  None,
  MaxMsgs,      \* bound: messages ever issued
  BufferMax,    \* 200 in the code
  BufferDrain,  \* 100 in the code
  Replies,      \* what the agent of a role may say: records [by, to, status]
  Targets,      \* what the user may address: "auto" or a role
  Launches,     \* what the user may launch: records [agent, role, then]
  RoleChanges,  \* role changes of the user: records [agent, role]
  Stalling      \* bound: the connections whose peer may stop taking messages for a while

Conns   == BridgeConns \cup SdkConns \cup CodexConns
Threads == {Daemon} \cup Conns
Sessions == SdkConns \cup CodexConns  \* provider session ids: named for the launch that made them
Agents  == {"claude", "codex"}
AgentRoles == {"lead", "coder", "reviewer"}
Then == {"new", "thread", "attach", "resume"}  \* what follows a launch: see Asked
Reviews == {"PendingLeadReview", "InReview", "PendingLeadApproval"}

ASSUME RoutingAssumption ==
  /\ MaxMsgs \in Nat
  /\ BufferMax \in Nat \ {0} /\ BufferDrain \in 1..BufferMax
  /\ None \notin Tasks \cup Conns \cup Reviews
  /\ None \notin [task : Tasks, role : {"lead", "coder"}]
  /\ None \notin [agent : Agents, role : AgentRoles, then : Then, session : Sessions]
  /\ Daemon \notin Conns
  /\ SdkConns \cap CodexConns = {} /\ BridgeConns \cap Sessions = {}
  /\ Launches \subseteq [agent : Agents, role : AgentRoles, then : Then]
  /\ RoleChanges \subseteq [agent : Agents, role : AgentRoles]
  /\ Stalling \subseteq Conns

VARIABLES
  created, active,  \* task_graph.tasks, active_task_id
  review, status,   \* Task.review_status, Task.status
  session,          \* Task.lead_session_id, current_coder_session_id
  owner,            \* SessionHandle.task_id and role, by external session id
  blocked,          \* ReviewGate.blocked
  role,             \* claude_role, codex_role
  bridge,           \* attached_agents["claude"]
  first,            \* the bridge connection that was given generation 0
  sdk,              \* claude_sdk_ws_tx
  inject,           \* codex_inject_tx
  connection,       \* claude_connection, codex_connection: the external session id
  link,             \* the peer of each connection: new, open, full (its channel has no
                    \* room), down, refused (a bridge in role conflict), gone
  seat,             \* the role each Codex session was started for (role_id)
  buffered,         \* buffered_messages
  thread,           \* what each thread is doing
  launch,           \* the launch the command loop awaits
  issued,           \* messages issued so far (their ids are 1..issued)
  fate              \* history: what became of each message

graphVars == <<created, active, review, status, session, owner>>
agentVars == <<role, bridge, first, sdk, inject, connection, link, seat>>
vars == <<graphVars, blocked, agentVars, buffered, thread, launch, issued, fate>>

----------------------------------------------------------------------------
(* Messages and threads *)

Message == [id : 1..MaxMsgs, from : AgentRoles \cup {"user"}, to : STRING,
            status : {"in_progress", "done", "error"},
            task : Tasks \cup {None}, session : Sessions \cup {None}]

\* pc, the message being routed, a connection or task the step refers to, and
\* the messages still to be routed or replayed.
Thread(pc, msg, arg, todo) == [pc |-> pc, msg |-> msg, arg |-> arg, todo |-> todo]
Idle == Thread("idle", None, None, <<>>)

Become(x, th) == thread' = [thread EXCEPT ![x] = th]

\* The thread takes its message one step further, or goes on with its replay.
Go(x, pc, arg) == Become(x, Thread(pc, thread[x].msg, arg, thread[x].todo))
Replays(x, list) == Become(x, Thread("replay", None, thread[x].arg, list))

\* The thread goes on with the next message of its list.
Proceed(x, list) ==
  Become(x, IF list = <<>> THEN Idle
            ELSE Thread("prepare", Head(list), None, Tail(list)))

At(x, pc) == thread[x].pc = pc

\* The connection is alive; while it is full, a send on its channel waits.
Up == {c \in Conns : link[c] \in {"open", "full"}}

Ids(s) == {s[i].id : i \in DOMAIN s}

Settle(ids, what) == fate' = [i \in 1..MaxMsgs |-> IF i \in ids THEN what ELSE fate[i]]

----------------------------------------------------------------------------
(* Agents and sessions *)

ClaudeOnline == bridge # None \/ sdk # None
Online(agent) == IF agent = "claude" THEN ClaudeOnline ELSE inject # None
Other(agent) == IF agent = "claude" THEN "codex" ELSE "claude"

\* online_role_conflict
Conflict(agent, r) == Online(Other(agent)) /\ role[Other(agent)] = r

\* task_session_for_role; a task keeps one lead and one current coder session
SessionFor(t, r) == IF r \in {"lead", "coder"} THEN session[t][r] ELSE None

\* agent_matches_bound_session; every session registered carries an external id,
\* so an agent without a connection matches none
Matches(agent, s) ==
  /\ s \in (IF agent = "claude" THEN SdkConns ELSE CodexConns)
  /\ connection[agent] = s

\* Mutant: the message's own session is not compared.
AgentMatchesAnySession(agent, m) ==
  \/ m.to \notin {"lead", "coder"}
  \/ m.session # None \/ m.task = None
  \/ SessionFor(m.task, m.to) # None /\ Matches(agent, SessionFor(m.task, m.to))

\* agent_matches_task_message
AgentMatches(agent, m) ==
  \/ m.to \notin {"lead", "coder"}
  \/ m.session = None /\ m.task = None
  \/ m.session # None /\ Matches(agent, m.session)
  \/ /\ m.session = None /\ m.task # None
     /\ SessionFor(m.task, m.to) # None
     /\ Matches(agent, SessionFor(m.task, m.to))

\* role_has_compatible_online_agent
Compatible(r) ==
  \E a \in Agents :
    /\ Online(a) /\ role[a] = r
    /\ r \in {"lead", "coder"} /\ active # None =>
         SessionFor(active, r) # None /\ Matches(a, SessionFor(active, r))

\* preferred_auto_target
Preferred(t) ==
  IF review[t] = None /\ status[t] = "Implementing" THEN "coder" ELSE "lead"

\* resolve_user_targets
UserTargets(target) ==
  CASE target # "auto" -> <<target>>
    [] target = "auto" /\ active # None /\ Compatible(Preferred(active)) -> <<Preferred(active)>>
    [] OTHER ->
         LET hit(a) == Online(a) /\ Compatible(role[a])
         IN  (IF hit("claude") THEN <<role["claude"]>> ELSE <<>>)
               \o (IF hit("codex") /\ ~(hit("claude") /\ role["claude"] = role["codex"])
                   THEN <<role["codex"]>> ELSE <<>>)

----------------------------------------------------------------------------
(* The buffer for roles that cannot be reached *)

\* buffer_message for each message of list in turn: whenever the buffer has
\* grown beyond BufferMax its BufferDrain oldest messages are dropped.
OverflowLate(n) == IF n > BufferMax + 1 THEN BufferDrain ELSE 0  \* Mutant: off by one.

Overflow(n) ==
  IF n > BufferMax THEN BufferDrain * ((n - BufferMax + BufferDrain - 1) \div BufferDrain) ELSE 0

BufferAll(list) ==
  LET all == buffered \o list
      cut == Overflow(Len(all))
  IN  /\ buffered' = SubSeq(all, cut + 1, Len(all))
      /\ Settle(Ids(SubSeq(all, 1, cut)), "overflow")

\* What s holds at the places kept, in order: a filter written as a recursive
\* function, so that what it keeps can be proved.
Select(s, kept) ==
  LET f[n \in 0..Len(s)] ==
        IF n = 0 THEN <<>> ELSE IF n \in kept THEN Append(f[n - 1], s[n]) ELSE f[n - 1]
  IN  f[Len(s)]

\* take_buffered_for_task; take_buffered_for is the case t = None
Wanted(r, t) == {i \in DOMAIN buffered : buffered[i].to = r /\ (t = None \/ buffered[i].task = t)}
Taken(r, t) == Select(buffered, Wanted(r, t))
LeftUntouched(r, t) == buffered  \* Mutant: the messages taken stay in the buffer.
Left(r, t)  == Select(buffered, DOMAIN buffered \ Wanted(r, t))

\* migrate_buffered_role
Migrated(old, new) ==
  [i \in DOMAIN buffered |->
     IF buffered[i].to = old THEN [buffered[i] EXCEPT !.to = new] ELSE buffered[i]]

----------------------------------------------------------------------------
(* Review gate and task flow *)

\* ReviewGate::should_block
ShouldBlock(r, m) == m.from = "lead" /\ m.to = "coder" /\ r # None

Completes(m) == m.from = "lead" /\ m.to = "user" /\ m.status = "done"

\* task_flow::process_message
Flow(m, t) ==
  CASE m.from = "coder" /\ m.to = "lead" /\ m.status # "in_progress" ->
         [review |-> "PendingLeadReview", status |-> "Reviewing"]
    [] m.from = "lead" /\ m.to = "reviewer" ->
         [review |-> "InReview", status |-> "Reviewing"]
    [] m.from = "reviewer" /\ m.to = "coder" ->
         [review |-> "PendingLeadReview", status |-> "Implementing"]
    [] m.from = "reviewer" /\ m.to = "lead" /\ m.status = "done" ->
         [review |-> "PendingLeadApproval", status |-> status[t]]
    [] Completes(m) -> [review |-> None, status |-> "Done"]
    [] OTHER -> [review |-> review[t], status |-> status[t]]

----------------------------------------------------------------------------
Init ==
  /\ created = {} /\ active = None
  /\ review = [t \in Tasks |-> None]
  /\ status = [t \in Tasks |-> "Draft"]
  /\ session = [t \in Tasks |-> [lead |-> None, coder |-> None]]
  /\ owner = [s \in Sessions |-> None]
  /\ blocked = [t \in Tasks |-> <<>>]
  /\ role = [claude |-> "lead", codex |-> "coder"]
  /\ bridge = None /\ first = None /\ sdk = None /\ inject = None
  /\ connection = [claude |-> None, codex |-> None]
  /\ link = [c \in Conns |-> "new"]
  /\ seat = [c \in CodexConns |-> None]
  /\ buffered = <<>>
  /\ thread = [x \in Threads |-> Idle]
  /\ launch = None
  /\ issued = 0
  /\ fate = [i \in 1..MaxMsgs |-> "none"]

----------------------------------------------------------------------------
(* Messages enter: the user through the command loop, agents through their *)
(* connection's thread.  Only the command loop changes the active task or  *)
(* a session, so stamping the user's messages before routing them is the   *)
(* same as stamping each just before it is routed.                         *)

NewMessage(from, reply) ==
  [id |-> issued + 1, from |-> from, to |-> reply.to, status |-> reply.status,
   task |-> None, session |-> None]

Issue(n) ==
  /\ issued + n <= MaxMsgs
  /\ issued' = issued + n
  /\ Settle((issued + 1)..(issued + n), "live")

SendUserInput(target) ==
  LET to == UserTargets(target)
      input(i) == [id |-> issued + i, from |-> "user", to |-> to[i], status |-> "done",
                   task |-> active, session |-> None]
  IN  /\ thread[Daemon] = Idle
      /\ to # <<>>
      /\ Issue(Len(to))
      /\ Proceed(Daemon, [i \in 1..Len(to) |-> input(i)])
      /\ UNCHANGED <<graphVars, blocked, agentVars, buffered, launch>>

\* The sender's role is read first, the task context in another critical section.
Reply(c, from, reply, pc) ==
  /\ thread[c] = Idle /\ c \in Up
  /\ Issue(1)
  /\ Become(c, Thread(pc, NewMessage(from, reply), None, <<>>))
  /\ UNCHANGED <<graphVars, blocked, agentVars, buffered, launch>>

Says(r) == {reply \in Replies : reply.by = r}
BridgeReply(c) == \E r \in Says(role["claude"]) : Reply(c, role["claude"], r, "stamp")
CodexReply(c)  == \E r \in Says(seat[c]) : Reply(c, seat[c], r, "stamp")
\* The visible result of a turn; it carries no task context.
SdkResult(c) == Reply(c, role["claude"], [to |-> "user", status |-> "done"], "prepare")

Stamp(x) ==
  LET m == thread[x].msg
      stamped == IF active = None THEN m
                 ELSE [m EXCEPT !.task = active, !.session = SessionFor(active, m.from)]
  IN  /\ At(x, "stamp")
      /\ Become(x, Thread("prepare", stamped, None, thread[x].todo))
      /\ UNCHANGED <<graphVars, blocked, agentVars, buffered, launch, issued, fate>>

----------------------------------------------------------------------------
(* route_message, one critical section at a time *)

GateBlocks(m) == active # None /\ ShouldBlock(review[active], m)

\* prepare_task_routing, and the way out for messages to the user
Prepare(x) ==
  LET m == thread[x].msg
  IN  /\ At(x, "prepare")
      /\ \/ /\ GateBlocks(m)
            /\ blocked' = [blocked EXCEPT ![active] = Append(@, m)]
            /\ Proceed(x, thread[x].todo)
            /\ UNCHANGED fate
         \/ /\ ~GateBlocks(m) /\ m.to = "user"
            /\ Settle({m.id}, "shown")
            /\ Go(x, "observe", None)
            /\ UNCHANGED blocked
         \/ /\ ~GateBlocks(m) /\ m.to # "user"
            /\ Go(x, "choose", None)
            /\ UNCHANGED <<blocked, fate>>
      /\ UNCHANGED <<graphVars, agentVars, buffered, launch, issued>>

Refused(m) ==
  \/ m.to \notin AgentRoles \cup {role["claude"], role["codex"]}
  \/ role["claude"] = m.to /\ m.from \notin {"user", role["codex"]}

\* The first online candidate: Claude's SDK socket, its bridge, then Codex.
Candidate(m) ==
  LET fits(a) == role[a] = m.to /\ AgentMatches(a, m)
  IN  CASE fits("claude") /\ sdk # None -> sdk
        [] fits("claude") /\ sdk = None /\ bridge # None -> bridge
        [] ~(fits("claude") /\ ClaudeOnline) /\ fits("codex") -> inject
        [] OTHER -> None

Choose(x) ==
  LET m == thread[x].msg
  IN  /\ At(x, "choose")
      /\ \/ /\ Refused(m)
            /\ Settle({m.id}, "refused")
            /\ Proceed(x, thread[x].todo)
         \/ /\ ~Refused(m)
            /\ Go(x, "send", Candidate(m))
            /\ UNCHANGED fate
      /\ UNCHANGED <<graphVars, blocked, agentVars, buffered, launch, issued>>

\* The lock is free between the choice and the send: the chosen connection may
\* have closed.  Its channel then either still accepts the message, which nobody
\* will read, or refuses it.  A full channel keeps the thread waiting.
Send(x) ==
  LET m == thread[x].msg
      c == thread[x].arg
  IN  /\ At(x, "send") /\ c # None /\ link[c] # "full"
      /\ Settle({m.id}, IF link[c] = "open" THEN "handed" ELSE "lost")
      /\ Go(x, "observe", None)
      /\ UNCHANGED <<graphVars, blocked, agentVars, buffered, launch, issued>>

SendFails(x) ==
  /\ At(x, "send")
  /\ thread[x].arg \notin Up
  /\ BufferAll(<<thread[x].msg>>)
  /\ Proceed(x, thread[x].todo)
  /\ UNCHANGED <<graphVars, blocked, agentVars, launch, issued>>

\* Mutant: a task that completes does not drain its gate.
ObserveWithoutDrain(x) ==
  /\ At(x, "observe") /\ Proceed(x, thread[x].todo)
  /\ IF active = None THEN UNCHANGED <<review, status>>
     ELSE /\ review' = [review EXCEPT ![active] = Flow(thread[x].msg, active).review]
          /\ status' = [status EXCEPT ![active] = Flow(thread[x].msg, active).status]
  /\ UNCHANGED <<created, active, session, owner, blocked, agentVars, buffered, launch,
                 issued, fate>>

\* observe_task_message_effects: the effects go to the task active now
Observe(x) ==
  LET m == thread[x].msg
  IN  /\ At(x, "observe")
      /\ Proceed(x, thread[x].todo)
      /\ \/ /\ active = None
            /\ UNCHANGED <<review, status, blocked, fate>>
         \/ /\ active # None
            /\ review' = [review EXCEPT ![active] = Flow(m, active).review]
            /\ status' = [status EXCEPT ![active] = Flow(m, active).status]
            /\ IF Completes(m)
               THEN /\ blocked' = [blocked EXCEPT ![active] = <<>>]
                    /\ Settle(Ids(blocked[active]), "drained")
               ELSE UNCHANGED <<blocked, fate>>
      /\ UNCHANGED <<created, active, session, owner, agentVars, buffered, launch, issued>>

----------------------------------------------------------------------------
(* Buffered messages leave: replayed to an agent that attaches, or taken by *)
(* Codex's check_messages tool *)

\* Mutant: a message that was sent stays first in the list.
ReplayOneTwice(x) ==
  LET c == thread[x].arg
  IN  /\ At(x, "replay") /\ thread[x].todo # <<>> /\ link[c] # "full"
      /\ Settle({Head(thread[x].todo).id}, IF link[c] = "open" THEN "handed" ELSE "lost")
      /\ \/ Replays(x, Tail(thread[x].todo))
         \/ UNCHANGED thread
      /\ UNCHANGED <<graphVars, blocked, agentVars, buffered, launch, issued>>

ReplayOne(x) ==
  LET c == thread[x].arg
  IN  /\ At(x, "replay") /\ thread[x].todo # <<>> /\ link[c] # "full"
      /\ Settle({Head(thread[x].todo).id}, IF link[c] = "open" THEN "handed" ELSE "lost")
      /\ Replays(x, Tail(thread[x].todo))
      /\ UNCHANGED <<graphVars, blocked, agentVars, buffered, launch, issued>>

ReplayFails(x) ==
  /\ At(x, "replay") /\ thread[x].todo # <<>>
  /\ thread[x].arg \notin Up
  /\ BufferAll(thread[x].todo)
  /\ Replays(x, <<>>)
  /\ UNCHANGED <<graphVars, blocked, agentVars, launch, issued>>

\* Mutant: the replay waits for its connection when that has closed.
ReplayDoneWhenOpen(x) ==
  /\ At(x, "replay") /\ thread[x].todo = <<>>
  /\ thread[x].arg \in Up
  /\ Become(x, Idle) /\ launch' = IF x = Daemon THEN None ELSE launch
  /\ UNCHANGED <<graphVars, blocked, agentVars, buffered, issued, fate>>

\* The command loop goes on to register the session when it attached one from
\* the provider's history.
ReplayDone(x) ==
  /\ At(x, "replay") /\ thread[x].todo = <<>>
  /\ IF x = Daemon /\ launch.then = "attach"
     THEN Become(x, Thread("register", None, thread[x].arg, <<>>)) /\ UNCHANGED launch
     ELSE Become(x, Idle) /\ launch' = IF x = Daemon THEN None ELSE launch
  /\ UNCHANGED <<graphVars, blocked, agentVars, buffered, issued, fate>>

\* The active task is read in one critical section and used in the next.
CheckMessages(c) ==
  /\ thread[c] = Idle /\ c \in Up
  /\ Become(c, Thread("check", None, active, <<>>))
  /\ UNCHANGED <<graphVars, blocked, agentVars, buffered, launch, issued, fate>>

CheckTake(c) ==
  LET t == thread[c].arg
  IN  /\ At(c, "check")
      /\ Settle(Ids(Taken(seat[c], t)), "handed")
      /\ buffered' = Left(seat[c], t)
      /\ Become(c, Idle)
      /\ UNCHANGED <<graphVars, blocked, agentVars, launch, issued>>

----------------------------------------------------------------------------
(* Task commands *)

CreateTask(t) ==
  /\ thread[Daemon] = Idle /\ t \notin created
  /\ created' = created \cup {t} /\ active' = t
  /\ UNCHANGED <<review, status, session, owner, blocked, agentVars, buffered,
                 thread, launch, issued, fate>>

\* Mutant: a task that does not exist can be selected.
SelectAnyTask(t) ==
  /\ thread[Daemon] = Idle
  /\ active' = t
  /\ UNCHANGED <<created, review, status, session, owner, blocked, agentVars, buffered,
                 thread, launch, issued, fate>>

SelectTask(t) ==
  /\ thread[Daemon] = Idle /\ t \in created \cup {None}  \* None: ClearActiveTask
  /\ active' = t
  /\ UNCHANGED <<created, review, status, session, owner, blocked, agentVars, buffered,
                 thread, launch, issued, fate>>

\* lead_approve if ready; the released messages are routed one after the other
Approve(ready, released, next) ==
  /\ thread[Daemon] = Idle
  /\ active # None /\ ready
  /\ status' = [status EXCEPT ![active] = next]
  /\ review' = [review EXCEPT ![active] = None]
  /\ blocked' = [blocked EXCEPT ![active] = <<>>]
  /\ Proceed(Daemon, released)
  /\ UNCHANGED <<created, active, session, owner, agentVars, buffered, launch, issued, fate>>

\* Mutants: approval forgets the status, drops what it releases, or ends a round
\* that does not wait for it.
ApproveKeepsStatus ==
  Approve(review[active] = "PendingLeadApproval", blocked[active], status[active])
ApproveDropsReleased ==
  Approve(review[active] = "PendingLeadApproval", <<>>, "Implementing")
ApproveAnyRound == Approve(review[active] # None, blocked[active], "Implementing")

ApproveReview ==
  Approve(review[active] = "PendingLeadApproval", blocked[active], "Implementing")

\* set_role
SetRole(agent, r) ==
  /\ thread[Daemon] = Idle
  /\ ~Conflict(agent, r) /\ role[agent] # r
  /\ role' = [role EXCEPT ![agent] = r]
  /\ buffered' = Migrated(role[agent], r)
  /\ UNCHANGED <<graphVars, blocked, bridge, first, sdk, inject, connection, link, seat,
                 thread, launch, issued, fate>>

----------------------------------------------------------------------------
(* Launches and sessions.  The command loop awaits a launch, so nothing     *)
(* else it does can interleave with one; connections and agents can.        *)

\* Mutant: the session is given to the task that was active.
ResumeIntoActive(s) ==
  /\ active' = owner[s].task
  /\ session' = IF active = None THEN session
                ELSE [session EXCEPT ![active][owner[s].role] = s]
  /\ UNCHANGED owner

\* resume_session: the task of the session becomes active and takes it up
ResumeSession(s) ==
  /\ active' = owner[s].task
  /\ session' = [session EXCEPT ![owner[s].task][owner[s].role] = s]
  /\ UNCHANGED owner

\* register_on_launch of each provider
SlotOf(agent, r) ==
  IF agent = "codex" THEN (IF r = "lead" THEN "lead" ELSE "coder")
                     ELSE (IF r = "coder" THEN "coder" ELSE "lead")

RegisterOnLaunch(agent, s, r) ==
  /\ UNCHANGED active
  /\ IF active = None THEN UNCHANGED <<session, owner>>
     ELSE /\ session' = [session EXCEPT ![active][SlotOf(agent, r)] = s]
          /\ owner' = [owner EXCEPT ![s] = [task |-> active, role |-> SlotOf(agent, r)]]

ConnsOf(agent) == IF agent = "claude" THEN SdkConns ELSE CodexConns
Registered(agent) == {s \in ConnsOf(agent) : owner[s] # None}

\* The provider session a launch asks for: "new" a fresh one; "thread" one named
\* by the caller, known to the task graph or not; "attach" one from the provider's
\* history that the graph does not know; "resume" a session of the graph.
Asked(l, c) ==
  CASE l.then = "new" -> {c}
    [] l.then = "attach" -> IF active # None /\ l.role # "reviewer" THEN {c} ELSE {}
    [] l.then = "thread" -> {c} \cup Registered(l.agent)
    [] l.then = "resume" -> {s \in Registered(l.agent) : owner[s].role = l.role}

\* stop_codex_session, stop_claude_sdk_session
Stopped(agent) ==
  /\ link' = [c \in Conns |-> IF c \in ConnsOf(agent) /\ link[c] \in {"open", "full", "down"}
                              THEN "gone" ELSE link[c]]
  /\ connection' = [connection EXCEPT ![agent] = None]
  /\ IF agent = "claude" THEN sdk' = None /\ UNCHANGED inject
                         ELSE inject' = None /\ UNCHANGED sdk

Stop(agent) ==
  /\ thread[Daemon] = Idle /\ (Online(agent) \/ connection[agent] # None)
  /\ Stopped(agent)
  /\ UNCHANGED <<graphVars, blocked, role, bridge, first, seat, buffered, thread, launch, issued, fate>>

\* Attaching and resuming check for a role conflict before they stop the running
\* session, the other launches after it; resuming a Codex session never checks.
Launch(l, c) ==
  /\ thread[Daemon] = Idle /\ c \in ConnsOf(l.agent) /\ link[c] = "new"
  /\ Stopped(l.agent)
  /\ \E s \in Asked(l, c) :
       \/ /\ ~Conflict(l.agent, l.role) \/ (l.agent = "codex" /\ l.then = "resume")
          /\ launch' = [agent |-> l.agent, role |-> l.role, then |-> l.then, session |-> s]
          /\ Become(Daemon, Thread("await", None, c, <<>>))
       \/ /\ Conflict(l.agent, l.role) /\ l.then \in {"new", "thread"}
          /\ UNCHANGED <<launch, thread>>
  /\ UNCHANGED <<graphVars, blocked, role, bridge, first, seat, buffered, issued, fate>>

LaunchFails ==
  LET c == thread[Daemon].arg
  IN  /\ At(Daemon, "await") /\ link[c] = "new"
      /\ link' = [link EXCEPT ![c] = "gone"]
      /\ Become(Daemon, Idle) /\ launch' = None
      /\ UNCHANGED <<graphVars, blocked, role, bridge, first, sdk, inject, connection, seat,
                     buffered, issued, fate>>

\* handle_ws_connection attaches the socket; nothing is replayed to it
SdkConnect ==
  LET c == thread[Daemon].arg
  IN  /\ At(Daemon, "await") /\ c \in SdkConns /\ link[c] = "new"
      /\ sdk' = c
      /\ link' = [link EXCEPT ![c] = "open"]
      /\ UNCHANGED <<graphVars, blocked, role, bridge, first, inject, connection, seat, buffered,
                     thread, launch, issued, fate>>

\* spawn_runtime goes on once the socket has attached
SdkReady ==
  LET c == thread[Daemon].arg
  IN  /\ At(Daemon, "await") /\ c \in SdkConns /\ link[c] # "new"
      /\ connection' = [connection EXCEPT !["claude"] = launch.session]
      /\ role' = [role EXCEPT !["claude"] = launch.role]
      /\ IF launch.then \in {"attach", "resume"}
         THEN Become(Daemon, Thread("register", None, c, <<>>)) /\ UNCHANGED launch
         ELSE Become(Daemon, Idle) /\ launch' = None
      /\ UNCHANGED <<graphVars, blocked, bridge, first, sdk, inject, link, seat, buffered, issued, fate>>

\* The Codex handshake is done: one critical section publishes the session and
\* takes the buffer.  The session task runs already and may be over again.
CodexAttach ==
  LET c == thread[Daemon].arg
      s == launch.session
  IN  /\ At(Daemon, "await") /\ c \in CodexConns
      /\ link' \in {[link EXCEPT ![c] = l] : l \in {"open", "gone"}}
      /\ role' = [role EXCEPT !["codex"] = launch.role]
      /\ seat' = [seat EXCEPT ![c] = launch.role]
      /\ inject' = c
      /\ connection' = [connection EXCEPT !["codex"] = s]
      /\ CASE launch.then = "new" -> RegisterOnLaunch("codex", s, launch.role)
           [] launch.then # "new" /\ owner[s] # None -> ResumeSession(s)
           [] OTHER -> UNCHANGED <<active, session, owner>>
      /\ buffered' = Left(launch.role, None)
      /\ Become(Daemon, Thread("replay", None, c, Taken(launch.role, None)))
      /\ UNCHANGED <<created, review, status, blocked, bridge, first, sdk, launch, issued, fate>>

\* The last step of attaching from the provider's history or resuming
Register ==
  /\ At(Daemon, "register")
  /\ IF launch.then = "attach"
     THEN RegisterOnLaunch(launch.agent, launch.session, launch.role)
     ELSE ResumeSession(launch.session)
  /\ Become(Daemon, Idle) /\ launch' = None
  /\ UNCHANGED <<created, review, status, blocked, agentVars, buffered, issued, fate>>

\* AttachProviderHistory of a session the graph knows launches nothing
AttachKnown(s) ==
  /\ thread[Daemon] = Idle /\ owner[s] # None
  /\ ResumeSession(s)
  /\ UNCHANGED <<created, review, status, blocked, agentVars, buffered, thread,
                 launch, issued, fate>>

----------------------------------------------------------------------------
(* Connections *)

\* AgentConnect: one critical section checks, registers and takes the buffer.  The
\* generations it gives out start at 0.
BridgeAttach(c) ==
  /\ link[c] = "new" /\ ~Conflict("claude", role["claude"])
  /\ link' = [link EXCEPT ![c] = "open"]
  /\ bridge' = c
  /\ first' = IF first = None THEN c ELSE first
  /\ buffered' = Left(role["claude"], None)
  /\ Become(c, Thread("replay", None, c, Taken(role["claude"], None)))
  /\ UNCHANGED <<graphVars, blocked, role, sdk, inject, connection, seat, launch, issued, fate>>

\* A bridge in role conflict is not registered, but its handler runs the cleanup.
BridgeRejected(c) ==
  /\ link[c] = "new" /\ Conflict("claude", role["claude"])
  /\ link' = [link EXCEPT ![c] = "refused"]
  /\ UNCHANGED <<graphVars, blocked, role, bridge, first, sdk, inject, connection, seat,
                 buffered, thread, launch, issued, fate>>

\* The peer takes so little that a channel of 64 messages fills up, and takes more again.
Fills(c) ==
  /\ c \in Stalling /\ link[c] = "open"
  /\ link' = [link EXCEPT ![c] = "full"]
  /\ UNCHANGED <<graphVars, blocked, role, bridge, first, sdk, inject, connection, seat,
                 buffered, thread, launch, issued, fate>>

Drains(c) ==
  /\ link[c] = "full"
  /\ link' = [link EXCEPT ![c] = "open"]
  /\ UNCHANGED <<graphVars, blocked, role, bridge, first, sdk, inject, connection, seat,
                 buffered, thread, launch, issued, fate>>

PeerCloses(c) ==
  /\ c \in (BridgeConns \cup SdkConns) \cap Up
  /\ link' = [link EXCEPT ![c] = "down"]
  /\ UNCHANGED <<graphVars, blocked, role, bridge, first, sdk, inject, connection, seat,
                 buffered, thread, launch, issued, fate>>

\* Mutant: the cleanup does not ask whose registration it clears.
BridgeCleanupAnyone(c) ==
  /\ link[c] \in {"down", "refused"} /\ thread[c] = Idle
  /\ link' = [link EXCEPT ![c] = "gone"]
  /\ bridge' = None
  /\ connection' = IF sdk = None THEN [connection EXCEPT !["claude"] = None] ELSE connection
  /\ UNCHANGED <<graphVars, blocked, role, first, sdk, inject, seat, buffered, thread,
                 launch, issued, fate>>

\* The registration the handler of c holds to be its own: that of its generation,
\* which is still 0 when the connection was refused.
Claims(c) == IF link[c] = "refused" THEN first ELSE c

\* The handler's cleanup, which leaves a registration of another generation alone
BridgeCleanup(c) ==
  LET ours == bridge # None /\ bridge = Claims(c)
  IN  /\ link[c] \in {"down", "refused"} /\ thread[c] = Idle
      /\ link' = [link EXCEPT ![c] = "gone"]
      /\ bridge' = IF ours THEN None ELSE bridge
      /\ connection' = IF ours /\ sdk = None
                       THEN [connection EXCEPT !["claude"] = None] ELSE connection
      /\ UNCHANGED <<graphVars, blocked, role, first, sdk, inject, seat, buffered, thread,
                     launch, issued, fate>>

\* clear_claude_sdk_ws
SdkCleanup(c) ==
  /\ link[c] = "down"
  /\ link' = [link EXCEPT ![c] = "gone"]
  /\ sdk' = IF sdk = c THEN None ELSE sdk
  /\ UNCHANGED <<graphVars, blocked, role, bridge, first, inject, connection, seat, buffered,
                 thread, launch, issued, fate>>

\* The session task ends by itself, or the process exits
CodexEnds(c) ==
  /\ c \in Up /\ thread[c] = Idle
  /\ link' = [link EXCEPT ![c] = "gone"]
  /\ inject' = IF inject = c THEN None ELSE inject
  /\ connection' = IF inject = c THEN [connection EXCEPT !["codex"] = None] ELSE connection
  /\ UNCHANGED <<graphVars, blocked, role, bridge, first, sdk, seat, buffered, thread,
                 launch, issued, fate>>

Holds(x) ==
  (IF thread[x].pc \in {"stamp", "prepare", "choose", "send"} THEN {thread[x].msg.id} ELSE {})
    \cup Ids(thread[x].todo)

\* A stopped session task is dropped at whatever await it has reached
CodexCancelled(c) ==
  /\ link[c] = "gone" /\ thread[c] # Idle
  /\ Settle(Holds(c), "cancelled")
  /\ Become(c, Idle)
  /\ UNCHANGED <<graphVars, blocked, agentVars, buffered, launch, issued>>

\* ForceDisconnectAgent("claude"): two critical sections
ForceDisconnect ==
  /\ thread[Daemon] = Idle /\ bridge # None
  /\ bridge' = None
  /\ Become(Daemon, Thread("disconnect", None, None, <<>>))
  /\ UNCHANGED <<graphVars, blocked, role, sdk, inject, connection, link, first, seat, buffered,
                 launch, issued, fate>>

ForceClear ==
  /\ At(Daemon, "disconnect")
  /\ connection' = [connection EXCEPT !["claude"] = None]
  /\ Become(Daemon, Idle)
  /\ UNCHANGED <<graphVars, blocked, role, bridge, first, sdk, inject, link, seat, buffered,
                 launch, issued, fate>>

----------------------------------------------------------------------------
\* What a thread that has started something does next
Step(x) ==
  \/ Stamp(x) \/ Prepare(x) \/ Choose(x) \/ Send(x) \/ SendFails(x) \/ Observe(x)
  \/ ReplayOne(x) \/ ReplayFails(x) \/ ReplayDone(x)

DaemonStep ==
  Step(Daemon) \/ LaunchFails \/ SdkReady \/ CodexAttach \/ Register \/ ForceClear

UserCommand ==
  \/ \E target \in Targets : SendUserInput(target)
  \/ \E t \in Tasks : CreateTask(t)
  \/ \E t \in Tasks \cup {None} : SelectTask(t)
  \/ ApproveReview
  \/ \E ch \in RoleChanges : SetRole(ch.agent, ch.role)
  \/ \E agent \in Agents : Stop(agent)
  \/ \E l \in Launches, c \in Sessions : Launch(l, c)
  \/ \E s \in Sessions : AttachKnown(s)
  \/ ForceDisconnect

BridgeNext(c) ==
  BridgeAttach(c) \/ BridgeRejected(c) \/ BridgeReply(c) \/ BridgeCleanup(c)

CodexNext(c) ==
  CodexReply(c) \/ CheckMessages(c) \/ CheckTake(c) \/ CodexEnds(c) \/ CodexCancelled(c)

Peer(c) == PeerCloses(c) \/ Fills(c) \/ Drains(c)

Next ==
  \/ UserCommand
  \/ DaemonStep
  \/ SdkConnect
  \/ \E c \in Conns : Step(c) \/ Peer(c)
  \/ \E c \in BridgeConns : BridgeNext(c)
  \/ \E c \in SdkConns : SdkResult(c) \/ SdkCleanup(c)
  \/ \E c \in CodexConns : CodexNext(c)

Spec == Init /\ [][Next]_vars

\* The runtime polls a task that can go on; a launch ends by itself or at its
\* time-out.  Nothing is assumed of users, agents or connections.
Fairness ==
  /\ WF_vars(DaemonStep)
  /\ \A c \in Conns : WF_vars(Step(c))
  /\ \A c \in CodexConns : WF_vars(CheckTake(c) \/ CodexCancelled(c))

FairSpec == Spec /\ Fairness

----------------------------------------------------------------------------
(* Properties *)

\* The types of the daemon's state; a launch is known from its start until the
\* command loop is done with it.
IsSeq(s) == s \in Seq({s[i] : i \in DOMAIN s})

GraphTypeOK ==
  /\ created \subseteq Tasks /\ active \in created \cup {None}
  /\ review \in [Tasks -> Reviews \cup {None}]
  /\ status \in [Tasks -> {"Draft", "Implementing", "Reviewing", "Done"}]
  /\ session \in [Tasks -> [{"lead", "coder"} -> Sessions \cup {None}]]
  /\ owner \in [Sessions -> [task : Tasks, role : {"lead", "coder"}] \cup {None}]
  /\ \A s \in Sessions : owner[s] # None => owner[s].task \in created
  /\ DOMAIN blocked = Tasks /\ \A t \in Tasks : IsSeq(blocked[t])

AgentTypeOK ==
  /\ role \in [Agents -> AgentRoles]
  /\ bridge \in BridgeConns \cup {None} /\ sdk \in SdkConns \cup {None}
  /\ inject \in CodexConns \cup {None} /\ first \in BridgeConns \cup {None}
  /\ connection \in [Agents -> Sessions \cup {None}]
  /\ link \in [Conns -> {"new", "open", "full", "down", "refused", "gone"}]
  /\ seat \in [CodexConns -> AgentRoles \cup {None}]

LaunchTypeOK ==
  /\ DOMAIN thread = Threads
  /\ \A x \in Threads :
       thread[x] = Thread(thread[x].pc, thread[x].msg, thread[x].arg, thread[x].todo)
  /\ \A x \in Conns : thread[x].pc \notin {"await", "register"}
  /\ thread[Daemon].pc \in {"await", "replay", "register"} <=> launch # None
  /\ launch # None =>
       /\ launch \in [agent : Agents, role : AgentRoles, then : Then, session : Sessions]
       /\ thread[Daemon].arg \in ConnsOf(launch.agent)
       /\ launch.then = "resume" => owner[launch.session] # None
       /\ thread[Daemon].pc = "register" => launch.then \in {"attach", "resume"}

TypeOK == GraphTypeOK /\ AgentTypeOK /\ LaunchTypeOK

\* state_delivery.rs 78-84: the buffer keeps its bound although a failed replay
\* puts a whole list back into it.
BufferBounded == Len(buffered) <= BufferMax

\* state_task_flow.rs 144-168 and task_flow.rs 17-71: messages wait at the gate
\* of a task only while that task is under review.  Otherwise nothing would ever
\* release them: approval and completion act on a task under review or end it.
BlockedOnlyUnderReview == \A t \in Tasks : blocked[t] # <<>> => review[t] # None

\* task_flow.rs 17-69: a task shown as under review has an open review round, so
\* that approval or completion can end it.
ReviewingHasRound == \A t \in Tasks : status[t] = "Reviewing" => review[t] # None

Copies(i) ==
  LET in(s) == Cardinality({k \in DOMAIN s : s[k].id = i})
      atGate == {t \in Tasks : i \in Ids(blocked[t])}
      held   == {x \in Threads : i \in Holds(x)}
  IN  in(buffered) + Cardinality(atGate) + Cardinality(held)

\* routing.rs 27-180, handler.rs 294-320, codex/mod.rs 288-303: whatever the
\* threads interleave, a message whose fate is open is in exactly one place (with
\* a thread, in the buffer or at the gate), and one whose fate is settled in none.
ExactlyOnePlace ==
  \A i \in 1..MaxMsgs : Copies(i) = IF fate[i] = "live" THEN 1 ELSE 0

\* state_snapshot.rs 174-196, provider/codex.rs 46-86, provider/claude.rs 50-109:
\* the lead and coder sessions a task points at are sessions of that task and
\* role, so resuming one never brings another task's session in.
PointersOwnTheirSessions ==
  \A t \in Tasks, r \in {"lead", "coder"} :
    session[t][r] # None => owner[session[t][r]] = [task |-> t, role |-> r]

\* state_task_flow.rs 48-105: a lead or coder message stamped with a task is sent
\* only to an agent whose provider session belongs to that task, although the
\* stamp, the pointers and the connections are written in other critical sections.
RoutesStayInTask ==
  [][\A x \in Threads :
       LET m == thread[x].msg
           c == thread'[x].arg
       IN  /\ At(x, "choose") /\ thread'[x].pc = "send" /\ c # None
           /\ m.to \in {"lead", "coder"} /\ m.task # None
           => LET s == connection[IF c \in CodexConns THEN "codex" ELSE "claude"]
              IN  s # None /\ owner[s] # None /\ owner[s].task = m.task]_vars

\* The daemon has the message with a thread, in the buffer or at a gate.
Has(i) ==
  \/ \E x \in Threads : i \in Holds(x)
  \/ \E k \in DOMAIN buffered : buffered[k].id = i
  \/ \E t \in Tasks : i \in Ids(blocked[t])

Stage(i) ==
  CASE fate[i] = "none" /\ ~Has(i) -> "fresh"
    [] fate[i] = "live" /\ Has(i) -> "held"
    [] fate[i] \in {"handed", "shown"} /\ ~Has(i) -> "delivered"
    [] fate[i] \in {"refused", "lost", "overflow", "drained", "cancelled"} /\ ~Has(i) -> "lost"
    [] OTHER -> "astray"

\* routing.rs 27-180, state_task_flow.rs 144-168, handler.rs 294-320: a message taken over
\* from a user or an agent is somewhere in the daemon until it is delivered, once, or given
\* up for good; what a review holds back is not forgotten when the review ends.
Messages_ == INSTANCE Handoff WITH Items <- 1..MaxMsgs, stage <- [i \in 1..MaxMsgs |-> Stage(i)]
MessagesAreHandedOver == Messages_!Spec

\* task_flow.rs 41,45-49,65-70: the gate of a task lets messages go only when the
\* lead has approved a review that waited for it, or when the task completes.
GateOpensOnlyOnApproval ==
  [][\A t \in Tasks :
       Len(blocked'[t]) < Len(blocked[t]) =>
         \/ review[t] = "PendingLeadApproval" /\ status'[t] = "Implementing"
         \/ status'[t] = "Done"]_vars

Lives(c) == link'[c] \in {"open", "full"}

\* handler.rs 38, 65, 84, 198-209: a refused connection's handler ends with generation
\* 0, the generation of the first bridge.
RefusedHandlerEnds == \E b \in BridgeConns : link[b] = "refused" /\ link'[b] = "gone"

\* handler.rs 60-105 and 198-209, claude_sdk_handler.rs 98-103, codex/session.rs
\* 152-160: a live connection stays the one its agent is reached by until a newer one
\* takes over or the user disconnects it; no late cleanup of another one ends it,
\* but that of a refused one the first bridge's registration.
RegistrationFollowsLink ==
  [][/\ \A c \in CodexConns : inject = c /\ Lives(c) => inject' = c
     /\ \A c \in SdkConns : sdk = c /\ Lives(c) => sdk' = c
     /\ \A c \in BridgeConns :
          bridge = c /\ Lives(c) =>
            \/ bridge' \in {c} \cup {b \in BridgeConns : link[b] = "new"}
            \/ thread'[Daemon].pc = "disconnect"
            \/ bridge' = None /\ c = first /\ RefusedHandlerEnds]_vars

\* The thread has a message for a connection that takes no more.
WaitsForRoom(x) ==
  /\ At(x, "send") \/ (At(x, "replay") /\ thread[x].todo # <<>>)
  /\ thread[x].arg # None /\ link[thread[x].arg] = "full"

\* routing.rs 27-180, handler.rs 294-320, codex/mod.rs 288-303: a thread that has started
\* to route, replay or launch comes back to its loop, unless it comes to wait for room
\* in the channel of a connection that stays open and takes nothing.
ThreadsComeBack == \A x \in Threads : thread[x] # Idle ~> thread[x] = Idle \/ WaitsForRoom(x)

\* What documents and comments promise, and the code does not do

\* The messages the thread's next step may hand to an agent
Handing(x) ==
  CASE At(x, "send")   -> {thread[x].msg}
    [] At(x, "replay") -> {thread[x].todo[i] : i \in DOMAIN thread[x].todo \cap {1}}
    [] At(x, "check")  -> LET s == Taken(seat[x], thread[x].arg) IN {s[i] : i \in DOMAIN s}
    [] OTHER -> {}

\* review_gate.rs 6-7: "blocks lead->coder messages during active review": no such
\* message reaches the coder while the task it was stamped with is under review.
NoLeadToCoderDuringReview ==
  [][\A x \in Threads : \A m \in Handing(x) :
       /\ fate[m.id] = "live" /\ fate'[m.id] = "handed"
       /\ m.from = "lead" /\ m.to = "coder" /\ m.task # None
       => review[m.task] = None]_vars

\* dimweave-audit-summary.md 51: a message is buffered only when no agent online
\* is a candidate for it; here, none that has the role and is bound to the session
\* which the message's own task keeps for that role.
BufferedOnlyWithoutCandidate ==
  [][\A x \in Threads :
       At(x, "choose") /\ thread'[x].pc = "send" /\ thread'[x].arg = None =>
         LET m == thread[x].msg
         IN  \A a \in Agents :
               ~(/\ Online(a) /\ role[a] = m.to
                 /\ m.task # None /\ SessionFor(m.task, m.to) # None
                 /\ Matches(a, SessionFor(m.task, m.to)))]_vars
============================================================================
