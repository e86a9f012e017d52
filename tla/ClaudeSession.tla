---------------------------- MODULE ClaudeSession ----------------------------
(***************************************************************************)
(* The life of a Claude SDK session: the command loop launches and stops a *)
(* claude process, the process connects back over a WebSocket, and a       *)
(* monitor task respawns it when the socket is lost.  Launches are told    *)
(* apart by an epoch, processes by a nonce, sockets by a generation; every *)
(* action is one critical section of the daemon's state, or one step on a  *)
(* process outside it.                                                     *)
(***************************************************************************)
EXTENDS Integers, FiniteSets

CONSTANTS
  Daemon,       \* the command loop
  MaxProcs,     \* bound: launch attempts, of the command loop and of monitors
  Sockets,      \* WebSocket connections, each used once
  MaxAttempts,  \* MAX_WS_RECONNECT_ATTEMPTS, 5 in the code
  None

\* A launch attempt, its process and the nonce of both have one number; a monitor
\* has the number of the launch it watches, which is also its cancel token's.
Procs  == 1..MaxProcs
Actors == {Daemon} \cup Procs

ASSUME SessionAssumption ==
  /\ MaxProcs \in Nat /\ MaxAttempts \in Nat \ {0}
  /\ Daemon \notin Procs \cup {None} /\ None \notin Procs \cup Sockets

VARIABLES
  epoch,       \* claude_sdk_session_epoch
  pending,     \* claude_sdk_pending_nonce
  active,      \* claude_sdk_active_nonce
  online,      \* claude_sdk_ws_tx: the socket attached
  generation,  \* claude_sdk_ws_generation
  ready,       \* claude_sdk_ready_tx: the launch it answers
  connection,  \* claude_connection: the launch whose session id it shows
  handle,      \* the command loop's ClaudeSdkHandle
  cancelled,   \* cancelled tokens
  told,        \* launches that have been told they are ready
  launched,    \* launch attempts so far
  child,       \* the claude processes
  held,        \* processes still in the cell of their launch (Arc<Mutex<Option<Child>>>)
  socket,
  actor        \* what the command loop and each monitor are doing

sessionVars == <<epoch, pending, active, online, ready, connection>>
taskVars == <<handle, cancelled, told, launched, child, held>>
vars == <<sessionVars, generation, taskVars, socket, actor>>

----------------------------------------------------------------------------
\* own and epoch: the process and epoch a monitor watches; new and begun: those of
\* the launch attempt in progress.
Actor(pc, own, ep, attempt, new, begun) ==
  [pc |-> pc, own |-> own, epoch |-> ep, attempt |-> attempt, new |-> new, begun |-> begun]

At(x, pc) == actor[x].pc = pc
Goto(x, pc) == actor' = [actor EXCEPT ![x].pc = pc]

Nonces == {pending, active} \ {None}  \* claude_sdk_accepts_launch_nonce
Socket(pc, p, ep, gen) == [pc |-> pc, proc |-> p, epoch |-> ep, gen |-> gen]

Init ==
  /\ epoch = 0 /\ generation = 0 /\ launched = 0
  /\ pending = None /\ active = None /\ online = None /\ ready = None
  /\ connection = None /\ handle = None
  /\ cancelled = {} /\ told = {} /\ held = {}
  /\ child = [p \in Procs |-> "none"]
  /\ socket = [w \in Sockets |-> Socket("new", None, 0, 0)]
  /\ actor = [x \in Actors |-> Actor(IF x = Daemon THEN "idle" ELSE "none", None, 0, 0, None, 0)]

\* Mutant: the socket survives its session.
InvalidateKeepsSocket ==
  /\ epoch' = epoch + 1
  /\ pending' = None /\ active' = None /\ ready' = None /\ connection' = None
  /\ UNCHANGED online

\* invalidate_claude_sdk_session
Invalidate ==
  /\ epoch' = epoch + 1
  /\ pending' = None /\ active' = None
  /\ online' = None /\ ready' = None /\ connection' = None

InvalidateIfCurrent(e) ==
  \/ epoch = e /\ Invalidate
  \/ epoch # e /\ UNCHANGED sessionVars

\* kill_child and stop: the process that is still in its cell is taken and killed
Kill(p) ==
  /\ child' = IF p \in held THEN [child EXCEPT ![p] = "dead"] ELSE child
  /\ held' = held \ {p}

----------------------------------------------------------------------------
(* The command loop *)

\* stop_claude_sdk_session cancels and kills first, and invalidates in a second
\* step; a launch command stops whatever runs in the same way.  Bound: a stop that
\* finds nothing at all would only advance the epoch, and is left out.
Stop(then) ==
  /\ At(Daemon, "idle")
  /\ then = "begin" \/ {handle, pending, active, online, ready, connection} # {None}
  /\ cancelled' = cancelled \cup ({handle} \ {None})
  /\ handle' = None
  /\ Kill(handle)
  /\ Goto(Daemon, IF then = "begin" THEN "restart" ELSE "stop")
  /\ UNCHANGED <<sessionVars, generation, told, launched, socket>>

StopCommand == Stop("idle")
LaunchCommand == launched < MaxProcs /\ Stop("begin")

Stopped ==
  /\ At(Daemon, "stop") \/ At(Daemon, "restart")
  /\ Invalidate
  /\ Goto(Daemon, IF At(Daemon, "restart") THEN "begin" ELSE "idle")
  /\ UNCHANGED <<generation, taskVars, socket>>

\* launch_claude_sdk gives up before it begins: a role conflict, no claude binary.
\* It counts as a launch attempt, which bounds how often that happens.
LaunchRefused ==
  /\ At(Daemon, "begin") /\ launched < MaxProcs
  /\ launched' = launched + 1
  /\ Goto(Daemon, "idle")
  /\ UNCHANGED <<sessionVars, generation, handle, cancelled, told, child, held, socket>>

----------------------------------------------------------------------------
(* spawn_runtime, for the command loop and for a monitor that recovers *)

\* Mutant: the process accepted before may still come back.
BeginKeepsActive(x) ==
  LET p == launched + 1
  IN  /\ At(x, "begin") /\ launched < MaxProcs
      /\ launched' = p
      /\ epoch' = epoch + 1
      /\ pending' = p /\ online' = None /\ ready' = p
      /\ actor' = [actor EXCEPT ![x].pc = "spawn", ![x].new = p, ![x].begun = epoch + 1]
      /\ UNCHANGED <<active, connection, generation, handle, cancelled, told, child, held, socket>>

\* prepare_launch_channels
Begin(x) ==
  LET p == launched + 1
  IN  /\ At(x, "begin") /\ launched < MaxProcs
      /\ launched' = p
      /\ epoch' = epoch + 1
      /\ pending' = p /\ active' = None /\ online' = None /\ ready' = p
      /\ actor' = [actor EXCEPT ![x].pc = "spawn", ![x].new = p, ![x].begun = epoch + 1]
      /\ UNCHANGED <<connection, generation, handle, cancelled, told, child, held, socket>>

Spawn(x) ==
  /\ At(x, "spawn")
  /\ child' = [child EXCEPT ![actor[x].new] = "running"]
  /\ held' = held \cup {actor[x].new}
  /\ Goto(x, "wait")
  /\ UNCHANGED <<sessionVars, generation, handle, cancelled, told, launched, socket>>

\* Mutant: one attempt too many.
FailedLate(x) ==
  IF x = Daemon THEN Goto(x, "idle")
  ELSE actor' = [actor EXCEPT ![x].attempt = @ + 1,
                              ![x].pc = IF actor[x].attempt <= MaxAttempts THEN "sleep" ELSE "giveup"]

\* A launch that failed: the command loop reports it, a monitor tries again.
Failed(x) ==
  IF x = Daemon THEN Goto(x, "idle")
  ELSE actor' = [actor EXCEPT ![x].attempt = @ + 1,
                              ![x].pc = IF actor[x].attempt < MaxAttempts THEN "sleep" ELSE "giveup"]

SpawnFails(x) ==
  /\ At(x, "spawn")
  /\ InvalidateIfCurrent(actor[x].begun)
  /\ Failed(x)
  /\ UNCHANGED <<generation, taskVars, socket>>

\* Bound: when MaxProcs processes have been launched every further spawn fails, here
\* in the step that begins it.
SpawnImpossible(x) ==
  /\ At(x, "begin") /\ launched = MaxProcs
  /\ epoch' = epoch + 2
  /\ pending' = None /\ active' = None
  /\ online' = None /\ ready' = None /\ connection' = None
  /\ Failed(x)
  /\ UNCHANGED <<generation, taskVars, socket>>

\* The wait ends with the signal, or without it: the sender was dropped, the
\* process exited, or 30 seconds have passed.
Connected(x) ==
  /\ At(x, "wait") /\ actor[x].new \in told
  /\ Goto(x, "publish")
  /\ UNCHANGED <<sessionVars, generation, taskVars, socket>>

\* Mutant: no time-out.
WaitForExit(x) ==
  /\ At(x, "wait") /\ child[actor[x].new] = "dead"
  /\ Kill(actor[x].new)
  /\ Goto(x, "abort")
  /\ UNCHANGED <<sessionVars, generation, handle, cancelled, told, launched, socket>>

NotConnected(x) ==
  /\ At(x, "wait")
  /\ Kill(actor[x].new)
  /\ Goto(x, "abort")
  /\ UNCHANGED <<sessionVars, generation, handle, cancelled, told, launched, socket>>

Abort(x) ==
  /\ At(x, "abort")
  /\ InvalidateIfCurrent(actor[x].begun)
  /\ Failed(x)
  /\ UNCHANGED <<generation, taskVars, socket>>

\* The session is shown, whatever has happened to it since it connected.  The
\* command loop then has its handle, and the launch its monitor.
Publish(x) ==
  LET p == actor[x].new
      e == actor[x].begun
  IN  /\ At(x, "publish")
      /\ IF x = Daemon
         THEN /\ connection' = p /\ handle' = p
              /\ actor' = [actor EXCEPT ![Daemon] = Actor("idle", None, 0, 0, None, 0),
                                        ![p] = Actor("watch", p, e, 0, None, 0)]
         ELSE /\ connection' = x /\ UNCHANGED handle
              /\ actor' = [actor EXCEPT ![x] = Actor("watch", p, e, 0, None, 0)]
      /\ UNCHANGED <<epoch, pending, active, online, ready, generation, cancelled, told,
                     launched, child, held, socket>>

----------------------------------------------------------------------------
(* The monitor *)

WatchEnds(m) ==
  /\ At(m, "watch")
  /\ m \in cancelled \/ epoch # actor[m].epoch
  /\ Goto(m, "done")
  /\ UNCHANGED <<sessionVars, generation, taskVars, socket>>

\* Mutant: the session that is shown passes for one that is online.
WatchLostUnlessShown(m) ==
  /\ At(m, "watch") /\ epoch = actor[m].epoch /\ online = None /\ connection = None
  /\ actor' = [actor EXCEPT ![m].pc = "sleep", ![m].attempt = 1]
  /\ UNCHANGED <<sessionVars, generation, taskVars, socket>>

WatchLost(m) ==
  /\ At(m, "watch") /\ epoch = actor[m].epoch /\ online = None
  /\ actor' = [actor EXCEPT ![m].pc = "sleep", ![m].attempt = 1]
  /\ UNCHANGED <<sessionVars, generation, taskVars, socket>>

\* poll_child_exit: the process has exited, or somebody has taken it
WatchExit(m) ==
  LET p == actor[m].own
  IN  /\ At(m, "watch") /\ (p \notin held \/ child[p] # "running")
      /\ held' = held \ {p}
      /\ InvalidateIfCurrent(actor[m].epoch)
      /\ Goto(m, "done")
      /\ UNCHANGED <<generation, handle, cancelled, told, launched, child, socket>>

\* recover_ws_connection
SleepOver(m) ==
  /\ At(m, "sleep")
  /\ Goto(m, IF m \in cancelled THEN "done" ELSE "kill")
  /\ UNCHANGED <<sessionVars, generation, taskVars, socket>>

KillOld(m) ==
  /\ At(m, "kill")
  /\ Kill(actor[m].own)
  /\ Goto(m, "begin")
  /\ UNCHANGED <<sessionVars, generation, handle, cancelled, told, launched, socket>>

GiveUp(m) ==
  /\ At(m, "giveup")
  /\ InvalidateIfCurrent(actor[m].epoch)
  /\ Goto(m, "done")
  /\ UNCHANGED <<generation, taskVars, socket>>

----------------------------------------------------------------------------
(* Processes and their sockets *)

ProcessExits(p) ==
  /\ child[p] = "running"
  /\ child' = [child EXCEPT ![p] = "dead"]
  /\ UNCHANGED <<sessionVars, generation, handle, cancelled, told, launched, held, socket, actor>>

\* ws_handler checks the nonce before the upgrade, handle_ws_connection after it.
SocketOpens(w, p) ==
  /\ socket[w].pc = "new" /\ child[p] = "running" /\ p \in Nonces
  /\ socket' = [socket EXCEPT ![w] = Socket("upgrade", p, 0, 0)]
  /\ UNCHANGED <<sessionVars, generation, taskVars, actor>>

\* attach_claude_sdk_ws, and the signal to the launch that waits
Attach(w) ==
  LET p == socket[w].proc
  IN  /\ socket[w].pc = "upgrade" /\ p \in Nonces
      /\ active' = p
      /\ pending' = IF pending = p THEN None ELSE pending
      /\ generation' = generation + 1
      /\ online' = w
      /\ socket' = [socket EXCEPT ![w] = Socket("open", p, epoch, generation + 1)]
      /\ told' = told \cup ({ready} \ {None})
      /\ ready' = None
      /\ UNCHANGED <<epoch, connection, handle, cancelled, launched, child, held, actor>>

AttachRefused(w) ==
  /\ socket[w].pc = "upgrade" /\ socket[w].proc \notin Nonces
  /\ socket' = [socket EXCEPT ![w].pc = "closed"]
  /\ UNCHANGED <<sessionVars, generation, taskVars, actor>>

SocketDrops(w) ==
  /\ socket[w].pc = "open"
  /\ socket' = [socket EXCEPT ![w].pc = "lost"]
  /\ UNCHANGED <<sessionVars, generation, taskVars, actor>>

\* Mutant: generations are not compared.
ClearsAnySocket(w) == socket[w].epoch = epoch /\ socket[w].proc = active

\* clear_claude_sdk_ws
Clears(w) ==
  socket[w].epoch = epoch /\ socket[w].proc = active /\ socket[w].gen = generation

Cleanup(w) ==
  /\ socket[w].pc = "lost"
  /\ online' = IF Clears(w) THEN None ELSE online
  /\ socket' = [socket EXCEPT ![w].pc = "closed"]
  /\ UNCHANGED <<epoch, pending, active, ready, connection, generation, taskVars, actor>>

----------------------------------------------------------------------------
SpawnStep(x) ==
  \/ Begin(x) \/ Spawn(x) \/ SpawnFails(x) \/ SpawnImpossible(x)
  \/ Connected(x) \/ NotConnected(x) \/ Abort(x) \/ Publish(x)

DaemonStep == Stopped \/ LaunchRefused \/ SpawnStep(Daemon)

MonitorStep(m) ==
  \/ WatchEnds(m) \/ WatchLost(m) \/ WatchExit(m)
  \/ SleepOver(m) \/ KillOld(m) \/ GiveUp(m)
  \/ SpawnStep(m)

SocketStep(w) == Attach(w) \/ AttachRefused(w) \/ Cleanup(w)

Next ==
  \/ StopCommand \/ LaunchCommand \/ DaemonStep
  \/ \E m \in Procs : MonitorStep(m)
  \/ \E p \in Procs : ProcessExits(p)
  \/ \E w \in Sockets, p \in Procs : SocketOpens(w, p)
  \/ \E w \in Sockets : SocketStep(w) \/ SocketDrops(w)

Spec == Init /\ [][Next]_vars

SocketOfDead(w) == socket[w].proc \in Procs /\ child[socket[w].proc] = "dead"

\* Tasks that can go on are polled, timers fire, and the socket of a dead process
\* closes.  Nothing is assumed of the user or of a process that lives.
Fairness ==
  /\ WF_vars(DaemonStep)
  /\ \A m \in Procs : WF_vars(MonitorStep(m))
  /\ \A w \in Sockets : WF_vars(SocketStep(w))
  /\ \A w \in Sockets : WF_vars(SocketOfDead(w) /\ SocketDrops(w))

FairSpec == Spec /\ Fairness

----------------------------------------------------------------------------
(* Properties *)

PCs == {"idle", "stop", "restart", "begin", "spawn", "wait", "abort", "publish", "none", "watch",
        "sleep", "kill", "giveup", "done"}

SocketRecord == [pc : {"new", "upgrade", "open", "lost", "closed"}, proc : Procs \cup {None},
                 epoch : Nat, gen : Nat]

ActorRecord == [pc : PCs, own : Procs \cup {None}, epoch : Nat, attempt : 0..(MaxAttempts + 1),
                new : Procs \cup {None}, begun : Nat]

\* The types of the session's state.
StateTypeOK ==
  /\ epoch \in Nat /\ generation \in Nat /\ launched \in 0..MaxProcs
  /\ {pending, active, ready, connection, handle} \subseteq Procs \cup {None}
  /\ online \in Sockets \cup {None}
  /\ cancelled \subseteq Procs /\ told \subseteq Procs /\ held \subseteq Procs
  /\ child \in [Procs -> {"none", "running", "dead"}]

TypeOK ==
  /\ StateTypeOK
  /\ socket \in [Sockets -> SocketRecord]
  /\ actor \in [Actors -> ActorRecord]

\* state_runtime.rs 59-96: the socket messages are sent to is the newest one of the
\* process the current launch accepted, however launches, stops, recoveries and
\* reconnecting processes interleave.
OnlineIsCurrent ==
  online # None =>
    /\ socket[online].pc \in {"open", "lost"}
    /\ Clears(online)

\* claude_sdk_handler.rs 50-61, runtime.rs 68-153: a launch is told that it is ready
\* only by a socket of its own process; an older process that comes back while a
\* newer one starts does not answer for it.
ReadyByOwnProcess ==
  [][\A p \in told' \ told : online' # None /\ socket'[online'].proc = p]_vars

\* claude_sdk_handler.rs 98-103: a socket that is alive stays attached until a newer
\* one is, or until a launch, a stop or a monitor ends its session; the late cleanup
\* of another socket does not cut it off.
LiveSocketStays ==
  [][online # None /\ socket[online].pc = "open" /\ online' # online =>
       generation' > generation \/ epoch' > epoch]_vars

\* reconnect.rs 22-93 and runtime.rs 68-153: a session whose socket is lost does not
\* stay so: it comes back, or its monitor ends.
LossIsResolved ==
  \A m \in Procs :
    (At(m, "watch") /\ online = None) ~> (online # None \/ At(m, "done"))

\* mod.rs 71-144: the command loop comes back from every stop and launch.
LoopComesBack == ~At(Daemon, "idle") ~> At(Daemon, "idle")
============================================================================
