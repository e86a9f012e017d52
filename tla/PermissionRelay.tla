--------------------------- MODULE PermissionRelay ---------------------------
(***************************************************************************)
(* A permission request of Claude Code and the verdict it waits for.  The  *)
(* bridge process hands the request from its MCP loop to its daemon client *)
(* and over a WebSocket to the control server; the daemon keeps it until   *)
(* the user answers, and the verdict goes back the same way.  The client   *)
(* reconnects with a back-off, the daemon buffers verdicts for a bridge    *)
(* that is away, and either side may lose what it holds: lost records what *)
(* was given up and why.  Claude reads what the bridge writes to it, and a *)
(* write to a socket completes or fails.                                   *)
(***************************************************************************)
EXTENDS Integers, Sequences, FiniteSets, SequencesExt

CONSTANTS
  MaxRequests,   \* bound: requests Claude makes
  MaxConns,      \* bound: connections the bridge opens
  MaxRestarts,   \* bound: exits of the daemon
  MaxRetries,    \* MAX_RETRIES, 20 in the code
  BackoffCap,    \* BACKOFF_BUF_CAP, 64 in the code
  OutCap,        \* capacity of the channel to the daemon client, 64 in the code
  InCap,         \* capacity of the channel back, 64 in the code
  VerdictMax,    \* buffered verdicts that are kept, 50 in the code
  VerdictDrain,  \* the oldest dropped when there are more, 25 in the code
  None

Requests == 1..MaxRequests  \* in the order Claude makes them
Conns    == 1..MaxConns     \* in the order they are opened; also their generation
Hello    == 0               \* the AgentConnect message

ASSUME RelayAssumption ==
  /\ MaxRequests \in Nat /\ MaxConns \in Nat \ {0} /\ MaxRestarts \in Nat
  /\ MaxRetries \in Nat \ {0} /\ BackoffCap \in Nat \ {0}
  /\ OutCap \in Nat \ {0} /\ InCap \in Nat \ {0}
  /\ VerdictMax \in Nat /\ VerdictDrain \in 1..(VerdictMax + 1)
  /\ None \notin Conns

Behaviors == {"allow", "deny"}
Verdicts  == [id: Requests, behavior: Behaviors]
Causes    == {"overflow", "connection", "retries", "restart", "expired", "drained", "sdk",
              "cut"}

VARIABLES
  asked,     \* requests Claude has made so far
  awaiting,  \* ChannelState.pending_permissions of the bridge
  told,      \* the verdicts Claude was told, per request
  outbound,  \* the channel from the MCP loop to the daemon client, and what waits for room
  inbound,   \* the channel back, and what waits for room
  client,    \* the daemon client: where it is, its connection, failed attempts
  backlog,   \* its buffer of what could not be sent
  conn,      \* the connections
  running,   \* the daemon listens
  restarts,
  attached,  \* attached_agents[agent]
  stored,    \* pending_permissions of the daemon
  aged,      \* those older than PERMISSION_TTL_MS
  verdicts,  \* buffered_verdicts[agent]
  command,   \* the verdict the command loop is delivering
  answer,    \* history: what the user answered
  lost       \* history: why a request or its verdict was given up

bridgeVars == <<asked, awaiting, told, outbound, inbound>>
clientVars == <<client, backlog>>
lifeVars   == <<running, restarts>>
storeVars  == <<stored, aged, answer>>
daemonVars == <<attached, storeVars, verdicts, command>>
vars == <<bridgeVars, clientVars, conn, lifeVars, daemonVars, lost>>

----------------------------------------------------------------------------
\* handler: the control server's task; up and down: what is on its way to the daemon
\* and to the bridge; out: the handler's channel to its sender task, which lives while
\* sender; hands: buffered verdicts the handler has taken to replay.
Conn(handler, link) ==
  [handler |-> handler, link |-> link, sender |-> link,
   up |-> <<>>, down |-> <<>>, out |-> <<>>, hands |-> <<>>]

Idle == [pc |-> "idle", verdict |-> None, to |-> None]

Ids(s) == {v.id : v \in ToSet(s)}

\* A request or verdict that no part of the system holds any more.
Lose(ids, cause) ==
  lost' = [r \in Requests |-> IF r \in ids THEN cause ELSE lost[r]]

Init ==
  /\ asked = 0 /\ awaiting = {} /\ told = [r \in Requests |-> <<>>]
  /\ outbound = <<>> /\ inbound = <<>> /\ backlog = <<>>
  /\ client = [pc |-> "connecting", conn |-> 0, attempt |-> 0]
  /\ conn = [c \in Conns |-> Conn("none", FALSE)]
  /\ running \in BOOLEAN /\ restarts = 0
  /\ attached = None /\ stored = {} /\ aged = {} /\ verdicts = <<>> /\ command = Idle
  /\ answer = [r \in Requests |-> "none"]
  /\ lost = [r \in Requests |-> "no"]

----------------------------------------------------------------------------
(* The MCP loop of the bridge. *)

\* A channel is full and the last one sent into it waits for room, in the hands of the
\* task that sends: the MCP loop, which then reads neither Claude nor its channel, or the
\* daemon client, which then does not look at its connection.
Asking  == Len(outbound) > OutCap
Pushing == Len(inbound) > InCap

\* Claude asks: the request is registered and queued, or denied at once when the
\* daemon client has ended and with it the receiving end of the channel.
Ask ==
  LET r == asked + 1 IN
  /\ ~Asking /\ asked < MaxRequests /\ asked' = r
  /\ IF client.pc = "ended"
     THEN /\ told' = [told EXCEPT ![r] = Append(@, "deny")]
          /\ UNCHANGED <<awaiting, outbound>>
     ELSE /\ awaiting' = awaiting \cup {r} /\ outbound' = Append(outbound, r)
          /\ UNCHANGED told
  /\ UNCHANGED <<inbound, clientVars, conn, lifeVars, daemonVars, lost>>

\* permission_notification: Claude is told of a request it still waits for.
Notify(v) ==
  IF v.id \in awaiting
  THEN /\ awaiting' = awaiting \ {v.id}
       /\ told' = [told EXCEPT ![v.id] = Append(@, v.behavior)]
  ELSE UNCHANGED <<awaiting, told>>

\* select! drops the read of a line.  When a part of Claude's next request has been read
\* it is gone, and what is left of the line does not parse.
CutLine ==
  \/ UNCHANGED <<asked, lost>>
  \/ asked < MaxRequests /\ asked' = asked + 1 /\ Lose({asked'}, "cut")

TakeInbound ==
  /\ ~Asking /\ inbound # <<>> /\ inbound' = Tail(inbound)
  /\ Notify(Head(inbound))
  /\ CutLine
  /\ UNCHANGED <<outbound, clientVars, conn, lifeVars, daemonVars>>

----------------------------------------------------------------------------
(* The daemon client of the bridge. *)

At(pc) == client.pc = pc
Linked == conn[client.conn].link

Transmit(m) == conn' = [conn EXCEPT ![client.conn].up = Append(@, m)]

\* The client turns away from a dead connection and what it has not read of it.
Abandon ==
  /\ conn' = [conn EXCEPT ![client.conn].down = <<>>]
  /\ Lose(Ids(conn[client.conn].down), "connection")

\* attempt is reset when the connection had lasted more than two seconds.
LeaveServing == client' \in {[client EXCEPT !.pc = "connecting", !.attempt = n] :
                              n \in {0, client.attempt}}

Connect ==
  LET c == client.conn + 1 IN
  /\ At("connecting") /\ running /\ c \in Conns
  /\ client' = [client EXCEPT !.pc = "greeting", !.conn = c]
  /\ conn' = [conn EXCEPT ![c] = Conn("accepted", TRUE)]
  /\ UNCHANGED <<bridgeVars, backlog, lifeVars, daemonVars, lost>>

\* Mutant: a failed attempt is not counted.
ConnectFailsUncounted ==
  /\ At("connecting") /\ ~running
  /\ client' = [client EXCEPT !.pc = "backoff"]
  /\ UNCHANGED <<bridgeVars, backlog, conn, lifeVars, daemonVars, lost>>

\* The client ends, and with it the channel: what it and the channel hold is lost, and
\* the MCP loop denies the request that waits for room.
GiveUp ==
  LET waiting == IF Asking THEN {Last(outbound)} ELSE {} IN
  /\ client' = [client EXCEPT !.pc = "ended", !.attempt = @ + 1]
  /\ outbound' = <<>> /\ backlog' = <<>>
  /\ awaiting' = awaiting \ waiting
  /\ told' = [r \in Requests |-> IF r \in waiting THEN Append(told[r], "deny") ELSE told[r]]
  /\ Lose((ToSet(outbound) \cup ToSet(backlog)) \ waiting, "retries")

BackOff ==
  /\ client' = [client EXCEPT !.pc = "backoff", !.attempt = @ + 1]
  /\ UNCHANGED <<awaiting, told, outbound, backlog, lost>>

\* Mutant: one attempt more than the limit.
ConnectFailsLate ==
  /\ At("connecting") /\ ~running
  /\ IF client.attempt + 1 > MaxRetries THEN GiveUp ELSE BackOff
  /\ UNCHANGED <<asked, inbound, conn, lifeVars, daemonVars>>

ConnectFails ==
  /\ At("connecting") /\ ~running
  /\ IF client.attempt + 1 >= MaxRetries THEN GiveUp ELSE BackOff
  /\ UNCHANGED <<asked, inbound, conn, lifeVars, daemonVars>>

BufferDuringBackoff ==
  /\ At("backoff") /\ outbound # <<>> /\ outbound' = Tail(outbound)
  /\ IF Len(backlog) < BackoffCap
     THEN backlog' = Append(backlog, Head(outbound)) /\ UNCHANGED lost
     ELSE Lose({Head(outbound)}, "overflow") /\ UNCHANGED backlog
  /\ UNCHANGED <<asked, awaiting, told, inbound, client, conn, lifeVars, daemonVars>>

BackoffOver ==
  /\ At("backoff") /\ client' = [client EXCEPT !.pc = "connecting"]
  /\ UNCHANGED <<bridgeVars, backlog, conn, lifeVars, daemonVars, lost>>

Greet ==
  /\ At("greeting")
  /\ IF Linked
     THEN client' = [client EXCEPT !.pc = "replaying"] /\ Transmit(Hello)
     ELSE client' = [client EXCEPT !.pc = "connecting"] /\ UNCHANGED conn
  /\ UNCHANGED <<bridgeVars, backlog, lifeVars, daemonVars, lost>>

\* Mutant: what could not be replayed is dropped.
ReplayBacklogForgets ==
  /\ At("replaying") /\ backlog # <<>> /\ backlog' = Tail(backlog)
  /\ IF Linked
     THEN Transmit(Head(backlog)) /\ UNCHANGED <<client, lost>>
     ELSE client' = [client EXCEPT !.pc = "connecting"] /\ Abandon
  /\ UNCHANGED <<bridgeVars, lifeVars, daemonVars>>

ReplayBacklog ==
  /\ At("replaying") /\ backlog # <<>>
  /\ IF Linked
     THEN Transmit(Head(backlog)) /\ backlog' = Tail(backlog) /\ UNCHANGED <<client, lost>>
     ELSE client' = [client EXCEPT !.pc = "connecting"] /\ Abandon /\ UNCHANGED backlog
  /\ UNCHANGED <<bridgeVars, lifeVars, daemonVars>>

\* Mutant: the channel is served while the backlog waits for the next connection.
ReplayDoneEarly ==
  /\ At("replaying") /\ client' = [client EXCEPT !.pc = "serving"]
  /\ UNCHANGED <<bridgeVars, backlog, conn, lifeVars, daemonVars, lost>>

ReplayDone ==
  /\ At("replaying") /\ backlog = <<>> /\ client' = [client EXCEPT !.pc = "serving"]
  /\ UNCHANGED <<bridgeVars, backlog, conn, lifeVars, daemonVars, lost>>

SendOutbound ==
  /\ At("serving") /\ ~Pushing /\ outbound # <<>> /\ outbound' = Tail(outbound)
  /\ IF Linked
     THEN Transmit(Head(outbound)) /\ UNCHANGED <<clientVars, lost>>
     ELSE LeaveServing /\ Abandon /\ backlog' = Append(backlog, Head(outbound))
  /\ UNCHANGED <<asked, awaiting, told, inbound, lifeVars, daemonVars>>

Receive ==
  LET c == client.conn IN
  /\ At("serving") /\ ~Pushing /\ conn[c].down # <<>>
  /\ inbound' = Append(inbound, Head(conn[c].down))
  /\ conn' = [conn EXCEPT ![c].down = Tail(@)]
  /\ UNCHANGED <<asked, awaiting, told, outbound, clientVars, lifeVars, daemonVars, lost>>

SeeEnd ==
  /\ At("serving") /\ ~Pushing /\ ~Linked /\ conn[client.conn].down = <<>>
  /\ LeaveServing
  /\ UNCHANGED <<bridgeVars, backlog, conn, lifeVars, daemonVars, lost>>

ClientStep ==
  \/ Connect \/ ConnectFails \/ BufferDuringBackoff \/ BackoffOver \/ Greet
  \/ ReplayBacklog \/ ReplayDone \/ SendOutbound \/ Receive \/ SeeEnd

----------------------------------------------------------------------------
(* The control server: one handler and one sender task per connection. *)

\* Mutant: a full buffer is not drained.
BufferVerdictUndrained(buffer, v) == Append(buffer, v)

\* buffer_permission_verdict
BufferVerdict(buffer, v) ==
  LET longer == Append(buffer, v) IN
  IF Len(longer) > VerdictMax THEN SubSeq(longer, VerdictDrain + 1, Len(longer)) ELSE longer

\* All of vs are buffered; what the drains drop is lost.
BufferVerdicts(vs) ==
  LET kept == FoldLeft(BufferVerdict, verdicts, vs) IN
  /\ verdicts' = kept
  /\ Lose((Ids(verdicts) \cup Ids(vs)) \ Ids(kept), "drained")

\* take_buffered_verdicts_for: the connection is registered, and its handler has the
\* verdicts that waited for it.
AcceptHello(c) ==
  /\ conn[c].handler = "accepted" /\ conn[c].up # <<>> /\ Head(conn[c].up) = Hello
  /\ attached' = c /\ verdicts' = <<>>
  /\ conn' = [conn EXCEPT ![c].handler = "replaying", ![c].up = Tail(@), ![c].hands = verdicts]
  /\ UNCHANGED <<bridgeVars, clientVars, lifeVars, storeVars, command, lost>>

\* The role of the agent is held by another one online: the handler ends, and what
\* the bridge has already sent behind its greeting is never read.  Its cleanup looks for
\* generation 0, that of the first bridge ever registered: left open is whether the
\* registration it finds is still that one's.
RejectHello(c) ==
  /\ conn[c].handler = "accepted" /\ conn[c].up # <<>> /\ Head(conn[c].up) = Hello
  /\ c < MaxConns
  /\ conn' = [conn EXCEPT ![c].handler = "closed", ![c].link = FALSE, ![c].sender = FALSE,
                          ![c].up = <<>>]
  /\ Lose(ToSet(Tail(conn[c].up)), "connection")
  /\ attached' \in {attached, None}
  /\ UNCHANGED <<bridgeVars, clientVars, lifeVars, storeVars, verdicts, command>>

\* replay_verdicts: when the sender task is gone the rest goes back to the buffer.
ReplayVerdict(c) ==
  /\ conn[c].handler = "replaying" /\ conn[c].hands # <<>>
  /\ IF conn[c].sender
     THEN /\ conn' = [conn EXCEPT ![c].out = Append(@, Head(conn[c].hands)),
                                  ![c].hands = Tail(@)]
          /\ UNCHANGED <<verdicts, lost>>
     ELSE /\ conn' = [conn EXCEPT ![c].hands = <<>>]
          /\ BufferVerdicts(conn[c].hands)
  /\ UNCHANGED <<bridgeVars, clientVars, lifeVars, attached, storeVars, command>>

ReplayEnds(c) ==
  /\ conn[c].handler = "replaying" /\ conn[c].hands = <<>>
  /\ conn' = [conn EXCEPT ![c].handler = "open"]
  /\ UNCHANGED <<bridgeVars, clientVars, lifeVars, daemonVars, lost>>

\* prune_expired_permissions runs before every look at the store.
Fresh == stored \ aged
Prune == aged' = {} /\ Lose(aged, "expired")

\* store_permission_request
StoreRequest(c) ==
  /\ conn[c].handler = "open" /\ conn[c].up # <<>>
  /\ Prune /\ stored' = Fresh \cup {Head(conn[c].up)}
  /\ conn' = [conn EXCEPT ![c].up = Tail(@)]
  /\ UNCHANGED <<bridgeVars, clientVars, lifeVars, attached, verdicts, command, answer>>

\* The end of the stream: the registration goes when it is still this connection's.
HandlerEnds(c) ==
  /\ conn[c].handler \in {"accepted", "open"} /\ ~conn[c].link /\ conn[c].up = <<>>
  /\ conn' = [conn EXCEPT ![c].handler = "closed"]
  /\ attached' = IF attached = c THEN None ELSE attached
  /\ UNCHANGED <<bridgeVars, clientVars, lifeVars, storeVars, verdicts, command, lost>>

\* Mutant: the sender task drops what it has taken.
ForwardDrops(c) ==
  /\ conn[c].sender /\ conn[c].out # <<>>
  /\ conn' = [conn EXCEPT ![c].out = Tail(@)]
  /\ UNCHANGED <<bridgeVars, clientVars, lifeVars, daemonVars, lost>>

\* The sender task: a failed send ends it, and what its channel holds goes with it.
Forward(c) ==
  /\ conn[c].sender /\ conn[c].out # <<>>
  /\ IF conn[c].link
     THEN /\ conn' = [conn EXCEPT ![c].out = Tail(@), ![c].down = Append(@, Head(conn[c].out))]
          /\ UNCHANGED lost
     ELSE /\ conn' = [conn EXCEPT ![c].out = <<>>, ![c].sender = FALSE]
          /\ Lose(Ids(conn[c].out), "connection")
  /\ UNCHANGED <<bridgeVars, clientVars, lifeVars, daemonVars>>

HandlerStep(c) ==
  \/ AcceptHello(c) \/ RejectHello(c) \/ ReplayVerdict(c) \/ ReplayEnds(c)
  \/ StoreRequest(c) \/ HandlerEnds(c)

----------------------------------------------------------------------------
(* The command loop: handle_permission_verdict, one critical section at a time. *)

\* Mutant: the request stays in the store when it is answered.
ResolveKeeps(r, b) ==
  /\ running /\ command.pc = "idle" /\ r \in stored
  /\ Prune
  /\ IF r \in Fresh
     THEN /\ command' = [pc |-> "sdk", verdict |-> [id |-> r, behavior |-> b], to |-> None]
          /\ answer' = [answer EXCEPT ![r] = b]
     ELSE UNCHANGED <<command, answer>>
  /\ stored' = Fresh
  /\ UNCHANGED <<bridgeVars, clientVars, conn, lifeVars, attached, verdicts>>

\* resolve_permission: the user answers.  An answer to what is not stored any more
\* changes nothing else than the prune does.
Resolve(r, b) ==
  /\ running /\ command.pc = "idle" /\ r \in stored
  /\ Prune
  /\ IF r \in Fresh
     THEN /\ command' = [pc |-> "sdk", verdict |-> [id |-> r, behavior |-> b], to |-> None]
          /\ answer' = [answer EXCEPT ![r] = b]
     ELSE UNCHANGED <<command, answer>>
  /\ stored' = Fresh \ {r}
  /\ UNCHANGED <<bridgeVars, clientVars, conn, lifeVars, attached, verdicts>>

\* A Claude SDK session is online beside the bridge: the verdict goes to its socket.
DeliverToSdk ==
  /\ command.pc = "sdk" /\ command' = Idle
  /\ Lose({command.verdict.id}, "sdk")
  /\ UNCHANGED <<bridgeVars, clientVars, conn, lifeVars, attached, storeVars, verdicts>>

\* There is none, or its socket is gone: the bridge's connection is looked up.
LookUp ==
  /\ command.pc = "sdk" /\ command' = [command EXCEPT !.pc = "send", !.to = attached]
  /\ UNCHANGED <<bridgeVars, clientVars, conn, lifeVars, attached, storeVars, verdicts, lost>>

Send ==
  LET to == command.to IN
  /\ command.pc = "send"
  /\ IF to # None /\ conn[to].sender
     THEN /\ conn' = [conn EXCEPT ![to].out = Append(@, command.verdict)] /\ command' = Idle
     ELSE /\ command' = [command EXCEPT !.pc = "buffer", !.to = None] /\ UNCHANGED conn
  /\ UNCHANGED <<bridgeVars, clientVars, lifeVars, attached, storeVars, verdicts, lost>>

BufferUndelivered ==
  /\ command.pc = "buffer" /\ command' = Idle
  /\ BufferVerdicts(<<command.verdict>>)
  /\ UNCHANGED <<bridgeVars, clientVars, conn, lifeVars, attached, storeVars>>

CommandStep == DeliverToSdk \/ LookUp \/ Send \/ BufferUndelivered

\* ForceDisconnectAgent: the registration goes, the connection stays.
ForceDisconnect ==
  /\ running /\ command.pc = "idle" /\ attached # None /\ attached' = None
  /\ UNCHANGED <<bridgeVars, clientVars, conn, lifeVars, storeVars, verdicts, command, lost>>

----------------------------------------------------------------------------
(* What happens to the parts. *)

\* Ten minutes pass.
Age(r) ==
  /\ r \in Fresh /\ aged' = aged \cup {r}
  /\ UNCHANGED <<bridgeVars, clientVars, conn, lifeVars, attached, stored, answer, verdicts,
                 command, lost>>

\* The connection breaks; either end may still read a part of what was sent to it.
BreakLink(c) ==
  /\ conn[c].link /\ c < MaxConns
  /\ \E i \in 0..Len(conn[c].up), j \in 0..Len(conn[c].down) :
       /\ conn' = [conn EXCEPT ![c].link = FALSE, ![c].up = SubSeq(@, 1, i),
                               ![c].down = SubSeq(@, 1, j)]
       /\ Lose(ToSet(SubSeq(conn[c].up, i + 1, Len(conn[c].up))) \cup
                 Ids(SubSeq(conn[c].down, j + 1, Len(conn[c].down))), "connection")
  /\ UNCHANGED <<bridgeVars, clientVars, lifeVars, daemonVars>>

\* What the daemon holds of connection c.
Carried(c) == ToSet(conn[c].up) \cup Ids(conn[c].out) \cup Ids(conn[c].hands)

\* The app exits, with everything in its memory and on its way to it.
Exit ==
  /\ running /\ running' = FALSE
  /\ restarts < MaxRestarts /\ restarts' = restarts + 1 /\ client.conn < MaxConns
  /\ conn' = [c \in Conns |->
       IF conn[c].handler = "none" THEN conn[c]
       ELSE [Conn("closed", FALSE) EXCEPT !.down = conn[c].down]]
  /\ attached' = None /\ stored' = {} /\ aged' = {} /\ verdicts' = <<>> /\ command' = Idle
  /\ Lose((UNION {Carried(c) : c \in Conns}) \cup stored \cup Ids(verdicts)
            \cup (IF command = Idle THEN {} ELSE {command.verdict.id}), "restart")
  /\ UNCHANGED <<bridgeVars, clientVars, answer>>

Start ==
  /\ ~running /\ running' = TRUE
  /\ UNCHANGED <<bridgeVars, clientVars, conn, restarts, daemonVars, lost>>

Next ==
  \/ Ask \/ TakeInbound \/ ClientStep
  \/ \E c \in Conns : HandlerStep(c) \/ Forward(c) \/ BreakLink(c)
  \/ \E r \in Requests, b \in Behaviors : Resolve(r, b)
  \/ CommandStep \/ ForceDisconnect
  \/ \E r \in Requests : Age(r)
  \/ Exit \/ Start

Spec == Init /\ [][Next]_vars

\* The tasks of the bridge and of the daemon keep running; Claude, the user, the
\* network and the clock need not do anything, and the app need not be started again.
FairSpec ==
  /\ Spec
  /\ WF_vars(ClientStep) /\ WF_vars(TakeInbound) /\ WF_vars(CommandStep)
  /\ \A c \in Conns : WF_vars(HandlerStep(c)) /\ WF_vars(Forward(c))

----------------------------------------------------------------------------
\* The variables stay within their types, and the buffers of the bridge and of the daemon
\* within their limits.
TypeOK ==
  /\ asked \in 0..MaxRequests /\ awaiting \subseteq Requests
  /\ told \in [Requests -> Seq(Behaviors)]
  /\ outbound \in Seq(Requests) /\ backlog \in Seq(Requests) /\ inbound \in Seq(Verdicts)
  /\ Len(outbound) <= OutCap + 1 /\ Len(inbound) <= InCap + 1
  /\ Len(backlog) <= BackoffCap /\ Len(verdicts) <= VerdictMax
  /\ client \in [pc: {"connecting", "greeting", "replaying", "serving", "backoff", "ended"},
                 conn: 0..MaxConns, attempt: 0..MaxRetries]
  /\ conn \in [Conns ->
       [handler: {"none", "accepted", "replaying", "open", "closed"},
        link: BOOLEAN, sender: BOOLEAN, up: Seq(Requests \cup {Hello}),
        down: Seq(Verdicts), out: Seq(Verdicts), hands: Seq(Verdicts)]]
  /\ running \in BOOLEAN /\ restarts \in 0..MaxRestarts
  /\ attached \in Conns \cup {None}
  /\ stored \subseteq Requests /\ aged \subseteq stored /\ verdicts \in Seq(Verdicts)
  /\ command \in [pc: {"idle", "sdk", "send", "buffer"}, verdict: Verdicts \cup {None},
                  to: Conns \cup {None}]
  /\ answer \in [Requests -> Behaviors \cup {"none"}]
  /\ lost \in [Requests -> Causes \cup {"no"}]

(* Where a request, or the verdict for it, is. *)
Places == {"outbound", "backlog", "stored", "command", "verdicts", "inbound"} \X {0}
            \cup {"up", "hands", "out", "down"} \X Conns

Answered(c) == IF c = Idle THEN {} ELSE {c.verdict.id}

\* What place p holds.
In(p) ==
  CASE p[1] = "outbound" -> ToSet(outbound)
    [] p[1] = "backlog"  -> ToSet(backlog)
    [] p[1] = "stored"   -> stored
    [] p[1] = "command"  -> Answered(command)
    [] p[1] = "verdicts" -> Ids(verdicts)
    [] p[1] = "inbound"  -> Ids(inbound)
    [] p[1] = "up"       -> ToSet(conn[p[2]].up) \ {Hello}
    [] p[1] = "hands"    -> Ids(conn[p[2]].hands)
    [] p[1] = "out"      -> Ids(conn[p[2]].out)
    [] p[1] = "down"     -> Ids(conn[p[2]].down)

Once(s) == \A i, j \in DOMAIN s : s[i] = s[j] => i = j
OnceById(s) == \A i, j \in DOMAIN s : s[i].id = s[j].id => i = j

\* No place holds a request twice.
NoRepeats ==
  /\ Once(outbound) /\ Once(backlog) /\ OnceById(verdicts) /\ OnceById(inbound)
  /\ \A c \in Conns : /\ Once(conn[c].up) /\ OnceById(conn[c].hands)
                      /\ OnceById(conn[c].out) /\ OnceById(conn[c].down)

\* A request Claude waits for, or the verdict for it, is in exactly one place between
\* the bridge and the user until it is given up for one of the named reasons; when
\* Claude does not wait, no copy is left that could answer it again.
OnePlace ==
  /\ NoRepeats
  /\ \A p, q \in Places : p # q => In(p) \cap In(q) = {}
  /\ \A r \in Requests :
       (r \in awaiting /\ lost[r] = "no") <=> \E p \in Places : r \in In(p)

\* Claude is told at most one verdict on a request, and it is the one the user gave;
\* a request the bridge denies by itself has never been put before the user.
ToldWhatTheUserSaid ==
  \A r \in Requests :
    told[r] # <<>> =>
      \/ told[r] = <<answer[r]>>
      \/ answer[r] = "none" /\ told[r] = <<"deny">> /\ client.pc = "ended"

\* What Claude asked leaves the bridge in the order it was asked in, behind the greeting
\* of the connection, through every failed send, back-off and replay.
OrderIsKept ==
  LET sent == IF client.conn = 0 THEN <<>> ELSE conn[client.conn].up
      queue == sent \o backlog \o outbound
  IN \A i, j \in DOMAIN queue : i < j => queue[i] < queue[j]

----------------------------------------------------------------------------
AtTheBridge(r) == r \in ToSet(outbound \o backlog)

\* Each task of the bridge waits for room in the channel the other one reads.
Wedged == Asking /\ Pushing

\* A request does not stay in the bridge for ever: it leaves for the daemon, or is
\* given up, unless the two tasks of the bridge come to wait for each other.
OutboundLeaves == \A r \in Requests : AtTheBridge(r) ~> (~AtTheBridge(r) \/ Wedged)

OnItsWay(r) ==
  \/ r \in Ids(inbound)
  \/ \E c \in Conns : r \in Ids(conn[c].down \o conn[c].out)

\* A verdict handed to a connection reaches Claude unless the connection loses it, or the
\* two tasks of the bridge come to wait for each other.
VerdictArrives ==
  \A r \in Requests : OnItsWay(r) ~> (told[r] # <<>> \/ lost[r] # "no" \/ Wedged)
=============================================================================
