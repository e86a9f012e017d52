----------------------------- MODULE BridgeLoops -----------------------------
(***************************************************************************)
(* The two loops of the bridge process.  The MCP loop reads the lines      *)
(* Claude writes to its stdin, answers tool calls, and writes the messages *)
(* of the daemon to Claude; the daemon client keeps the WebSocket, and two *)
(* bounded channels join them.  Each loop does one thing at a time: while  *)
(* it waits for room in a channel, or for the answer to a query, it reads  *)
(* nothing else.                                                           *)
(*                                                                         *)
(* Permission requests and verdicts travel in the same channels; what is   *)
(* promised of them is in PermissionRelay.  A line of Claude is whole or   *)
(* comes in two parts, as long ones do: what read_line has taken of a line *)
(* is thrown away when a message is received before the rest has come.     *)
(*                                                                         *)
(* Assumed: Claude reads its stdin and stdout as long as it runs, so that  *)
(* a line is written at once or, when it has exited, fails; and a write to *)
(* the socket is done or fails.                                            *)
(***************************************************************************)
EXTENDS Integers, Sequences, FiniteSets, SequencesExt

CONSTANTS
  MaxCalls,     \* bound: tool calls of Claude
  MaxMessages,  \* bound: messages the daemon routes to Claude
  MaxConns,     \* bound: connections opened
  Strangers,    \* messages whose sender is not on the list of the bridge
  OutCap,       \* capacity of the channel to the client, 64 in the code
  InCap,        \* capacity of the channel back, 64 in the code
  PreInitCap,   \* messages kept before initialize, 128 in the code
  BackoffCap,   \* BACKOFF_BUF_CAP, 64 in the code
  MaxRetries,   \* MAX_RETRIES, 20 in the code
  None

Calls    == 1..MaxCalls     \* in the order Claude makes them
Messages == 1..MaxMessages  \* in the order the daemon sends them
Agents   == 0               \* the daemon's list of the agents online

\* What a call asks: a reply that is sent, one that handle_tool_call refuses, a query.
Kinds == {"reply", "refused", "query"}
\* What Claude is answered.
Answers == {"sent", "error", "agents", "nobody"}

ASSUME LoopsAssumption ==
  /\ MaxCalls \in Nat /\ MaxMessages \in Nat /\ MaxConns \in Nat
  /\ Strangers \subseteq Messages
  /\ OutCap \in Nat \ {0} /\ InCap \in Nat \ {0}
  /\ PreInitCap \in Nat /\ BackoffCap \in Nat \ {0} /\ MaxRetries \in Nat \ {0}
  /\ None \notin Calls \cup Messages /\ None \notin Kinds \cup Answers

VARIABLES
  claude,       \* Claude runs: it reads and writes
  kind,         \* what each call it has made asks
  stdin,        \* the calls on their way to the MCP loop
  half,         \* the call of which only a first part has been read
  greeting,     \* the initialize request: unsent, sent, read in part, read, or cut
  mcp,          \* the MCP loop: where it is, the call in hand, what came of its query
  preInit,      \* pre_init_buffer
  toClient,     \* the channel to the daemon client
  toMcp,        \* the channel back
  client,       \* the daemon client: where it is, and the message it waits to put
  attempt,      \* attempts that failed
  backlog,      \* pending: what could not be sent
  query,        \* pending_query
  conns,        \* connections opened so far
  link,         \* the socket is up
  up,           \* calls on their way to the daemon
  down,         \* what is on its way back
  routed,       \* messages the daemon has sent
  answer,       \* history: what Claude was answered
  heard,        \* history: the messages Claude was given
  dropped,      \* history: messages given up
  received,     \* history: the replies the daemon has got
  lost,         \* history: replies given up
  cut           \* history: calls whose first part was thrown away

claudeVars == <<claude, kind, stdin, greeting>>
mcpVars    == <<half, mcp, preInit>>
clientVars == <<client, attempt, backlog, query>>
socketVars == <<conns, link, up, down, routed>>
toldVars   == <<answer, heard>>
fateVars   == <<dropped, received, lost, cut>>
vars == <<claudeVars, mcpVars, toClient, toMcp, clientVars, socketVars, toldVars, fateVars>>

----------------------------------------------------------------------------
In(pc) == mcp.pc = pc
At(pc) == client.pc = pc

Select == [pc |-> "select", call |-> None, got |-> None]
Over   == [Select EXCEPT !.pc = "over"]

Goto(pc) == client' = [pc |-> pc, hold |-> None]

Replies(cs) == {c \in cs : kind[c] = "reply"}

Init ==
  /\ claude = TRUE /\ kind = [c \in Calls |-> None] /\ stdin = <<>>
  /\ greeting = "unsent" /\ half = None /\ mcp = Select /\ preInit = <<>>
  /\ toClient = <<>> /\ toMcp = <<>>
  /\ client = [pc |-> "connecting", hold |-> None] /\ attempt = 0 /\ backlog = <<>>
  /\ query = None
  /\ conns = 0 /\ link = FALSE /\ up = <<>> /\ down = <<>> /\ routed = 0
  /\ answer = [c \in Calls |-> None] /\ heard = <<>>
  /\ dropped = {} /\ received = <<>> /\ lost = {} /\ cut = {}

----------------------------------------------------------------------------
(* Claude, which initializes before it calls a tool.                       *)

SendInitialize ==
  /\ claude /\ greeting = "unsent" /\ greeting' = "sent"
  /\ UNCHANGED <<claude, kind, stdin, mcpVars, toClient, toMcp, clientVars, socketVars,
                 toldVars, fateVars>>

Call(c, k) ==
  /\ claude /\ greeting = "read" /\ kind[c] = None /\ \A b \in 1..(c - 1) : kind[b] # None
  /\ kind' = [kind EXCEPT ![c] = k] /\ stdin' = Append(stdin, c)
  /\ UNCHANGED <<claude, greeting, mcpVars, toClient, toMcp, clientVars, socketVars,
                 toldVars, fateVars>>

ClaudeExits ==
  /\ claude /\ claude' = FALSE
  /\ UNCHANGED <<kind, stdin, greeting, mcpVars, toClient, toMcp, clientVars, socketVars,
                 toldVars, fateVars>>

----------------------------------------------------------------------------
(* The MCP loop.  It ends at the end of stdin or when a write fails; what  *)
(* waits for Claude is lost with it.                                       *)

McpEnds ==
  /\ mcp' = Over /\ preInit' = <<>> /\ toMcp' = <<>>
  /\ dropped' = dropped \cup ToSet(preInit) \cup ToSet(toMcp)

\* write_line of the response to a call.
Respond(c, a) ==
  IF claude
  THEN answer' = [answer EXCEPT ![c] = a] /\ mcp' = Select /\ UNCHANGED <<preInit, toMcp, dropped>>
  ELSE McpEnds /\ UNCHANGED answer

\* Mutant: the messages that came before go to the end of the channel.
InitializeRequeues ==
  /\ In("select") /\ greeting = "part" /\ claude
  /\ greeting' = "read" /\ preInit' = <<>> /\ toMcp' = toMcp \o preInit
  /\ UNCHANGED <<claude, kind, stdin, half, mcp, toClient, clientVars, socketVars, toldVars,
                 fateVars>>

ReadGreeting ==
  /\ In("select") /\ greeting = "sent" /\ greeting' = "part"
  /\ UNCHANGED <<claude, kind, stdin, mcpVars, toClient, toMcp, clientVars, socketVars,
                 toldVars, fateVars>>

\* The response is written, and before anything else is read the buffer is replayed.
Initialize ==
  /\ In("select") /\ greeting = "part"
  /\ greeting' = "read" /\ half' = half
  /\ IF claude
     THEN mcp' = [Select EXCEPT !.pc = "replay"] /\ UNCHANGED <<preInit, toMcp, dropped>>
     ELSE McpEnds
  /\ UNCHANGED <<claude, kind, stdin, toClient, clientVars, socketVars, toldVars, received,
                 lost, cut>>

\* prepare_channel_message
Known(m) == m \notin Strangers

\* handle_daemon_inbound_checked, with what the loop still keeps when it goes on.
Hear(m, before, channel) ==
  CASE ~Known(m) ->
         dropped' = dropped \cup {m} /\ preInit' = before /\ toMcp' = channel
         /\ UNCHANGED <<mcp, heard>>
    [] Known(m) /\ claude ->
         heard' = Append(heard, m) /\ preInit' = before /\ toMcp' = channel
         /\ UNCHANGED <<mcp, dropped>>
    [] OTHER -> McpEnds /\ UNCHANGED heard

ReplayOne ==
  /\ In("replay") /\ preInit # <<>>
  /\ Hear(Head(preInit), Tail(preInit), toMcp)
  /\ UNCHANGED <<claudeVars, half, toClient, clientVars, socketVars, answer, received, lost,
                 cut>>

ReplayDone ==
  /\ In("replay") /\ preInit = <<>> /\ mcp' = Select
  /\ UNCHANGED <<claudeVars, half, preInit, toClient, toMcp, clientVars, socketVars, toldVars,
                 fateVars>>

\* Mutant: one message more than the bound.
BufferEarlyOneMore(m) ==
  IF Len(preInit) <= PreInitCap
  THEN preInit' = Append(preInit, m) /\ UNCHANGED dropped
  ELSE dropped' = dropped \cup {m} /\ UNCHANGED preInit

BufferEarly(m) ==
  IF Len(preInit) < PreInitCap
  THEN preInit' = Append(preInit, m) /\ UNCHANGED dropped
  ELSE dropped' = dropped \cup {m} /\ UNCHANGED preInit

\* The future of read_line is dropped, and with it what it had read of a line: a call,
\* or the initialize request.
TakeMessage ==
  /\ In("select") /\ toMcp # <<>>
  /\ half' = None /\ cut' = cut \cup ({half} \ {None})
  /\ greeting' = IF greeting = "part" THEN "cut" ELSE greeting
  /\ IF greeting = "read"
     THEN Hear(Head(toMcp), preInit, Tail(toMcp))
     ELSE BufferEarly(Head(toMcp)) /\ toMcp' = Tail(toMcp) /\ UNCHANGED <<mcp, heard>>
  /\ UNCHANGED <<claude, kind, stdin, toClient, clientVars, socketVars, answer, received,
                 lost>>

ReadPart ==
  /\ In("select") /\ half = None /\ stdin # <<>>
  /\ half' = Head(stdin) /\ stdin' = Tail(stdin)
  /\ UNCHANGED <<claude, kind, greeting, mcp, preInit, toClient, toMcp, clientVars, socketVars,
                 toldVars, fateVars>>

\* A refused call is answered at once, any other goes to the client first.
ReadLine ==
  /\ In("select") /\ half # None /\ half' = None
  /\ IF kind[half] = "refused"
     THEN Respond(half, "error")
     ELSE mcp' = [pc |-> "send", call |-> half, got |-> None]
          /\ UNCHANGED <<answer, preInit, toMcp, dropped>>
  /\ UNCHANGED <<claudeVars, toClient, clientVars, socketVars, heard, received, lost, cut>>

EndOfInput ==
  /\ In("select") /\ ~claude /\ stdin = <<>> /\ half = None
  /\ greeting \notin {"sent", "part"}
  /\ McpEnds
  /\ UNCHANGED <<claudeVars, half, toClient, clientVars, socketVars, toldVars, received, lost,
                 cut>>

\* The loop waits for room, and does nothing else while it waits.
SendItem ==
  /\ In("send") /\ ~At("over") /\ Len(toClient) < OutCap
  /\ toClient' = Append(toClient, mcp.call)
  /\ IF kind[mcp.call] = "query"
     THEN mcp' = [mcp EXCEPT !.pc = "wait"] /\ UNCHANGED <<answer, preInit, toMcp, dropped>>
     ELSE Respond(mcp.call, "sent")
  /\ UNCHANGED <<claudeVars, half, clientVars, socketVars, heard, received, lost, cut>>

\* Nobody receives any more.
SendRefused ==
  /\ In("send") /\ At("over")
  /\ lost' = lost \cup Replies({mcp.call})
  /\ Respond(mcp.call, "error")
  /\ UNCHANGED <<claudeVars, half, toClient, clientVars, socketVars, heard, received, cut>>

\* Mutant: the loop waits for the daemon's answer as long as it takes.
QueryEndsUntimed ==
  /\ In("wait") /\ mcp.got # None
  /\ Respond(mcp.call, mcp.got)
  /\ UNCHANGED <<claudeVars, half, toClient, clientVars, socketVars, heard, received, lost, cut>>

\* The answer has come, the sender is gone, or five seconds have passed.
QueryEnds ==
  /\ In("wait")
  /\ Respond(mcp.call, IF mcp.got = None THEN "error" ELSE mcp.got)
  /\ UNCHANGED <<claudeVars, half, toClient, clientVars, socketVars, heard, received, lost, cut>>

----------------------------------------------------------------------------
(* The daemon client.                                                      *)

\* The other end of a query's channel is told, if it still waits for one of these queries.
Resolve(qs, a) ==
  mcp' = IF In("wait") /\ mcp.call \in qs /\ mcp.got = None THEN [mcp EXCEPT !.got = a] ELSE mcp

clientFrame == <<claudeVars, half, preInit, toldVars, cut>>

Connect ==
  /\ At("connecting") /\ conns < MaxConns
  /\ Goto("greeting") /\ conns' = conns + 1 /\ link' = TRUE /\ up' = <<>> /\ down' = <<>>
  /\ UNCHANGED <<clientFrame, mcp, toClient, toMcp, attempt, backlog, query, routed, dropped,
                 received, lost>>

\* reply_rx, push_tx and what waits in them and in the backlog are gone.
ClientEnds ==
  LET gone == ToSet(toClient) \cup ToSet(backlog) IN
  /\ Goto("over") /\ toClient' = <<>> /\ backlog' = <<>>
  /\ lost' = lost \cup Replies(gone) /\ Resolve(gone, "error")

ConnectFails ==
  /\ At("connecting") /\ attempt' = attempt + 1
  /\ IF attempt + 1 >= MaxRetries THEN ClientEnds
     ELSE Goto("backoff") /\ UNCHANGED <<mcp, toClient, backlog, lost>>
  /\ UNCHANGED <<clientFrame, toMcp, query, socketVars, dropped, received>>

BufferDuringBackoff ==
  /\ At("backoff") /\ toClient # <<>> /\ toClient' = Tail(toClient)
  /\ IF Len(backlog) < BackoffCap
     THEN backlog' = Append(backlog, Head(toClient)) /\ UNCHANGED <<mcp, lost>>
     ELSE lost' = lost \cup Replies({Head(toClient)}) /\ Resolve({Head(toClient)}, "error")
          /\ UNCHANGED backlog
  /\ UNCHANGED <<clientFrame, toMcp, client, attempt, query, socketVars, dropped, received>>

BackoffOver ==
  /\ At("backoff") /\ Goto("connecting")
  /\ UNCHANGED <<clientFrame, mcp, toClient, toMcp, attempt, backlog, query, socketVars,
                 dropped, received, lost>>

\* The MCP loop has ended and the channel from it is empty.
ReplyChannelClosed ==
  /\ At("backoff") /\ In("over") /\ toClient = <<>>
  /\ ClientEnds
  /\ UNCHANGED <<clientFrame, toMcp, attempt, query, socketVars, dropped, received>>

\* What was not read of the connection is lost with it.
Abandon ==
  /\ down' = <<>> /\ dropped' = dropped \cup (ToSet(down) \ {Agents})
  /\ UNCHANGED <<conns, link, up, routed>>

\* The AgentConnect message, of which the daemon's side is in TaskRouting.
Greet ==
  /\ At("greeting")
  /\ IF link THEN Goto("replaying") /\ UNCHANGED <<socketVars, dropped>>
     ELSE Goto("connecting") /\ Abandon
  /\ UNCHANGED <<clientFrame, mcp, toClient, toMcp, attempt, backlog, query, received, lost>>

\* A query cannot be serialized here and is dropped, the channel to its caller with it.
ReplayBacklog ==
  /\ At("replaying") /\ backlog # <<>>
  /\ IF kind[Head(backlog)] = "query"
     THEN /\ backlog' = Tail(backlog) /\ Resolve({Head(backlog)}, "error")
          /\ UNCHANGED <<client, socketVars, dropped>>
     ELSE /\ UNCHANGED mcp
          /\ IF link
             THEN /\ up' = Append(up, Head(backlog)) /\ backlog' = Tail(backlog)
                  /\ UNCHANGED <<client, conns, link, down, routed, dropped>>
             ELSE Goto("connecting") /\ Abandon /\ UNCHANGED backlog
  /\ UNCHANGED <<clientFrame, toClient, toMcp, attempt, query, received, lost>>

\* Mutant: the channel is served while the backlog waits for the next connection.
ReplayedEarly ==
  /\ At("replaying") /\ Goto("serving")
  /\ UNCHANGED <<clientFrame, mcp, toClient, toMcp, attempt, backlog, query, socketVars,
                 dropped, received, lost>>

ReplayedAll ==
  /\ At("replaying") /\ backlog = <<>> /\ Goto("serving")
  /\ UNCHANGED <<clientFrame, mcp, toClient, toMcp, attempt, backlog, query, socketVars,
                 dropped, received, lost>>

\* The connection is left: a query that was sent on it is answered with nobody.
LeaveServing ==
  /\ Goto("connecting") /\ attempt' \in {0, attempt}
  /\ query' = None /\ Abandon

\* Mutant: a reply that could not be sent is not kept.
SendOutboundForgets ==
  LET c == Head(toClient) IN
  /\ At("serving") /\ toClient # <<>> /\ toClient' = Tail(toClient)
  /\ IF link
     THEN /\ up' = Append(up, c) /\ query' = IF kind[c] = "query" THEN c ELSE query
          /\ UNCHANGED <<mcp, client, attempt, backlog, conns, link, down, routed, dropped>>
     ELSE /\ LeaveServing /\ UNCHANGED backlog
          /\ Resolve({IF kind[c] = "query" THEN c ELSE query}, "nobody")
  /\ UNCHANGED <<clientFrame, toMcp, received, lost>>

\* send_outbound; a query takes the place of the one before it, whose caller has given up.
SendOutbound ==
  LET c == Head(toClient) IN
  /\ At("serving") /\ toClient # <<>> /\ toClient' = Tail(toClient)
  /\ IF link
     THEN /\ up' = Append(up, c) /\ query' = IF kind[c] = "query" THEN c ELSE query
          /\ UNCHANGED <<mcp, client, attempt, backlog, conns, link, down, routed, dropped>>
     ELSE /\ LeaveServing
          /\ backlog' = IF kind[c] = "query" THEN backlog ELSE Append(backlog, c)
          /\ Resolve({IF kind[c] = "query" THEN c ELSE query}, "nobody")
  /\ UNCHANGED <<clientFrame, toMcp, received, lost>>

\* handle_inbound: an answer to a query, or a message for the MCP loop.
Receive ==
  /\ At("serving") /\ down # <<>> /\ down' = Tail(down)
  /\ IF Head(down) = Agents
     THEN query' = None /\ Resolve({query}, "agents") /\ UNCHANGED client
     ELSE client' = [pc |-> "put", hold |-> Head(down)] /\ UNCHANGED <<mcp, query>>
  /\ UNCHANGED <<clientFrame, toClient, toMcp, attempt, backlog, conns, link, up, routed,
                 dropped, received, lost>>

\* Mutant: the client gives up the message when the channel is full.
PutMessageTries ==
  /\ At("put") /\ Goto("serving")
  /\ toMcp' = IF Len(toMcp) < InCap THEN Append(toMcp, client.hold) ELSE toMcp
  /\ UNCHANGED <<clientFrame, mcp, toClient, attempt, backlog, query, socketVars, dropped,
                 received, lost>>

\* Mutant: the client does not see that nobody receives any more.
PutMessageWaits ==
  /\ At("put") /\ Goto("serving")
  /\ Len(toMcp) < InCap /\ toMcp' = Append(toMcp, client.hold) /\ UNCHANGED dropped
  /\ UNCHANGED <<clientFrame, mcp, toClient, attempt, backlog, query, socketVars, received,
                 lost>>

\* The client waits for room, and does nothing else while it waits.
PutMessage ==
  /\ At("put")
  /\ IF In("over")
     THEN dropped' = dropped \cup {client.hold} /\ UNCHANGED toMcp
     ELSE Len(toMcp) < InCap /\ toMcp' = Append(toMcp, client.hold) /\ UNCHANGED dropped
  /\ Goto("serving")
  /\ UNCHANGED <<clientFrame, mcp, toClient, attempt, backlog, query, socketVars, received,
                 lost>>

SeeEnd ==
  /\ At("serving") /\ ~link /\ down = <<>>
  /\ LeaveServing /\ Resolve({query}, "nobody")
  /\ UNCHANGED <<clientFrame, toClient, toMcp, backlog, received, lost>>

----------------------------------------------------------------------------
(* The control server of the daemon, and the network.                      *)

Route ==
  /\ link /\ routed < MaxMessages
  /\ routed' = routed + 1 /\ down' = Append(down, routed')
  /\ UNCHANGED <<claudeVars, mcpVars, toClient, toMcp, clientVars, conns, link, up, toldVars,
                 fateVars>>

Serve ==
  /\ link /\ up # <<>> /\ up' = Tail(up)
  /\ received' = IF kind[Head(up)] = "reply" THEN Append(received, Head(up)) ELSE received
  /\ down' = IF kind[Head(up)] = "query" THEN Append(down, Agents) ELSE down
  /\ UNCHANGED <<claudeVars, mcpVars, toClient, toMcp, clientVars, conns, link, routed,
                 toldVars, dropped, lost, cut>>

\* Of what is on its way to the bridge a prefix may have arrived.
Break ==
  /\ link /\ link' = FALSE
  /\ up' = <<>> /\ lost' = lost \cup Replies(ToSet(up))
  /\ \E n \in 0..Len(down) :
       /\ down' = SubSeq(down, 1, n)
       /\ dropped' = dropped \cup (ToSet(SubSeq(down, n + 1, Len(down))) \ {Agents})
  /\ UNCHANGED <<claudeVars, mcpVars, toClient, toMcp, clientVars, conns, routed, toldVars,
                 received, cut>>

----------------------------------------------------------------------------
McpStep ==
  \/ ReadGreeting \/ Initialize \/ ReplayOne \/ ReplayDone \/ TakeMessage \/ ReadPart
  \/ ReadLine \/ EndOfInput \/ SendItem \/ SendRefused \/ QueryEnds

ClientStep ==
  \/ Connect \/ ConnectFails \/ BufferDuringBackoff \/ BackoffOver \/ ReplyChannelClosed
  \/ Greet \/ ReplayBacklog \/ ReplayedAll \/ SendOutbound \/ Receive \/ PutMessage \/ SeeEnd

ClaudeStep == SendInitialize \/ ClaudeExits \/ \E c \in Calls, k \in Kinds : Call(c, k)

Next == McpStep \/ ClientStep \/ ClaudeStep \/ Route \/ Serve \/ Break

Spec == Init /\ [][Next]_vars

\* The two loops run, and the client's back-off ends; Claude, the daemon and the network
\* owe nothing.
Fairness == WF_vars(McpStep) /\ WF_vars(ClientStep)

FairSpec == Spec /\ Fairness

----------------------------------------------------------------------------
(* Properties.                                                             *)

\* Every variable is within its type, and the channels and buffers within their bounds.
TypeOK ==
  /\ claude \in BOOLEAN /\ kind \in [Calls -> Kinds \cup {None}] /\ stdin \in Seq(Calls)
  /\ greeting \in {"unsent", "sent", "part", "read", "cut"} /\ half \in Calls \cup {None}
  /\ mcp \in [pc: {"select", "replay", "send", "wait", "over"},
              call: Calls \cup {None}, got: Answers \cup {None}]
  /\ preInit \in Seq(Messages) /\ Len(preInit) <= PreInitCap
  /\ toClient \in Seq(Calls) /\ Len(toClient) <= OutCap
  /\ toMcp \in Seq(Messages) /\ Len(toMcp) <= InCap
  /\ client \in [pc: {"connecting", "greeting", "replaying", "serving", "put", "backoff", "over"},
                 hold: Messages \cup {None}]
  /\ attempt \in 0..MaxRetries
  /\ backlog \in Seq(Calls) /\ Len(backlog) <= BackoffCap
  /\ query \in Calls \cup {None} /\ conns \in 0..MaxConns /\ link \in BOOLEAN
  /\ up \in Seq(Calls) /\ down \in Seq(Messages \cup {Agents}) /\ routed \in 0..MaxMessages
  /\ answer \in [Calls -> Answers \cup {None}] /\ heard \in Seq(Messages)
  /\ dropped \subseteq Messages /\ received \in Seq(Calls) /\ lost \subseteq Calls
  /\ cut \subseteq Calls

Ascending(s) == \A i, j \in DOMAIN s : i < j => s[i] < s[j]

\* Claude hears the messages in the order they were routed, those that came before it had
\* initialized first.
HeardInOrder == Ascending(heard)

\* The daemon gets the replies in the order Claude made them, whatever waited in the backlog
\* while the daemon was away and whichever connection broke under a replay.
RepliesInOrder == Ascending(received)

Stage(x, where) ==
  LET at == {s \in DOMAIN where : x \in where[s]}
  IN  CASE at = {} -> "fresh"
        [] Cardinality(at) = 1 -> CHOOSE s \in at : TRUE
        [] OTHER -> "several"

WhereMessages ==
  [held |-> (ToSet(down) \ {Agents}) \cup ({client.hold} \ {None}) \cup ToSet(toMcp)
              \cup ToSet(preInit),
   delivered |-> ToSet(heard), lost |-> dropped]

WhereReplies ==
  [held |-> Replies((IF In("send") THEN {mcp.call} ELSE {}) \cup ToSet(toClient)
              \cup ToSet(backlog) \cup ToSet(up)),
   delivered |-> ToSet(received), lost |-> lost]

Messages_ == INSTANCE Handoff
  WITH Items <- Messages, stage <- [m \in Messages |-> Stage(m, WhereMessages)]
Replies_ == INSTANCE Handoff
  WITH Items <- Calls, stage <- [c \in Calls |-> Stage(c, WhereReplies)]

\* A message routed to the bridge waits somewhere until Claude is given it, once, or it is
\* given up: before initialize beyond the bound, from an unknown sender, or with a
\* connection or the loop that ends.
MessagesAreHandedOver == Messages_!Spec

\* A reply that was read waits somewhere until the daemon has it, once, or it is given up:
\* through back-off, overflow, a replay that fails half-way and the end of the client.
RepliesAreHandedOver == Replies_!Spec

\* Each loop waits for room in the channel to the other.
Wedged ==
  /\ At("put") /\ Len(toMcp) = InCap
  /\ In("send") /\ Len(toClient) = OutCap

\* Every wait ends, unless the loops have wedged: a call is answered, if its line was not cut
\* and the loop has not ended, and a daemon that never answers a query does not keep it; and
\* the client comes back from every message it hands over.
WaitsEnd ==
  /\ \A c \in Calls : kind[c] # None ~> answer[c] # None \/ c \in cut \/ In("over") \/ Wedged
  /\ At("put") ~> ~At("put") \/ Wedged
=============================================================================
