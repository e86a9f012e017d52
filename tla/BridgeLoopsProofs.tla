-------------------------- MODULE BridgeLoopsProofs --------------------------
(***************************************************************************)
(* Theorems about the loops of the bridge, for every capacity of channels  *)
(* and buffers and every number of calls, messages and connections.        *)
(*                                                                         *)
(* Messages and calls are numbers, and Agents, which is in the way back    *)
(* among the messages, is zero: on a line it counts for nothing.           *)
(***************************************************************************)
EXTENDS BridgeLoops, Lines, FiniteSetTheorems, TLAPS

----------------------------------------------------------------------------
(* The inductive invariant: the types; what each place of a loop means for *)
(* what it holds; and the two lines, of messages and of calls, in which    *)
(* everything stands in the order it came.                                 *)

PlaceInv ==
  /\ mcp.pc \in {"send", "wait"} => mcp.call \in Calls
  /\ IF At("put") THEN client.hold \in Messages ELSE client.hold = None
  /\ At("serving") \/ At("put") => backlog = <<>>
  /\ ~At("over") => attempt < MaxRetries
  /\ greeting = "read" /\ ~In("replay") => preInit = <<>>

Holding == IF At("put") THEN <<client.hold>> ELSE <<>>
Sending == IF In("send") THEN <<mcp.call>> ELSE <<>>
Begun   == IF half = None THEN <<>> ELSE <<half>>

MessageLine == <<heard, preInit, toMcp, Holding, down>>

\* No message that has been routed comes after one that has not.
MessagesInv ==
  /\ InLine(5, MessageLine)
  /\ \A a \in 1..5 : Before(Contents(MessageLine[a]), {routed + 1})

CallLine == <<received, up, backlog, toClient, Sending, Begun, stdin>>

Made(c) == kind[c] # None

\* Claude has made the calls of the line, and all calls before one that it has made.
CallsInv ==
  /\ InLine(7, CallLine)
  /\ \A a \in 1..7 : \A c \in Contents(CallLine[a]) : Made(c)
  /\ \A c \in Calls : Made(c) => \A b \in 1..(c - 1) : Made(b)

IInv == TypeOK /\ PlaceInv /\ MessagesInv /\ CallsInv

USE LoopsAssumption
    DEF In, At, Select, Over, claudeVars, mcpVars, clientVars,
        socketVars, toldVars, fateVars, clientFrame, Agents

----------------------------------------------------------------------------
(* The types, in the groups that the steps disturb together.               *)

ClaudeTypes ==
  /\ claude \in BOOLEAN /\ kind \in [Calls -> Kinds \cup {None}] /\ stdin \in Seq(Calls)
  /\ greeting \in {"unsent", "sent", "part", "read", "cut"}
  /\ half \in Calls \cup {None} /\ cut \subseteq Calls

LoopTypes ==
  /\ mcp \in [pc: {"select", "replay", "send", "wait", "over"},
              call: Calls \cup {None}, got: Answers \cup {None}]
  /\ preInit \in Seq(Messages) /\ Len(preInit) <= PreInitCap
  /\ toMcp \in Seq(Messages) /\ Len(toMcp) <= InCap

ToldTypes ==
  /\ answer \in [Calls -> Answers \cup {None}] /\ heard \in Seq(Messages)
  /\ dropped \subseteq Messages

ClientTypes ==
  /\ client \in [pc: {"connecting", "greeting", "replaying", "serving", "put", "backoff", "over"},
                 hold: Messages \cup {None}]
  /\ attempt \in 0..MaxRetries /\ query \in Calls \cup {None}

QueueTypes ==
  /\ toClient \in Seq(Calls) /\ Len(toClient) <= OutCap
  /\ backlog \in Seq(Calls) /\ Len(backlog) <= BackoffCap
  /\ lost \subseteq Calls

SocketTypes ==
  /\ conns \in 0..MaxConns /\ link \in BOOLEAN
  /\ up \in Seq(Calls) /\ down \in Seq(Messages \cup {Agents}) /\ routed \in 0..MaxMessages
  /\ received \in Seq(Calls)

Typed ==
  ClaudeTypes /\ LoopTypes /\ ToldTypes /\ ClientTypes /\ QueueTypes /\ SocketTypes

\* What is in a sequence of a set is in the set.
LEMMA ElementsAreTyped ==
  ASSUME NEW S, NEW s \in Seq(S) PROVE ToSet(s) \subseteq S
BY DEF ToSet

\* The first of a sequence is taken.
LEMMA FirstIsTyped ==
  ASSUME NEW S, NEW s \in Seq(S), s # <<>>
  PROVE  Head(s) \in S /\ Tail(s) \in Seq(S) /\ Len(Tail(s)) = Len(s) - 1 /\ Len(s) \in Nat
OBVIOUS

\* Something is put at the end of a sequence.
LEMMA LastIsTyped ==
  ASSUME NEW S, NEW s \in Seq(S), NEW x \in S
  PROVE  Append(s, x) \in Seq(S) /\ Len(Append(s, x)) = Len(s) + 1 /\ Len(s) \in Nat
OBVIOUS

\* The MCP loop ends.
LEMMA McpEndsTyped ==
  ASSUME TypeOK, McpEnds PROVE LoopTypes' /\ dropped' \subseteq Messages
BY ElementsAreTyped DEF TypeOK, McpEnds, LoopTypes

\* The MCP loop writes the answer to a call, or ends.
LEMMA RespondTyped ==
  ASSUME TypeOK, NEW c \in Calls, NEW a \in Answers, Respond(c, a)
  PROVE  /\ LoopTypes' /\ dropped' \subseteq Messages
         /\ answer' \in [Calls -> Answers \cup {None}]
<1>1. CASE claude
  <2>1. /\ answer' = [answer EXCEPT ![c] = a] /\ mcp' = Select
        /\ UNCHANGED <<preInit, toMcp, dropped>>
    BY <1>1, Zenon DEF Respond
  <2> QED BY <2>1 DEF TypeOK, LoopTypes
<1>2. CASE ~claude  BY <1>2, McpEndsTyped DEF TypeOK, Respond
<1> QED BY <1>1, <1>2

\* A message that comes before initialize is kept, if there is room.
LEMMA BufferEarlyTyped ==
  ASSUME preInit \in Seq(Messages), Len(preInit) <= PreInitCap, dropped \subseteq Messages,
         NEW m \in Messages, BufferEarly(m)
  PROVE  /\ preInit' \in Seq(Messages) /\ Len(preInit') <= PreInitCap
         /\ dropped' \subseteq Messages
<1>1. CASE Len(preInit) < PreInitCap  BY <1>1, LastIsTyped DEF BufferEarly
<1>2. CASE ~(Len(preInit) < PreInitCap)  BY <1>2 DEF BufferEarly
<1> QED BY <1>1, <1>2

\* The MCP loop gives Claude a message, or drops it, or ends.
LEMMA HearTyped ==
  ASSUME TypeOK, NEW m \in Messages,
         NEW before \in Seq(Messages), Len(before) <= PreInitCap,
         NEW channel \in Seq(Messages), Len(channel) <= InCap, Hear(m, before, channel)
  PROVE  LoopTypes' /\ dropped' \subseteq Messages /\ heard' \in Seq(Messages)
<1>1. CASE ~Known(m)  BY <1>1 DEF TypeOK, Hear, LoopTypes
<1>2. CASE Known(m) /\ claude
  <2>1. /\ heard' = Append(heard, m) /\ preInit' = before /\ toMcp' = channel
        /\ UNCHANGED <<mcp, dropped>>
    BY <1>2 DEF Hear
  <2> QED BY <2>1 DEF TypeOK, LoopTypes
<1>3. CASE Known(m) /\ ~claude  BY <1>3, McpEndsTyped DEF TypeOK, Hear
<1> QED BY <1>1, <1>2, <1>3

\* A query is resolved.
LEMMA ResolveTyped ==
  ASSUME TypeOK, NEW qs, NEW a \in Answers, Resolve(qs, a)
  PROVE  mcp' \in [pc: {"select", "replay", "send", "wait", "over"},
                   call: Calls \cup {None}, got: Answers \cup {None}]
BY DEF TypeOK, Resolve

\* The client ends.
LEMMA ClientEndsTyped ==
  ASSUME TypeOK, ClientEnds
  PROVE  /\ QueueTypes'
         /\ mcp' \in [pc: {"select", "replay", "send", "wait", "over"},
                      call: Calls \cup {None}, got: Answers \cup {None}]
<1>1. ToSet(toClient) \cup ToSet(backlog) \subseteq Calls  BY ElementsAreTyped DEF TypeOK
<1>2. QueueTypes'  BY <1>1 DEF TypeOK, ClientEnds, QueueTypes, Replies
<1> QED BY <1>2, ResolveTyped DEF ClientEnds, Answers

\* A connection is given up.
LEMMA AbandonTyped ==
  ASSUME TypeOK, Abandon
  PROVE  /\ down' \in Seq(Messages \cup {Agents}) /\ dropped' \subseteq Messages
         /\ UNCHANGED <<conns, link, up, routed>>
BY ElementsAreTyped DEF TypeOK, Abandon

\* Every step keeps the types.
LEMMA TypesStep ==
  ASSUME TypeOK, PlaceInv, [Next]_vars PROVE Typed'
<1> USE DEF TypeOK, PlaceInv, Kinds, Answers
<1>1. CASE Initialize
  <2>1. ClaudeTypes'
    BY <1>1 DEF Initialize, McpEnds, ClaudeTypes
  <2>2. LoopTypes'  BY <1>1, McpEndsTyped DEF Initialize, LoopTypes
  <2>3. ToldTypes'  BY <1>1, McpEndsTyped DEF Initialize, ToldTypes
  <2>4. ClientTypes' /\ QueueTypes' /\ SocketTypes'
    BY <1>1 DEF Initialize, McpEnds, ClientTypes, QueueTypes, SocketTypes
  <2> QED BY <2>1, <2>2, <2>3, <2>4 DEF Typed
<1>2. CASE ReplayOne
  <2>1. /\ Hear(Head(preInit), Tail(preInit), toMcp)
        /\ Head(preInit) \in Messages /\ Tail(preInit) \in Seq(Messages)
        /\ Len(Tail(preInit)) <= PreInitCap
    BY <1>2, FirstIsTyped DEF ReplayOne
  <2>2. LoopTypes'  BY <2>1, HearTyped
  <2>3. ToldTypes'  BY <1>2, <2>1, HearTyped DEF ReplayOne, ToldTypes
  <2>4. ClaudeTypes' /\ ClientTypes' /\ QueueTypes' /\ SocketTypes'
    BY <1>2 DEF ReplayOne, Hear, McpEnds, Known, ClaudeTypes, ClientTypes, QueueTypes, SocketTypes
  <2> QED BY <2>2, <2>3, <2>4 DEF Typed
<1>3. CASE ReplayDone
  <2>1. LoopTypes'
    BY <1>3 DEF ReplayDone, LoopTypes
  <2>2. ClaudeTypes' /\ ToldTypes' /\ ClientTypes' /\ QueueTypes' /\ SocketTypes'
    BY <1>3 DEF ReplayDone, ClaudeTypes, ToldTypes, ClientTypes, QueueTypes, SocketTypes
  <2> QED BY <2>1, <2>2 DEF Typed
<1>4. CASE TakeMessage
  <2>1. /\ Head(toMcp) \in Messages /\ Tail(toMcp) \in Seq(Messages)
        /\ Len(Tail(toMcp)) <= InCap
    BY <1>4, FirstIsTyped DEF TakeMessage
  <2>2. ASSUME greeting = "read" PROVE LoopTypes' /\ ToldTypes'
    <3>1. Hear(Head(toMcp), preInit, Tail(toMcp))  BY <1>4, <2>2 DEF TakeMessage
    <3> QED BY <2>1, <3>1, <1>4, HearTyped DEF TakeMessage, ToldTypes
  <2>3. ASSUME greeting # "read" PROVE LoopTypes' /\ ToldTypes'
    <3>1. /\ BufferEarly(Head(toMcp)) /\ UNCHANGED <<mcp, heard, answer>>
          /\ toMcp' = Tail(toMcp)
      BY <1>4, <2>3 DEF TakeMessage
    <3>2. /\ preInit' \in Seq(Messages) /\ Len(preInit') <= PreInitCap
          /\ dropped' \subseteq Messages
      BY <2>1, <3>1, BufferEarlyTyped
    <3> QED BY <2>1, <3>1, <3>2 DEF LoopTypes, ToldTypes
  <2>4. ClaudeTypes'
    BY <1>4 DEF TakeMessage, Hear, McpEnds, Known, BufferEarly, ClaudeTypes
  <2>5. LoopTypes'  BY <2>2, <2>3
  <2>6. ToldTypes'  BY <2>2, <2>3
  <2>7. ClientTypes' /\ QueueTypes' /\ SocketTypes'
    BY <1>4 DEF TakeMessage, Hear, McpEnds, Known, BufferEarly, ClientTypes, QueueTypes,
       SocketTypes
  <2> QED BY <2>4, <2>5, <2>6, <2>7 DEF Typed
<1>5. CASE ReadPart
  <2>1. ClaudeTypes'
    BY <1>5 DEF ReadPart, ClaudeTypes
  <2>2. LoopTypes' /\ ToldTypes' /\ ClientTypes' /\ QueueTypes' /\ SocketTypes'
    BY <1>5 DEF ReadPart, LoopTypes, ToldTypes, ClientTypes, QueueTypes, SocketTypes
  <2> QED BY <2>1, <2>2 DEF Typed
<1>6. CASE ReadLine
  <2>1. half \in Calls  BY <1>6 DEF ReadLine
  <2>2. ASSUME kind[half] = "refused" PROVE LoopTypes' /\ ToldTypes'
    <3>1. Respond(half, "error") /\ heard' = heard  BY <1>6, <2>2 DEF ReadLine
    <3> QED BY <2>1, <3>1, RespondTyped DEF ToldTypes
  <2>3. ASSUME kind[half] # "refused" PROVE LoopTypes' /\ ToldTypes'
    BY <1>6, <2>1, <2>3 DEF ReadLine, LoopTypes, ToldTypes
  <2>4. ClaudeTypes'
    BY <1>6 DEF ReadLine, Respond, McpEnds, ClaudeTypes
  <2>5. LoopTypes'  BY <2>2, <2>3
  <2>6. ToldTypes'  BY <2>2, <2>3
  <2>7. ClientTypes' /\ QueueTypes' /\ SocketTypes'
    BY <1>6 DEF ReadLine, Respond, McpEnds, ClientTypes, QueueTypes, SocketTypes
  <2> QED BY <2>4, <2>5, <2>6, <2>7 DEF Typed
<1>7. CASE EndOfInput
  <2>1. LoopTypes'  BY <1>7, McpEndsTyped DEF EndOfInput
  <2>2. ToldTypes'  BY <1>7, McpEndsTyped DEF EndOfInput, ToldTypes
  <2>3. ClaudeTypes' /\ ClientTypes' /\ QueueTypes' /\ SocketTypes'
    BY <1>7 DEF EndOfInput, McpEnds, ClaudeTypes, ClientTypes, QueueTypes, SocketTypes
  <2> QED BY <2>1, <2>2, <2>3 DEF Typed
<1>8. CASE SendItem
  <2>1. mcp.call \in Calls  BY <1>8 DEF SendItem
  <2>2. ASSUME kind[mcp.call] = "query" PROVE LoopTypes' /\ ToldTypes'
    BY <1>8, <2>2 DEF SendItem, LoopTypes, ToldTypes
  <2>3. ASSUME kind[mcp.call] # "query" PROVE LoopTypes' /\ ToldTypes'
    <3>1. Respond(mcp.call, "sent") /\ heard' = heard  BY <1>8, <2>3 DEF SendItem
    <3> QED BY <2>1, <3>1, RespondTyped DEF ToldTypes
  <2>4. LoopTypes'  BY <2>2, <2>3
  <2>5. ToldTypes'  BY <2>2, <2>3
  <2>6. QueueTypes'
    BY <1>8 DEF SendItem, Respond, McpEnds, QueueTypes
  <2>7. ClaudeTypes' /\ ClientTypes' /\ SocketTypes'
    BY <1>8 DEF SendItem, Respond, McpEnds, ClaudeTypes, ClientTypes, SocketTypes
  <2> QED BY <2>4, <2>5, <2>6, <2>7 DEF Typed
<1>9. CASE SendRefused
  <2>1. mcp.call \in Calls /\ Respond(mcp.call, "error") /\ heard' = heard
    BY <1>9 DEF SendRefused
  <2>2. LoopTypes'  BY <2>1, RespondTyped
  <2>3. ToldTypes'  BY <2>1, RespondTyped DEF ToldTypes
  <2>4. QueueTypes'
    BY <1>9 DEF SendRefused, Respond, McpEnds, Replies, QueueTypes
  <2>5. ClaudeTypes' /\ ClientTypes' /\ SocketTypes'
    BY <1>9 DEF SendRefused, Respond, McpEnds, Replies, ClaudeTypes, ClientTypes, SocketTypes
  <2> QED BY <2>2, <2>3, <2>4, <2>5 DEF Typed
<1>10. CASE QueryEnds
  <2>1. mcp.call \in Calls /\ heard' = heard  BY <1>10 DEF QueryEnds
  <2>2. \E a \in Answers : Respond(mcp.call, a)  BY <1>10 DEF QueryEnds
  <2>3. LoopTypes'  BY <2>1, <2>2, RespondTyped
  <2>4. ToldTypes'  BY <2>1, <2>2, RespondTyped DEF ToldTypes
  <2>5. ClaudeTypes' /\ ClientTypes' /\ QueueTypes' /\ SocketTypes'
    BY <1>10 DEF QueryEnds, Respond, McpEnds, ClaudeTypes, ClientTypes, QueueTypes, SocketTypes
  <2> QED BY <2>3, <2>4, <2>5 DEF Typed
<1>11. CASE Connect
  <2>1. ClientTypes'
    BY <1>11 DEF Connect, Goto, ClientTypes
  <2>2. SocketTypes'
    BY <1>11 DEF Connect, Goto, SocketTypes
  <2>3. ClaudeTypes' /\ LoopTypes' /\ ToldTypes' /\ QueueTypes'
    BY <1>11 DEF Connect, Goto, ClaudeTypes, LoopTypes, ToldTypes, QueueTypes
  <2> QED BY <2>1, <2>2, <2>3 DEF Typed
<1>12. CASE ConnectFails
  <2>1. ClientEnds \/ UNCHANGED <<mcp, toClient, backlog, lost>>  BY <1>12 DEF ConnectFails
  <2>2. LoopTypes'  BY <1>12, <2>1, ClientEndsTyped DEF ConnectFails, LoopTypes
  <2>3. ClientTypes'
    BY <1>12 DEF ConnectFails, ClientEnds, Goto, Resolve, Replies, ClientTypes
  <2>4. QueueTypes'  BY <2>1, ClientEndsTyped DEF QueueTypes
  <2>5. ClaudeTypes' /\ ToldTypes' /\ SocketTypes'
    BY <1>12 DEF ConnectFails, ClientEnds, Goto, Resolve, Replies, ClaudeTypes, ToldTypes,
       SocketTypes
  <2> QED BY <2>2, <2>3, <2>4, <2>5 DEF Typed
<1>13. CASE BufferDuringBackoff
  <2>1. /\ Head(toClient) \in Calls /\ Tail(toClient) \in Seq(Calls)
        /\ Len(Tail(toClient)) <= OutCap
    BY <1>13, FirstIsTyped DEF BufferDuringBackoff
  <2>2. LoopTypes'  BY <1>13, ResolveTyped DEF BufferDuringBackoff, LoopTypes
  <2>3. QueueTypes'
    <3>1. CASE Len(backlog) < BackoffCap
      <4>1. /\ toClient' = Tail(toClient)
            /\ backlog' = Append(backlog, Head(toClient)) /\ lost' = lost
        BY <1>13, <3>1 DEF BufferDuringBackoff
      <4> QED BY <2>1, <3>1, <4>1, LastIsTyped DEF QueueTypes
    <3>2. CASE ~(Len(backlog) < BackoffCap)
      BY <1>13, <2>1, <3>2 DEF BufferDuringBackoff, Replies, QueueTypes
    <3> QED BY <3>1, <3>2
  <2>4. ClaudeTypes' /\ ToldTypes' /\ ClientTypes' /\ SocketTypes'
    BY <1>13 DEF BufferDuringBackoff, Resolve, Replies, ClaudeTypes, ToldTypes, ClientTypes,
       SocketTypes
  <2> QED BY <2>2, <2>3, <2>4 DEF Typed
<1>14. CASE BackoffOver
  <2>1. ClientTypes'
    BY <1>14 DEF BackoffOver, Goto, ClientTypes
  <2>2. ClaudeTypes' /\ LoopTypes' /\ ToldTypes' /\ QueueTypes' /\ SocketTypes'
    BY <1>14 DEF BackoffOver, Goto, ClaudeTypes, LoopTypes, ToldTypes, QueueTypes, SocketTypes
  <2> QED BY <2>1, <2>2 DEF Typed
<1>15. CASE ReplyChannelClosed
  <2>1. LoopTypes'  BY <1>15, ClientEndsTyped DEF ReplyChannelClosed, LoopTypes
  <2>2. ClientTypes'
    BY <1>15 DEF ReplyChannelClosed, ClientEnds, Goto, Resolve, Replies, ClientTypes
  <2>3. QueueTypes'  BY <1>15, ClientEndsTyped DEF ReplyChannelClosed
  <2>4. ClaudeTypes' /\ ToldTypes' /\ SocketTypes'
    BY <1>15 DEF ReplyChannelClosed, ClientEnds, Goto, Resolve, Replies, ClaudeTypes,
       ToldTypes, SocketTypes
  <2> QED BY <2>1, <2>2, <2>3, <2>4 DEF Typed
<1>16. CASE Greet
  <2>1. ToldTypes'  BY <1>16, AbandonTyped DEF Greet, ToldTypes
  <2>2. ClientTypes'
    BY <1>16 DEF Greet, Goto, Abandon, ClientTypes
  <2>3. SocketTypes'  BY <1>16, AbandonTyped DEF Greet, SocketTypes
  <2>4. ClaudeTypes' /\ LoopTypes' /\ QueueTypes'
    BY <1>16 DEF Greet, Goto, Abandon, ClaudeTypes, LoopTypes, QueueTypes
  <2> QED BY <2>1, <2>2, <2>3, <2>4 DEF Typed
<1>17. CASE ReplayBacklog
  <2>1. /\ Head(backlog) \in Calls /\ Tail(backlog) \in Seq(Calls)
        /\ Len(Tail(backlog)) <= BackoffCap
    BY <1>17, FirstIsTyped DEF ReplayBacklog
  <2>2. LoopTypes'  BY <1>17, ResolveTyped DEF ReplayBacklog, LoopTypes
  <2>3. ToldTypes'  BY <1>17, AbandonTyped DEF ReplayBacklog, ToldTypes
  <2>4. ClientTypes'
    BY <1>17 DEF ReplayBacklog, Goto, Abandon, Resolve, ClientTypes
  <2>5. QueueTypes'  BY <1>17, <2>1 DEF ReplayBacklog, QueueTypes
  <2>6. SocketTypes'
    <3>1. \/ UNCHANGED socketVars
          \/ Abandon
          \/ up' = Append(up, Head(backlog)) /\ UNCHANGED <<conns, link, down, routed>>
      BY <1>17 DEF ReplayBacklog
    <3>2. received' = received  BY <1>17 DEF ReplayBacklog
    <3>3. up' \in Seq(Calls)
      <4>1. up' = up \/ up' = Append(up, Head(backlog))  BY <3>1, AbandonTyped
      <4>2. Append(up, Head(backlog)) \in Seq(Calls)  BY <2>1
      <4> QED BY <4>1, <4>2
    <3>4. down' \in Seq(Messages \cup {Agents}) /\ UNCHANGED <<conns, link, routed>>
      BY <3>1, AbandonTyped
    <3> QED BY <3>2, <3>3, <3>4 DEF SocketTypes
  <2>7. ClaudeTypes'
    BY <1>17 DEF ReplayBacklog, Goto, Abandon, Resolve, ClaudeTypes
  <2> QED BY <2>2, <2>3, <2>4, <2>5, <2>6, <2>7 DEF Typed
<1>18. CASE ReplayedAll
  <2>1. ClientTypes'
    BY <1>18 DEF ReplayedAll, Goto, ClientTypes
  <2>2. ClaudeTypes' /\ LoopTypes' /\ ToldTypes' /\ QueueTypes' /\ SocketTypes'
    BY <1>18 DEF ReplayedAll, Goto, ClaudeTypes, LoopTypes, ToldTypes, QueueTypes, SocketTypes
  <2> QED BY <2>1, <2>2 DEF Typed
<1>19. CASE SendOutbound
  <2>1. /\ Head(toClient) \in Calls /\ Tail(toClient) \in Seq(Calls)
        /\ Len(Tail(toClient)) <= OutCap
    BY <1>19, FirstIsTyped DEF SendOutbound
  <2>2. CASE link
    <3>1. /\ up' = Append(up, Head(toClient)) /\ query' \in {query, Head(toClient)}
          /\ toClient' = Tail(toClient)
          /\ UNCHANGED <<mcp, client, attempt, backlog, conns, link, down, routed, dropped>>
          /\ UNCHANGED <<clientFrame, toMcp, received, lost>>
      BY <1>19, <2>2 DEF SendOutbound
    <3> QED
      BY <2>1, <3>1
      DEF Typed, ClaudeTypes, LoopTypes, ToldTypes, ClientTypes, QueueTypes, SocketTypes
  <2>3. CASE ~link
    <3>1. /\ toClient' = Tail(toClient) /\ LeaveServing
          /\ \E qs : Resolve(qs, "nobody")
          /\ UNCHANGED <<clientFrame, toMcp, received, lost>>
      BY <1>19, <2>3 DEF SendOutbound
    <3>2. backlog = <<>> /\ backlog' \in {backlog, Append(backlog, Head(toClient))}
      BY <1>19, <2>3 DEF SendOutbound
    <3>3. QueueTypes'
      <4>1. /\ Append(backlog, Head(toClient)) \in Seq(Calls)
            /\ Len(Append(backlog, Head(toClient))) = 1
        BY <2>1, <3>2, LastIsTyped
      <4>2. backlog' \in Seq(Calls) /\ Len(backlog') <= BackoffCap
        <5>1. CASE backlog' = backlog  BY <5>1
        <5>2. CASE backlog' = Append(backlog, Head(toClient))  BY <4>1, <5>2
        <5> QED BY <3>2, <5>1, <5>2
      <4> QED BY <2>1, <3>1, <4>2 DEF QueueTypes
    <3>4. LoopTypes'  BY <3>1, ResolveTyped DEF LoopTypes
    <3>5. SocketTypes' /\ ToldTypes'
      BY <3>1, AbandonTyped DEF LeaveServing, SocketTypes, ToldTypes
    <3>6. ClientTypes' /\ ClaudeTypes'
      BY <3>1 DEF LeaveServing, Goto, ClientTypes, ClaudeTypes
    <3> QED BY <3>3, <3>4, <3>5, <3>6 DEF Typed
  <2> QED BY <2>2, <2>3
<1>20. CASE Receive
  <2>1. /\ Head(down) \in Messages \cup {Agents} /\ Tail(down) \in Seq(Messages \cup {Agents})
    BY <1>20, FirstIsTyped DEF Receive
  <2>2. LoopTypes'  BY <1>20, ResolveTyped DEF Receive, LoopTypes
  <2>3. ClientTypes'  BY <1>20, <2>1 DEF Receive, ClientTypes
  <2>4. SocketTypes'  BY <1>20, <2>1 DEF Receive, SocketTypes
  <2>5. ClaudeTypes' /\ ToldTypes' /\ QueueTypes'
    BY <1>20 DEF Receive, Resolve, ClaudeTypes, ToldTypes, QueueTypes
  <2> QED BY <2>2, <2>3, <2>4, <2>5 DEF Typed
<1>21. CASE PutMessage
  <2>1. client.hold \in Messages  BY <1>21 DEF PutMessage
  <2>2. LoopTypes'
    <3>1. CASE In("over")  BY <1>21, <3>1 DEF PutMessage, LoopTypes
    <3>2. CASE ~In("over")
      <4>1. /\ UNCHANGED <<mcp, preInit>> /\ Len(toMcp) < InCap
            /\ toMcp' = Append(toMcp, client.hold)
        BY <1>21, <3>2 DEF PutMessage
      <4> QED BY <2>1, <4>1, LastIsTyped DEF LoopTypes
    <3> QED BY <3>1, <3>2
  <2>3. ToldTypes'
    BY <1>21 DEF PutMessage, Goto, ToldTypes
  <2>4. ClientTypes'
    BY <1>21 DEF PutMessage, Goto, ClientTypes
  <2>5. ClaudeTypes' /\ QueueTypes' /\ SocketTypes'
    BY <1>21 DEF PutMessage, Goto, ClaudeTypes, QueueTypes, SocketTypes
  <2> QED BY <2>2, <2>3, <2>4, <2>5 DEF Typed
<1>22. CASE SeeEnd
  <2>1. LoopTypes'  BY <1>22, ResolveTyped DEF SeeEnd, LoopTypes
  <2>2. ToldTypes'  BY <1>22, AbandonTyped DEF SeeEnd, LeaveServing, ToldTypes
  <2>3. ClientTypes'
    BY <1>22 DEF SeeEnd, LeaveServing, Goto, Abandon, Resolve, ClientTypes
  <2>4. SocketTypes'  BY <1>22, AbandonTyped DEF SeeEnd, LeaveServing, SocketTypes
  <2>5. ClaudeTypes' /\ QueueTypes'
    BY <1>22 DEF SeeEnd, LeaveServing, Goto, Abandon, Resolve, ClaudeTypes, QueueTypes
  <2> QED BY <2>1, <2>2, <2>3, <2>4, <2>5 DEF Typed
<1>23. CASE SendInitialize \/ ReadGreeting
  <2>1. ClaudeTypes'
    BY <1>23 DEF SendInitialize, ReadGreeting, ClaudeTypes
  <2>2. LoopTypes' /\ ToldTypes' /\ ClientTypes' /\ QueueTypes' /\ SocketTypes'
    BY <1>23 DEF SendInitialize, ReadGreeting, LoopTypes, ToldTypes, ClientTypes, QueueTypes, SocketTypes
  <2> QED BY <2>1, <2>2 DEF Typed
<1>24. CASE ClaudeExits
  <2>1. ClaudeTypes'
    BY <1>24 DEF ClaudeExits, ClaudeTypes
  <2>2. LoopTypes' /\ ToldTypes' /\ ClientTypes' /\ QueueTypes' /\ SocketTypes'
    BY <1>24 DEF ClaudeExits, LoopTypes, ToldTypes, ClientTypes, QueueTypes, SocketTypes
  <2> QED BY <2>1, <2>2 DEF Typed
<1>25. CASE Route
  <2>1. routed + 1 \in Messages /\ routed + 1 \in 0..MaxMessages  BY <1>25 DEF Route, Messages
  <2>2. SocketTypes'  BY <1>25, <2>1 DEF Route, SocketTypes
  <2>3. ClaudeTypes' /\ LoopTypes' /\ ToldTypes' /\ ClientTypes' /\ QueueTypes'
    BY <1>25 DEF Route, ClaudeTypes, LoopTypes, ToldTypes, ClientTypes, QueueTypes
  <2> QED BY <2>2, <2>3 DEF Typed
<1>26. CASE Serve
  <2>1. SocketTypes'
    BY <1>26 DEF Serve, SocketTypes
  <2>2. ClaudeTypes' /\ LoopTypes' /\ ToldTypes' /\ ClientTypes' /\ QueueTypes'
    BY <1>26 DEF Serve, ClaudeTypes, LoopTypes, ToldTypes, ClientTypes, QueueTypes
  <2> QED BY <2>1, <2>2 DEF Typed
<1>27. CASE Break
  <2>1. PICK n \in 0..Len(down) :
         /\ down' = SubSeq(down, 1, n)
         /\ dropped' = dropped \cup (ToSet(SubSeq(down, n + 1, Len(down))) \ {Agents})
    BY <1>27 DEF Break
  <2>2. /\ SubSeq(down, 1, n) \in Seq(Messages \cup {Agents})
        /\ SubSeq(down, n + 1, Len(down)) \in Seq(Messages \cup {Agents})
    OBVIOUS
  <2>3. ToldTypes'  BY <1>27, <2>1, <2>2, ElementsAreTyped DEF Break, ToldTypes
  <2>4. QueueTypes'  BY <1>27, ElementsAreTyped DEF Break, Replies, QueueTypes
  <2>5. SocketTypes'
    <3>1. UNCHANGED <<conns, routed, received>> /\ link' = FALSE /\ up' = <<>>
      BY <1>27 DEF Break
    <3>2. down' \in Seq(Messages \cup {Agents})  BY <2>1, <2>2
    <3>3. link' \in BOOLEAN  BY <3>1
    <3>5. up' \in Seq(Calls)  BY <3>1
    <3>4. conns' \in 0..MaxConns /\ routed' \in 0..MaxMessages /\ received' \in Seq(Calls)
      BY <3>1
    <3> QED BY <3>2, <3>3, <3>4, <3>5 DEF SocketTypes
  <2>6. ClaudeTypes' /\ LoopTypes' /\ ClientTypes'
    BY <1>27 DEF Break, Replies, ClaudeTypes, LoopTypes, ClientTypes
  <2> QED BY <2>3, <2>4, <2>5, <2>6 DEF Typed
<1>28. ASSUME NEW c \in Calls, NEW k \in Kinds, Call(c, k) PROVE Typed'
  <2>1. ClaudeTypes'
    BY <1>28 DEF Call, ClaudeTypes
  <2>2. LoopTypes' /\ ToldTypes' /\ ClientTypes' /\ QueueTypes' /\ SocketTypes'
    BY <1>28 DEF Call, LoopTypes, ToldTypes, ClientTypes, QueueTypes, SocketTypes
  <2> QED BY <2>1, <2>2 DEF Typed
<1>29. CASE UNCHANGED vars
  BY <1>29 DEF vars, Typed, ClaudeTypes, LoopTypes, ToldTypes, ClientTypes, QueueTypes,
     SocketTypes
<1> QED
  BY <1>1, <1>2, <1>3, <1>4, <1>5, <1>6, <1>7, <1>8, <1>9, <1>10, <1>11, <1>12, <1>13, <1>14,
     <1>15, <1>16, <1>17, <1>18, <1>19, <1>20, <1>21, <1>22, <1>23, <1>24, <1>25, <1>26, <1>27,
     <1>28, <1>29
  DEF Next, McpStep, ClientStep, ClaudeStep

\* A query that is resolved leaves the MCP loop where it is.
LEMMA ResolveStays ==
  ASSUME TypeOK, NEW qs, NEW a, Resolve(qs, a)
  PROVE  mcp'.pc = mcp.pc /\ mcp'.call = mcp.call
BY DEF TypeOK, Resolve

\* The places keep their meaning.
LEMMA PlacesStep ==
  ASSUME TypeOK, PlaceInv, [Next]_vars PROVE PlaceInv'
<1> USE DEF TypeOK, PlaceInv
<1>1. CASE Initialize
  BY <1>1 DEF Initialize, McpEnds
<1>2. CASE ReplayOne
  BY <1>2 DEF ReplayOne, Hear, McpEnds
<1>3. CASE ReplayDone
  BY <1>3 DEF ReplayDone
<1>4. CASE TakeMessage
  BY <1>4 DEF TakeMessage, Hear, McpEnds, BufferEarly
<1>5. CASE ReadPart
  BY <1>5 DEF ReadPart
<1>6. CASE ReadLine
  BY <1>6 DEF ReadLine, Respond, McpEnds
<1>7. CASE EndOfInput
  BY <1>7 DEF EndOfInput, McpEnds
<1>8. CASE SendItem
  <2>1. CASE kind[mcp.call] = "query"  BY <1>8, <2>1 DEF SendItem
  <2>2. CASE kind[mcp.call] # "query"
    <3>1. Respond(mcp.call, "sent") /\ UNCHANGED <<client, attempt, backlog, greeting>>
      BY <1>8, <2>2 DEF SendItem
    <3>2. \/ mcp' = Select /\ UNCHANGED preInit
          \/ mcp' = Over /\ preInit' = <<>>
      BY <3>1 DEF Respond, McpEnds
    <3> QED BY <1>8, <3>1, <3>2 DEF SendItem
  <2> QED BY <2>1, <2>2
<1>9. CASE SendRefused
  BY <1>9 DEF SendRefused, Respond, McpEnds, Replies
<1>10. CASE QueryEnds
  BY <1>10 DEF QueryEnds, Respond, McpEnds
<1>11. CASE Connect
  BY <1>11 DEF Connect, Goto
<1>12. CASE ConnectFails
  <2>1. CASE attempt + 1 >= MaxRetries
    <3>1. ClientEnds /\ UNCHANGED <<greeting, preInit>>  BY <1>12, <2>1 DEF ConnectFails
    <3>2. client' = [pc |-> "over", hold |-> None]  BY <3>1 DEF ClientEnds, Goto
    <3> QED BY <3>1, <3>2, ResolveStays DEF ClientEnds
  <2>2. CASE ~(attempt + 1 >= MaxRetries)
    <3>1. /\ client' = [pc |-> "backoff", hold |-> None] /\ attempt' = attempt + 1
          /\ UNCHANGED <<mcp, greeting, preInit>>
      BY <1>12, <2>2 DEF ConnectFails, Goto
    <3> QED BY <2>2, <3>1
  <2> QED BY <2>1, <2>2
<1>13. CASE BufferDuringBackoff
  BY <1>13 DEF BufferDuringBackoff, Resolve, Replies
<1>14. CASE BackoffOver
  BY <1>14 DEF BackoffOver, Goto
<1>15. CASE ReplyChannelClosed
  BY <1>15 DEF ReplyChannelClosed, ClientEnds, Goto, Resolve, Replies
<1>16. CASE Greet
  BY <1>16 DEF Greet, Goto, Abandon
<1>17. CASE ReplayBacklog
  <2>1. /\ UNCHANGED <<attempt, greeting, preInit>>
        /\ UNCHANGED client \/ client' = [pc |-> "connecting", hold |-> None]
        /\ UNCHANGED mcp \/ Resolve({Head(backlog)}, "error")
    BY <1>17 DEF ReplayBacklog, Goto
  <2>2. mcp'.pc = mcp.pc /\ mcp'.call = mcp.call  BY <2>1, ResolveStays
  <2>3. /\ client'.pc \in {"replaying", "connecting"}
        /\ client'.hold = client.hold /\ At("replaying")
    BY <1>17, <2>1 DEF ReplayBacklog
  <2> QED BY <2>1, <2>2, <2>3
<1>18. CASE ReplayedAll
  BY <1>18 DEF ReplayedAll, Goto
<1>19. CASE SendOutbound
  <2>1. CASE link
    <3>1. UNCHANGED <<mcp, client, attempt, backlog, greeting, preInit>>
      BY <1>19, <2>1 DEF SendOutbound
    <3> QED BY <3>1
  <2>2. CASE ~link
    <3>1. /\ client' = [pc |-> "connecting", hold |-> None] /\ attempt' \in {0, attempt}
          /\ \E qs : Resolve(qs, "nobody")
          /\ UNCHANGED <<greeting, preInit>>
      BY <1>19, <2>2 DEF SendOutbound, LeaveServing, Goto
    <3> QED BY <1>19, <3>1, ResolveStays DEF SendOutbound
  <2> QED BY <2>1, <2>2
<1>20. CASE Receive
  <2>1. UNCHANGED <<attempt, backlog, greeting, preInit>>  BY <1>20 DEF Receive
  <2>2. CASE Head(down) = Agents
    <3>1. UNCHANGED client /\ Resolve({query}, "agents")  BY <1>20, <2>2 DEF Receive
    <3> QED BY <2>1, <3>1, ResolveStays
  <2>3. CASE Head(down) # Agents
    <3>1. client' = [pc |-> "put", hold |-> Head(down)] /\ UNCHANGED mcp
      BY <1>20, <2>3 DEF Receive
    <3>2. Head(down) \in Messages  BY <1>20, <2>3, FirstIsTyped DEF Receive
    <3> QED BY <1>20, <2>1, <3>1, <3>2 DEF Receive
  <2> QED BY <2>2, <2>3
<1>21. CASE PutMessage
  BY <1>21 DEF PutMessage, Goto
<1>22. CASE SeeEnd
  BY <1>22 DEF SeeEnd, LeaveServing, Goto, Abandon, Resolve
<1>23. CASE SendInitialize \/ ReadGreeting
  BY <1>23 DEF SendInitialize, ReadGreeting
<1>24. CASE ClaudeExits
  BY <1>24 DEF ClaudeExits
<1>25. CASE Route
  BY <1>25 DEF Route
<1>26. CASE Serve
  BY <1>26 DEF Serve
<1>27. CASE Break
  BY <1>27 DEF Break
<1>28. ASSUME NEW c \in Calls, NEW k \in Kinds, Call(c, k) PROVE PlaceInv'
  BY <1>28 DEF Call
<1>29. CASE UNCHANGED vars  BY <1>29 DEF vars
<1> QED
  BY <1>1, <1>2, <1>3, <1>4, <1>5, <1>6, <1>7, <1>8, <1>9, <1>10, <1>11, <1>12, <1>13, <1>14,
     <1>15, <1>16, <1>17, <1>18, <1>19, <1>20, <1>21, <1>22, <1>23, <1>24, <1>25, <1>26, <1>27,
     <1>28, <1>29
  DEF Next, McpStep, ClientStep, ClaudeStep

----------------------------------------------------------------------------
(* The messages.                                                           *)

\* A sequence of a set is one of a larger set.
LEMMA LargerSet ==
  ASSUME NEW S, NEW T, S \subseteq T, NEW s \in Seq(S) PROVE s \in Seq(T)
OBVIOUS

\* The line is made of sequences of numbers.
LEMMA MessageLineTyped ==
  ASSUME TypeOK, PlaceInv
  PROVE  /\ heard \in Seq(Nat) /\ preInit \in Seq(Nat) /\ toMcp \in Seq(Nat)
         /\ Holding \in Seq(Nat) /\ down \in Seq(Nat)
         /\ Numbers(5, MessageLine)
<1>1. Messages \subseteq Nat /\ Messages \cup {Agents} \subseteq Nat  BY DEF Messages, Agents
<1>2. /\ heard \in Seq(Nat) /\ preInit \in Seq(Nat) /\ toMcp \in Seq(Nat) /\ down \in Seq(Nat)
  BY <1>1, LargerSet DEF TypeOK
<1>3. Holding \in Seq(Nat)
  <2>1. At("put") => client.hold \in Nat  BY <1>1 DEF PlaceInv
  <2> QED BY <2>1 DEF Holding
<1> QED BY <1>2, <1>3 DEF MessageLine, Numbers

\* Nothing is put in, and the daemon routes nothing.
LEMMA MessagesLeave ==
  ASSUME MessagesInv, routed' = routed,
         LeftOf(heard, heard'), LeftOf(preInit, preInit'), LeftOf(toMcp, toMcp'),
         LeftOf(Holding, Holding'), LeftOf(down, down')
  PROVE  MessagesInv'
<1>1. \A a \in 1..5 : LeftOf(MessageLine[a], MessageLine'[a])  BY DEF MessageLine
<1>2. InLine(5, MessageLine') /\ Within(5, MessageLine', MessageLine)
  BY <1>1, LineShrinks DEF MessagesInv
<1> QED BY <1>2 DEF MessagesInv, Within, Before

\* A message moves on.
LEMMA MessagesMove ==
  ASSUME TypeOK, PlaceInv, MessagesInv, routed' = routed,
         NEW a \in 1..5, NEW b \in 1..5, MovesOn(5, MessageLine, MessageLine', a, b)
  PROVE  MessagesInv'
<1>1. InLine(5, MessageLine') /\ Within(5, MessageLine', MessageLine)
  BY LineMoves, MessageLineTyped DEF MessagesInv
<1> QED BY <1>1 DEF MessagesInv, Within, Before

\* A message comes to the end of the line.
LEMMA MessagesInLine ==
  ASSUME TypeOK, PlaceInv, MessagesInv, NEW x \in Nat, GrowsBy(5, MessageLine, MessageLine', x)
  PROVE  /\ InLine(5, MessageLine')
         /\ Contents(MessageLine'[5]) = Contents(MessageLine[5]) \cup ({x} \ {Agents})
<1>1. InLine(5, MessageLine) /\ Numbers(5, MessageLine)  BY MessageLineTyped DEF MessagesInv
<1>2. 5 \in Nat \ {0}  OBVIOUS
<1> QED BY <1>1, <1>2, LineGrows

\* The daemon sends the next message, or its list of agents.
LEMMA MessagesGrow ==
  ASSUME TypeOK, PlaceInv, MessagesInv, NEW x, x = Agents \/ x = routed + 1,
         routed' = IF x = Agents THEN routed ELSE routed + 1,
         down' = Append(down, x), UNCHANGED <<heard, preInit, toMcp, client>>
  PROVE  MessagesInv'
<1>1. x \in Nat /\ routed \in Nat /\ routed' \in Nat /\ routed + 1 # Agents  BY DEF TypeOK, Agents
<1>2. MessageLine' = <<heard, preInit, toMcp, Holding, Append(down, x)>>
  BY DEF MessageLine, Holding
<1>3. /\ InLine(5, MessageLine')
      /\ Contents(MessageLine'[5]) = Contents(MessageLine[5]) \cup ({x} \ {Agents})
  <2>1. GrowsBy(5, MessageLine, MessageLine', x)
    <3>1. \A a \in 1..5 : \A y \in Contents(MessageLine[a]) : x # Agents => y < x
      BY DEF MessagesInv, Before
    <3> QED BY <1>2, <3>1 DEF GrowsBy, MessageLine
  <2> QED BY <1>1, <2>1, MessagesInLine
<1>4. ASSUME NEW a \in 1..5, NEW y \in Contents(MessageLine'[a]) PROVE y < routed' + 1
  <2>1. \A z \in Contents(MessageLine[a]) : z \in Nat /\ z < routed + 1
    <3>1. MessageLine[a] \in Seq(Nat)  BY MessageLineTyped DEF Numbers
    <3> QED BY <3>1 DEF MessagesInv, Before, Contents
  <2>2. CASE a = 5  BY <1>1, <1>3, <1>4, <2>1, <2>2
  <2>3. CASE a # 5
    <3>1. MessageLine'[a] = MessageLine[a]  BY <1>2, <2>3 DEF MessageLine
    <3> QED BY <1>1, <1>4, <2>1, <3>1
  <2> QED BY <2>2, <2>3
<1> QED BY <1>3, <1>4 DEF MessagesInv, Before

\* What becomes of a message that is heard.
LEMMA HearEffect ==
  ASSUME NEW m, NEW before, NEW channel, Hear(m, before, channel)
  PROVE  \/ UNCHANGED heard /\ preInit' = before /\ toMcp' = channel
         \/ heard' = Append(heard, m) /\ preInit' = before /\ toMcp' = channel
         \/ UNCHANGED heard /\ preInit' = <<>> /\ toMcp' = <<>>
BY DEF Hear, McpEnds

\* Every step keeps the line of messages.
LEMMA MessagesStep ==
  ASSUME TypeOK, PlaceInv, MessagesInv, [Next]_vars PROVE MessagesInv'
<1>1. \A a \in 1..5 : InOrder(MessageLine[a])  BY DEF MessagesInv, InLine
<1>2. /\ LeftOf(heard, heard) /\ LeftOf(preInit, preInit) /\ LeftOf(toMcp, toMcp)
      /\ LeftOf(Holding, Holding) /\ LeftOf(down, down)
  BY <1>1 DEF MessageLine, LeftOf
<1>3. \A s : LeftOf(s, <<>>)  BY EmptySequence DEF LeftOf
<1>4. /\ preInit # <<>> => LeftOf(preInit, Tail(preInit))
      /\ toMcp # <<>> => LeftOf(toMcp, Tail(toMcp))
      /\ down # <<>> => LeftOf(down, Tail(down))
  BY <1>2, TakeFirst, MessageLineTyped DEF LeftOf
<1>5. CASE Initialize
  BY <1>2, <1>3, <1>4, <1>5, MessagesLeave DEF Initialize, McpEnds, Holding
<1>6. CASE ReplayOne
  <2>1. /\ preInit # <<>> /\ Hear(Head(preInit), Tail(preInit), toMcp)
        /\ UNCHANGED <<client, down, routed>>
    BY <1>6 DEF ReplayOne
  <2>2. Holding' = Holding  BY <2>1 DEF Holding
  <2>3. CASE heard' = Append(heard, Head(preInit)) /\ preInit' = Tail(preInit) /\ toMcp' = toMcp
    <3>1. MessageLine' = <<Append(heard, Head(preInit)), Tail(preInit), toMcp, Holding, down>>
      BY <2>1, <2>2, <2>3 DEF MessageLine
    <3> QED BY <2>1, <3>1, MessagesMove DEF MessageLine, MovesOn
  <2>4. CASE heard' = heard
    BY <1>2, <1>3, <1>4, <2>1, <2>2, <2>4, HearEffect, MessagesLeave
  <2> QED BY <2>1, <2>3, <2>4, HearEffect
<1>7. CASE ReplayDone
  BY <1>2, <1>3, <1>4, <1>7, MessagesLeave DEF ReplayDone, Holding
<1>8. CASE TakeMessage
  <2>1. toMcp # <<>> /\ In("select") /\ UNCHANGED <<client, down, routed>>
    BY <1>8 DEF TakeMessage
  <2>2. Holding' = Holding  BY <2>1 DEF Holding
  <2>3. CASE greeting = "read"
    <3>1. Hear(Head(toMcp), preInit, Tail(toMcp)) /\ preInit = <<>>
      BY <1>8, <2>3 DEF TakeMessage, PlaceInv
    <3>2. CASE heard' = Append(heard, Head(toMcp)) /\ preInit' = preInit /\ toMcp' = Tail(toMcp)
      <4>1. MessageLine' = <<Append(heard, Head(toMcp)), preInit, Tail(toMcp), Holding, down>>
        BY <2>1, <2>2, <3>2 DEF MessageLine
      <4> QED BY <2>1, <3>1, <4>1, MessagesMove DEF MessageLine, MovesOn
    <3>3. CASE heard' = heard
      BY <1>2, <1>3, <1>4, <2>1, <2>2, <3>1, <3>3, HearEffect, MessagesLeave
    <3> QED BY <3>1, <3>2, <3>3, HearEffect
  <2>4. CASE greeting # "read"
    <3>1. BufferEarly(Head(toMcp)) /\ toMcp' = Tail(toMcp) /\ UNCHANGED heard
      BY <1>8, <2>4 DEF TakeMessage
    <3>2. CASE preInit' = Append(preInit, Head(toMcp))
      <4>1. MessageLine' = <<heard, Append(preInit, Head(toMcp)), Tail(toMcp), Holding, down>>
        BY <2>1, <2>2, <3>1, <3>2 DEF MessageLine
      <4> QED BY <2>1, <4>1, MessagesMove DEF MessageLine, MovesOn
    <3>3. CASE preInit' = preInit
      BY <1>2, <1>4, <2>1, <2>2, <3>1, <3>3, MessagesLeave
    <3> QED BY <3>1, <3>2, <3>3 DEF BufferEarly
  <2> QED BY <2>3, <2>4
<1>9. CASE ReadPart
  BY <1>2, <1>3, <1>4, <1>9, MessagesLeave DEF ReadPart, Holding
<1>10. CASE ReadLine
  BY <1>2, <1>3, <1>4, <1>10, MessagesLeave DEF ReadLine, Respond, McpEnds, Holding
<1>11. CASE EndOfInput
  BY <1>2, <1>3, <1>4, <1>11, MessagesLeave DEF EndOfInput, McpEnds, Holding
<1>12. CASE SendItem
  BY <1>2, <1>3, <1>4, <1>12, MessagesLeave DEF SendItem, Respond, McpEnds, Holding
<1>13. CASE SendRefused
  BY <1>2, <1>3, <1>4, <1>13, MessagesLeave DEF SendRefused, Respond, McpEnds, Replies, Holding
<1>14. CASE QueryEnds
  BY <1>2, <1>3, <1>4, <1>14, MessagesLeave DEF QueryEnds, Respond, McpEnds, Holding
<1>15. CASE Connect
  BY <1>2, <1>3, <1>4, <1>15, MessagesLeave DEF Connect, Goto, Holding
<1>16. CASE ConnectFails
  BY <1>2, <1>3, <1>4, <1>16, MessagesLeave DEF ConnectFails, ClientEnds, Goto, Resolve,
     Replies, Holding
<1>17. CASE BufferDuringBackoff
  BY <1>2, <1>3, <1>4, <1>17, MessagesLeave DEF BufferDuringBackoff, Resolve, Replies, Holding
<1>18. CASE BackoffOver
  BY <1>2, <1>3, <1>4, <1>18, MessagesLeave DEF BackoffOver, Goto, Holding
<1>19. CASE ReplyChannelClosed
  BY <1>2, <1>3, <1>4, <1>19, MessagesLeave DEF ReplyChannelClosed, ClientEnds, Goto, Resolve,
     Replies, Holding
<1>20. CASE Greet
  BY <1>2, <1>3, <1>4, <1>20, MessagesLeave DEF Greet, Goto, Abandon, Holding
<1>21. CASE ReplayBacklog
  BY <1>2, <1>3, <1>4, <1>21, MessagesLeave DEF ReplayBacklog, Goto, Abandon, Resolve, Holding
<1>22. CASE ReplayedAll
  BY <1>2, <1>3, <1>4, <1>22, MessagesLeave DEF ReplayedAll, Goto, Holding
<1>23. CASE SendOutbound
  BY <1>2, <1>3, <1>4, <1>23, MessagesLeave DEF SendOutbound, LeaveServing, Goto, Abandon,
     Resolve, Holding
<1>24. CASE Receive
  <2>1. /\ At("serving") /\ down # <<>> /\ down' = Tail(down)
        /\ UNCHANGED <<heard, preInit, toMcp, routed>>
    BY <1>24 DEF Receive
  <2>2. CASE Head(down) = Agents
    <3>1. Holding' = Holding  BY <1>24, <2>2 DEF Receive, Holding
    <3> QED BY <1>2, <1>4, <2>1, <3>1, MessagesLeave
  <2>3. CASE Head(down) # Agents
    <3>1. Holding = <<>> /\ Holding' = <<Head(down)>>  BY <1>24, <2>3 DEF Receive, Holding
    <3>2. MessageLine' = <<heard, preInit, toMcp, Append(<<>>, Head(down)), Tail(down)>>
      BY <2>1, <3>1 DEF MessageLine
    <3> QED BY <2>1, <3>1, <3>2, MessagesMove DEF MessageLine, MovesOn
  <2> QED BY <2>2, <2>3
<1>25. CASE PutMessage
  <2>1. /\ Holding = <<client.hold>> /\ Holding' = <<>>
        /\ UNCHANGED <<heard, preInit, down, routed>>
    BY <1>25 DEF PutMessage, Goto, Holding
  <2>2. CASE toMcp' = toMcp  BY <1>2, <1>3, <2>1, <2>2, MessagesLeave
  <2>3. CASE toMcp' = Append(toMcp, client.hold)
    <3>1. MessageLine' = <<heard, preInit, Append(toMcp, Head(Holding)), Tail(Holding), down>>
      BY <2>1, <2>3 DEF MessageLine
    <3> QED BY <2>1, <3>1, MessagesMove DEF MessageLine, MovesOn
  <2> QED BY <1>25, <2>2, <2>3 DEF PutMessage
<1>26. CASE SeeEnd
  BY <1>2, <1>3, <1>4, <1>26, MessagesLeave DEF SeeEnd, LeaveServing, Goto, Abandon, Resolve,
     Holding
<1>27. CASE SendInitialize \/ ReadGreeting
  BY <1>2, <1>3, <1>4, <1>27, MessagesLeave DEF SendInitialize, ReadGreeting, Holding
<1>28. CASE ClaudeExits
  BY <1>2, <1>3, <1>4, <1>28, MessagesLeave DEF ClaudeExits, Holding
<1>29. CASE Route
  <2>1. /\ routed' = routed + 1 /\ down' = Append(down, routed + 1)
        /\ UNCHANGED <<heard, preInit, toMcp, client>>
    BY <1>29 DEF Route
  <2>2. routed + 1 # Agents  BY DEF TypeOK, Agents
  <2> QED BY <2>1, <2>2, MessagesGrow
<1>30. CASE Serve
  <2>1. /\ UNCHANGED <<heard, preInit, toMcp, client, routed>>
        /\ down' = Append(down, Agents) \/ down' = down
    BY <1>30 DEF Serve
  <2>2. CASE down' = Append(down, Agents)  BY <2>1, <2>2, MessagesGrow
  <2>3. CASE down' = down
    <3>1. Holding' = Holding  BY <2>1 DEF Holding
    <3> QED BY <1>2, <2>1, <2>3, <3>1, MessagesLeave
  <2> QED BY <2>1, <2>2, <2>3
<1>31. CASE Break
  <2>1. /\ UNCHANGED <<heard, preInit, toMcp, client, routed>>
        /\ \E n \in 0..Len(down) : down' = SubSeq(down, 1, n)
    BY <1>31 DEF Break
  <2>2. Holding' = Holding  BY <2>1 DEF Holding
  <2>3. LeftOf(down, down')  BY <1>2, <2>1, KeepPrefix, MessageLineTyped DEF LeftOf
  <2> QED BY <1>2, <2>1, <2>2, <2>3, MessagesLeave
<1>32. ASSUME NEW c \in Calls, NEW k \in Kinds, Call(c, k) PROVE MessagesInv'
  BY <1>2, <1>3, <1>4, <1>32, MessagesLeave DEF Call, Holding
<1>33. CASE UNCHANGED vars
  BY <1>2, <1>3, <1>4, <1>33, MessagesLeave DEF vars, Holding
<1> QED
  BY <1>5, <1>6, <1>7, <1>8, <1>9, <1>10, <1>11, <1>12, <1>13, <1>14, <1>15, <1>16, <1>17,
     <1>18, <1>19, <1>20, <1>21, <1>22, <1>23, <1>24, <1>25, <1>26, <1>27, <1>28, <1>29, <1>30,
     <1>31, <1>32, <1>33
  DEF Next, McpStep, ClientStep, ClaudeStep

----------------------------------------------------------------------------
(* The calls.                                                              *)

\* The line is made of sequences of numbers.
LEMMA CallLineTyped ==
  ASSUME TypeOK, PlaceInv
  PROVE  /\ received \in Seq(Nat) /\ up \in Seq(Nat) /\ backlog \in Seq(Nat)
         /\ toClient \in Seq(Nat) /\ Sending \in Seq(Nat) /\ Begun \in Seq(Nat)
         /\ stdin \in Seq(Nat)
         /\ Numbers(7, CallLine) /\ \A a \in 1..7 : CallLine[a] \in Seq(Calls)
<1>1. Calls \subseteq Nat  BY DEF Calls
<1>2. /\ received \in Seq(Nat) /\ up \in Seq(Nat) /\ backlog \in Seq(Nat)
      /\ toClient \in Seq(Nat) /\ stdin \in Seq(Nat)
  BY <1>1, LargerSet DEF TypeOK
<1>3. Sending \in Seq(Calls)  BY DEF PlaceInv, Sending
<1>4. Begun \in Seq(Calls)  BY DEF TypeOK, Begun
<1>5. Sending \in Seq(Nat) /\ Begun \in Seq(Nat)  BY <1>1, <1>3, <1>4, LargerSet
<1>6. \A a \in 1..7 : CallLine[a] \in Seq(Calls)  BY <1>3, <1>4 DEF TypeOK, CallLine
<1>7. Numbers(7, CallLine)  BY <1>1, <1>6, LargerSet DEF Numbers
<1> QED BY <1>2, <1>5, <1>6, <1>7

\* Claude makes no call, and nothing is put in.
LEMMA CallsLeave ==
  ASSUME CallsInv, kind' = kind,
         LeftOf(received, received'), LeftOf(up, up'), LeftOf(backlog, backlog'),
         LeftOf(toClient, toClient'), LeftOf(Sending, Sending'), LeftOf(Begun, Begun'),
         LeftOf(stdin, stdin')
  PROVE  CallsInv'
<1>1. \A a \in 1..7 : LeftOf(CallLine[a], CallLine'[a])  BY DEF CallLine
<1>2. InLine(7, CallLine') /\ Within(7, CallLine', CallLine)
  BY <1>1, LineShrinks DEF CallsInv
<1> QED BY <1>2 DEF CallsInv, Within, Made

\* A call moves on.
LEMMA CallsMove ==
  ASSUME TypeOK, PlaceInv, CallsInv, kind' = kind,
         NEW a \in 1..7, NEW b \in 1..7, MovesOn(7, CallLine, CallLine', a, b)
  PROVE  CallsInv'
<1>1. InLine(7, CallLine') /\ Within(7, CallLine', CallLine)
  BY LineMoves, CallLineTyped DEF CallsInv
<1> QED BY <1>1 DEF CallsInv, Within, Made

\* Claude makes the next call.
LEMMA CallsGrow ==
  ASSUME TypeOK, PlaceInv, CallsInv, NEW c \in Calls, NEW k \in Kinds, Call(c, k)
  PROVE  CallsInv'
<1>1. /\ kind[c] = None /\ (\A b \in 1..(c - 1) : Made(b)) /\ c \in Nat /\ c # Agents
      /\ kind' = [kind EXCEPT ![c] = k] /\ stdin' = Append(stdin, c)
      /\ UNCHANGED <<received, up, backlog, toClient, mcp, half>>
  BY DEF Call, Made, Calls, Agents
<1>2. \A b \in Calls : Made(b)' <=> (Made(b) \/ b = c)
  <2>1. k # None  BY DEF Kinds
  <2> QED BY <1>1, <2>1 DEF TypeOK, Made
<1>3. /\ CallLine[7] = stdin /\ CallLine'[7] = Append(stdin, c)
      /\ \A a \in 1..7 : a # 7 => CallLine'[a] = CallLine[a]
  BY <1>1 DEF CallLine, Sending, Begun
<1>4. ASSUME NEW a \in 1..7, NEW x \in Contents(CallLine[a]) PROVE x < c /\ Made(x) /\ x \in Calls
  <2>1. x \in Calls
    <3>1. CallLine[a] \in Seq(Calls)  BY CallLineTyped
    <3> QED BY <3>1 DEF Contents
  <2>2. Made(x)  BY DEF CallsInv
  <2>3. \A b \in 1..(x - 1) : Made(b)  BY <2>1, <2>2 DEF CallsInv
  <2> QED BY <1>1, <2>1, <2>2, <2>3 DEF Calls, Made
<1>5. /\ InLine(7, CallLine')
      /\ Contents(CallLine'[7]) = Contents(CallLine[7]) \cup ({c} \ {Agents})
  <2>1. GrowsBy(7, CallLine, CallLine', c)  BY <1>3, <1>4 DEF GrowsBy
  <2>2. InLine(7, CallLine) /\ Numbers(7, CallLine)  BY CallLineTyped DEF CallsInv
  <2>3. 7 \in Nat \ {0} /\ c \in Nat  BY <1>1
  <2> QED BY <2>1, <2>2, <2>3, LineGrows
<1>6. ASSUME NEW a \in 1..7, NEW x \in Contents(CallLine'[a]) PROVE Made(x)'
  <2>1. CASE a = 7  BY <1>2, <1>4, <1>5, <1>6, <2>1
  <2>2. CASE a # 7  BY <1>2, <1>3, <1>4, <1>6, <2>2
  <2> QED BY <2>1, <2>2
<1>7. ASSUME NEW x \in Calls, Made(x)', NEW b \in 1..(x - 1) PROVE Made(b)'
  <2>1. b \in Calls  BY DEF Calls
  <2>2. Made(b)  BY <1>1, <1>2, <1>7 DEF CallsInv
  <2> QED BY <1>2, <2>1, <2>2
<1> QED BY <1>5, <1>6, <1>7 DEF CallsInv

\* Every step keeps the line of calls.
LEMMA CallsStep ==
  ASSUME TypeOK, PlaceInv, CallsInv, [Next]_vars PROVE CallsInv'
<1>1. \A a \in 1..7 : InOrder(CallLine[a])  BY DEF CallsInv, InLine
<1>2. /\ LeftOf(received, received) /\ LeftOf(up, up) /\ LeftOf(backlog, backlog)
      /\ LeftOf(toClient, toClient) /\ LeftOf(Sending, Sending) /\ LeftOf(Begun, Begun)
      /\ LeftOf(stdin, stdin)
  BY <1>1 DEF CallLine, LeftOf
<1>3. \A s : LeftOf(s, <<>>)  BY EmptySequence DEF LeftOf
<1>4. /\ up # <<>> => LeftOf(up, Tail(up))
      /\ backlog # <<>> => LeftOf(backlog, Tail(backlog))
      /\ toClient # <<>> => LeftOf(toClient, Tail(toClient))
  BY <1>2, TakeFirst, CallLineTyped DEF LeftOf
<1>5. CASE Initialize
  BY <1>2, <1>3, <1>4, <1>5, CallsLeave DEF Initialize, McpEnds, Sending, Begun
<1>6. CASE ReplayOne
  BY <1>2, <1>3, <1>4, <1>6, CallsLeave DEF ReplayOne, Hear, McpEnds, Sending, Begun
<1>7. CASE ReplayDone
  BY <1>2, <1>3, <1>4, <1>7, CallsLeave DEF ReplayDone, Sending, Begun
<1>8. CASE TakeMessage
  BY <1>2, <1>3, <1>4, <1>8, CallsLeave DEF TakeMessage, Hear, McpEnds, BufferEarly, Sending,
     Begun
<1>9. CASE ReadPart
  <2>1. /\ stdin # <<>> /\ Begun = <<>> /\ Begun' = <<Head(stdin)>> /\ stdin' = Tail(stdin)
        /\ UNCHANGED <<kind, received, up, backlog, toClient, mcp>>
    <3>1. stdin # <<>> => Head(stdin) # None  BY FirstIsTyped DEF TypeOK
    <3> QED BY <1>9, <3>1 DEF ReadPart, Begun
  <2>2. CallLine' = <<received, up, backlog, toClient, Sending, Append(<<>>, Head(stdin)),
                      Tail(stdin)>>
    BY <2>1 DEF CallLine, Sending
  <2> QED BY <2>1, <2>2, CallsMove DEF CallLine, MovesOn
<1>10. CASE ReadLine
  <2>1. /\ half # None /\ half' = None /\ Begun = <<half>> /\ Begun' = <<>> /\ Sending = <<>>
        /\ UNCHANGED <<kind, received, up, backlog, toClient, stdin>>
    BY <1>10 DEF ReadLine, Begun, Sending
  <2>2. CASE kind[half] = "refused"
    <3>1. mcp' = Select \/ mcp' = Over
      BY <1>10, <2>2 DEF ReadLine, Respond, McpEnds
    <3>2. Sending' = <<>>  BY <3>1 DEF Sending
    <3> QED BY <1>2, <1>3, <2>1, <3>2, CallsLeave
  <2>3. CASE kind[half] # "refused"
    <3>1. mcp' = [pc |-> "send", call |-> half, got |-> None]  BY <1>10, <2>3 DEF ReadLine
    <3>2. CallLine' = <<received, up, backlog, toClient, Append(<<>>, Head(Begun)),
                        Tail(Begun), stdin>>
      BY <2>1, <3>1 DEF CallLine, Sending
    <3> QED BY <2>1, <3>2, CallsMove DEF CallLine, MovesOn
  <2> QED BY <2>2, <2>3
<1>11. CASE EndOfInput
  BY <1>2, <1>3, <1>4, <1>11, CallsLeave DEF EndOfInput, McpEnds, Sending, Begun
<1>12. CASE SendItem
  <2>1. /\ Sending = <<mcp.call>> /\ toClient' = Append(toClient, mcp.call)
        /\ UNCHANGED <<kind, received, up, backlog, half, stdin>>
    BY <1>12 DEF SendItem, Sending
  <2>2. Sending' = <<>>
    <3>1. CASE kind[mcp.call] = "query"  BY <1>12, <3>1 DEF SendItem, Sending, TypeOK
    <3>2. CASE kind[mcp.call] # "query"
      <4>1. mcp' = Select \/ mcp' = Over  BY <1>12, <3>2 DEF SendItem, Respond, McpEnds
      <4> QED BY <4>1 DEF Sending
    <3> QED BY <3>1, <3>2
  <2>3. CallLine' = <<received, up, backlog, Append(toClient, Head(Sending)), Tail(Sending),
                      Begun, stdin>>
    BY <2>1, <2>2 DEF CallLine, Begun
  <2> QED BY <2>1, <2>3, CallsMove DEF CallLine, MovesOn
<1>13. CASE SendRefused
  BY <1>2, <1>3, <1>4, <1>13, CallsLeave DEF SendRefused, Respond, McpEnds, Sending, Begun
<1>14. CASE QueryEnds
  BY <1>2, <1>3, <1>4, <1>14, CallsLeave DEF QueryEnds, Respond, McpEnds, Sending, Begun
<1>15. CASE Connect
  BY <1>2, <1>3, <1>4, <1>15, CallsLeave DEF Connect, Goto, Sending, Begun
<1>16. CASE ConnectFails
  BY <1>2, <1>3, <1>4, <1>16, CallsLeave, ResolveStays DEF ConnectFails, ClientEnds, Goto,
     Sending, Begun
<1>17. CASE BufferDuringBackoff
  <2>1. /\ toClient # <<>> /\ toClient' = Tail(toClient)
        /\ UNCHANGED <<kind, received, up, half, stdin>>
    BY <1>17 DEF BufferDuringBackoff
  <2>2. Sending' = Sending /\ Begun' = Begun
    BY <1>17, ResolveStays DEF BufferDuringBackoff, Sending, Begun
  <2>3. CASE backlog' = Append(backlog, Head(toClient))
    <3>1. CallLine' = <<received, up, Append(backlog, Head(toClient)), Tail(toClient),
                        Sending, Begun, stdin>>
      BY <2>1, <2>2, <2>3 DEF CallLine
    <3> QED BY <2>1, <3>1, CallsMove DEF CallLine, MovesOn
  <2>4. CASE backlog' = backlog  BY <1>2, <1>4, <2>1, <2>2, <2>4, CallsLeave
  <2> QED BY <1>17, <2>3, <2>4 DEF BufferDuringBackoff
<1>18. CASE BackoffOver
  BY <1>2, <1>3, <1>4, <1>18, CallsLeave DEF BackoffOver, Goto, Sending, Begun
<1>19. CASE ReplyChannelClosed
  BY <1>2, <1>3, <1>4, <1>19, CallsLeave, ResolveStays DEF ReplyChannelClosed, ClientEnds,
     Goto, Sending, Begun
<1>20. CASE Greet
  BY <1>2, <1>3, <1>4, <1>20, CallsLeave DEF Greet, Goto, Abandon, Sending, Begun
<1>21. CASE ReplayBacklog
  <2>1. backlog # <<>> /\ UNCHANGED <<kind, received, toClient, half, stdin>>
    BY <1>21 DEF ReplayBacklog
  <2>2. Sending' = Sending /\ Begun' = Begun
    BY <1>21, ResolveStays DEF ReplayBacklog, Sending, Begun
  <2>3. CASE up' = Append(up, Head(backlog)) /\ backlog' = Tail(backlog)
    <3>1. CallLine' = <<received, Append(up, Head(backlog)), Tail(backlog), toClient,
                        Sending, Begun, stdin>>
      BY <2>1, <2>2, <2>3 DEF CallLine
    <3> QED BY <2>1, <3>1, CallsMove DEF CallLine, MovesOn
  <2>4. CASE up' = up /\ backlog' \in {backlog, Tail(backlog)}
    BY <1>2, <1>4, <2>1, <2>2, <2>4, CallsLeave
  <2> QED BY <1>21, <2>3, <2>4 DEF ReplayBacklog, Abandon
<1>22. CASE ReplayedAll
  BY <1>2, <1>3, <1>4, <1>22, CallsLeave DEF ReplayedAll, Goto, Sending, Begun
<1>23. CASE SendOutbound
  <2>1. /\ toClient # <<>> /\ toClient' = Tail(toClient) /\ backlog = <<>>
        /\ UNCHANGED <<kind, received, half, stdin>>
    BY <1>23 DEF SendOutbound, PlaceInv
  <2>2. Sending' = Sending /\ Begun' = Begun
    BY <1>23, ResolveStays DEF SendOutbound, Sending, Begun
  <2>3. CASE up' = Append(up, Head(toClient)) /\ backlog' = backlog
    <3>1. CallLine' = <<received, Append(up, Head(toClient)), backlog, Tail(toClient),
                        Sending, Begun, stdin>>
      BY <2>1, <2>2, <2>3 DEF CallLine
    <3> QED BY <2>1, <3>1, CallsMove DEF CallLine, MovesOn
  <2>4. CASE up' = up /\ backlog' = Append(backlog, Head(toClient))
    <3>1. CallLine' = <<received, up, Append(backlog, Head(toClient)), Tail(toClient),
                        Sending, Begun, stdin>>
      BY <2>1, <2>2, <2>4 DEF CallLine
    <3> QED BY <2>1, <3>1, CallsMove DEF CallLine, MovesOn
  <2>5. CASE up' = up /\ backlog' = backlog
    BY <1>2, <1>4, <2>1, <2>2, <2>5, CallsLeave
  <2> QED BY <1>23, <2>3, <2>4, <2>5 DEF SendOutbound, LeaveServing, Abandon
<1>24. CASE Receive
  BY <1>2, <1>3, <1>4, <1>24, CallsLeave, ResolveStays DEF Receive, Sending, Begun
<1>25. CASE PutMessage
  BY <1>2, <1>3, <1>4, <1>25, CallsLeave DEF PutMessage, Goto, Sending, Begun
<1>26. CASE SeeEnd
  BY <1>2, <1>3, <1>4, <1>26, CallsLeave, ResolveStays DEF SeeEnd, LeaveServing, Goto, Abandon,
     Sending, Begun
<1>27. CASE SendInitialize \/ ReadGreeting
  BY <1>2, <1>3, <1>4, <1>27, CallsLeave DEF SendInitialize, ReadGreeting, Sending, Begun
<1>28. CASE ClaudeExits
  BY <1>2, <1>3, <1>4, <1>28, CallsLeave DEF ClaudeExits, Sending, Begun
<1>29. CASE Route
  BY <1>2, <1>3, <1>4, <1>29, CallsLeave DEF Route, Sending, Begun
<1>30. CASE Serve
  <2>1. /\ up # <<>> /\ up' = Tail(up) /\ UNCHANGED <<kind, backlog, toClient, mcp, half, stdin>>
        /\ received' \in {received, Append(received, Head(up))}
    BY <1>30 DEF Serve
  <2>2. Sending' = Sending /\ Begun' = Begun  BY <2>1 DEF Sending, Begun
  <2>3. CASE received' = Append(received, Head(up))
    <3>1. CallLine' = <<Append(received, Head(up)), Tail(up), backlog, toClient, Sending,
                        Begun, stdin>>
      BY <2>1, <2>2, <2>3 DEF CallLine
    <3> QED BY <2>1, <3>1, CallsMove DEF CallLine, MovesOn
  <2>4. CASE received' = received  BY <1>2, <1>4, <2>1, <2>2, <2>4, CallsLeave
  <2> QED BY <2>1, <2>3, <2>4
<1>31. CASE Break
  BY <1>2, <1>3, <1>4, <1>31, CallsLeave DEF Break, Sending, Begun
<1>32. ASSUME NEW c \in Calls, NEW k \in Kinds, Call(c, k) PROVE CallsInv'  BY <1>32, CallsGrow
<1>33. CASE UNCHANGED vars
  BY <1>2, <1>3, <1>4, <1>33, CallsLeave DEF vars, Sending, Begun
<1> QED
  BY <1>5, <1>6, <1>7, <1>8, <1>9, <1>10, <1>11, <1>12, <1>13, <1>14, <1>15, <1>16, <1>17,
     <1>18, <1>19, <1>20, <1>21, <1>22, <1>23, <1>24, <1>25, <1>26, <1>27, <1>28, <1>29, <1>30,
     <1>31, <1>32, <1>33
  DEF Next, McpStep, ClientStep, ClaudeStep

----------------------------------------------------------------------------
(* The theorems.                                                           *)

\* The types in their groups are the types.
LEMMA GroupsAreTypes == (Typed => TypeOK) /\ (Typed' => TypeOK')
BY DEF Typed, TypeOK, ClaudeTypes, LoopTypes, ToldTypes, ClientTypes, QueueTypes, SocketTypes

\* It holds at first.
LEMMA Begins == Init => IInv
<1> SUFFICES ASSUME Init PROVE IInv  OBVIOUS
<1>1. TypeOK
  <2>1. ClaudeTypes  BY DEF Init, ClaudeTypes
  <2>2. LoopTypes  BY DEF Init, LoopTypes
  <2>3. ToldTypes  BY DEF Init, ToldTypes
  <2>4. ClientTypes  BY DEF Init, ClientTypes
  <2>5. QueueTypes  BY DEF Init, QueueTypes
  <2>6. SocketTypes
    <3>1. link \in BOOLEAN  BY DEF Init
    <3>2. conns \in 0..MaxConns /\ routed \in 0..MaxMessages  BY DEF Init
    <3>3. up \in Seq(Calls) /\ down \in Seq(Messages \cup {Agents}) /\ received \in Seq(Calls)
      BY DEF Init
    <3> QED BY <3>1, <3>2, <3>3 DEF SocketTypes
  <2> QED BY <2>1, <2>2, <2>3, <2>4, <2>5, <2>6, GroupsAreTypes DEF Typed
<1>2. PlaceInv  BY DEF Init, PlaceInv
<1>3. MessagesInv
  <2>1. \A a \in 1..5 : MessageLine[a] = <<>>  BY DEF Init, MessageLine, Holding
  <2> QED BY <2>1, EmptySequence DEF MessagesInv, InLine, Before
<1>4. CallsInv
  <2>1. \A a \in 1..7 : CallLine[a] = <<>>  BY DEF Init, CallLine, Sending, Begun
  <2>2. \A c \in Calls : ~Made(c)  BY DEF Init, Made
  <2> QED BY <2>1, <2>2, EmptySequence DEF CallsInv, InLine, Before
<1> QED BY <1>1, <1>2, <1>3, <1>4 DEF IInv

\* Every step keeps it.
LEMMA Goes == IInv /\ [Next]_vars => IInv'
BY TypesStep, GroupsAreTypes, PlacesStep, MessagesStep, CallsStep DEF IInv

\* The invariant that the theorems below rest on holds whatever the two loops, Claude, the
\* daemon and the network do.
THEOREM Inductive == Spec => []IInv
BY Begins, Goes, PTL DEF Spec

\* The state of the bridge keeps its types, and no channel, buffer or backlog outgrows its
\* capacity.
THEOREM TypeCorrect == Spec => []TypeOK
<1>1. IInv => TypeOK  BY DEF IInv
<1> QED BY Inductive, <1>1, PTL

\* Claude hears the messages in the order in which the daemon routed them.
THEOREM MessagesComeInOrder == Spec => []HeardInOrder
<1>1. IInv => HeardInOrder
  <2> SUFFICES ASSUME IInv PROVE HeardInOrder  OBVIOUS
  <2>1. InOrder(heard)  BY DEF IInv, MessagesInv, InLine, MessageLine
  <2>2. \A i \in DOMAIN heard : heard[i] # Agents  BY DEF IInv, TypeOK, Messages, Agents
  <2> QED BY <2>1, <2>2 DEF HeardInOrder, Ascending, InOrder
<1> QED BY Inductive, <1>1, PTL

\* The daemon gets the replies in the order in which Claude made them.
THEOREM RepliesComeInOrder == Spec => []RepliesInOrder
<1>1. IInv => RepliesInOrder
  <2> SUFFICES ASSUME IInv PROVE RepliesInOrder  OBVIOUS
  <2>1. InOrder(received)  BY DEF IInv, CallsInv, InLine, CallLine
  <2>2. \A i \in DOMAIN received : received[i] # Agents  BY DEF IInv, TypeOK, Calls, Agents
  <2> QED BY <2>1, <2>2 DEF RepliesInOrder, Ascending, InOrder
<1> QED BY Inductive, <1>1, PTL

----------------------------------------------------------------------------
(* The handovers.  A message and a reply is in one place at a time, and    *)
(* leaves the way once.                                                    *)

\* Between two connections nothing is on the way from the daemon, and nothing goes to it
\* while the socket is down.
LinkInv ==
  /\ At("connecting") \/ At("backoff") \/ At("over") => ~link /\ down = <<>>
  /\ ~link => up = <<>>

\* The messages on their way to Claude.
OnTheWay == Contents(preInit) \cup Contents(toMcp) \cup Contents(Holding) \cup Contents(down)

\* A message that was routed is in one place: on its way, heard or given up.
MessagesPlaced ==
  /\ 1..routed = Contents(heard) \cup OnTheWay \cup dropped
  /\ dropped \cap Contents(heard) = {} /\ dropped \cap OnTheWay = {}

\* The calls on their way to the daemon, and those that are not read yet.
Moving  == Contents(Sending) \cup Contents(toClient) \cup Contents(backlog) \cup Contents(up)
Waiting == Contents(Begun) \cup Contents(stdin)

\* A reply that was given up is nowhere on the line, and cannot come to it again.
RepliesPlaced ==
  /\ \A c \in lost : Made(c)
  /\ lost \cap (Contents(received) \cup Moving \cup Waiting) = {}

\* What a connection leaves behind when the client is done with it.
LEMMA LinkStep ==
  ASSUME TypeOK, LinkInv, Next PROVE LinkInv'
<1> USE DEF LinkInv, Goto
<1>1. CASE McpStep
  <2>1. UNCHANGED <<client, link, down, up>>
    BY <1>1 DEF McpStep, ReadGreeting, Initialize, ReplayOne, ReplayDone, TakeMessage, ReadPart,
                ReadLine, EndOfInput, SendItem, SendRefused, QueryEnds
  <2> QED BY <2>1
<1>2. CASE ClaudeStep
  <2>1. UNCHANGED <<client, link, down, up>>
    BY <1>2 DEF ClaudeStep, SendInitialize, ClaudeExits, Call
  <2> QED BY <2>1
<1>3. CASE Connect  BY <1>3 DEF Connect
<1>4. CASE ConnectFails \/ BufferDuringBackoff \/ BackoffOver \/ ReplyChannelClosed
  BY <1>4 DEF ConnectFails, BufferDuringBackoff, BackoffOver, ReplyChannelClosed, ClientEnds
<1>5. CASE Greet \/ ReplayedAll \/ Receive \/ PutMessage \/ SeeEnd
  BY <1>5 DEF Greet, ReplayedAll, Receive, PutMessage, SeeEnd, LeaveServing, Abandon
<1>6. CASE ReplayBacklog  BY <1>6 DEF ReplayBacklog, Abandon
<1>7. CASE SendOutbound  BY <1>7 DEF SendOutbound, LeaveServing, Abandon
<1>8. CASE Route \/ Serve \/ Break  BY <1>8 DEF Route, Serve, Break
<1> QED BY <1>1, <1>2, <1>3, <1>4, <1>5, <1>6, <1>7, <1>8 DEF Next, ClientStep

\* The places of messages, in which Agents does not count.
MessagesAreWhere ==
  /\ WhereMessages.held = OnTheWay /\ WhereMessages.delivered = Contents(heard)
  /\ WhereMessages.lost = dropped /\ DOMAIN WhereMessages = {"held", "delivered", "lost"}

\* What is in a sequence, as a set.
LEMMA SetIsContents ==
  ASSUME NEW s PROVE ToSet(s) \ {0} = Contents(s)
BY DEF ToSet, Contents

\* The places of messages in terms of the line.
LEMMA MessagesWhere == TypeOK /\ PlaceInv => MessagesAreWhere
<1> SUFFICES ASSUME TypeOK, PlaceInv PROVE MessagesAreWhere
  OBVIOUS
<1>1. 0 \notin ToSet(heard) /\ 0 \notin ToSet(toMcp) /\ 0 \notin ToSet(preInit)
  BY ElementsAreTyped DEF TypeOK, Messages
<1>2. /\ ToSet(heard) = Contents(heard) /\ ToSet(toMcp) = Contents(toMcp)
      /\ ToSet(preInit) = Contents(preInit) /\ ToSet(down) \ {0} = Contents(down)
  BY <1>1, SetIsContents
<1>3. {client.hold} \ {None} = Contents(Holding)
  <2>1. CASE At("put")
    <3>1. client.hold # None /\ client.hold # 0  BY <2>1 DEF PlaceInv, Messages
    <3>2. Holding = <<client.hold>>  BY <2>1 DEF Holding
    <3>3. Contents(<<client.hold>>) = {client.hold}  BY <3>1 DEF Contents
    <3> QED BY <3>1, <3>2, <3>3
  <2>2. CASE ~At("put")
    <3>1. client.hold = None /\ Holding = <<>>  BY <2>2 DEF PlaceInv, Holding
    <3> QED BY <3>1, EmptySequence
  <2> QED BY <2>1, <2>2
<1> QED BY <1>2, <1>3 DEF MessagesAreWhere, WhereMessages, OnTheWay

\* The same after a step.
LEMMA MessagesWhereNext == TypeOK' /\ PlaceInv' => MessagesAreWhere'
BY MessagesWhere, PTL

\* What a step does to the messages that have been routed.
MessagesHanded ==
  /\ Contents(heard) \subseteq Contents(heard)' /\ dropped \subseteq dropped'
  /\ Contents(heard)' \cup dropped' \subseteq Contents(heard) \cup dropped \cup OnTheWay

\* Different parts of the line have nothing in common.
LEMMA MessagesApart ==
  TypeOK /\ PlaceInv /\ MessagesInv =>
    /\ Contents(heard) \cap OnTheWay = {}
    /\ Contents(preInit) \cap Contents(toMcp) = {}
    /\ (Contents(preInit) \cup Contents(toMcp)) \cap (Contents(Holding) \cup Contents(down)) = {}
    /\ Contents(Holding) \cap Contents(down) = {}
    /\ Contents(heard) \subseteq Nat /\ OnTheWay \subseteq Nat
<1> SUFFICES ASSUME TypeOK, PlaceInv, MessagesInv
             PROVE  /\ Contents(heard) \cap OnTheWay = {}
                    /\ Contents(preInit) \cap Contents(toMcp) = {}
                    /\ (Contents(preInit) \cup Contents(toMcp))
                         \cap (Contents(Holding) \cup Contents(down)) = {}
                    /\ Contents(Holding) \cap Contents(down) = {}
                    /\ Contents(heard) \subseteq Nat /\ OnTheWay \subseteq Nat
  OBVIOUS
<1>1. \A s \in Seq(Nat) : Contents(s) \subseteq Nat  BY DEF Contents
<1>2. /\ Contents(heard) \subseteq Nat /\ Contents(preInit) \subseteq Nat
      /\ Contents(toMcp) \subseteq Nat /\ Contents(Holding) \subseteq Nat
      /\ Contents(down) \subseteq Nat
  BY <1>1, MessageLineTyped
<1>3. \A a, b \in 1..5 : a < b => Before(Contents(MessageLine[a]), Contents(MessageLine[b]))
  BY DEF MessagesInv, InLine
<1>4. /\ MessageLine[1] = heard /\ MessageLine[2] = preInit /\ MessageLine[3] = toMcp
      /\ MessageLine[4] = Holding /\ MessageLine[5] = down
  BY DEF MessageLine
<1> HIDE DEF MessageLine
<1>5. /\ Before(Contents(heard), Contents(preInit)) /\ Before(Contents(heard), Contents(toMcp))
      /\ Before(Contents(heard), Contents(Holding)) /\ Before(Contents(heard), Contents(down))
      /\ Before(Contents(preInit), Contents(toMcp))
      /\ Before(Contents(preInit), Contents(Holding))
      /\ Before(Contents(preInit), Contents(down)) /\ Before(Contents(toMcp), Contents(Holding))
      /\ Before(Contents(toMcp), Contents(down)) /\ Before(Contents(Holding), Contents(down))
  BY <1>3, <1>4
<1>6. \A X \in SUBSET Nat : \A Y \in SUBSET Nat : Before(X, Y) => X \cap Y = {}
  BY DEF Before
<1> QED BY <1>2, <1>5, <1>6 DEF OnTheWay

\* What Claude has heard is not on the way again.
HeardApart == Contents(heard) \cap OnTheWay = {}

\* The messages before and after a step.
LEMMA HeardIsApart == TypeOK /\ PlaceInv /\ MessagesInv => HeardApart
BY MessagesApart DEF HeardApart

\* The same after a step.
LEMMA HeardIsApartNext == TypeOK' /\ PlaceInv' /\ MessagesInv' => HeardApart'
BY HeardIsApart, PTL

\* What leaves the way is heard or given up.
LEMMA MessagesMoveOn ==
  ASSUME TypeOK, PlaceInv, MessagesInv, MessagesPlaced, TypeOK', PlaceInv', MessagesInv',
         NEW H, NEW D,
         Contents(heard)' = Contents(heard) \cup H, dropped' = dropped \cup D,
         OnTheWay = OnTheWay' \cup H \cup D, D \cap OnTheWay' = {}, D \cap H = {},
         routed' = routed
  PROVE  MessagesPlaced' /\ MessagesHanded
<1> DEFINE h == Contents(heard)
           hh == Contents(heard')
           w == OnTheWay
           ww == OnTheWay'
<1>1. h \cap w = {} /\ hh \cap ww = {}  BY HeardIsApart, HeardIsApartNext DEF HeardApart
<1>2. /\ hh = h \cup H /\ w = ww \cup H \cup D /\ D \cap ww = {}
      /\ dropped' = dropped \cup D
  OBVIOUS
<1>3. 1..routed = h \cup w \cup dropped /\ dropped \cap h = {} /\ dropped \cap w = {}
  BY DEF MessagesPlaced
<1> HIDE DEF h, hh, w, ww
<1>4. 1..routed' = hh \cup ww \cup dropped'  BY <1>2, <1>3
<1>5. dropped' \cap hh = {} /\ dropped' \cap ww = {}
  <2>1. D \cap h = {}  BY <1>1, <1>2
  <2>2. H \cap dropped = {} /\ ww \cap dropped = {}  BY <1>2, <1>3
  <2> QED BY <1>2, <1>3, <2>1, <2>2
<1> USE DEF h, hh, w, ww
<1>6. MessagesPlaced'  BY <1>4, <1>5 DEF MessagesPlaced
<1>7. MessagesHanded  BY <1>2 DEF MessagesHanded
<1> QED BY <1>6, <1>7

\* The state of the messages before a step and what is known after it.
MessagesBase ==
  /\ TypeOK /\ PlaceInv /\ MessagesInv /\ MessagesPlaced
  /\ TypeOK' /\ PlaceInv' /\ MessagesInv'

\* What has to be shown of a step.
MessagesOutcome == MessagesPlaced' /\ MessagesHanded

\* No message moves from the way.
LEMMA MessagesStay ==
  ASSUME MessagesBase, UNCHANGED <<heard, dropped, routed>>, OnTheWay' = OnTheWay
  PROVE  MessagesOutcome
<1>1. /\ Contents(heard)' = Contents(heard) \cup {} /\ dropped' = dropped \cup {}
      /\ OnTheWay = OnTheWay' \cup {} \cup {} /\ {} \cap OnTheWay' = {} /\ {} \cap {} = {}
  OBVIOUS
<1> HIDE DEF OnTheWay
<1> QED BY <1>1, MessagesMoveOn DEF MessagesBase, MessagesOutcome

\* Some are given up.
LEMMA MessagesGivenUp ==
  ASSUME MessagesBase, UNCHANGED <<heard, routed>>, NEW D, dropped' = dropped \cup D,
         OnTheWay = OnTheWay' \cup D, D \cap OnTheWay' = {}
  PROVE  MessagesOutcome
<1>1. /\ Contents(heard)' = Contents(heard) \cup {}
      /\ OnTheWay = OnTheWay' \cup {} \cup D /\ D \cap {} = {}
  OBVIOUS
<1> HIDE DEF OnTheWay
<1> QED BY <1>1, MessagesMoveOn DEF MessagesBase, MessagesOutcome

\* One is heard.
LEMMA MessageHeard ==
  ASSUME MessagesBase, UNCHANGED <<dropped, routed>>, NEW m \in Messages,
         heard' = Append(heard, m), OnTheWay = OnTheWay' \cup {m}
  PROVE  MessagesOutcome
<1>1. m \in Nat /\ m # 0  BY DEF Messages
<1>2. Contents(heard)' = Contents(heard) \cup {m}
  <2>1. heard \in Seq(Nat)  BY MessageLineTyped DEF MessagesBase
  <2> QED BY <1>1, <2>1, ContentsAndLast
<1>3. /\ dropped' = dropped \cup {} /\ OnTheWay = OnTheWay' \cup {m} \cup {}
      /\ {} \cap OnTheWay' = {} /\ {} \cap {m} = {}
  OBVIOUS
<1> HIDE DEF OnTheWay
<1> QED BY <1>2, <1>3, MessagesMoveOn DEF MessagesBase, MessagesOutcome

\* The MCP loop ends, and gives up what waits for it.
LEMMA McpEndsOutcome ==
  ASSUME MessagesBase, McpEnds, UNCHANGED <<heard, routed, client, down>>
  PROVE  MessagesOutcome
<1>1. /\ preInit' = <<>> /\ toMcp' = <<>>
      /\ dropped' = dropped \cup (ToSet(preInit) \cup ToSet(toMcp))
  BY DEF McpEnds
<1>2. ToSet(preInit) = Contents(preInit) /\ ToSet(toMcp) = Contents(toMcp)
  <2>1. 0 \notin ToSet(toMcp) /\ 0 \notin ToSet(preInit)
    <3>1. preInit \in Seq(Messages) /\ toMcp \in Seq(Messages)  BY DEF MessagesBase, TypeOK
    <3>2. ToSet(preInit) \subseteq Messages /\ ToSet(toMcp) \subseteq Messages
      BY <3>1, ElementsAreTyped
    <3> QED BY <3>2 DEF Messages
  <2> QED BY <2>1, SetIsContents
<1>3. OnTheWay' = Contents(Holding) \cup Contents(down)
  BY <1>1, EmptySequence DEF OnTheWay, Holding
<1>4. (Contents(preInit) \cup Contents(toMcp)) \cap (Contents(Holding) \cup Contents(down)) = {}
  BY MessagesApart DEF MessagesBase
<1>5. OnTheWay = OnTheWay' \cup (Contents(preInit) \cup Contents(toMcp))
  BY <1>3 DEF OnTheWay
<1> HIDE DEF OnTheWay
<1> QED BY <1>1, <1>2, <1>3, <1>4, <1>5, MessagesGivenUp

\* The MCP loop gives Claude a message, or gives it up, or ends.
LEMMA HearOutcome ==
  ASSUME MessagesBase, NEW m \in Messages, NEW before, NEW channel, Hear(m, before, channel),
         Contents(preInit) \cup Contents(toMcp)
           = Contents(before) \cup Contents(channel) \cup {m},
         m \notin Contents(before) \cup Contents(channel),
         UNCHANGED <<routed, client, down>>
  PROVE  MessagesOutcome
<1>1. CASE McpEnds /\ UNCHANGED heard  BY <1>1, McpEndsOutcome
<1>2. CASE /\ preInit' = before /\ toMcp' = channel
           /\ \/ heard' = Append(heard, m) /\ UNCHANGED dropped
              \/ dropped' = dropped \cup {m} /\ UNCHANGED heard
  <2>1. Holding' = Holding  BY DEF Holding
  <2>2. OnTheWay = OnTheWay' \cup {m}  BY <1>2, <2>1 DEF OnTheWay
  <2>3. CASE heard' = Append(heard, m) /\ UNCHANGED dropped
    BY <2>2, <2>3, MessageHeard
  <2>4. CASE dropped' = dropped \cup {m} /\ UNCHANGED heard
    <3>1. (Contents(preInit) \cup Contents(toMcp))
            \cap (Contents(Holding) \cup Contents(down)) = {}
      BY MessagesApart DEF MessagesBase
    <3>2. {m} \cap OnTheWay' = {}  BY <1>2, <2>1, <3>1 DEF OnTheWay
    <3> HIDE DEF OnTheWay
    <3> QED BY <2>2, <2>4, <3>2, MessagesGivenUp
  <2> QED BY <1>2, <2>3, <2>4
<1> QED BY <1>1, <1>2 DEF Hear

\* Every step keeps a message in one place, and takes it from the way at most once.
LEMMA MessagesPlacedStep ==
  ASSUME MessagesBase, LinkInv, Next PROVE MessagesOutcome
<1> USE DEF MessagesBase
<1>1. /\ preInit \in Seq(Messages) /\ toMcp \in Seq(Messages) /\ heard \in Seq(Messages)
      /\ down \in Seq(Messages \cup {Agents})
  BY DEF TypeOK
<1>2. /\ heard \in Seq(Nat) /\ preInit \in Seq(Nat) /\ toMcp \in Seq(Nat)
      /\ Holding \in Seq(Nat) /\ down \in Seq(Nat)
  BY MessageLineTyped
<1>3. /\ InOrder(heard) /\ InOrder(preInit) /\ InOrder(toMcp) /\ InOrder(down)
  BY DEF MessagesInv, InLine, MessageLine
<1>4. /\ (Contents(preInit) \cup Contents(toMcp)) \cap (Contents(Holding) \cup Contents(down)) = {}
      /\ Contents(preInit) \cap Contents(toMcp) = {} /\ Contents(Holding) \cap Contents(down) = {}
  BY MessagesApart
<1>5. /\ preInit # <<>> => /\ Head(preInit) \in Messages
                           /\ Contents(preInit) = {Head(preInit)} \cup Contents(Tail(preInit))
                           /\ Head(preInit) \notin Contents(Tail(preInit))
      /\ toMcp # <<>> => /\ Head(toMcp) \in Messages
                         /\ Contents(toMcp) = {Head(toMcp)} \cup Contents(Tail(toMcp))
                         /\ Head(toMcp) \notin Contents(Tail(toMcp))
  <2>1. \A m \in Messages : m # 0  BY DEF Messages
  <2> QED BY <1>1, <1>2, <1>3, <2>1, FirstIsOnce
<1>6. ASSUME McpEnds \/ UNCHANGED <<preInit, toMcp, dropped>>,
             UNCHANGED <<heard, routed, client, down>>
      PROVE  MessagesOutcome
  <2>1. CASE UNCHANGED <<preInit, toMcp, dropped>>
    <3>1. OnTheWay' = OnTheWay  BY <1>6, <2>1 DEF OnTheWay, Holding
    <3> QED BY <1>6, <2>1, <3>1, MessagesStay
  <2> QED BY <1>6, <2>1, McpEndsOutcome
<1>7. CASE ReadGreeting \/ Initialize \/ ReplayDone \/ ReadPart \/ ReadLine \/ EndOfInput
  BY <1>6, <1>7 DEF ReadGreeting, Initialize, ReplayDone, ReadPart, ReadLine, EndOfInput, Respond
<1>8. CASE SendItem \/ SendRefused \/ QueryEnds
  BY <1>6, <1>8 DEF SendItem, SendRefused, QueryEnds, Respond
<1>9. CASE ReplayOne
  <2>1. /\ preInit # <<>> /\ Hear(Head(preInit), Tail(preInit), toMcp)
        /\ UNCHANGED <<routed, client, down>>
    BY <1>9 DEF ReplayOne
  <2>2. Head(preInit) \notin Contents(toMcp)  BY <1>4, <1>5, <2>1
  <2> QED BY <1>5, <2>1, <2>2, HearOutcome
<1>10. CASE TakeMessage
  <2>1. /\ toMcp # <<>> /\ UNCHANGED <<routed, client, down>>
    BY <1>10 DEF TakeMessage
  <2>2. Head(toMcp) \notin Contents(preInit)  BY <1>4, <1>5, <2>1
  <2>3. CASE greeting = "read"
    <3>1. Hear(Head(toMcp), preInit, Tail(toMcp))  BY <1>10, <2>3 DEF TakeMessage
    <3> QED BY <1>5, <2>1, <2>2, <3>1, HearOutcome
  <2>4. CASE greeting # "read"
    <3>1. BufferEarly(Head(toMcp)) /\ toMcp' = Tail(toMcp) /\ UNCHANGED heard
      BY <1>10, <2>4 DEF TakeMessage
    <3>2. Holding' = Holding  BY <2>1 DEF Holding
    <3>3. CASE preInit' = Append(preInit, Head(toMcp)) /\ UNCHANGED dropped
      <4>1. Head(toMcp) \in Nat /\ Head(toMcp) # 0  BY <1>5, <2>1 DEF Messages
      <4>2. Contents(preInit)' = Contents(preInit) \cup {Head(toMcp)}
        BY <1>2, <3>3, <4>1, ContentsAndLast
      <4>3. OnTheWay' = OnTheWay  BY <1>5, <2>1, <3>1, <3>2, <4>2 DEF OnTheWay
      <4> QED BY <2>1, <3>1, <3>3, <4>3, MessagesStay
    <3>4. CASE dropped' = dropped \cup {Head(toMcp)} /\ UNCHANGED preInit
      <4>1. OnTheWay = OnTheWay' \cup {Head(toMcp)}
        BY <1>5, <2>1, <3>1, <3>2, <3>4 DEF OnTheWay
      <4>2. {Head(toMcp)} \cap OnTheWay' = {}
        BY <1>4, <1>5, <2>1, <2>2, <3>1, <3>2, <3>4 DEF OnTheWay
      <4> HIDE DEF OnTheWay
      <4> QED BY <2>1, <3>1, <3>4, <4>1, <4>2, MessagesGivenUp
    <3> QED BY <3>1, <3>3, <3>4 DEF BufferEarly
  <2> QED BY <2>3, <2>4
<1>11. CASE \/ ConnectFails \/ BufferDuringBackoff \/ BackoffOver \/ ReplyChannelClosed
            \/ ReplayedAll
  <2>1. /\ UNCHANGED <<heard, preInit, toMcp, dropped, down, routed>>
        /\ At("put") <=> At("put")'
        /\ At("put") => client' = client
    BY <1>11 DEF ConnectFails, BufferDuringBackoff, BackoffOver, ReplyChannelClosed, ReplayedAll,
                 ClientEnds, Goto
  <2>2. Holding' = Holding  BY <2>1 DEF Holding
  <2>3. OnTheWay' = OnTheWay  BY <2>1, <2>2 DEF OnTheWay
  <2> QED BY <2>1, <2>3, MessagesStay
<1>12. ASSUME UNCHANGED <<heard, preInit, toMcp, routed>>, Abandon, Holding' = Holding
       PROVE  MessagesOutcome
  <2>1. dropped' = dropped \cup Contents(down) /\ down' = <<>>
    BY <1>12, SetIsContents DEF Abandon
  <2>2. OnTheWay' = Contents(preInit) \cup Contents(toMcp) \cup Contents(Holding)
    BY <1>12, <2>1, EmptySequence DEF OnTheWay
  <2>3. OnTheWay = OnTheWay' \cup Contents(down)  BY <2>2 DEF OnTheWay
  <2>4. Contents(down) \cap OnTheWay' = {}  BY <1>4, <2>2
  <2> HIDE DEF OnTheWay
  <2> QED BY <1>12, <2>1, <2>3, <2>4, MessagesGivenUp
<1>13. ASSUME UNCHANGED <<heard, preInit, toMcp, routed>>, Holding' = Holding,
              Abandon \/ UNCHANGED <<down, dropped>>
       PROVE  MessagesOutcome
  <2>1. CASE UNCHANGED <<down, dropped>>
    <3>1. OnTheWay' = OnTheWay  BY <1>13, <2>1 DEF OnTheWay
    <3> QED BY <1>13, <2>1, <3>1, MessagesStay
  <2> QED BY <1>12, <1>13, <2>1
<1>14. CASE Greet \/ ReplayBacklog \/ SendOutbound \/ SeeEnd
  <2>1. /\ UNCHANGED <<heard, preInit, toMcp, routed>> /\ ~At("put") /\ ~At("put")'
        /\ Abandon \/ UNCHANGED <<down, dropped>>
    BY <1>14 DEF Greet, ReplayBacklog, SendOutbound, SeeEnd, LeaveServing, Abandon, Goto
  <2>2. Holding' = Holding  BY <2>1 DEF Holding
  <2> QED BY <1>13, <2>1, <2>2
<1>15. CASE Receive
  <2>1. /\ At("serving") /\ down # <<>> /\ down' = Tail(down)
        /\ UNCHANGED <<heard, preInit, toMcp, dropped, routed>>
        /\ \/ Head(down) = 0 /\ client' = client
           \/ Head(down) # 0 /\ client' = [pc |-> "put", hold |-> Head(down)]
    BY <1>15 DEF Receive
  <2>2. Contents(down) = ({Head(down)} \ {0}) \cup Contents(down')  BY <1>2, <2>1, HeadAndTail
  <2>3. Contents(Holding) = {} /\ Contents(Holding') = {Head(down)} \ {0}
    <3>1. Holding = <<>>  BY <2>1 DEF Holding
    <3>2. Holding' = IF Head(down) = 0 THEN <<>> ELSE <<Head(down)>>  BY <2>1 DEF Holding
    <3>3. \A x : Contents(<<x>>) = {x} \ {0}  BY DEF Contents
    <3> QED BY <3>1, <3>2, <3>3, EmptySequence
  <2>4. OnTheWay' = OnTheWay
    <3> HIDE DEF Holding
    <3> QED BY <2>1, <2>2, <2>3 DEF OnTheWay
  <2> QED BY <2>1, <2>4, MessagesStay
<1>16. CASE PutMessage
  <2>1. /\ Holding = <<client.hold>> /\ Holding' = <<>> /\ client.hold \in Messages
        /\ UNCHANGED <<heard, preInit, down, routed>>
    BY <1>16 DEF PutMessage, Goto, Holding, PlaceInv
  <2>2. client.hold \in Nat /\ client.hold # 0  BY <2>1 DEF Messages
  <2>3. Contents(Holding) = {client.hold} /\ Contents(Holding') = {}
    BY <2>1, <2>2, EmptySequence DEF Contents
  <2>4. CASE toMcp' = Append(toMcp, client.hold) /\ UNCHANGED dropped
    <3>1. Contents(toMcp') = Contents(toMcp) \cup {client.hold}
      BY <1>2, <2>2, <2>4, ContentsAndLast
    <3>2. OnTheWay' = OnTheWay
      <4> HIDE DEF Holding
      <4> QED BY <2>1, <2>3, <3>1 DEF OnTheWay
    <3> QED BY <2>1, <2>4, <3>2, MessagesStay
  <2>5. CASE dropped' = dropped \cup {client.hold} /\ UNCHANGED toMcp
    <3> HIDE DEF Holding
    <3>1. OnTheWay = OnTheWay' \cup {client.hold}  BY <2>1, <2>3, <2>5 DEF OnTheWay
    <3>2. {client.hold} \cap OnTheWay' = {}  BY <1>4, <2>1, <2>3, <2>5 DEF OnTheWay
    <3> HIDE DEF OnTheWay
    <3> QED BY <2>1, <2>5, <3>1, <3>2, MessagesGivenUp
  <2> QED BY <1>16, <2>4, <2>5 DEF PutMessage
<1>17. CASE Connect
  <2>1. /\ down' = <<>> /\ UNCHANGED <<heard, preInit, toMcp, dropped, routed>>
        /\ ~At("put") /\ ~At("put")' /\ down = <<>>
    BY <1>17 DEF Connect, Goto, LinkInv
  <2>2. Holding' = Holding  BY <2>1 DEF Holding
  <2>3. OnTheWay' = OnTheWay  BY <2>1, <2>2 DEF OnTheWay
  <2> QED BY <2>1, <2>3, MessagesStay
<1>18. CASE Route
  <2>1. /\ routed' = routed + 1 /\ down' = Append(down, routed + 1) /\ routed \in Nat
        /\ UNCHANGED <<heard, preInit, toMcp, client, dropped>>
    BY <1>18 DEF Route, TypeOK
  <2>2. Contents(down') = Contents(down) \cup {routed + 1}
    <3>1. Contents(Append(down, routed + 1)) = Contents(down) \cup ({routed + 1} \ {0})
      BY <1>2, <2>1, ContentsAndLast
    <3> QED BY <2>1, <3>1
  <2>3. Holding' = Holding  BY <2>1 DEF Holding
  <2>4. OnTheWay' = OnTheWay \cup {routed + 1}  BY <2>1, <2>2, <2>3 DEF OnTheWay
  <2> DEFINE h == Contents(heard)
             w == OnTheWay
             ww == OnTheWay'
  <2>5. /\ 1..routed = h \cup w \cup dropped /\ dropped \cap h = {} /\ dropped \cap w = {}
        /\ ww = w \cup {routed + 1} /\ h = Contents(heard')
    BY <2>1, <2>4 DEF MessagesPlaced
  <2> HIDE DEF h, w, ww
  <2>6. 1..(routed + 1) = h \cup ww \cup dropped
    <3>1. 1..(routed + 1) = (1..routed) \cup {routed + 1}  BY <2>1
    <3> QED BY <2>5, <3>1
  <2>7. dropped \cap ww = {}
    <3>1. routed + 1 \notin 1..routed  BY <2>1
    <3> QED BY <2>5, <3>1
  <2> USE DEF h, w, ww
  <2>8. MessagesPlaced'  BY <2>1, <2>5, <2>6, <2>7 DEF MessagesPlaced
  <2>9. MessagesHanded  BY <2>1 DEF MessagesHanded
  <2> QED BY <2>8, <2>9 DEF MessagesOutcome
<1>19. CASE Serve
  <2>1. /\ UNCHANGED <<heard, preInit, toMcp, client, dropped, routed>>
        /\ down' = Append(down, 0) \/ down' = down
    BY <1>19 DEF Serve
  <2>2. Holding' = Holding  BY <2>1 DEF Holding
  <2>3. Contents(down') = Contents(down)
    <3>1. Contents(Append(down, 0)) = Contents(down) \cup ({0} \ {0})
      BY <1>2, ContentsAndLast
    <3> QED BY <2>1, <3>1
  <2>4. OnTheWay' = OnTheWay  BY <2>1, <2>2, <2>3 DEF OnTheWay
  <2> QED BY <2>1, <2>4, MessagesStay
<1>20. CASE Break
  <2>1. PICK n \in 0..Len(down) :
          /\ down' = SubSeq(down, 1, n)
          /\ dropped' = dropped \cup (ToSet(SubSeq(down, n + 1, Len(down))) \ {0})
    BY <1>20 DEF Break
  <2>2. UNCHANGED <<heard, preInit, toMcp, client, routed>>  BY <1>20 DEF Break
  <2> DEFINE D == Contents(SubSeq(down, n + 1, Len(down)))
  <2>3. dropped' = dropped \cup D  BY <2>1, SetIsContents
  <2>4. Contents(down) = Contents(down') \cup D /\ Contents(down') \cap D = {}
    BY <1>2, <1>3, <2>1, PrefixAndRest
  <2> HIDE DEF D
  <2>5. Holding' = Holding  BY <2>2 DEF Holding
  <2>6. OnTheWay = OnTheWay' \cup D  BY <2>2, <2>4, <2>5 DEF OnTheWay
  <2>7. D \cap OnTheWay' = {}  BY <1>4, <2>2, <2>4, <2>5 DEF OnTheWay
  <2> HIDE DEF OnTheWay
  <2> QED BY <2>2, <2>3, <2>6, <2>7, MessagesGivenUp
<1>21. CASE ClaudeStep
  <2>1. UNCHANGED <<heard, preInit, toMcp, client, dropped, routed, down>>
    BY <1>21 DEF ClaudeStep, SendInitialize, ClaudeExits, Call
  <2> QED BY <1>6, <2>1
<1> QED
  BY <1>7, <1>8, <1>9, <1>10, <1>11, <1>14, <1>15, <1>16, <1>17, <1>18, <1>19, <1>20, <1>21
  DEF Next, McpStep, ClientStep

----------------------------------------------------------------------------
(* The replies.                                                            *)

\* The places of replies, of which a query or a refused call is none.
RepliesAreWhere ==
  /\ WhereReplies.held = Replies(Moving) /\ WhereReplies.delivered = Contents(received)
  /\ WhereReplies.lost = lost /\ DOMAIN WhereReplies = {"held", "delivered", "lost"}

\* The places of replies in terms of the line.
LEMMA RepliesWhere == TypeOK /\ PlaceInv => RepliesAreWhere
<1> SUFFICES ASSUME TypeOK, PlaceInv PROVE RepliesAreWhere
  OBVIOUS
<1>1. /\ received \in Seq(Calls) /\ toClient \in Seq(Calls) /\ backlog \in Seq(Calls)
      /\ up \in Seq(Calls)
  BY DEF TypeOK
<1>2. /\ 0 \notin ToSet(received) /\ 0 \notin ToSet(toClient) /\ 0 \notin ToSet(backlog)
      /\ 0 \notin ToSet(up)
  BY <1>1, ElementsAreTyped DEF Calls
<1>3. /\ ToSet(received) = Contents(received) /\ ToSet(toClient) = Contents(toClient)
      /\ ToSet(backlog) = Contents(backlog) /\ ToSet(up) = Contents(up)
  BY <1>2, SetIsContents
<1>4. (IF In("send") THEN {mcp.call} ELSE {}) = Contents(Sending)
  <2>1. CASE In("send")
    <3>1. mcp.call # 0  BY <2>1 DEF PlaceInv, Calls
    <3>2. Sending = <<mcp.call>>  BY <2>1 DEF Sending
    <3>3. Contents(<<mcp.call>>) = {mcp.call}  BY <3>1 DEF Contents
    <3> QED BY <2>1, <3>2, <3>3
  <2>2. CASE ~In("send")  BY <2>2, EmptySequence DEF Sending
  <2> QED BY <2>1, <2>2
<1> QED BY <1>3, <1>4 DEF RepliesAreWhere, WhereReplies, Moving

\* The same after a step.
LEMMA RepliesWhereNext == TypeOK' /\ PlaceInv' => RepliesAreWhere'
BY RepliesWhere, PTL

\* What a step does to the replies that have been read.
RepliesHanded ==
  /\ Contents(received) \subseteq Contents(received)' /\ lost \subseteq lost'
  /\ Contents(received)' \cup lost' \subseteq Contents(received) \cup lost \cup Replies(Moving)
  /\ Replies(Moving) \subseteq Replies(Moving)' \cup Contents(received)' \cup lost'

\* Different parts of the line of calls have nothing in common.
CallsAreApart ==
  /\ Contents(received) \cap (Moving \cup Waiting) = {} /\ Moving \cap Waiting = {}
  /\ Contents(up) \cap (Contents(backlog) \cup Contents(toClient) \cup Contents(Sending)) = {}
  /\ Contents(backlog) \cap (Contents(toClient) \cup Contents(Sending)) = {}
  /\ Contents(toClient) \cap Contents(Sending) = {}
  /\ \A c \in Moving \cup Waiting : Made(c) /\ c \in Calls

\* It follows from the order of the line.
LEMMA CallsApart == TypeOK /\ PlaceInv /\ CallsInv => CallsAreApart
<1> SUFFICES ASSUME TypeOK, PlaceInv, CallsInv PROVE CallsAreApart
  OBVIOUS
<1>1. \A a \in 1..7 : \A x \in Contents(CallLine[a]) : x \in Calls /\ x \in Nat
  <2>1. \A a \in 1..7 : CallLine[a] \in Seq(Calls)  BY CallLineTyped
  <2>2. \A s \in Seq(Calls) : Contents(s) \subseteq Calls  BY DEF Contents
  <2> QED BY <2>1, <2>2 DEF Calls
<1>2. \A a, b \in 1..7 : a < b => Contents(CallLine[a]) \cap Contents(CallLine[b]) = {}
  <2>1. \A a, b \in 1..7 : a < b => Before(Contents(CallLine[a]), Contents(CallLine[b]))
    BY DEF CallsInv, InLine
  <2> QED BY <1>1, <2>1 DEF Before
<1>3. \A a \in 1..7 : \A c \in Contents(CallLine[a]) : Made(c)  BY DEF CallsInv
<1>4. /\ CallLine[1] = received /\ CallLine[2] = up /\ CallLine[3] = backlog
      /\ CallLine[4] = toClient /\ CallLine[5] = Sending /\ CallLine[6] = Begun
      /\ CallLine[7] = stdin
  BY DEF CallLine
<1> DEFINE r == Contents(received)
           u == Contents(up)
           b == Contents(backlog)
           t == Contents(toClient)
           s == Contents(Sending)
           g == Contents(Begun)
           i == Contents(stdin)
<1>5. /\ r \cap u = {} /\ r \cap b = {} /\ r \cap t = {} /\ r \cap s = {} /\ r \cap g = {}
      /\ r \cap i = {} /\ u \cap b = {} /\ u \cap t = {} /\ u \cap s = {} /\ u \cap g = {}
      /\ u \cap i = {} /\ b \cap t = {} /\ b \cap s = {} /\ b \cap g = {} /\ b \cap i = {}
      /\ t \cap s = {} /\ t \cap g = {} /\ t \cap i = {} /\ s \cap g = {} /\ s \cap i = {}
      /\ g \cap i = {}
  <2> HIDE DEF CallLine
  <2> QED BY <1>2, <1>4
<1>6. \A c \in u \cup b \cup t \cup s \cup g \cup i : Made(c) /\ c \in Calls
  <2> HIDE DEF CallLine, Made
  <2> QED BY <1>1, <1>3, <1>4
<1>7. Moving = s \cup t \cup b \cup u /\ Waiting = g \cup i  BY DEF Moving, Waiting
<1> HIDE DEF r, u, b, t, s, g, i
<1>8. r \cap (Moving \cup Waiting) = {} /\ Moving \cap Waiting = {}  BY <1>5, <1>7
<1>9. /\ u \cap (b \cup t \cup s) = {} /\ b \cap (t \cup s) = {} /\ t \cap s = {}  BY <1>5
<1>10. \A c \in Moving \cup Waiting : Made(c) /\ c \in Calls  BY <1>6, <1>7
<1> USE DEF r, u, b, t, s, g, i
<1> QED BY <1>8, <1>9, <1>10 DEF CallsAreApart

\* The state of the replies before a step and what is known after it.
RepliesBase ==
  /\ TypeOK /\ PlaceInv /\ CallsInv /\ RepliesPlaced
  /\ TypeOK' /\ PlaceInv' /\ CallsInv'

\* What has to be shown of a step.
RepliesOutcome == RepliesPlaced' /\ RepliesHanded

\* Of what moves, some replies are received and some given up; what is neither stays, unless
\* it is a query.
LEMMA RepliesMoveOn ==
  ASSUME RepliesBase, kind' = kind, NEW H, NEW L,
         Contents(received)' = Contents(received) \cup H, H \subseteq Replies(Moving),
         lost' = lost \cup Replies(L), L \subseteq Moving, L \cap H = {},
         L \cap (Moving' \cup Waiting') = {},
         Moving' \cup Waiting' \subseteq Moving \cup Waiting,
         \A c \in Moving : kind[c] = "reply" => c \in Moving' \cup H \cup L
  PROVE  RepliesOutcome
<1> DEFINE r == Contents(received)
           rr == Contents(received')
           m == Moving
           mm == Moving'
           w == Waiting
           ww == Waiting'
<1>1. r \cap (m \cup w) = {} /\ \A c \in m : Made(c)
  BY CallsApart DEF RepliesBase, CallsAreApart
<1>2. /\ \A c \in lost : Made(c)
      /\ lost \cap (r \cup m \cup w) = {}
  BY DEF RepliesBase, RepliesPlaced
<1>3. /\ rr = r \cup H /\ H \subseteq Replies(m) /\ lost' = lost \cup Replies(L) /\ L \subseteq m
      /\ L \cap H = {} /\ L \cap (mm \cup ww) = {} /\ mm \cup ww \subseteq m \cup w
      /\ \A c \in m : kind[c] = "reply" => c \in mm \cup H \cup L
  OBVIOUS
<1>4. \A c : Made(c)' <=> Made(c)  BY DEF Made
<1>5. Replies(Moving)' = Replies(mm)
  <2> HIDE DEF Moving
  <2> QED BY DEF Replies
<1> HIDE DEF r, rr, m, mm, w, ww
<1>6. \A c \in lost' : Made(c)'  BY <1>1, <1>2, <1>3, <1>4 DEF Replies
<1>7. lost' \cap (rr \cup mm \cup ww) = {}  BY <1>1, <1>2, <1>3 DEF Replies
<1>8. /\ r \subseteq rr /\ lost \subseteq lost'
      /\ rr \cup lost' \subseteq r \cup lost \cup Replies(m)
      /\ Replies(m) \subseteq Replies(mm) \cup rr \cup lost'
  BY <1>3 DEF Replies
<1> USE DEF r, rr, m, mm, w, ww
<1>9. RepliesPlaced'  BY <1>6, <1>7 DEF RepliesPlaced
<1>10. RepliesHanded  BY <1>5, <1>8 DEF RepliesHanded
<1> QED BY <1>9, <1>10 DEF RepliesOutcome

\* No reply is received or given up.
LEMMA RepliesStay ==
  ASSUME RepliesBase, UNCHANGED <<kind, received, lost>>,
         Moving' \cup Waiting' \subseteq Moving \cup Waiting,
         \A c \in Moving : kind[c] = "reply" => c \in Moving'
  PROVE  RepliesOutcome
<1>1. /\ Contents(received)' = Contents(received) \cup {} /\ {} \subseteq Replies(Moving)
      /\ lost' = lost \cup Replies({}) /\ {} \subseteq Moving /\ {} \cap {} = {}
      /\ {} \cap (Moving' \cup Waiting') = {}
      /\ \A c \in Moving : kind[c] = "reply" => c \in Moving' \cup {} \cup {}
  BY DEF Replies
<1> HIDE DEF Moving, Waiting, Replies
<1> QED BY <1>1, RepliesMoveOn

\* Some are given up.
LEMMA RepliesGivenUp ==
  ASSUME RepliesBase, UNCHANGED <<kind, received>>, NEW L, lost' = lost \cup Replies(L),
         Moving = Moving' \cup L, Waiting' = Waiting, L \cap Moving' = {}
  PROVE  RepliesOutcome
<1>1. /\ Contents(received)' = Contents(received) \cup {} /\ {} \subseteq Replies(Moving)
      /\ L \subseteq Moving /\ L \cap {} = {}
      /\ Moving' \cup Waiting' \subseteq Moving \cup Waiting
      /\ \A c \in Moving : kind[c] = "reply" => c \in Moving' \cup {} \cup L
  <2> HIDE DEF Moving, Waiting
  <2> QED BY DEF Replies
<1>2. L \cap (Moving' \cup Waiting') = {}
  <2>1. Moving \cap Waiting = {}  BY CallsApart DEF RepliesBase, CallsAreApart
  <2> HIDE DEF Moving, Waiting
  <2> QED BY <1>1, <2>1
<1> HIDE DEF Moving, Waiting, Replies
<1> QED BY <1>1, <1>2, RepliesMoveOn

\* Nothing comes on the way and nothing leaves it.
LEMMA RepliesRest ==
  ASSUME RepliesBase, UNCHANGED <<kind, received, lost, toClient, backlog, up>>,
         Sending' = Sending, Waiting' \subseteq Waiting
  PROVE  RepliesOutcome
<1>1. Moving' = Moving
  <2> HIDE DEF Sending
  <2> QED BY DEF Moving
<1> HIDE DEF Moving, Waiting
<1> QED BY <1>1, RepliesStay

\* What Claude has written and the loop has not read waits.
LEMMA WaitingStays ==
  ASSUME UNCHANGED <<half, stdin>> PROVE Waiting' = Waiting /\ Begun' = Begun
BY DEF Waiting, Begun

\* The end of the client gives up what it holds.
LEMMA ClientEndsOutcome ==
  ASSUME RepliesBase, ClientEnds, UNCHANGED <<kind, received, up, half, stdin>>
  PROVE  RepliesOutcome
<1> DEFINE L == Contents(toClient) \cup Contents(backlog)
<1>1. toClient \in Seq(Calls) /\ backlog \in Seq(Calls)  BY DEF RepliesBase, TypeOK
<1>2. ToSet(toClient) = Contents(toClient) /\ ToSet(backlog) = Contents(backlog)
  <2>1. ToSet(toClient) \subseteq Calls /\ ToSet(backlog) \subseteq Calls
    BY <1>1, ElementsAreTyped
  <2>2. 0 \notin ToSet(toClient) /\ 0 \notin ToSet(backlog)  BY <2>1 DEF Calls
  <2> QED BY <2>2, SetIsContents
<1>3. /\ lost' = lost \cup Replies(L) /\ toClient' = <<>> /\ backlog' = <<>>
      /\ Resolve(L, "error")
  BY <1>2 DEF ClientEnds
<1>4. Sending' = Sending
  <2>1. TypeOK  BY DEF RepliesBase
  <2> QED BY <1>3, <2>1, ResolveStays DEF Sending
<1>5. Moving' = Contents(Sending) \cup Contents(up)
  <2> HIDE DEF Sending
  <2> QED BY <1>3, <1>4, EmptySequence DEF Moving
<1>6. Moving = Moving' \cup L /\ L \cap Moving' = {}
  <2>1. CallsAreApart  BY CallsApart DEF RepliesBase
  <2>2. Moving = Moving' \cup L
    <3> HIDE DEF Sending
    <3> QED BY <1>5 DEF Moving
  <2>3. L \cap Moving' = {}
    <3> HIDE DEF Sending, Moving, Waiting
    <3> QED BY <1>5, <2>1 DEF CallsAreApart
  <2> QED BY <2>2, <2>3
<1>7. Waiting' = Waiting  BY WaitingStays
<1> HIDE DEF L, Moving, Waiting, Replies
<1> QED BY <1>3, <1>6, <1>7, RepliesGivenUp

\* Claude makes a call.
LEMMA CallOutcome ==
  ASSUME RepliesBase, NEW c \in Calls, NEW k \in Kinds, Call(c, k)
  PROVE  RepliesOutcome
<1>1. /\ kind[c] = None /\ kind' = [kind EXCEPT ![c] = k] /\ stdin' = Append(stdin, c)
      /\ UNCHANGED <<received, lost, up, backlog, toClient, mcp, half>>
  BY DEF Call
<1>2. /\ stdin \in Seq(Nat) /\ c \in Nat /\ c # 0 /\ kind \in [Calls -> Kinds \cup {None}]
      /\ lost \subseteq Calls /\ k # None
  <2>1. stdin \in Seq(Nat)  BY CallLineTyped DEF RepliesBase
  <2>2. kind \in [Calls -> Kinds \cup {None}] /\ lost \subseteq Calls  BY DEF RepliesBase, TypeOK
  <2> QED BY <2>1, <2>2 DEF Calls, Kinds
<1>3. Moving' = Moving  BY <1>1 DEF Moving, Sending
<1>4. Waiting' = Waiting \cup {c}
  <2>1. Contents(stdin') = Contents(stdin) \cup ({c} \ {0})  BY <1>1, <1>2, ContentsAndLast
  <2>2. Begun' = Begun  BY <1>1 DEF Begun
  <2> HIDE DEF Begun
  <2> QED BY <1>2, <2>1, <2>2 DEF Waiting
<1>5. CallsAreApart  BY CallsApart DEF RepliesBase
<1>6. \A b \in Calls : b # c => kind'[b] = kind[b]  BY <1>1, <1>2
<1>7. \A b \in Moving : b # c /\ b \in Calls  BY <1>1, <1>5 DEF CallsAreApart, Made
<1>8. Replies(Moving)' = Replies(Moving)
  <2>1. Replies(Moving)' = {b \in Moving' : kind'[b] = "reply"}  BY DEF Replies
  <2> HIDE DEF Moving
  <2> QED BY <1>3, <1>6, <1>7, <2>1 DEF Replies
<1>9. /\ \A b \in lost : Made(b) /\ b \in Calls
      /\ lost \cap (Contents(received) \cup Moving \cup Waiting) = {}
  BY <1>2 DEF RepliesBase, RepliesPlaced
<1>10. c \notin lost  BY <1>1, <1>9 DEF Made
<1>11. \A b \in lost' : Made(b)'  BY <1>1, <1>6, <1>9, <1>10 DEF Made
<1> HIDE DEF Moving, Waiting, Replies
<1>12. RepliesPlaced'
  <2>1. lost' \cap (Contents(received') \cup Moving' \cup Waiting') = {}
    BY <1>1, <1>3, <1>4, <1>9, <1>10
  <2> QED BY <1>11, <2>1 DEF RepliesPlaced
<1>13. RepliesHanded  BY <1>1, <1>8 DEF RepliesHanded
<1> QED BY <1>12, <1>13 DEF RepliesOutcome

\* Every step keeps a reply in one place, and takes it from the way at most once.
LEMMA RepliesPlacedStep ==
  ASSUME RepliesBase, LinkInv, Next PROVE RepliesOutcome
<1>1. /\ TypeOK /\ PlaceInv /\ CallsInv /\ CallsAreApart
  BY CallsApart DEF RepliesBase
<1>2. /\ up \in Seq(Nat) /\ backlog \in Seq(Nat) /\ toClient \in Seq(Nat) /\ stdin \in Seq(Nat)
      /\ Sending \in Seq(Nat) /\ Begun \in Seq(Nat) /\ received \in Seq(Nat)
  BY <1>1, CallLineTyped
<1>3. /\ up \in Seq(Calls) /\ backlog \in Seq(Calls) /\ toClient \in Seq(Calls)
      /\ stdin \in Seq(Calls)
  BY <1>1 DEF TypeOK
<1>4. InOrder(up) /\ InOrder(backlog) /\ InOrder(toClient) /\ InOrder(stdin)
  BY <1>1 DEF CallsInv, InLine, CallLine
<1>5. ASSUME NEW s \in Seq(Calls), s \in Seq(Nat), InOrder(s), s # <<>>
      PROVE  /\ Head(s) \in Calls /\ Head(s) \in Nat /\ Head(s) # 0
             /\ Contents(s) = {Head(s)} \cup Contents(Tail(s))
             /\ Head(s) \notin Contents(Tail(s))
  <2>1. Head(s) \in Calls  BY <1>5
  <2>2. Head(s) \in Nat /\ Head(s) # 0  BY <2>1 DEF Calls
  <2> QED BY <1>5, <2>1, <2>2, FirstIsOnce
<1>6. \A x \in Nat \ {0} : Contents(<<x>>) = {x}  BY DEF Contents
<1>7. CASE \/ Initialize \/ ReplayOne \/ ReplayDone \/ EndOfInput \/ QueryEnds
  <2>1. UNCHANGED <<kind, received, lost, toClient, backlog, up, half, stdin>>
    BY <1>7 DEF Initialize, ReplayOne, ReplayDone, EndOfInput, QueryEnds
  <2>2. ~In("send") /\ ~In("send")'
    BY <1>7 DEF Initialize, ReplayOne, ReplayDone, EndOfInput, QueryEnds, Hear, McpEnds, Respond
  <2>3. Sending' = Sending  BY <2>2 DEF Sending
  <2>4. Waiting' = Waiting  BY <2>1, WaitingStays
  <2> HIDE DEF Sending, Waiting
  <2> QED BY <2>1, <2>3, <2>4, RepliesRest
<1>8. CASE TakeMessage
  <2>1. /\ UNCHANGED <<kind, received, lost, toClient, backlog, up, stdin>> /\ half' = None
        /\ ~In("send") /\ ~In("send")'
    BY <1>8 DEF TakeMessage, Hear, McpEnds
  <2>2. Sending' = Sending  BY <2>1 DEF Sending
  <2>3. Begun' = <<>>  BY <2>1 DEF Begun
  <2>4. Waiting' \subseteq Waiting
    <3> HIDE DEF Begun
    <3> QED BY <2>1, <2>3, EmptySequence DEF Waiting
  <2> HIDE DEF Sending, Waiting
  <2> QED BY <2>1, <2>2, <2>4, RepliesRest
<1>9. CASE ReadPart
  <2>1. /\ UNCHANGED <<kind, received, lost, toClient, backlog, up, mcp>> /\ stdin # <<>>
        /\ half' = Head(stdin) /\ stdin' = Tail(stdin)
    BY <1>9 DEF ReadPart
  <2>2. Sending' = Sending  BY <2>1 DEF Sending
  <2>3. /\ Head(stdin) \in Calls /\ Head(stdin) # 0 /\ Head(stdin) \in Nat
        /\ Contents(stdin) = {Head(stdin)} \cup Contents(stdin')
    BY <1>2, <1>3, <1>4, <1>5, <2>1
  <2>4. Begun' = <<Head(stdin)>>
    <3>1. Head(stdin) # None  BY <2>3
    <3> QED BY <2>1, <3>1 DEF Begun
  <2>5. Waiting' \subseteq Waiting
    <3>1. Contents(Begun') = {Head(stdin)}  BY <1>6, <2>3, <2>4
    <3> HIDE DEF Begun
    <3> QED BY <2>3, <3>1 DEF Waiting
  <2> HIDE DEF Sending, Waiting
  <2> QED BY <2>1, <2>2, <2>5, RepliesRest
<1>10. CASE ReadLine
  <2>1. /\ UNCHANGED <<kind, received, lost, toClient, backlog, up, stdin>>
        /\ half # None /\ half' = None /\ In("select")
        /\ \/ ~In("send")'
           \/ mcp' = [pc |-> "send", call |-> half, got |-> None]
    BY <1>10 DEF ReadLine, Respond, McpEnds
  <2>2. /\ Contents(Begun) = {half} /\ Contents(Begun') = {} /\ Contents(Sending) = {}
        /\ Contents(Sending') \subseteq {half}
    <3>1. half \in Nat \ {0}  BY <1>1, <2>1 DEF TypeOK, Calls
    <3>2. Begun = <<half>> /\ Begun' = <<>> /\ Sending = <<>>  BY <2>1 DEF Begun, Sending
    <3>3. Sending' = <<>> \/ Sending' = <<half>>  BY <2>1 DEF Sending
    <3> HIDE DEF Begun, Sending
    <3> QED BY <1>6, <3>1, <3>2, <3>3, EmptySequence
  <2>3. /\ Moving' \cup Waiting' \subseteq Moving \cup Waiting /\ Moving \subseteq Moving'
    <3> HIDE DEF Begun, Sending
    <3> QED BY <2>1, <2>2 DEF Moving, Waiting
  <2> HIDE DEF Moving, Waiting
  <2> QED BY <2>1, <2>3, RepliesStay
<1>11. CASE SendItem
  <2>1. /\ UNCHANGED <<kind, received, lost, backlog, up, half, stdin>>
        /\ toClient' = Append(toClient, mcp.call) /\ In("send") /\ ~In("send")'
    BY <1>1, <1>11 DEF SendItem, Respond, McpEnds, TypeOK
  <2>2. mcp.call \in Nat \ {0}  BY <1>1, <2>1 DEF PlaceInv, Calls
  <2>3. Contents(Sending) = {mcp.call} /\ Contents(Sending') = {}
    <3>1. Sending = <<mcp.call>> /\ Sending' = <<>>  BY <2>1 DEF Sending
    <3> QED BY <1>6, <2>2, <3>1, EmptySequence
  <2>4. Contents(toClient') = Contents(toClient) \cup {mcp.call}
    BY <1>2, <2>1, <2>2, ContentsAndLast
  <2>5. Moving' = Moving
    <3> HIDE DEF Sending
    <3> QED BY <2>1, <2>3, <2>4 DEF Moving
  <2>6. Waiting' = Waiting  BY <2>1, WaitingStays
  <2> HIDE DEF Moving, Waiting
  <2> QED BY <2>1, <2>5, <2>6, RepliesStay
<1>12. CASE SendRefused
  <2>1. /\ UNCHANGED <<kind, received, toClient, backlog, up, half, stdin>>
        /\ lost' = lost \cup Replies({mcp.call}) /\ In("send") /\ ~In("send")'
    BY <1>12 DEF SendRefused, Respond, McpEnds
  <2>2. mcp.call \in Nat \ {0}  BY <1>1, <2>1 DEF PlaceInv, Calls
  <2>3. Contents(Sending) = {mcp.call} /\ Contents(Sending') = {}
    <3>1. Sending = <<mcp.call>> /\ Sending' = <<>>  BY <2>1 DEF Sending
    <3> QED BY <1>6, <2>2, <3>1, EmptySequence
  <2>4. Moving = Moving' \cup {mcp.call} /\ {mcp.call} \cap Moving' = {}
    <3> HIDE DEF Sending
    <3> QED BY <1>1, <2>1, <2>3 DEF Moving, CallsAreApart
  <2>5. Waiting' = Waiting  BY <2>1, WaitingStays
  <2> HIDE DEF Moving, Waiting, Replies
  <2> QED BY <2>1, <2>4, <2>5, RepliesGivenUp
<1>13. ASSUME UNCHANGED <<kind, received, lost, toClient, backlog, up, half, stdin>>,
              mcp'.pc = mcp.pc /\ mcp'.call = mcp.call
       PROVE  RepliesOutcome
  <2>1. Sending' = Sending  BY <1>13 DEF Sending
  <2>2. Waiting' = Waiting  BY <1>13, WaitingStays
  <2> HIDE DEF Sending, Waiting
  <2> QED BY <1>13, <2>1, <2>2, RepliesRest
<1>14. CASE Connect
  BY <1>13, <1>14 DEF Connect, LinkInv
<1>15. CASE BackoffOver \/ Greet \/ ReplayedAll \/ PutMessage \/ Route
  BY <1>13, <1>15 DEF BackoffOver, Greet, ReplayedAll, PutMessage, Route, Abandon
<1>16. CASE Receive \/ SeeEnd
  <2>1. mcp'.pc = mcp.pc /\ mcp'.call = mcp.call
    BY <1>1, <1>16, ResolveStays DEF Receive, SeeEnd
  <2> QED BY <1>13, <1>16, <2>1 DEF Receive, SeeEnd, LeaveServing, Abandon
<1>17. CASE ConnectFails \/ ReplyChannelClosed
  <2>1. UNCHANGED <<kind, received, up, half, stdin>>
    BY <1>17 DEF ConnectFails, ReplyChannelClosed
  <2>2. ClientEnds \/ UNCHANGED <<mcp, toClient, backlog, lost>>
    BY <1>17 DEF ConnectFails, ReplyChannelClosed
  <2> QED BY <1>13, <2>1, <2>2, ClientEndsOutcome
<1>18. CASE BufferDuringBackoff
  <2>1. /\ UNCHANGED <<kind, received, up, half, stdin>> /\ toClient # <<>>
        /\ toClient' = Tail(toClient) /\ mcp'.pc = mcp.pc /\ mcp'.call = mcp.call
        /\ \/ backlog' = Append(backlog, Head(toClient)) /\ lost' = lost
           \/ backlog' = backlog /\ lost' = lost \cup Replies({Head(toClient)})
    BY <1>1, <1>18, ResolveStays DEF BufferDuringBackoff
  <2> DEFINE c == Head(toClient)
  <2>2. /\ c \in Nat /\ c # 0 /\ Contents(toClient) = {c} \cup Contents(toClient')
        /\ c \notin Contents(toClient')
    BY <1>2, <1>3, <1>4, <1>5, <2>1
  <2>3. Contents(Append(backlog, c)) = Contents(backlog) \cup {c}
    BY <1>2, <2>2, ContentsAndLast
  <2> HIDE DEF c
  <2>4. Sending' = Sending  BY <2>1 DEF Sending
  <2>5. Waiting' = Waiting  BY <2>1, WaitingStays
  <2>6. CASE backlog' = Append(backlog, c) /\ lost' = lost
    <3>1. Moving' = Moving
      <4> HIDE DEF Sending
      <4> QED BY <2>1, <2>2, <2>3, <2>4, <2>6 DEF Moving
    <3> HIDE DEF Moving, Waiting
    <3> QED BY <2>1, <2>5, <2>6, <3>1, RepliesStay
  <2>7. CASE backlog' = backlog /\ lost' = lost \cup Replies({c})
    <3>1. Moving = Moving' \cup {c}
      <4> HIDE DEF Sending
      <4> QED BY <2>1, <2>2, <2>4, <2>7 DEF Moving
    <3>2. {c} \cap Moving' = {}
      <4> HIDE DEF Sending
      <4> QED BY <1>1, <2>1, <2>2, <2>4, <2>7 DEF Moving, CallsAreApart
    <3> HIDE DEF Moving, Waiting, Replies
    <3> QED BY <2>1, <2>5, <2>7, <3>1, <3>2, RepliesGivenUp
  <2> QED BY <2>1, <2>6, <2>7 DEF c
<1>19. CASE ReplayBacklog
  <2>1. /\ UNCHANGED <<kind, received, lost, toClient, half, stdin>> /\ backlog # <<>>
        /\ mcp'.pc = mcp.pc /\ mcp'.call = mcp.call
        /\ \/ kind[Head(backlog)] # "reply" /\ backlog' = Tail(backlog) /\ up' = up
           \/ up' = Append(up, Head(backlog)) /\ backlog' = Tail(backlog)
           \/ up' = up /\ backlog' = backlog
    BY <1>1, <1>19, ResolveStays DEF ReplayBacklog, Abandon
  <2> DEFINE c == Head(backlog)
  <2>2. /\ c \in Nat /\ c # 0 /\ Contents(backlog) = {c} \cup Contents(Tail(backlog))
    BY <1>2, <1>3, <1>4, <1>5, <2>1
  <2>3. Contents(Append(up, c)) = Contents(up) \cup {c}
    BY <1>2, <2>2, ContentsAndLast
  <2> HIDE DEF c
  <2>4. Sending' = Sending  BY <2>1 DEF Sending
  <2>5. Waiting' = Waiting  BY <2>1, WaitingStays
  <2>6. \/ kind[c] # "reply" /\ backlog' = Tail(backlog) /\ up' = up
        \/ up' = Append(up, c) /\ backlog' = Tail(backlog)
        \/ up' = up /\ backlog' = backlog
    BY <2>1 DEF c
  <2>7. Moving' \subseteq Moving /\ \A b \in Moving : b \in Moving' \/ (b = c /\ kind[c] # "reply")
    <3> HIDE DEF Sending
    <3> QED BY <2>1, <2>2, <2>3, <2>4, <2>6 DEF Moving
  <2> HIDE DEF Moving, Waiting
  <2> QED BY <2>1, <2>5, <2>7, RepliesStay
<1>20. CASE SendOutbound
  <2>1. /\ UNCHANGED <<kind, received, lost, half, stdin>> /\ toClient # <<>>
        /\ mcp'.pc = mcp.pc /\ mcp'.call = mcp.call /\ toClient' = Tail(toClient)
        /\ \/ up' = Append(up, Head(toClient)) /\ backlog' = backlog
           \/ kind[Head(toClient)] # "reply" /\ up' = up /\ backlog' = backlog
           \/ up' = up /\ backlog' = Append(backlog, Head(toClient))
    BY <1>1, <1>20, ResolveStays DEF SendOutbound, LeaveServing, Abandon
  <2> DEFINE c == Head(toClient)
  <2>2. /\ c \in Nat /\ c # 0 /\ Contents(toClient) = {c} \cup Contents(toClient')
    BY <1>2, <1>3, <1>4, <1>5, <2>1
  <2>3. /\ Contents(Append(up, c)) = Contents(up) \cup {c}
        /\ Contents(Append(backlog, c)) = Contents(backlog) \cup {c}
    BY <1>2, <2>2, ContentsAndLast
  <2> HIDE DEF c
  <2>4. Sending' = Sending  BY <2>1 DEF Sending
  <2>5. Waiting' = Waiting  BY <2>1, WaitingStays
  <2>6. \/ up' = Append(up, c) /\ backlog' = backlog
        \/ kind[c] # "reply" /\ up' = up /\ backlog' = backlog
        \/ up' = up /\ backlog' = Append(backlog, c)
    BY <2>1 DEF c
  <2>7. Moving' \subseteq Moving /\ \A b \in Moving : b \in Moving' \/ (b = c /\ kind[c] # "reply")
    <3> HIDE DEF Sending
    <3> QED BY <2>1, <2>2, <2>3, <2>4, <2>6 DEF Moving
  <2> HIDE DEF Moving, Waiting
  <2> QED BY <2>1, <2>5, <2>7, RepliesStay
<1>21. CASE Serve
  <2>1. /\ UNCHANGED <<kind, lost, toClient, backlog, mcp, half, stdin>> /\ up # <<>>
        /\ up' = Tail(up)
        /\ received' = IF kind[Head(up)] = "reply" THEN Append(received, Head(up)) ELSE received
    BY <1>21 DEF Serve
  <2> DEFINE c == Head(up)
             H == Replies({c})
  <2>2. /\ c \in Nat /\ c # 0 /\ Contents(up) = {c} \cup Contents(up')
    BY <1>2, <1>3, <1>4, <1>5, <2>1
  <2>3. Contents(received)' = Contents(received) \cup H
    <3>1. Contents(Append(received, c)) = Contents(received) \cup {c}
      BY <1>2, <2>2, ContentsAndLast
    <3>2. CASE kind[c] = "reply"
      <4>1. H = {c}  BY <3>2 DEF Replies
      <4> QED BY <2>1, <3>1, <3>2, <4>1
    <3>3. CASE kind[c] # "reply"
      <4>1. H = {}  BY <3>3 DEF Replies
      <4> QED BY <2>1, <3>3, <4>1
    <3> QED BY <3>2, <3>3
  <2> HIDE DEF c
  <2>4. Sending' = Sending  BY <2>1 DEF Sending
  <2>5. Waiting' = Waiting  BY <2>1, WaitingStays
  <2>6. Moving = Moving' \cup {c}
    <3> HIDE DEF Sending
    <3> QED BY <2>1, <2>2, <2>4 DEF Moving
  <2> HIDE DEF Moving, Waiting
  <2>7. /\ H \subseteq Replies(Moving) /\ lost' = lost \cup Replies({})
        /\ \A b \in Moving : kind[b] = "reply" => b \in Moving' \cup H \cup {}
    BY <2>1, <2>6 DEF Replies
  <2>8. /\ {} \subseteq Moving /\ {} \cap H = {} /\ {} \cap (Moving' \cup Waiting') = {}
        /\ Moving' \cup Waiting' \subseteq Moving \cup Waiting
    BY <2>5, <2>6
  <2> HIDE DEF H, Replies
  <2> QED BY <2>1, <2>3, <2>7, <2>8, RepliesMoveOn
<1>22. CASE Break
  <2>1. /\ UNCHANGED <<kind, received, toClient, backlog, mcp, half, stdin>>
        /\ up' = <<>> /\ lost' = lost \cup Replies(ToSet(up))
    BY <1>22 DEF Break
  <2>2. ToSet(up) = Contents(up)
    <3>1. 0 \notin ToSet(up)  BY <1>3, ElementsAreTyped DEF Calls
    <3> QED BY <3>1, SetIsContents
  <2>3. Sending' = Sending  BY <2>1 DEF Sending
  <2>4. Waiting' = Waiting  BY <2>1, WaitingStays
  <2>5. Moving' = Contents(Sending) \cup Contents(toClient) \cup Contents(backlog)
    <3> HIDE DEF Sending
    <3> QED BY <2>1, <2>3, EmptySequence DEF Moving
  <2>6. Moving = Moving' \cup Contents(up)
    <3> HIDE DEF Sending
    <3> QED BY <2>5 DEF Moving
  <2>7. Contents(up) \cap Moving' = {}
    <3> HIDE DEF Moving, Sending
    <3> QED BY <1>1, <2>5 DEF CallsAreApart
  <2> HIDE DEF Moving, Waiting, Replies
  <2> QED BY <2>1, <2>2, <2>4, <2>6, <2>7, RepliesGivenUp
<1>23. CASE SendInitialize \/ ReadGreeting \/ ClaudeExits
  BY <1>13, <1>23 DEF SendInitialize, ReadGreeting, ClaudeExits
<1> QED
  BY <1>7, <1>8, <1>9, <1>10, <1>11, <1>12, <1>14, <1>15, <1>16, <1>17, <1>18, <1>19, <1>20,
     <1>21, <1>22, <1>23, CallOutcome
  DEF Next, McpStep, ClientStep, ClaudeStep

----------------------------------------------------------------------------
(* The stages of messages and replies in their handovers.                  *)

\* Where a message and a reply are in their handovers.
MessageAt(m) == Stage(m, WhereMessages)
ReplyAt(c)   == Stage(c, WhereReplies)

\* The stage of a message by the place on the line it is in.
MessageStages ==
  \A m \in Messages :
     /\ m \notin Contents(heard) \cup OnTheWay \cup dropped => MessageAt(m) = "fresh"
     /\ m \in OnTheWay => MessageAt(m) = "held"
     /\ m \in Contents(heard) => MessageAt(m) = "delivered"
     /\ m \in dropped => MessageAt(m) = "lost"

\* The stage of a reply.
ReplyStages ==
  \A c \in Calls :
     /\ c \notin Contents(received) \cup Replies(Moving) \cup lost => ReplyAt(c) = "fresh"
     /\ c \in Replies(Moving) => ReplyAt(c) = "held"
     /\ c \in Contents(received) => ReplyAt(c) = "delivered"
     /\ c \in lost => ReplyAt(c) = "lost"

\* It follows from the places.
LEMMA MessagesHaveStages ==
  TypeOK /\ PlaceInv /\ MessagesInv /\ MessagesPlaced => MessageStages
<1> SUFFICES ASSUME TypeOK, PlaceInv, MessagesInv, MessagesPlaced, NEW m \in Messages
             PROVE  /\ m \notin Contents(heard) \cup OnTheWay \cup dropped
                         => MessageAt(m) = "fresh"
                    /\ m \in OnTheWay => MessageAt(m) = "held"
                    /\ m \in Contents(heard) => MessageAt(m) = "delivered"
                    /\ m \in dropped => MessageAt(m) = "lost"
  BY DEF MessageStages
<1> DEFINE w == WhereMessages
<1>1. /\ DOMAIN w = {"held", "delivered", "lost"} /\ w["held"] = OnTheWay
      /\ w["delivered"] = Contents(heard) /\ w["lost"] = dropped
  BY MessagesWhere DEF MessagesAreWhere
<1>2. /\ OnTheWay \cap Contents(heard) = {} /\ OnTheWay \cap dropped = {}
      /\ Contents(heard) \cap dropped = {}
  <2>1. Contents(heard) \cap OnTheWay = {}  BY HeardIsApart DEF HeardApart
  <2> HIDE DEF OnTheWay
  <2> QED BY <2>1 DEF MessagesPlaced
<1>3. MessageAt(m) = LET at == {s \in DOMAIN w : m \in w[s]}
                     IN  CASE at = {} -> "fresh"
                           [] Cardinality(at) = 1 -> CHOOSE s \in at : TRUE
                           [] OTHER -> "several"
  BY DEF MessageAt, Stage
<1> HIDE DEF w, OnTheWay
<1>4. /\ (\A s \in DOMAIN w : m \notin w[s]) => MessageAt(m) = "fresh"
      /\ \A s \in DOMAIN w : m \in w[s] => MessageAt(m) = s
  BY <1>1, <1>2, <1>3, StageOf
<1> QED BY <1>1, <1>4

\* The same after a step.
LEMMA MessagesHaveStagesNext ==
  TypeOK' /\ PlaceInv' /\ MessagesInv' /\ MessagesPlaced' => MessageStages'
BY MessagesHaveStages, PTL

\* It follows from the places.
LEMMA RepliesHaveStages ==
  TypeOK /\ PlaceInv /\ CallsInv /\ RepliesPlaced => ReplyStages
<1> SUFFICES ASSUME TypeOK, PlaceInv, CallsInv, RepliesPlaced, NEW c \in Calls
             PROVE  /\ c \notin Contents(received) \cup Replies(Moving) \cup lost
                         => ReplyAt(c) = "fresh"
                    /\ c \in Replies(Moving) => ReplyAt(c) = "held"
                    /\ c \in Contents(received) => ReplyAt(c) = "delivered"
                    /\ c \in lost => ReplyAt(c) = "lost"
  BY DEF ReplyStages
<1> DEFINE w == WhereReplies
<1>1. /\ DOMAIN w = {"held", "delivered", "lost"} /\ w["held"] = Replies(Moving)
      /\ w["delivered"] = Contents(received) /\ w["lost"] = lost
  BY RepliesWhere DEF RepliesAreWhere
<1>2. /\ Replies(Moving) \cap Contents(received) = {} /\ Replies(Moving) \cap lost = {}
      /\ Contents(received) \cap lost = {}
  <2>1. Contents(received) \cap Moving = {}  BY CallsApart DEF CallsAreApart
  <2>2. Replies(Moving) \subseteq Moving  BY DEF Replies
  <2> HIDE DEF Moving, Waiting, Replies
  <2> QED BY <2>1, <2>2 DEF RepliesPlaced
<1>3. ReplyAt(c) = LET at == {s \in DOMAIN w : c \in w[s]}
                   IN  CASE at = {} -> "fresh"
                         [] Cardinality(at) = 1 -> CHOOSE s \in at : TRUE
                         [] OTHER -> "several"
  BY DEF ReplyAt, Stage
<1> HIDE DEF w, Moving, Replies
<1>4. /\ (\A s \in DOMAIN w : c \notin w[s]) => ReplyAt(c) = "fresh"
      /\ \A s \in DOMAIN w : c \in w[s] => ReplyAt(c) = s
  BY <1>1, <1>2, <1>3, StageOf
<1> QED BY <1>1, <1>4

\* The same after a step.
LEMMA RepliesHaveStagesNext ==
  TypeOK' /\ PlaceInv' /\ CallsInv' /\ RepliesPlaced' => ReplyStages'
BY RepliesHaveStages, PTL

\* The daemon routes one message at a time.
LEMMA RoutedGrows == ASSUME TypeOK, Next PROVE routed' \in {routed, routed + 1} /\ routed \in Nat
<1>1. routed \in Nat  BY DEF TypeOK
<1>2. McpStep => routed' = routed
  BY DEF McpStep, ReadGreeting, Initialize, ReplayOne, ReplayDone, TakeMessage, ReadPart,
         ReadLine, EndOfInput, SendItem, SendRefused, QueryEnds
<1>3. ClientStep => routed' = routed
  BY DEF ClientStep, Connect, ConnectFails, BufferDuringBackoff, BackoffOver,
         ReplyChannelClosed, Greet, ReplayBacklog, ReplayedAll, SendOutbound, Receive,
         PutMessage, SeeEnd, LeaveServing, Abandon
<1>4. ClaudeStep \/ Serve \/ Break => routed' = routed
  BY DEF ClaudeStep, SendInitialize, ClaudeExits, Call, Serve, Break
<1>5. Route => routed' = routed + 1  BY DEF Route
<1> QED BY <1>1, <1>2, <1>3, <1>4, <1>5 DEF Next

----------------------------------------------------------------------------
(* What is handed over, once.                                              *)

\* The invariant of the handovers.
HandInv == IInv /\ LinkInv /\ MessagesPlaced /\ RepliesPlaced

\* At first nothing is on the way.
LEMMA HandBegins == Init => HandInv
<1> SUFFICES ASSUME Init PROVE HandInv
  OBVIOUS
<1>1. LinkInv  BY DEF Init, LinkInv
<1>2. /\ heard = <<>> /\ received = <<>> /\ OnTheWay = {} /\ Moving = {} /\ Waiting = {}
  <2>1. Holding = <<>> /\ Sending = <<>> /\ Begun = <<>>  BY DEF Init, Holding, Sending, Begun
  <2> HIDE DEF Holding, Sending, Begun
  <2> QED BY <2>1, EmptySequence DEF Init, OnTheWay, Moving, Waiting
<1>3. MessagesPlaced  BY <1>2, EmptySequence DEF Init, MessagesPlaced
<1>4. RepliesPlaced  BY <1>2, EmptySequence DEF Init, RepliesPlaced
<1> QED BY <1>1, <1>3, <1>4, Begins DEF HandInv

\* A step keeps the invariant and hands over what it takes.
LEMMA HandStep ==
  ASSUME HandInv, Next PROVE HandInv' /\ MessagesHanded /\ RepliesHanded
<1>1. IInv'  BY Goes DEF HandInv
<1>2. MessagesBase /\ RepliesBase /\ LinkInv
  BY <1>1 DEF HandInv, IInv, MessagesBase, RepliesBase
<1>3. LinkInv'
  <2>1. TypeOK  BY DEF HandInv, IInv
  <2> QED BY <1>2, <2>1, LinkStep
<1>4. MessagesPlaced' /\ MessagesHanded  BY <1>2, MessagesPlacedStep DEF MessagesOutcome
<1>5. RepliesPlaced' /\ RepliesHanded  BY <1>2, RepliesPlacedStep DEF RepliesOutcome
<1> QED BY <1>1, <1>3, <1>4, <1>5 DEF HandInv

\* A step that changes nothing leaves everything in its place.
LEMMA HandStutter ==
  ASSUME UNCHANGED vars
  PROVE  /\ HandInv => HandInv'
         /\ WhereMessages' = WhereMessages /\ WhereReplies' = WhereReplies
<1>1. HandInv => IInv'  BY Goes DEF HandInv
<1>2. LinkInv => LinkInv'  BY DEF vars, LinkInv
<1>3. MessagesPlaced => MessagesPlaced'
  <2>1. Holding' = Holding  BY DEF vars, Holding
  <2> HIDE DEF Holding
  <2> QED BY <2>1 DEF vars, MessagesPlaced, OnTheWay
<1>4. RepliesPlaced => RepliesPlaced'
  <2>1. Sending' = Sending /\ Begun' = Begun  BY DEF vars, Sending, Begun
  <2> HIDE DEF Sending, Begun
  <2> QED BY <2>1 DEF vars, RepliesPlaced, Moving, Waiting, Made
<1>5. WhereMessages' = WhereMessages  BY DEF vars, WhereMessages
<1>6. WhereReplies' = WhereReplies  BY DEF vars, WhereReplies, Replies
<1> QED BY <1>1, <1>2, <1>3, <1>4, <1>5, <1>6 DEF HandInv

\* A step takes a message to the next place or leaves it.
LEMMA MessageSteps ==
  ASSUME HandInv, HandInv', MessagesHanded, routed' \in {routed, routed + 1}, routed \in Nat,
         NEW m \in Messages
  PROVE  /\ MessageAt(m)' \in Messages_!Stages
         /\ \/ MessageAt(m)' = MessageAt(m)
            \/ <<MessageAt(m), MessageAt(m)'>> \in Messages_!Moves
<1>1. MessageStages /\ MessageStages'
  <2>1. TypeOK /\ PlaceInv /\ MessagesInv /\ MessagesPlaced  BY DEF HandInv, IInv
  <2>2. TypeOK' /\ PlaceInv' /\ MessagesInv' /\ MessagesPlaced'  BY DEF HandInv, IInv
  <2> QED BY <2>1, <2>2, MessagesHaveStages, MessagesHaveStagesNext
<1> DEFINE a == MessageAt(m)
           aa == MessageAt(m)'
           h == Contents(heard)
           hh == Contents(heard)'
           w == OnTheWay
           ww == OnTheWay'
<1>2. /\ m \notin h \cup w \cup dropped => a = "fresh"
      /\ m \in w => a = "held"
      /\ m \in h => a = "delivered"
      /\ m \in dropped => a = "lost"
  BY <1>1 DEF MessageStages
<1>3. /\ m \notin hh \cup ww \cup dropped' => aa = "fresh"
      /\ m \in ww => aa = "held"
      /\ m \in hh => aa = "delivered"
      /\ m \in dropped' => aa = "lost"
  BY <1>1 DEF MessageStages
<1>4. 1..routed = h \cup w \cup dropped /\ 1..routed' = hh \cup ww \cup dropped'
  BY DEF HandInv, MessagesPlaced
<1>5. /\ h \subseteq hh /\ dropped \subseteq dropped'
      /\ hh \cup dropped' \subseteq h \cup dropped \cup w
  BY DEF MessagesHanded
<1>6. 1..routed \subseteq 1..routed'  OBVIOUS
<1> HIDE DEF a, aa, h, hh, w, ww
<1>7. /\ m \in w => m \in ww \cup hh \cup dropped'
      /\ m \in hh \cup dropped' => m \in h \cup dropped \cup w
      /\ m \in h => m \in hh
      /\ m \in dropped => m \in dropped'
  BY <1>4, <1>5, <1>6
<1>8. aa \in Messages_!Stages /\ (aa = a \/ <<a, aa>> \in Messages_!Moves)
  BY <1>2, <1>3, <1>7 DEF Messages_!Stages, Messages_!Moves
<1> QED BY <1>8 DEF a, aa

\* A step takes a reply to the next place or leaves it.
LEMMA ReplySteps ==
  ASSUME HandInv, HandInv', RepliesHanded, NEW c \in Calls
  PROVE  /\ ReplyAt(c)' \in Replies_!Stages
         /\ \/ ReplyAt(c)' = ReplyAt(c)
            \/ <<ReplyAt(c), ReplyAt(c)'>> \in Replies_!Moves
<1>1. ReplyStages /\ ReplyStages'
  <2>1. TypeOK /\ PlaceInv /\ CallsInv /\ RepliesPlaced  BY DEF HandInv, IInv
  <2>2. TypeOK' /\ PlaceInv' /\ CallsInv' /\ RepliesPlaced'  BY DEF HandInv, IInv
  <2> QED BY <2>1, <2>2, RepliesHaveStages, RepliesHaveStagesNext
<1> DEFINE a == ReplyAt(c)
           aa == ReplyAt(c)'
           r == Contents(received)
           rr == Contents(received)'
           w == Replies(Moving)
           ww == Replies(Moving)'
<1>2. /\ c \notin r \cup w \cup lost => a = "fresh"
      /\ c \in w => a = "held"
      /\ c \in r => a = "delivered"
      /\ c \in lost => a = "lost"
  BY <1>1 DEF ReplyStages
<1>3. /\ c \notin rr \cup ww \cup lost' => aa = "fresh"
      /\ c \in ww => aa = "held"
      /\ c \in rr => aa = "delivered"
      /\ c \in lost' => aa = "lost"
  BY <1>1 DEF ReplyStages
<1>4. /\ r \subseteq rr /\ lost \subseteq lost' /\ rr \cup lost' \subseteq r \cup lost \cup w
      /\ w \subseteq ww \cup rr \cup lost'
  BY DEF RepliesHanded
<1> HIDE DEF a, aa, r, rr, w, ww
<1>5. aa \in Replies_!Stages /\ (aa = a \/ <<a, aa>> \in Replies_!Moves)
  BY <1>2, <1>3, <1>4 DEF Replies_!Stages, Replies_!Moves
<1> QED BY <1>5 DEF a, aa

\* At first no message is routed and no call made.
LEMMA HandoversBegin == Init => Messages_!Init /\ Replies_!Init
<1> SUFFICES ASSUME Init PROVE Messages_!Init /\ Replies_!Init
  OBVIOUS
<1>1. HandInv  BY HandBegins
<1>2. MessageStages /\ ReplyStages
  <2>1. TypeOK /\ PlaceInv /\ MessagesInv /\ MessagesPlaced /\ CallsInv /\ RepliesPlaced
    BY <1>1 DEF HandInv, IInv
  <2> QED BY <2>1, MessagesHaveStages, RepliesHaveStages
<1>3. /\ Contents(heard) = {} /\ OnTheWay = {} /\ dropped = {}
      /\ Contents(received) = {} /\ Replies(Moving) = {} /\ lost = {}
  <2>1. Holding = <<>> /\ Sending = <<>>  BY DEF Init, Holding, Sending
  <2>2. OnTheWay = {}
    <3> HIDE DEF Holding
    <3> QED BY <2>1, EmptySequence DEF Init, OnTheWay
  <2>3. Moving = {}
    <3> HIDE DEF Sending
    <3> QED BY <2>1, EmptySequence DEF Init, Moving
  <2> QED BY <2>2, <2>3, EmptySequence DEF Init, Replies
<1>4. (\A m \in Messages : MessageAt(m) = "fresh") /\ \A c \in Calls : ReplyAt(c) = "fresh"
  <2> HIDE DEF OnTheWay, Moving, MessageAt, ReplyAt
  <2> QED BY <1>2, <1>3 DEF MessageStages, ReplyStages
<1>5. Messages_!Init  BY <1>4 DEF MessageAt, Messages_!Init
<1>6. Replies_!Init  BY <1>4 DEF ReplyAt, Replies_!Init
<1> QED BY <1>5, <1>6

\* The loops implement the handover of messages: each is routed once, then waits in the
\* socket, the client, the channel or the buffer, and is then heard by Claude, once, or given
\* up for good, whatever breaks and whoever ends.
THEOREM MessagesHandedOver == Spec => MessagesAreHandedOver
<1>1. HandInv /\ Next => Messages_!Next
  <2> SUFFICES ASSUME HandInv, Next PROVE Messages_!Next
    OBVIOUS
  <2>1. /\ HandInv' /\ MessagesHanded /\ routed' \in {routed, routed + 1} /\ routed \in Nat
    BY HandStep, RoutedGrows DEF HandInv, IInv
  <2>2. \A m \in Messages :
          /\ MessageAt(m)' \in Messages_!Stages
          /\ MessageAt(m)' = MessageAt(m) \/ <<MessageAt(m), MessageAt(m)'>> \in Messages_!Moves
    BY <2>1, MessageSteps
  <2> QED BY <2>2 DEF MessageAt, Messages_!Next
<1>2. HandInv /\ [Next]_vars
        => HandInv' /\ (Messages_!Next \/ UNCHANGED [m \in Messages |-> Stage(m, WhereMessages)])
  <2>1. CASE Next  BY <1>1, <2>1, HandStep
  <2>2. CASE UNCHANGED vars
    <3>1. WhereMessages' = WhereMessages /\ (HandInv => HandInv')  BY <2>2, HandStutter
    <3>2. UNCHANGED [m \in Messages |-> Stage(m, WhereMessages)]  BY <3>1 DEF Stage
    <3> QED BY <3>1, <3>2
  <2> QED BY <2>1, <2>2
<1>3. Init => HandInv /\ Messages_!Init  BY HandBegins, HandoversBegin
<1> QED BY <1>2, <1>3, PTL DEF Spec, MessagesAreHandedOver, Messages_!Spec

\* The loops implement the handover of replies: each that Claude made is sent on once, waits
\* in the channel, the backlog or the socket, and is then received by the daemon, once, or
\* given up for good, through back-off, overflow and a replay that fails half-way.
THEOREM RepliesHandedOver == Spec => RepliesAreHandedOver
<1>1. HandInv /\ Next => Replies_!Next
  <2> SUFFICES ASSUME HandInv, Next PROVE Replies_!Next
    OBVIOUS
  <2>1. HandInv' /\ RepliesHanded  BY HandStep
  <2>2. \A c \in Calls :
          /\ ReplyAt(c)' \in Replies_!Stages
          /\ ReplyAt(c)' = ReplyAt(c) \/ <<ReplyAt(c), ReplyAt(c)'>> \in Replies_!Moves
    BY <2>1, ReplySteps
  <2> QED BY <2>2 DEF ReplyAt, Replies_!Next
<1>2. HandInv /\ [Next]_vars
        => HandInv' /\ (Replies_!Next \/ UNCHANGED [c \in Calls |-> Stage(c, WhereReplies)])
  <2>1. CASE Next  BY <1>1, <2>1, HandStep
  <2>2. CASE UNCHANGED vars
    <3>1. WhereReplies' = WhereReplies /\ (HandInv => HandInv')  BY <2>2, HandStutter
    <3>2. UNCHANGED [c \in Calls |-> Stage(c, WhereReplies)]  BY <3>1 DEF Stage
    <3> QED BY <3>1, <3>2
  <2> QED BY <2>1, <2>2
<1>3. Init => HandInv /\ Replies_!Init  BY HandBegins, HandoversBegin
<1> QED BY <1>2, <1>3, PTL DEF Spec, RepliesAreHandedOver, Replies_!Spec
=============================================================================
