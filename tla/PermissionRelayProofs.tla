------------------------ MODULE PermissionRelayProofs ------------------------
(***************************************************************************)
(* Theorems about the permission relay, for every number of requests,      *)
(* connections, restarts and retries and every size of the buffers.        *)
(***************************************************************************)
EXTENDS PermissionRelay, Lines, TLAPS

----------------------------------------------------------------------------
(* The inductive invariant.                                                *)

BridgeTypes ==
  /\ asked \in 0..MaxRequests /\ awaiting \subseteq Requests
  /\ told \in [Requests -> Seq(Behaviors)]
  /\ outbound \in Seq(Requests) /\ backlog \in Seq(Requests) /\ inbound \in Seq(Verdicts)
  /\ Len(backlog) <= BackoffCap

ClientTypes ==
  client \in [pc: {"connecting", "greeting", "replaying", "serving", "backoff", "ended"},
              conn: 0..MaxConns, attempt: 0..MaxRetries]

Connections ==
  [handler: {"none", "accepted", "replaying", "open", "closed"},
   link: BOOLEAN, sender: BOOLEAN, up: Seq(Requests \cup {Hello}),
   down: Seq(Verdicts), out: Seq(Verdicts), hands: Seq(Verdicts)]

ConnTypes == conn \in [Conns -> Connections]

DaemonTypes ==
  /\ running \in BOOLEAN /\ restarts \in 0..MaxRestarts
  /\ attached \in Conns \cup {None}
  /\ stored \subseteq Requests /\ aged \subseteq stored
  /\ verdicts \in Seq(Verdicts) /\ Len(verdicts) <= VerdictMax
  /\ answer \in [Requests -> Behaviors \cup {"none"}]

\* The command loop has a verdict unless it is idle.
CommandTypes ==
  \/ command = Idle
  \/ command \in [pc: {"sdk", "send", "buffer"}, verdict: Verdicts, to: Conns \cup {None}]

LostTypes == lost \in [Requests -> Causes \cup {"no"}]

Types ==
  /\ BridgeTypes /\ ClientTypes /\ ConnTypes /\ DaemonTypes /\ CommandTypes /\ LostTypes

Agree(a, s) == \A i \in DOMAIN s : a[s[i].id] = s[i].behavior

Unanswered(a, S) == \A r \in Requests : r \in S => a[r] = "none"

\* What the client's position says of its connection, its backlog and its attempts.
ClientInv ==
  /\ client.pc \in {"greeting", "replaying", "serving"} => client.conn # 0
  /\ At("serving") => backlog = <<>>
  /\ ~At("ended") => client.attempt < MaxRetries

\* The greeting is the first thing on a connection, the handler reads it before anything
\* else, and holds verdicts only while it replays them.
Greeting(cl, c, k) ==
  /\ \A i \in DOMAIN k.up : k.up[i] = Hello <=> i = 1 /\ k.handler = "accepted"
  /\ c = cl.conn /\ cl.pc = "greeting" =>
       k.up = <<>> /\ (k.link => k.handler = "accepted")
  /\ /\ c = cl.conn /\ cl.pc \in {"replaying", "serving"}
     /\ k.link /\ k.handler = "accepted"
     => k.up # <<>>
  /\ k.handler # "replaying" => k.hands = <<>>

\* Connection c when the client is at cl and the user has given the answers a.
Sound(cl, a, c, k) ==
  /\ Once(k.up) /\ OnceById(k.hands) /\ OnceById(k.out) /\ OnceById(k.down)
  /\ Unanswered(a, ToSet(k.up))
  /\ Agree(a, k.hands) /\ Agree(a, k.out) /\ Agree(a, k.down)
  /\ Greeting(cl, c, k)
  /\ c > cl.conn => k = Conn("none", FALSE)
  /\ k.handler = "none" => c > cl.conn

ConnInv == \A c \in Conns : Sound(client, answer, c, conn[c])

\* What the bridge holds is held once and not answered, or says what the user answered.
BridgeInv ==
  /\ Once(outbound) /\ Once(backlog) /\ OnceById(inbound)
  /\ Unanswered(answer, ToSet(outbound)) /\ Unanswered(answer, ToSet(backlog))
  /\ Agree(answer, inbound)

\* And what the daemon holds.
StoreInv ==
  /\ OnceById(verdicts)
  /\ Unanswered(answer, stored) /\ Agree(answer, verdicts)
  /\ command # Idle => answer[command.verdict.id] = command.verdict.behavior

\* Claude waits for r, and r has not been given up.
Alive(r) == r \in awaiting /\ lost[r] = "no"

PlaceInv ==
  /\ \A p, q \in Places : p # q => In(p) \cap In(q) = {}
  /\ \A r \in Requests : Alive(r) <=> \E p \in Places : r \in In(p)

\* What Claude has not asked yet, and what it waits for.
AskedInv ==
  \A r \in Requests :
    /\ r > asked => r \notin awaiting /\ told[r] = <<>> /\ answer[r] = "none" /\ lost[r] = "no"
    /\ r \in awaiting => told[r] = <<>>

\* What is on its way to the daemon, from the connection back to the channel.
Sent == IF client.conn = 0 THEN <<>> ELSE conn[client.conn].up

Queue == <<Sent, backlog, outbound>>

QueueInv == InLine(3, Queue)

IInv ==
  /\ Types /\ ClientInv /\ ConnInv /\ BridgeInv /\ StoreInv /\ PlaceInv
  /\ AskedInv /\ ToldWhatTheUserSaid /\ QueueInv

----------------------------------------------------------------------------
(* What is in a sequence of requests, and in a sequence of verdicts.       *)

\* A sequence holds its head and what follows it.
LEMMA HeadIsTaken ==
  ASSUME NEW S, NEW s \in Seq(S), s # <<>>
  PROVE  /\ Head(s) \in S /\ Tail(s) \in Seq(S) /\ Len(Tail(s)) = Len(s) - 1
         /\ ToSet(s) = {Head(s)} \cup ToSet(Tail(s))
         /\ Once(s) => Once(Tail(s)) /\ Head(s) \notin ToSet(Tail(s))
<1>1. /\ Head(s) \in S /\ Tail(s) \in Seq(S) /\ Len(Tail(s)) = Len(s) - 1
      /\ Len(s) \in Nat \ {0} /\ Head(s) = s[1]
      /\ DOMAIN s = 1..Len(s) /\ DOMAIN Tail(s) = 1..(Len(s) - 1)
      /\ \A i \in 1..(Len(s) - 1) : Tail(s)[i] = s[i + 1]
  OBVIOUS
<1>2. ASSUME NEW i \in DOMAIN Tail(s)
      PROVE  i + 1 \in DOMAIN s /\ i + 1 # 1 /\ Tail(s)[i] = s[i + 1]
  BY <1>1
<1>3. ASSUME NEW x \in ToSet(s), x # Head(s) PROVE x \in ToSet(Tail(s))
  <2>1. PICK i \in DOMAIN s : x = s[i]  BY DEF ToSet
  <2>2. i - 1 \in DOMAIN Tail(s) /\ Tail(s)[i - 1] = x  BY <1>1, <1>3, <2>1
  <2> QED BY <2>2 DEF ToSet
<1>4. ToSet(s) = {Head(s)} \cup ToSet(Tail(s))
  <2>1. Head(s) \in ToSet(s)  BY <1>1 DEF ToSet
  <2>2. ToSet(Tail(s)) \subseteq ToSet(s)  BY <1>2 DEF ToSet
  <2> QED BY <1>3, <2>1, <2>2
<1>5. ASSUME Once(s) PROVE Once(Tail(s)) /\ Head(s) \notin ToSet(Tail(s))
  <2>1. Once(Tail(s))
    <3>1. ASSUME NEW i \in DOMAIN Tail(s), NEW j \in DOMAIN Tail(s), Tail(s)[i] = Tail(s)[j]
          PROVE  i = j
      <4>1. i + 1 = j + 1  BY <1>2, <1>5, <3>1 DEF Once
      <4> QED BY <1>1, <4>1
    <3> QED BY <3>1 DEF Once
  <2>2. ASSUME NEW i \in DOMAIN Tail(s), Tail(s)[i] = Head(s) PROVE FALSE
    BY <1>1, <1>2, <1>5, <2>2 DEF Once
  <2> QED BY <2>1, <2>2 DEF ToSet
<1> QED BY <1>1, <1>4, <1>5

\* A sequence to which something is added.
LEMMA LastIsPut ==
  ASSUME NEW S, NEW s \in Seq(S), NEW x \in S
  PROVE  /\ Append(s, x) \in Seq(S) /\ Len(Append(s, x)) = Len(s) + 1
         /\ ToSet(Append(s, x)) = ToSet(s) \cup {x}
         /\ Once(s) /\ x \notin ToSet(s) => Once(Append(s, x))
<1>1. /\ Append(s, x) \in Seq(S) /\ Len(Append(s, x)) = Len(s) + 1 /\ Len(s) \in Nat
      /\ DOMAIN s = 1..Len(s) /\ DOMAIN Append(s, x) = 1..(Len(s) + 1)
      /\ \A i \in 1..Len(s) : Append(s, x)[i] = s[i]
      /\ Append(s, x)[Len(s) + 1] = x
  OBVIOUS
<1>2. ToSet(Append(s, x)) = ToSet(s) \cup {x}
  <2>1. ASSUME NEW y \in ToSet(Append(s, x)) PROVE y \in ToSet(s) \cup {x}
    BY <1>1 DEF ToSet
  <2>2. ASSUME NEW y \in ToSet(s) PROVE y \in ToSet(Append(s, x))
    <3>1. PICK i \in DOMAIN s : y = s[i]  BY DEF ToSet
    <3>2. i \in DOMAIN Append(s, x) /\ Append(s, x)[i] = y  BY <1>1, <3>1
    <3> QED BY <3>2 DEF ToSet
  <2>3. x \in ToSet(Append(s, x))
    <3>1. Len(s) + 1 \in DOMAIN Append(s, x)  BY <1>1
    <3> QED BY <1>1, <3>1 DEF ToSet
  <2> QED BY <2>1, <2>2, <2>3
<1>3. ASSUME Once(s), x \notin ToSet(s),
             NEW i \in DOMAIN Append(s, x), NEW j \in DOMAIN Append(s, x),
             Append(s, x)[i] = Append(s, x)[j]
      PROVE  i = j
  <2>1. \A k \in DOMAIN Append(s, x) :
          \/ k \in DOMAIN s /\ Append(s, x)[k] = s[k] /\ s[k] # x
          \/ k = Len(s) + 1
    BY <1>1, <1>3 DEF ToSet
  <2> QED BY <1>1, <1>3, <2>1 DEF Once
<1> QED BY <1>1, <1>2, <1>3 DEF Once

\* A sequence cut in two.
CutAt(n, s, t, u) == t = SubSeq(s, 1, n) /\ u = SubSeq(s, n + 1, Len(s))

\* Nothing is in both parts of a sequence that holds nothing twice.
LEMMA CutInTwo ==
  ASSUME NEW S, NEW s \in Seq(S), NEW n \in 0..Len(s), NEW t, NEW u, CutAt(n, s, t, u)
  PROVE  /\ t \in Seq(S) /\ u \in Seq(S) /\ Len(t) = n /\ \A i \in 1..n : t[i] = s[i]
         /\ ToSet(s) = ToSet(t) \cup ToSet(u)
         /\ Once(s) => Once(t) /\ ToSet(t) \cap ToSet(u) = {}
<1>1. /\ t \in Seq(S) /\ u \in Seq(S) /\ Len(t) = n /\ Len(u) = Len(s) - n
      /\ DOMAIN t = 1..n /\ DOMAIN u = 1..(Len(s) - n) /\ DOMAIN s = 1..Len(s)
      /\ n \in Nat /\ Len(s) \in Nat /\ n <= Len(s)
      /\ \A i \in 1..n : t[i] = s[i]
      /\ \A i \in 1..(Len(s) - n) : u[i] = s[n + i]
  BY DEF CutAt
<1>2. \A i \in DOMAIN t : i \in DOMAIN s /\ i <= n /\ t[i] = s[i]  BY <1>1
<1>3. \A i \in DOMAIN u : n + i \in DOMAIN s /\ n + i > n /\ u[i] = s[n + i]  BY <1>1
<1>4. ASSUME NEW x \in ToSet(s) PROVE x \in ToSet(t) \cup ToSet(u)
  <2>1. PICK i \in DOMAIN s : x = s[i]  BY DEF ToSet
  <2>2. CASE i <= n
    <3>1. i \in DOMAIN t /\ t[i] = x  BY <1>1, <2>1, <2>2
    <3> QED BY <3>1 DEF ToSet
  <2>3. CASE i > n
    <3>1. i - n \in DOMAIN u /\ u[i - n] = x  BY <1>1, <2>1, <2>3
    <3> QED BY <3>1 DEF ToSet
  <2> QED BY <1>1, <2>1, <2>2, <2>3
<1>5. ToSet(s) = ToSet(t) \cup ToSet(u)
  <2>1. ToSet(t) \subseteq ToSet(s)  BY <1>2 DEF ToSet
  <2>2. ToSet(u) \subseteq ToSet(s)  BY <1>3 DEF ToSet
  <2> QED BY <1>4, <2>1, <2>2
<1>6. ASSUME Once(s) PROVE Once(t) /\ ToSet(t) \cap ToSet(u) = {}
  <2>1. Once(t)  BY <1>2, <1>6 DEF Once
  <2>2. ASSUME NEW i \in DOMAIN t, NEW j \in DOMAIN u, t[i] = u[j] PROVE FALSE
    BY <1>1, <1>2, <1>3, <1>6, <2>2 DEF Once
  <2> QED BY <2>1, <2>2 DEF ToSet
<1> QED BY <1>1, <1>5, <1>6

\* The requests a sequence of verdicts answers.
IdOf == [v \in Verdicts |-> v.id]
Named(s) == Numbered(IdOf, s)

\* What is named is in the verdicts.
LEMMA NamesOfVerdicts ==
  ASSUME NEW s \in Seq(Verdicts)
  PROVE  /\ IdOf \in [Verdicts -> Nat] /\ Named(s) \in Seq(Nat)
         /\ Ids(s) = ToSet(Named(s)) /\ (OnceById(s) <=> Once(Named(s)))
         /\ Ids(s) \subseteq Requests
<1>0. IdOf \in [Verdicts -> Nat]  BY DEF IdOf, Verdicts, Requests
<1>1. /\ Named(s) \in Seq(Nat) /\ Len(Named(s)) = Len(s)
      /\ DOMAIN s = 1..Len(s) /\ DOMAIN Named(s) = 1..Len(s)
      /\ \A i \in 1..Len(s) : Named(s)[i] = s[i].id
  BY <1>0 DEF Named, Numbered, IdOf
<1>2. OnceById(s) <=> Once(Named(s))  BY <1>1 DEF OnceById, Once
<1>3. Ids(s) = ToSet(Named(s))
  <2>1. ASSUME NEW x \in Ids(s) PROVE x \in ToSet(Named(s))
    <3>1. PICK v \in ToSet(s) : x = v.id  BY DEF Ids
    <3>2. PICK i \in DOMAIN s : v = s[i]  BY DEF ToSet
    <3> QED BY <1>1, <3>1, <3>2 DEF ToSet
  <2>2. ASSUME NEW x \in ToSet(Named(s)) PROVE x \in Ids(s)
    <3>1. PICK i \in DOMAIN Named(s) : x = Named(s)[i]  BY DEF ToSet
    <3>2. s[i] \in ToSet(s) /\ x = s[i].id  BY <1>1, <3>1 DEF ToSet
    <3> QED BY <3>2 DEF Ids
  <2> QED BY <2>1, <2>2
<1>4. Ids(s) \subseteq Requests
  <2>1. ToSet(s) \subseteq Verdicts  BY DEF ToSet
  <2> QED BY <2>1 DEF Ids, Verdicts
<1> QED BY <1>0, <1>1, <1>2, <1>3, <1>4

\* No verdicts.
LEMMA NoVerdicts ==
  /\ <<>> \in Seq(Verdicts) /\ Ids(<<>>) = {} /\ OnceById(<<>>)
  /\ \A a : Agree(a, <<>>)
BY DEF Ids, ToSet, OnceById, Agree

\* The first verdict is taken.
LEMMA VerdictIsTaken ==
  ASSUME NEW s \in Seq(Verdicts), s # <<>>
  PROVE  /\ Head(s) \in Verdicts /\ Tail(s) \in Seq(Verdicts)
         /\ Ids(s) = {Head(s).id} \cup Ids(Tail(s))
         /\ OnceById(s) => OnceById(Tail(s)) /\ Head(s).id \notin Ids(Tail(s))
         /\ \A a : Agree(a, s) => Agree(a, Tail(s)) /\ a[Head(s).id] = Head(s).behavior
<1>1. Head(s) \in Verdicts /\ Tail(s) \in Seq(Verdicts)  OBVIOUS
<1>2. Named(s) # <<>> /\ Head(Named(s)) = Head(s).id /\ Named(Tail(s)) = Tail(Named(s))
  <2>1. IdOf \in [Verdicts -> Nat]  BY NamesOfVerdicts
  <2>2. /\ Named(s) # <<>> /\ Head(Named(s)) = IdOf[Head(s)]
        /\ Named(Tail(s)) = Tail(Named(s))
    BY <2>1, NumberedFirst DEF Named
  <2>3. IdOf[Head(s)] = Head(s).id  BY <1>1 DEF IdOf
  <2> QED BY <2>2, <2>3
<1>3. /\ ToSet(Named(s)) = {Head(s).id} \cup ToSet(Named(Tail(s)))
      /\ Once(Named(s)) => /\ Once(Named(Tail(s)))
                          /\ Head(s).id \notin ToSet(Named(Tail(s)))
  <2>1. Named(s) \in Seq(Nat)  BY NamesOfVerdicts
  <2> QED BY <1>2, <2>1, HeadIsTaken
<1>4. /\ Ids(s) = {Head(s).id} \cup Ids(Tail(s))
      /\ OnceById(s) => OnceById(Tail(s)) /\ Head(s).id \notin Ids(Tail(s))
  <2>1. Ids(s) = ToSet(Named(s)) /\ (OnceById(s) <=> Once(Named(s)))  BY NamesOfVerdicts
  <2>2. /\ Ids(Tail(s)) = ToSet(Named(Tail(s)))
        /\ OnceById(Tail(s)) <=> Once(Named(Tail(s)))
    BY <1>1, NamesOfVerdicts
  <2> QED BY <1>3, <2>1, <2>2
<1>5. ASSUME NEW a, Agree(a, s) PROVE Agree(a, Tail(s)) /\ a[Head(s).id] = Head(s).behavior
  <2>1. Head(s) = s[1] /\ 1 \in DOMAIN s
        /\ \A i \in DOMAIN Tail(s) : i + 1 \in DOMAIN s /\ Tail(s)[i] = s[i + 1]
    OBVIOUS
  <2> QED BY <1>5, <2>1 DEF Agree
<1> QED BY <1>1, <1>4, <1>5

\* A verdict is put at the end.
LEMMA VerdictIsPut ==
  ASSUME NEW s \in Seq(Verdicts), NEW v \in Verdicts
  PROVE  /\ Append(s, v) \in Seq(Verdicts)
         /\ Ids(Append(s, v)) = Ids(s) \cup {v.id}
         /\ OnceById(s) /\ v.id \notin Ids(s) => OnceById(Append(s, v))
         /\ \A a : Agree(a, s) /\ a[v.id] = v.behavior => Agree(a, Append(s, v))
<1>1. Append(s, v) \in Seq(Verdicts) /\ IdOf[v] = v.id /\ IdOf[v] \in Nat
  BY NamesOfVerdicts DEF IdOf
<1>2. Named(Append(s, v)) = Append(Named(s), v.id)
  BY <1>1, NumberedLast, NamesOfVerdicts DEF Named
<1>3. /\ ToSet(Named(Append(s, v))) = ToSet(Named(s)) \cup {v.id}
      /\ Once(Named(s)) /\ v.id \notin ToSet(Named(s)) => Once(Named(Append(s, v)))
  <2>1. Named(s) \in Seq(Nat)  BY NamesOfVerdicts
  <2> QED BY <1>1, <1>2, <2>1, LastIsPut
<1>4. /\ Ids(Append(s, v)) = Ids(s) \cup {v.id}
      /\ OnceById(s) /\ v.id \notin Ids(s) => OnceById(Append(s, v))
  <2>1. Ids(s) = ToSet(Named(s)) /\ (OnceById(s) <=> Once(Named(s)))  BY NamesOfVerdicts
  <2>2. /\ Ids(Append(s, v)) = ToSet(Named(Append(s, v)))
        /\ OnceById(Append(s, v)) <=> Once(Named(Append(s, v)))
    BY <1>1, NamesOfVerdicts
  <2> QED BY <1>3, <2>1, <2>2
<1>5. ASSUME NEW a, Agree(a, s), a[v.id] = v.behavior PROVE Agree(a, Append(s, v))
  <2>1. \A i \in DOMAIN Append(s, v) :
          \/ i \in DOMAIN s /\ Append(s, v)[i] = s[i]
          \/ Append(s, v)[i] = v
    OBVIOUS
  <2> QED BY <1>5, <2>1 DEF Agree
<1> QED BY <1>1, <1>4, <1>5

\* Verdicts cut in two.
LEMMA VerdictsAreCut ==
  ASSUME NEW s \in Seq(Verdicts), NEW n \in 0..Len(s), NEW t, NEW u, CutAt(n, s, t, u)
  PROVE  /\ t \in Seq(Verdicts)
         /\ Ids(s) = Ids(t) \cup Ids(u)
         /\ OnceById(s) => OnceById(t) /\ Ids(t) \cap Ids(u) = {}
         /\ \A a : Agree(a, s) => Agree(a, t)
<1>1. /\ t \in Seq(Verdicts) /\ u \in Seq(Verdicts) /\ Len(t) = n /\ Len(u) = Len(s) - n
      /\ n \in Nat /\ Len(s) \in Nat /\ n <= Len(s)
      /\ \A i \in 1..n : t[i] = s[i]
      /\ \A i \in 1..(Len(s) - n) : u[i] = s[n + i]
  BY DEF CutAt
<1>2. Named(s) \in Seq(Nat) /\ Len(Named(s)) = Len(s)
      /\ \A i \in 1..Len(s) : Named(s)[i] = IdOf[s[i]]
  <2>1. Named(s) \in Seq(Nat)  BY NamesOfVerdicts
  <2>2. Len(Named(s)) = Len(s) /\ \A i \in 1..Len(s) : Named(s)[i] = IdOf[s[i]]
    BY <1>1 DEF Named, Numbered
  <2> QED BY <2>1, <2>2
<1>3. Named(t) = SubSeq(Named(s), 1, n)
  <2>1. IdOf \in [Verdicts -> Nat]  BY NamesOfVerdicts
  <2>2. Named(SubSeq(s, 1, n)) = SubSeq(Named(s), 1, n)  BY <2>1, NumberedPrefix DEF Named
  <2> QED BY <2>2 DEF CutAt
<1>4. Named(u) = SubSeq(Named(s), n + 1, Len(Named(s)))
  <2> DEFINE w == SubSeq(Named(s), n + 1, Len(Named(s)))
  <2>1. Named(u) \in Seq(Nat) /\ Len(Named(u)) = Len(s) - n
        /\ \A i \in 1..(Len(s) - n) : Named(u)[i] = IdOf[s[n + i]]
    <3>1. Named(u) \in Seq(Nat)  BY <1>1, NamesOfVerdicts
    <3>2. Len(Named(u)) = Len(s) - n /\ \A i \in 1..(Len(s) - n) : Named(u)[i] = IdOf[u[i]]
      BY <1>1 DEF Named, Numbered
    <3> QED BY <1>1, <3>1, <3>2
  <2>2. w \in Seq(Nat) /\ Len(w) = Len(s) - n
        /\ \A i \in 1..(Len(s) - n) : w[i] = Named(s)[n + i]
    BY <1>1, <1>2
  <2>3. \A i \in 1..(Len(s) - n) : n + i \in 1..Len(s)  BY <1>1
  <2> HIDE DEF w
  <2>4. Named(u) = w  BY <1>2, <2>1, <2>2, <2>3, SeqEqual
  <2> QED BY <2>4 DEF w
<1>5. /\ ToSet(Named(s)) = ToSet(Named(t)) \cup ToSet(Named(u))
      /\ Once(Named(s)) => /\ Once(Named(t))
                          /\ ToSet(Named(t)) \cap ToSet(Named(u)) = {}
  <2>1. CutAt(n, Named(s), Named(t), Named(u)) /\ n \in 0..Len(Named(s))
    BY <1>2, <1>3, <1>4 DEF CutAt
  <2> QED BY <1>2, <2>1, CutInTwo
<1>6. /\ Ids(s) = Ids(t) \cup Ids(u)
      /\ OnceById(s) => OnceById(t) /\ Ids(t) \cap Ids(u) = {}
  <2>1. Ids(s) = ToSet(Named(s)) /\ (OnceById(s) <=> Once(Named(s)))  BY NamesOfVerdicts
  <2>2. Ids(t) = ToSet(Named(t)) /\ (OnceById(t) <=> Once(Named(t)))
    BY <1>1, NamesOfVerdicts
  <2>3. Ids(u) = ToSet(Named(u))  BY <1>1, NamesOfVerdicts
  <2> QED BY <1>5, <2>1, <2>2, <2>3
<1>7. \A a : Agree(a, s) => Agree(a, t)
  <2>1. \A i \in DOMAIN t : i \in DOMAIN s /\ t[i] = s[i]  BY <1>1
  <2> QED BY <2>1 DEF Agree
<1> QED BY <1>1, <1>6, <1>7

----------------------------------------------------------------------------
(* What is kept of the verdicts that are buffered: the latest, and no more *)
(* than there is room for.                                                 *)

\* g says what is in the buffer when the verdicts of a set have been put into it.
Buffers(n, b, s, g) ==
  g = [t \in SUBSET (1..n) |->
         IF t = {} THEN b ELSE BufferVerdict(g[t \ {Max(t)}], s[Max(t)])]

\* The greatest of a set of numbers is the one that is at least any other.
LEMMA GreatestNumber ==
  ASSUME NEW T \in SUBSET Int, NEW m \in T, \A x \in T : m >= x
  PROVE  Max(T) = m
<1>1. Max(T) \in T /\ \A y \in T : Max(T) >= y  BY Zenon DEF Max
<1>2. ASSUME NEW x \in T, \A y \in T : x >= y PROVE x = m
  <2>1. x >= m /\ m >= x /\ x \in Int /\ m \in Int  BY <1>2
  <2> QED BY <2>1
<1> QED BY <1>1, <1>2, Zenon

\* Putting verdicts into the buffer one after the other is well defined.
LEMMA BuffersExist ==
  ASSUME NEW b, NEW s, NEW n \in Nat
  PROVE  \E g : Buffers(n, b, s, g)
<1> DEFINE T == {k \in Nat : ~ \E g : Buffers(k, b, s, g)}
<1>1. SUFFICES ASSUME T # {} PROVE FALSE  OBVIOUS
<1>2. PICK k \in T : \A m \in T : k <= m  BY <1>1, LeastNumber
<1>3. CASE k = 0
  <2> DEFINE g == [t \in SUBSET (1..0) |-> b]
  <2>1. SUBSET (1..0) = {{}}  OBVIOUS
  <2>2. g = [t \in SUBSET (1..0) |->
               IF t = {} THEN b ELSE BufferVerdict(g[t \ {Max(t)}], s[Max(t)])]
    BY <2>1
  <2>3. Buffers(0, b, s, g)  BY <2>2, Zenon DEF Buffers
  <2> QED BY <1>3, <2>3
<1>4. CASE k # 0
  <2>1. k - 1 \in Nat /\ k - 1 \notin T  BY <1>2, <1>4
  <2>2. PICK g : Buffers(k - 1, b, s, g)  BY <2>1
  <2> DEFINE h == [t \in SUBSET (1..k) |->
                     IF k \in t THEN BufferVerdict(g[t \ {k}], s[k]) ELSE g[t]]
             Next_(t) == IF t = {} THEN b ELSE BufferVerdict(h[t \ {Max(t)}], s[Max(t)])
  <2>3. ASSUME NEW t \in SUBSET (1..k) PROVE h[t] = Next_(t)
    <3>1. CASE k \in t
      <4>1. Max(t) = k
        <5>1. t \in SUBSET Int /\ \A x \in t : k >= x  OBVIOUS
        <5> QED BY <3>1, <5>1, GreatestNumber
      <4>2. t \ {k} \in SUBSET (1..k) /\ k \notin t \ {k}  OBVIOUS
      <4>3. h[t \ {k}] = g[t \ {k}]  BY <4>2
      <4>4. h[t] = BufferVerdict(g[t \ {k}], s[k])  BY <3>1
      <4> HIDE DEF h
      <4> QED BY <3>1, <4>1, <4>3, <4>4
    <3>2. CASE k \notin t
      <4>1. t \in SUBSET (1..(k - 1)) /\ t \ {Max(t)} \in SUBSET (1..k) /\ k \notin t \ {Max(t)}
        <5>1. \A x \in t : x \in 1..k /\ x # k  BY <3>2
        <5>2. \A x \in t : x \in 1..(k - 1)  BY <2>1, <5>1
        <5> QED BY <3>2, <5>2
      <4>2. g[t] = IF t = {} THEN b ELSE BufferVerdict(g[t \ {Max(t)}], s[Max(t)])
        BY <2>2, <4>1, Zenon DEF Buffers
      <4>3. h[t] = g[t] /\ h[t \ {Max(t)}] = g[t \ {Max(t)}]  BY <3>2, <4>1
      <4> HIDE DEF h
      <4> QED BY <4>2, <4>3
    <3> QED BY <3>1, <3>2
  <2>4. h = [t \in SUBSET (1..k) |-> h[t]]  OBVIOUS
  <2>5. h = [t \in SUBSET (1..k) |-> Next_(t)]
    <3> HIDE DEF h
    <3> QED BY <2>3, <2>4, Zenon
  <2>6. Buffers(k, b, s, h)
    <3> HIDE DEF h
    <3> QED BY <2>5, Zenon DEF Buffers
  <2> QED BY <2>6
<1> QED BY <1>3, <1>4

\* x is the end of the first n of q, as much as there is room for.
EndOf(q, n, x) == Len(x) <= VerdictMax /\ \E d \in 0..n : x = SubSeq(q, d + 1, n)

\* One more verdict is buffered.
LEMMA OneIsBuffered ==
  ASSUME NEW q \in Seq(Verdicts), NEW n \in 0..(Len(q) - 1), NEW x, EndOf(q, n, x)
  PROVE  EndOf(q, n + 1, BufferVerdict(x, q[n + 1]))
<1>1. PICK d \in 0..n : x = SubSeq(q, d + 1, n)  BY DEF EndOf
<1>2. /\ x \in Seq(Verdicts) /\ Len(x) = n - d /\ Len(x) <= VerdictMax
      /\ \A i \in 1..(n - d) : x[i] = q[d + i]
      /\ n \in Nat /\ d \in Nat /\ d <= n /\ n < Len(q) /\ Len(q) \in Nat
      /\ q[n + 1] \in Verdicts
  BY <1>1 DEF EndOf
<1> DEFINE longer == Append(x, q[n + 1])
           m == n + 1 - d
<1>3. /\ longer \in Seq(Verdicts) /\ Len(longer) = m /\ m \in Nat \ {0}
      /\ \A i \in 1..m : longer[i] = q[d + i]
  BY <1>2
<1>4. VerdictMax \in Nat /\ VerdictDrain \in Nat /\ VerdictDrain <= VerdictMax + 1
      /\ VerdictDrain # 0
  BY RelayAssumption
<1> DEFINE r == SubSeq(q, d + 1, n + 1)
<1>5. /\ r \in Seq(Verdicts) /\ Len(r) = m
      /\ \A i \in 1..m : r[i] = q[d + i]
  BY <1>2
<1>6. BufferVerdict(x, q[n + 1]) =
        IF m > VerdictMax THEN SubSeq(longer, VerdictDrain + 1, m) ELSE longer
  BY <1>3 DEF BufferVerdict
<1> HIDE DEF longer, r
<1>7. CASE m <= VerdictMax
  <2>1. longer = r  BY <1>3, <1>5, SeqEqual
  <2> HIDE DEF m
  <2>2. BufferVerdict(x, q[n + 1]) = r /\ Len(r) <= VerdictMax
    BY <1>3, <1>4, <1>5, <1>6, <1>7, <2>1
  <2>3. d \in 0..(n + 1)  BY <1>2
  <2> QED BY <2>2, <2>3 DEF EndOf, r
<1>8. CASE m > VerdictMax
  <2>1. m = VerdictMax + 1  BY <1>2, <1>4, <1>8
  <2> DEFINE e == d + VerdictDrain
             t == SubSeq(longer, VerdictDrain + 1, m)
             u == SubSeq(q, e + 1, n + 1)
  <2>2. e \in 0..(n + 1)  BY <1>2, <1>4, <2>1
  <2>3. /\ t \in Seq(Verdicts) /\ Len(t) = m - VerdictDrain
        /\ \A i \in 1..(m - VerdictDrain) : t[i] = longer[VerdictDrain + i]
    <3> HIDE DEF m
    <3> QED BY <1>3, <1>4, <2>1
  <2>4. /\ u \in Seq(Verdicts) /\ Len(u) = m - VerdictDrain
        /\ \A i \in 1..(m - VerdictDrain) : u[i] = q[d + VerdictDrain + i]
    BY <1>2, <1>4, <2>1, <2>2
  <2>5. \A i \in 1..(m - VerdictDrain) : t[i] = u[i]
    <3>1. ASSUME NEW i \in 1..(m - VerdictDrain) PROVE t[i] = u[i]
      <4>1. VerdictDrain + i \in 1..m  BY <1>2, <1>4
      <4>2. t[i] = q[d + (VerdictDrain + i)]  BY <1>3, <2>3, <4>1
      <4>3. d + (VerdictDrain + i) = d + VerdictDrain + i  BY <1>2, <1>4
      <4> HIDE DEF m, t, u
      <4> QED BY <2>4, <4>2, <4>3
    <3> QED BY <3>1
  <2> HIDE DEF t, u
  <2>6. t = u  BY <2>3, <2>4, <2>5, SeqEqual
  <2>7. Len(u) <= VerdictMax  BY <1>4, <2>1, <2>4
  <2>8. BufferVerdict(x, q[n + 1]) = u
    <3> HIDE DEF m
    <3> QED BY <1>6, <1>8, <2>6 DEF t
  <2> HIDE DEF e
  <2> QED BY <2>2, <2>7, <2>8 DEF EndOf, u
<1> QED BY <1>2, <1>4, <1>7, <1>8

\* What is kept is the end of what was there and what came.
LEMMA TheLatestAreKept ==
  ASSUME NEW b \in Seq(Verdicts), Len(b) <= VerdictMax, NEW s \in Seq(Verdicts)
  PROVE  EndOf(b \o s, Len(b) + Len(s), FoldLeft(BufferVerdict, b, s))
<1> DEFINE q == b \o s
           f == CHOOSE g : Buffers(Len(s), b, s, g)
<1>1. Buffers(Len(s), b, s, f)
  <2>1. \E g : Buffers(Len(s), b, s, g)
    <3>1. Len(s) \in Nat  OBVIOUS
    <3> QED BY <3>1, BuffersExist, Zenon
  <2> QED BY <2>1, Zenon
<1>2. FoldLeft(BufferVerdict, b, s) = f[1..Len(s)]
  <2>1. FoldLeft(BufferVerdict, b, s) =
          (CHOOSE g : g = [t \in SUBSET DOMAIN s |->
             IF t = {} THEN b ELSE BufferVerdict(g[t \ {Max(t)}], s[Max(t)])])[DOMAIN s]
    BY Zenon DEF FoldLeft, MapThenFoldSet
  <2>2. DOMAIN s = 1..Len(s)  OBVIOUS
  <2> QED BY <2>1, <2>2, Zenon DEF Buffers
<1>3. /\ q \in Seq(Verdicts) /\ Len(q) = Len(b) + Len(s) /\ Len(b) \in Nat /\ Len(s) \in Nat
      /\ \A i \in 1..Len(b) : q[i] = b[i]
      /\ \A i \in 1..Len(s) : q[Len(b) + i] = s[i]
  OBVIOUS
<1> DEFINE T == {n \in Nat : n <= Len(s) /\ ~ EndOf(q, Len(b) + n, f[1..n])}
<1>4. T = {}
  <2>1. SUFFICES ASSUME T # {} PROVE FALSE  OBVIOUS
  <2>2. PICK n \in T : \A m \in T : n <= m  BY <2>1, LeastNumber
  <2>3. n \in Nat /\ n <= Len(s) /\ ~ EndOf(q, Len(b) + n, f[1..n])  OBVIOUS
  <2>4. CASE n = 0
    <3>1. f[1..0] = b
      <4>1. 1..0 = {} /\ {} \in SUBSET (1..Len(s))  OBVIOUS
      <4> HIDE DEF f
      <4> QED BY <1>1, <4>1, Zenon DEF Buffers
    <3>2. b = SubSeq(q, 0 + 1, Len(b) + 0)
      <4> DEFINE c == SubSeq(q, 0 + 1, Len(b) + 0)
      <4>1. c \in Seq(Verdicts) /\ Len(c) = Len(b) /\ \A i \in 1..Len(b) : c[i] = b[i]
        <5> HIDE DEF q, f
        <5> QED BY <1>3
      <4> HIDE DEF c
      <4>2. b = c  BY <4>1, SeqEqual
      <4> QED BY <4>2 DEF c
    <3>3. 0 \in 0..(Len(b) + 0)  BY <1>3
    <3>4. EndOf(q, Len(b) + 0, b)
      <4> HIDE DEF q, f
      <4> QED BY <3>2, <3>3 DEF EndOf
    <3> QED BY <2>3, <2>4, <3>1, <3>4
  <2>5. CASE n # 0
    <3> HIDE DEF q, f
    <3>1. n - 1 \in Nat /\ n - 1 <= Len(s) /\ n \in 1..Len(s)  BY <1>3, <2>3, <2>5
    <3>2. EndOf(q, Len(b) + (n - 1), f[1..(n - 1)])
      <4>1. n - 1 \notin T  BY <2>2, <2>3, <3>1
      <4> QED BY <3>1, <4>1
    <3>3. f[1..n] = BufferVerdict(f[1..(n - 1)], s[n])
      <4>1. 1..n \in SUBSET (1..Len(s)) /\ 1..n # {} /\ n \in 1..n
        <5>1. \A i \in 1..n : i \in 1..Len(s)  BY <1>3, <3>1
        <5>2. n \in 1..n  BY <3>1
        <5> QED BY <5>1, <5>2, Zenon
      <4>2. Max(1..n) = n
        <5>1. 1..n \in SUBSET Int /\ \A x \in 1..n : n >= x  BY <3>1
        <5> QED BY <4>1, <5>1, GreatestNumber
      <4>3. (1..n) \ {n} = 1..(n - 1)  BY <3>1
      <4>4. f[1..n] = IF 1..n = {} THEN b
                      ELSE BufferVerdict(f[(1..n) \ {Max(1..n)}], s[Max(1..n)])
        BY <1>1, <4>1, Zenon DEF Buffers
      <4> QED BY <4>1, <4>2, <4>3, <4>4, Zenon
    <3>4. q[Len(b) + (n - 1) + 1] = s[n]
      <4>1. Len(b) + (n - 1) + 1 = Len(b) + n  BY <1>3, <3>1
      <4> QED BY <1>3, <3>1, <4>1
    <3>5. Len(b) + (n - 1) \in 0..(Len(q) - 1)  BY <1>3, <3>1
    <3>6. EndOf(q, Len(b) + (n - 1) + 1, BufferVerdict(f[1..(n - 1)], q[Len(b) + (n - 1) + 1]))
      BY <1>3, <3>2, <3>5, OneIsBuffered
    <3>7. Len(b) + (n - 1) + 1 = Len(b) + n  BY <1>3, <3>1
    <3> QED BY <2>3, <3>3, <3>4, <3>6, <3>7
  <2> QED BY <2>4, <2>5
<1>5. EndOf(q, Len(b) + Len(s), f[1..Len(s)])
  <2> HIDE DEF q, f
  <2>1. Len(s) \in Nat /\ Len(s) <= Len(s)  BY <1>3
  <2> QED BY <1>4, <2>1
<1> QED BY <1>2, <1>5, Zenon

Kept(b, s) == FoldLeft(BufferVerdict, b, s)

\* What is kept has been there or has come, and is not there twice.
LEMMA KeptVerdicts ==
  ASSUME NEW b \in Seq(Verdicts), Len(b) <= VerdictMax, NEW s \in Seq(Verdicts)
  PROVE  /\ Kept(b, s) \in Seq(Verdicts) /\ Len(Kept(b, s)) <= VerdictMax
         /\ Ids(Kept(b, s)) \subseteq Ids(b) \cup Ids(s)
         /\ OnceById(b) /\ OnceById(s) /\ Ids(b) \cap Ids(s) = {} => OnceById(Kept(b, s))
         /\ \A a : Agree(a, b) /\ Agree(a, s) => Agree(a, Kept(b, s))
<1> DEFINE q == b \o s
           n == Len(b) + Len(s)
           kept == Kept(b, s)
<1>1. EndOf(q, n, kept)  BY TheLatestAreKept, Zenon DEF Kept
<1>2. /\ q \in Seq(Verdicts) /\ Len(q) = n /\ Len(b) \in Nat /\ Len(s) \in Nat /\ n \in Nat
      /\ DOMAIN b = 1..Len(b) /\ DOMAIN s = 1..Len(s)
      /\ \A i \in 1..n : q[i] = IF i <= Len(b) THEN b[i] ELSE s[i - Len(b)]
      /\ \A i \in 1..n : i <= Len(b) => i \in DOMAIN b
      /\ \A i \in 1..n : ~ i <= Len(b) => i - Len(b) \in DOMAIN s
  OBVIOUS
<1> HIDE DEF q, n, kept
<1>3. PICK d \in 0..n : kept = SubSeq(q, d + 1, n)  BY <1>1 DEF EndOf
<1>4. /\ kept \in Seq(Verdicts) /\ Len(kept) = n - d /\ Len(kept) <= VerdictMax
      /\ DOMAIN kept = 1..(n - d)
      /\ \A i \in 1..(n - d) : d + i \in 1..n /\ kept[i] = q[d + i]
  BY <1>1, <1>2, <1>3 DEF EndOf
<1>5. ASSUME NEW i \in DOMAIN kept
      PROVE  \/ kept[i] = b[d + i] /\ d + i \in DOMAIN b
             \/ kept[i] = s[d + i - Len(b)] /\ d + i - Len(b) \in DOMAIN s
  BY <1>2, <1>4
<1>6. Ids(kept) \subseteq Ids(b) \cup Ids(s)
  <2>1. ASSUME NEW x \in Ids(kept) PROVE x \in Ids(b) \cup Ids(s)
    <3>1. PICK i \in DOMAIN kept : x = kept[i].id  BY DEF Ids, ToSet
    <3>2. \A y : y \in ToSet(b) => y.id \in Ids(b)  BY DEF Ids
    <3>3. \A y : y \in ToSet(s) => y.id \in Ids(s)  BY DEF Ids
    <3>4. kept[i] \in ToSet(b) \/ kept[i] \in ToSet(s)  BY <1>5 DEF ToSet
    <3> QED BY <3>1, <3>2, <3>3, <3>4
  <2> QED BY <2>1
<1>7. ASSUME OnceById(b), OnceById(s), Ids(b) \cap Ids(s) = {},
             NEW i \in DOMAIN kept, NEW j \in DOMAIN kept, kept[i].id = kept[j].id
      PROVE  i = j
  <2>1. \A k \in DOMAIN b, l \in DOMAIN s : b[k].id # s[l].id
    <3>1. ASSUME NEW k \in DOMAIN b, NEW l \in DOMAIN s PROVE b[k].id # s[l].id
      <4>1. b[k].id \in Ids(b) /\ s[l].id \in Ids(s)  BY DEF Ids, ToSet
      <4> QED BY <1>7, <4>1
    <3> QED BY <3>1
  <2>2. i \in Int /\ j \in Int /\ d \in Int /\ Len(b) \in Int  BY <1>2, <1>4
  <2>3. CASE kept[i] = b[d + i] /\ d + i \in DOMAIN b
    <3>1. CASE kept[j] = b[d + j] /\ d + j \in DOMAIN b
      <4>1. d + i = d + j  BY <1>7, <2>3, <3>1 DEF OnceById
      <4> QED BY <2>2, <4>1
    <3>2. CASE kept[j] = s[d + j - Len(b)] /\ d + j - Len(b) \in DOMAIN s
      BY <1>7, <2>1, <2>3, <3>2
    <3> QED BY <1>5, <3>1, <3>2
  <2>4. CASE kept[i] = s[d + i - Len(b)] /\ d + i - Len(b) \in DOMAIN s
    <3>1. CASE kept[j] = b[d + j] /\ d + j \in DOMAIN b
      BY <1>7, <2>1, <2>4, <3>1
    <3>2. CASE kept[j] = s[d + j - Len(b)] /\ d + j - Len(b) \in DOMAIN s
      <4>1. d + i - Len(b) = d + j - Len(b)  BY <1>7, <2>4, <3>2 DEF OnceById
      <4> QED BY <2>2, <4>1
    <3> QED BY <1>5, <3>1, <3>2
  <2> QED BY <1>5, <2>3, <2>4
<1>8. ASSUME NEW a, Agree(a, b), Agree(a, s) PROVE Agree(a, kept)
  BY <1>5, <1>8 DEF Agree
<1> QED BY <1>4, <1>6, <1>7, <1>8 DEF kept, OnceById

----------------------------------------------------------------------------
(* Places.                                                                 *)

\* Requests are taken out of places and put into one.
Exchanges(P, f, g, taken, b, Y) ==
  /\ b \in P
  /\ \A p, q \in P : p # q => f[p] \cap f[q] = {}
  /\ \A p \in P : taken[p] \subseteq f[p] /\ Y \cap f[p] \subseteq taken[p]
  /\ \A p \in P : g[p] = (f[p] \ taken[p]) \cup (IF p = b THEN Y ELSE {})

\* The places stay disjoint, and hold what they held except what was taken, and Y.
LEMMA PlacesExchange ==
  ASSUME NEW P, NEW f, NEW g, NEW taken, NEW b, NEW Y, Exchanges(P, f, g, taken, b, Y)
  PROVE  /\ \A p, q \in P : p # q => g[p] \cap g[q] = {}
         /\ \A x : (\E p \in P : x \in g[p]) <=>
                     x \in Y \/ ((\E p \in P : x \in f[p]) /\ ~ \E p \in P : x \in taken[p])
<1> USE DEF Exchanges
<1>1. ASSUME NEW p \in P, NEW q \in P, p # q, NEW x, x \in g[p], x \in g[q] PROVE FALSE
  <2>1. x \in f[p] \ taken[p] \/ (p = b /\ x \in Y)  BY <1>1
  <2>2. x \in f[q] \ taken[q] \/ (q = b /\ x \in Y)  BY <1>1
  <2>3. ~ (x \in f[p] /\ x \in f[q])  BY <1>1
  <2> QED BY <1>1, <2>1, <2>2, <2>3
<1>2. ASSUME NEW x, NEW p \in P, x \in g[p]
      PROVE  x \in Y \/ ((\E q \in P : x \in f[q]) /\ ~ \E q \in P : x \in taken[q])
  <2>1. CASE x \in f[p] \ taken[p]
    <3>1. ASSUME NEW q \in P, x \in taken[q] PROVE FALSE
      <4>1. x \in f[q]  BY <3>1
      <4>2. p = q  BY <2>1, <4>1
      <4> QED BY <2>1, <3>1, <4>2
    <3> QED BY <2>1, <3>1
  <2> QED BY <1>2, <2>1
<1>3. ASSUME NEW x, x \in Y PROVE x \in g[b]  BY <1>3
<1>4. ASSUME NEW x, NEW p \in P, x \in f[p], ~ \E q \in P : x \in taken[q] PROVE x \in g[p]
  BY <1>4
<1> QED BY <1>1, <1>2, <1>3, <1>4
----------------------------------------------------------------------------
(* How requests move between the places.                                   *)

\* The kinds of places.
LEMMA WhatPlacesHold ==
  /\ In(<<"outbound", 0>>) = ToSet(outbound) /\ In(<<"backlog", 0>>) = ToSet(backlog)
  /\ In(<<"stored", 0>>) = stored /\ In(<<"command", 0>>) = Answered(command)
  /\ In(<<"verdicts", 0>>) = Ids(verdicts) /\ In(<<"inbound", 0>>) = Ids(inbound)
  /\ \A c \in Conns :
       /\ In(<<"up", c>>) = ToSet(conn[c].up) \ {Hello} /\ In(<<"hands", c>>) = Ids(conn[c].hands)
       /\ In(<<"out", c>>) = Ids(conn[c].out) /\ In(<<"down", c>>) = Ids(conn[c].down)
BY DEF In

\* The same for the next state.
LEMMA WhatPlacesHoldThen ==
  /\ In(<<"outbound", 0>>)' = ToSet(outbound') /\ In(<<"backlog", 0>>)' = ToSet(backlog')
  /\ In(<<"stored", 0>>)' = stored' /\ In(<<"command", 0>>)' = Answered(command')
  /\ In(<<"verdicts", 0>>)' = Ids(verdicts') /\ In(<<"inbound", 0>>)' = Ids(inbound')
  /\ \A c \in Conns :
       /\ In(<<"up", c>>)' = ToSet(conn'[c].up) \ {Hello}
       /\ In(<<"hands", c>>)' = Ids(conn'[c].hands)
       /\ In(<<"out", c>>)' = Ids(conn'[c].out) /\ In(<<"down", c>>)' = Ids(conn'[c].down)
BY DEF In

\* Which places there are.
LEMMA ThePlaces ==
  /\ {<<"outbound", 0>>, <<"backlog", 0>>, <<"stored", 0>>, <<"command", 0>>,
      <<"verdicts", 0>>, <<"inbound", 0>>} \subseteq Places
  /\ \A c \in Conns : {<<"up", c>>, <<"hands", c>>, <<"out", c>>, <<"down", c>>} \subseteq Places
  /\ \A p \in Places :
       \/ p \in {<<"outbound", 0>>, <<"backlog", 0>>, <<"stored", 0>>, <<"command", 0>>,
                 <<"verdicts", 0>>, <<"inbound", 0>>}
       \/ \E c \in Conns : p \in {<<"up", c>>, <<"hands", c>>, <<"out", c>>, <<"down", c>>}
BY DEF Places

\* What is in a place is a request Claude waits for.
LEMMA HeldIsAlive ==
  ASSUME PlaceInv, NEW p \in Places, NEW r \in Requests, r \in In(p)
  PROVE  Alive(r) /\ \A q \in Places : q # p => r \notin In(q)
BY DEF PlaceInv

\* Nothing moves.
LEMMA NothingMoves ==
  ASSUME PlaceInv, \A p \in Places : In(p)' = In(p), UNCHANGED <<awaiting, lost>>
  PROVE  PlaceInv'
BY DEF PlaceInv, Alive

\* What leaves a place without coming to another is not waited for any more.
LEMMA TakenOut ==
  ASSUME PlaceInv, \A p \in Places : In(p)' \subseteq In(p),
         \A r \in Requests :
           Alive(r)' <=> Alive(r) /\ ~ \E p \in Places : r \in In(p) /\ r \notin In(p)'
  PROVE  PlaceInv'
<1>1. \A p, q \in Places : p # q => In(p)' \cap In(q)' = {}  BY DEF PlaceInv
<1>2. ASSUME NEW r \in Requests PROVE Alive(r)' <=> \E p \in Places : r \in In(p)'
  <2>1. Alive(r) <=> \E p \in Places : r \in In(p)  BY DEF PlaceInv
  <2>2. \A p, q \in Places : r \in In(p) /\ r \in In(q) => p = q  BY DEF PlaceInv
  <2> QED BY <2>1, <2>2
<1> QED BY <1>1, <1>2 DEF PlaceInv

\* What leaves place a comes to place b, except what is given up, there or on the way.
Exchange(a, b, dropped) ==
  /\ In(a)' \subseteq In(a)
  /\ In(b)' = (In(b) \cup (In(a) \ In(a)')) \ dropped
  /\ dropped \subseteq In(b) \cup (In(a) \ In(a)')
  /\ \A p \in Places : p # a /\ p # b => In(p)' = In(p)
  /\ \A r \in Requests : Alive(r)' <=> Alive(r) /\ r \notin dropped

\* A request that moves from place to place is still in one place.
LEMMA Exchanged ==
  ASSUME PlaceInv, NEW a \in Places, NEW b \in Places, a # b, NEW dropped,
         Exchange(a, b, dropped)
  PROVE  PlaceInv'
<1> DEFINE f == [p \in Places |-> In(p)]
           g == [p \in Places |-> In(p)']
           moved == In(a) \ In(a)'
           taken == [p \in Places |-> IF p = a THEN moved
                                      ELSE IF p = b THEN In(b) \cap dropped ELSE {}]
           Y == moved \ dropped
<1>1. \A p, q \in Places : p # q => f[p] \cap f[q] = {}  BY DEF PlaceInv
<1>2. \A p \in Places : taken[p] \subseteq f[p] /\ Y \cap f[p] \subseteq taken[p]
  <2>1. ASSUME NEW p \in Places PROVE taken[p] \subseteq f[p] /\ Y \cap f[p] \subseteq taken[p]
    <3>1. p # a => In(p) \cap In(a) = {}  BY DEF PlaceInv
    <3> QED BY <3>1
  <2> QED BY <2>1
<1>3. \A p \in Places : g[p] = (f[p] \ taken[p]) \cup (IF p = b THEN Y ELSE {})
  <2>1. ASSUME NEW p \in Places
        PROVE  g[p] = (f[p] \ taken[p]) \cup (IF p = b THEN Y ELSE {})
    <3>1. CASE p = a  BY <3>1 DEF Exchange
    <3>2. CASE p = b  BY <3>2 DEF Exchange
    <3>3. CASE p # a /\ p # b  BY <3>3 DEF Exchange
    <3> QED BY <3>1, <3>2, <3>3
  <2> QED BY <2>1
<1>4. /\ \A p, q \in Places : p # q => g[p] \cap g[q] = {}
      /\ \A x : (\E p \in Places : x \in g[p]) <=>
                  \/ x \in Y
                  \/ (\E p \in Places : x \in f[p]) /\ ~ \E p \in Places : x \in taken[p]
  <2> HIDE DEF f, g, taken, Y, moved
  <2>1. Exchanges(Places, f, g, taken, b, Y)  BY <1>1, <1>2, <1>3 DEF Exchanges
  <2> QED BY <2>1, PlacesExchange
<1>5. ASSUME NEW r \in Requests PROVE Alive(r)' <=> \E p \in Places : r \in g[p]
  <2>1. (\E p \in Places : r \in taken[p]) <=> r \in moved \/ r \in In(b) \cap dropped  OBVIOUS
  <2>2. Alive(r) <=> \E p \in Places : r \in f[p]  BY DEF PlaceInv
  <2>3. Alive(r)' <=> Alive(r) /\ r \notin dropped  BY DEF Exchange
  <2>4. r \in moved => \E p \in Places : r \in f[p]  OBVIOUS
  <2>5. r \in dropped => r \in moved \/ r \in In(b) \cap dropped  BY DEF Exchange
  <2>6. (\E p \in Places : r \in g[p]) <=>
          \/ r \in Y
          \/ (\E p \in Places : r \in f[p]) /\ ~ \E p \in Places : r \in taken[p]
    BY <1>4
  <2>7. r \in In(b) /\ r \in moved => FALSE  BY DEF PlaceInv
  <2> HIDE DEF f, g, taken, moved
  <2> QED BY <2>1, <2>2, <2>3, <2>4, <2>5, <2>6, <2>7
<1> QED BY <1>4, <1>5 DEF PlaceInv

\* What is given up, and why.
LEMMA GivenUp ==
  ASSUME LostTypes, UNCHANGED awaiting, NEW ids, NEW cause \in Causes, Lose(ids, cause)
  PROVE  LostTypes' /\ \A r \in Requests : Alive(r)' <=> Alive(r) /\ r \notin ids
BY DEF LostTypes, Lose, Alive, Causes

\* Nothing is given up.
LEMMA NothingGivenUp ==
  ASSUME UNCHANGED <<awaiting, lost>>
  PROVE  \A r \in Requests : Alive(r)' <=> Alive(r)
BY DEF Alive

----------------------------------------------------------------------------
(* How one connection changes, or none.                                    *)

\* Connection c becomes k.
OnlyConn(c, k) ==
  /\ k \in Connections /\ conn' \in [Conns -> Connections] /\ conn'[c] = k
  /\ \A d \in Conns : d # c => conn'[d] = conn[d]

\* A connection is changed.
LEMMA ConnIsChanged ==
  ASSUME ConnTypes, NEW c \in Conns, NEW k \in Connections, conn' = [conn EXCEPT ![c] = k]
  PROVE  OnlyConn(c, k)
BY DEF ConnTypes, OnlyConn

\* A connection the client does not use is sound wherever the client is.
LEMMA OtherConnections ==
  ASSUME NEW cl, NEW new, NEW a, NEW d \in Conns, NEW k, Sound(cl, a, d, k),
         d # new.conn, cl.conn \in Nat, new.conn \in {cl.conn, cl.conn + 1}
  PROVE  Sound(new, a, d, k)
<1>1. d > new.conn <=> d > cl.conn  BY DEF Conns
<1>2. Greeting(new, d, k)  BY DEF Sound, Greeting
<1> QED BY <1>1, <1>2 DEF Sound

\* One connection changes, and the client moves along with it or not at all.
LEMMA OneConnection ==
  ASSUME ConnInv, ClientTypes, ClientTypes', NEW c \in Conns, NEW k, OnlyConn(c, k),
         UNCHANGED answer, Sound(client', answer, c, k),
         client' = client \/ (client'.conn = c /\ c \in {client.conn, client.conn + 1})
  PROVE  ConnTypes' /\ ConnInv'
<1>1. client.conn \in Nat /\ client'.conn \in Nat
  BY RelayAssumption DEF ClientTypes
<1>2. ASSUME NEW d \in Conns PROVE Sound(client', answer', d, conn'[d])
  <2>1. CASE d = c  BY <2>1 DEF OnlyConn
  <2>2. CASE d # c
    <3>1. conn'[d] = conn[d] /\ Sound(client, answer, d, conn[d])
      BY <2>2 DEF OnlyConn, ConnInv
    <3>2. CASE client' = client  BY <3>1, <3>2
    <3>3. CASE client'.conn = c /\ c \in {client.conn, client.conn + 1}
      BY <1>1, <2>2, <3>1, <3>3, OtherConnections
    <3> QED BY <3>2, <3>3
  <2> QED BY <2>1, <2>2
<1> QED BY <1>2 DEF ConnInv, ConnTypes, OnlyConn

\* The connections stay as they are while the client moves.
LEMMA NoConnection ==
  ASSUME ConnInv, ClientTypes, ClientTypes', UNCHANGED <<answer, conn>>,
         client'.conn = client.conn,
         \A c \in Conns : c = client.conn => Greeting(client', c, conn[c])
  PROVE  ConnInv'
<1>1. client.conn \in Nat /\ client'.conn \in Nat
  BY RelayAssumption DEF ClientTypes
<1>2. ASSUME NEW d \in Conns PROVE Sound(client', answer', d, conn'[d])
  <2>1. Sound(client, answer, d, conn[d]) /\ conn'[d] = conn[d]  BY DEF ConnInv
  <2>2. CASE d = client.conn
    <3>1. Greeting(client', d, conn[d])  BY <2>2
    <3> QED BY <2>1, <3>1 DEF Sound
  <2>3. CASE d # client.conn  BY <1>1, <2>1, <2>3, OtherConnections
  <2> QED BY <2>2, <2>3
<1> QED BY <1>2 DEF ConnInv

\* What another connection holds stays where it is, and what no variable of a place
\* changes.
LEMMA PlacesOfOthers ==
  ASSUME NEW c \in Conns, NEW k, OnlyConn(c, k), NEW p \in Places,
         p \notin {<<"up", c>>, <<"hands", c>>, <<"out", c>>, <<"down", c>>},
         p = <<"outbound", 0>> => UNCHANGED outbound,
         p = <<"backlog", 0>> => UNCHANGED backlog,
         p = <<"stored", 0>> => UNCHANGED stored,
         p = <<"command", 0>> => UNCHANGED command,
         p = <<"verdicts", 0>> => UNCHANGED verdicts,
         p = <<"inbound", 0>> => UNCHANGED inbound
  PROVE  In(p)' = In(p)
<1>1. CASE p \in {<<"outbound", 0>>, <<"backlog", 0>>, <<"stored", 0>>, <<"command", 0>>,
                  <<"verdicts", 0>>, <<"inbound", 0>>}
  BY <1>1, WhatPlacesHold, WhatPlacesHoldThen
<1>2. ASSUME NEW d \in Conns, p \in {<<"up", d>>, <<"hands", d>>, <<"out", d>>, <<"down", d>>}
      PROVE  In(p)' = In(p)
  <2>1. d # c  BY <1>2
  <2>2. conn'[d] = conn[d]  BY <2>1 DEF OnlyConn
  <2> QED BY <1>2, <2>2, WhatPlacesHold, WhatPlacesHoldThen
<1> QED BY <1>1, <1>2, ThePlaces

\* What connection c holds, before and after.
LEMMA PlacesOfOne ==
  ASSUME NEW c \in Conns, NEW k, OnlyConn(c, k)
  PROVE  /\ In(<<"up", c>>) = ToSet(conn[c].up) \ {Hello}
         /\ In(<<"up", c>>)' = ToSet(k.up) \ {Hello}
         /\ In(<<"hands", c>>) = Ids(conn[c].hands) /\ In(<<"hands", c>>)' = Ids(k.hands)
         /\ In(<<"out", c>>) = Ids(conn[c].out) /\ In(<<"out", c>>)' = Ids(k.out)
         /\ In(<<"down", c>>) = Ids(conn[c].down) /\ In(<<"down", c>>)' = Ids(k.down)
BY WhatPlacesHold, WhatPlacesHoldThen DEF OnlyConn

----------------------------------------------------------------------------
(* Steps that move no request.                                             *)

\* The client moves on the connection it has, or away from it.
LEMMA OnlyTheClientMoves ==
  ASSUME IInv, UNCHANGED <<bridgeVars, backlog, conn, lifeVars, daemonVars, lost>>,
         ClientTypes', ClientInv', client'.conn = client.conn, ~At("ended"),
         \A c \in Conns : c = client.conn => Greeting(client', c, conn[c])
  PROVE  IInv'
<1> USE DEF IInv, Types, bridgeVars, lifeVars, storeVars, daemonVars
<1>1. Types'
  BY DEF BridgeTypes, ConnTypes, DaemonTypes, CommandTypes, LostTypes, Idle
<1>2. ConnInv'  BY NoConnection
<1>3. BridgeInv' /\ StoreInv'  BY DEF BridgeInv, StoreInv, Idle
<1>4. PlaceInv'
  <2>1. \A p \in Places : In(p)' = In(p)  BY DEF In, Answered, Idle
  <2> QED BY <2>1, NothingMoves
<1>5. AskedInv'  BY DEF AskedInv
<1>6. ToldWhatTheUserSaid'  BY DEF ToldWhatTheUserSaid, At
<1>7. QueueInv'  BY DEF QueueInv, Queue, Sent
<1> QED BY <1>1, <1>2, <1>3, <1>4, <1>5, <1>6, <1>7

\* A client that neither greets nor sends asks nothing of the connection.
LEMMA NotSending ==
  ASSUME NEW cl, NEW new, NEW c, NEW k, Greeting(cl, c, k),
         new.pc \notin {"greeting", "replaying", "serving"}
  PROVE  Greeting(new, c, k)
BY DEF Greeting

\* The client gives up its connection.
LEMMA ServingIsLeft ==
  ASSUME ClientTypes, ClientInv, At("serving"), LeaveServing
  PROVE  /\ ClientTypes' /\ client'.pc = "connecting" /\ client'.conn = client.conn
         /\ client'.attempt < MaxRetries
<1>1. PICK n \in {0, client.attempt} :
        client' = [client EXCEPT !.pc = "connecting", !.attempt = n]
  BY DEF LeaveServing
<1>2. client.attempt \in Nat /\ client.attempt < MaxRetries /\ n \in Nat /\ n < MaxRetries
  BY RelayAssumption DEF ClientTypes, ClientInv, At
<1>3. n \in 0..MaxRetries  BY <1>2, RelayAssumption
<1> QED BY <1>1, <1>2, <1>3 DEF ClientTypes

\* The client tries again after its back-off.
LEMMA BackoffOverPreserves ==
  ASSUME IInv, BackoffOver
  PROVE  IInv'
<1>1. ClientTypes /\ ClientInv /\ ConnInv  BY DEF IInv, Types
<1>2. client.pc = "backoff" /\ client' = [client EXCEPT !.pc = "connecting"]
  BY DEF BackoffOver, At
<1>3. ClientTypes' /\ client'.pc = "connecting" /\ client'.conn = client.conn
      /\ client'.attempt = client.attempt
  BY <1>1, <1>2 DEF ClientTypes
<1>4. ClientInv'  BY <1>1, <1>2, <1>3 DEF ClientInv, At, BackoffOver
<1>5. \A c \in Conns : Greeting(client', c, conn[c])
  BY <1>1, <1>3, NotSending DEF ConnInv, Sound
<1> QED BY <1>2, <1>3, <1>4, <1>5, OnlyTheClientMoves DEF BackoffOver, At

\* The backlog is sent, and the channel is served.
LEMMA ReplayDonePreserves ==
  ASSUME IInv, ReplayDone
  PROVE  IInv'
<1>1. ClientTypes /\ ClientInv /\ ConnInv  BY DEF IInv, Types
<1>2. client.pc = "replaying" /\ client' = [client EXCEPT !.pc = "serving"]
  BY DEF ReplayDone, At
<1>3. ClientTypes' /\ client'.pc = "serving" /\ client'.conn = client.conn
      /\ client'.attempt = client.attempt
  BY <1>1, <1>2 DEF ClientTypes
<1>4. ClientInv'  BY <1>1, <1>2, <1>3 DEF ClientInv, At, ReplayDone
<1>5. \A c \in Conns : Greeting(client', c, conn[c])
  BY <1>1, <1>2, <1>3 DEF ConnInv, Sound, Greeting
<1> QED BY <1>2, <1>3, <1>4, <1>5, OnlyTheClientMoves DEF ReplayDone, At

\* The client sees the end of its connection.
LEMMA SeeEndPreserves ==
  ASSUME IInv, SeeEnd
  PROVE  IInv'
<1>1. ClientTypes /\ ClientInv /\ ConnInv  BY DEF IInv, Types
<1>2. At("serving") /\ LeaveServing  BY DEF SeeEnd
<1>3. ClientTypes' /\ client'.pc = "connecting" /\ client'.conn = client.conn
      /\ client'.attempt < MaxRetries
  BY <1>1, <1>2, ServingIsLeft
<1>4. ClientInv'  BY <1>3 DEF ClientInv, At, SeeEnd
<1>5. \A c \in Conns : Greeting(client', c, conn[c])
  BY <1>1, <1>3, NotSending DEF ConnInv, Sound
<1> QED BY <1>2, <1>3, <1>4, <1>5, OnlyTheClientMoves DEF SeeEnd, At

\* The daemon does something that concerns no request, or only its age.
LEMMA NoRequestMoves ==
  ASSUME IInv,
         UNCHANGED <<bridgeVars, clientVars, conn, verdicts, stored, answer, lost>>,
         DaemonTypes', CommandTypes', StoreInv', Answered(command') = Answered(command)
  PROVE  IInv'
<1> USE DEF IInv, Types, bridgeVars, clientVars
<1>1. Types'  BY DEF BridgeTypes, ClientTypes, ConnTypes, LostTypes
<1>2. ConnInv' /\ ClientInv'  BY DEF ConnInv, ClientInv, At
<1>3. BridgeInv'  BY DEF BridgeInv
<1>4. PlaceInv'
  <2>1. \A p \in Places : In(p)' = In(p)  BY DEF In
  <2> QED BY <2>1, NothingMoves
<1>5. AskedInv' /\ ToldWhatTheUserSaid'  BY DEF AskedInv, ToldWhatTheUserSaid
<1>6. QueueInv'  BY DEF QueueInv, Queue, Sent
<1> QED BY <1>1, <1>2, <1>3, <1>4, <1>5, <1>6

\* The command loop looks up the connection of the bridge.
LEMMA LookUpPreserves ==
  ASSUME IInv, LookUp
  PROVE  IInv'
<1>1. DaemonTypes /\ CommandTypes /\ StoreInv  BY DEF IInv, Types
<1>2. command.pc = "sdk" /\ command' = [command EXCEPT !.pc = "send", !.to = attached]
      /\ attached \in Conns \cup {None}
  BY <1>1 DEF LookUp, DaemonTypes
<1>3. command # Idle
      /\ command \in [pc: {"sdk", "send", "buffer"}, verdict: Verdicts, to: Conns \cup {None}]
  BY <1>1, <1>2 DEF CommandTypes, Idle
<1>4. /\ command' \in [pc: {"sdk", "send", "buffer"}, verdict: Verdicts, to: Conns \cup {None}]
      /\ command'.pc = "send" /\ command'.verdict = command.verdict
  BY <1>2, <1>3
<1>5. command' # Idle  BY <1>4 DEF Idle
<1>6. Answered(command') = Answered(command)  BY <1>3, <1>4, <1>5 DEF Answered
<1>7. DaemonTypes' /\ CommandTypes' /\ StoreInv'
  BY <1>1, <1>3, <1>4, <1>5 DEF DaemonTypes, CommandTypes, StoreInv, LookUp, lifeVars, storeVars
<1> QED BY <1>6, <1>7, NoRequestMoves DEF LookUp, storeVars

\* The registration of the bridge goes.
LEMMA ForceDisconnectPreserves ==
  ASSUME IInv, ForceDisconnect
  PROVE  IInv'
<1>1. DaemonTypes' /\ CommandTypes' /\ StoreInv'
  BY DEF IInv, Types, ForceDisconnect, DaemonTypes, CommandTypes, StoreInv, lifeVars, storeVars,
         Idle
<1> QED BY <1>1, NoRequestMoves DEF ForceDisconnect, storeVars

\* The daemon starts again.
LEMMA StartPreserves ==
  ASSUME IInv, Start
  PROVE  IInv'
<1>1. DaemonTypes' /\ CommandTypes' /\ StoreInv'
  BY DEF IInv, Types, Start, DaemonTypes, CommandTypes, StoreInv, daemonVars, storeVars, Idle
<1> QED BY <1>1, NoRequestMoves DEF Start, storeVars, daemonVars

\* A stored request gets old.
LEMMA AgePreserves ==
  ASSUME IInv, NEW r \in Requests, Age(r)
  PROVE  IInv'
<1>1. DaemonTypes' /\ CommandTypes' /\ StoreInv'
  BY DEF IInv, Types, Age, Fresh, DaemonTypes, CommandTypes, StoreInv, lifeVars, Idle
<1> QED BY <1>1, NoRequestMoves DEF Age

----------------------------------------------------------------------------
(* Steps of the daemon and of the connections.                             *)

\* The sequences of the queue.
LEMMA QueueParts ==
  /\ Queue[1] = Sent /\ Queue[2] = backlog /\ Queue[3] = outbound
  /\ Queue[1]' = Sent' /\ Queue[2]' = backlog' /\ Queue[3]' = outbound'
BY DEF Queue

\* Something is taken out of what is on its way to the daemon.
LEMMA QueueShrinks ==
  ASSUME QueueInv, LeftOf(Sent, Sent') \/ UNCHANGED Sent,
         LeftOf(backlog, backlog') \/ UNCHANGED backlog,
         LeftOf(outbound, outbound') \/ UNCHANGED outbound
  PROVE  QueueInv'
<1>1. InOrder(Sent) /\ InOrder(backlog) /\ InOrder(outbound)
  BY QueueParts DEF QueueInv, InLine
<1>2. LeftOf(Sent, Sent') /\ LeftOf(backlog, backlog') /\ LeftOf(outbound, outbound')
  BY <1>1 DEF LeftOf
<1>3. \A a \in 1..3 : LeftOf(Queue[a], Queue'[a])  BY <1>2 DEF Queue
<1>4. InLine(3, Queue')  BY <1>3, LineShrinks DEF QueueInv
<1> QED BY <1>4 DEF QueueInv

\* A sequence of which something is kept, in its order.
Shortened(s, t) ==
  \/ t = s \/ t = <<>> \/ (s # <<>> /\ t = Tail(s))
  \/ \E n \in 0..Len(s) : t = SubSeq(s, 1, n)

\* What is shortened stays in order.
LEMMA ShortenedInOrder ==
  ASSUME NEW s \in Seq(Nat), InOrder(s), NEW t, Shortened(s, t)
  PROVE  LeftOf(s, t)
<1>1. CASE t = s  BY <1>1 DEF LeftOf
<1>2. CASE t = <<>>  BY <1>2, EmptySequence DEF LeftOf
<1>3. CASE s # <<>> /\ t = Tail(s)  BY <1>3, TakeFirst DEF LeftOf
<1>4. CASE \E n \in 0..Len(s) : t = SubSeq(s, 1, n)
  <2>1. PICK n \in 0..Len(s) : t = SubSeq(s, 1, n)  BY <1>4
  <2> QED BY <2>1, KeepPrefix DEF LeftOf
<1> QED BY <1>1, <1>2, <1>3, <1>4 DEF Shortened

\* What the client has sent is changed by whoever changes its connection.
LEMMA SentChanges ==
  ASSUME ClientTypes, ConnTypes, QueueInv, NEW c \in Conns, NEW k, OnlyConn(c, k),
         UNCHANGED client, Shortened(conn[c].up, k.up)
  PROVE  LeftOf(Sent, Sent') \/ UNCHANGED Sent
<1>1. CASE client.conn = 0  BY <1>1 DEF Sent
<1>2. CASE client.conn # 0
  <2>1. client.conn \in Conns  BY <1>2, RelayAssumption DEF ClientTypes, Conns
  <2>2. Sent = conn[client.conn].up /\ Sent' = conn'[client.conn].up  BY <1>2 DEF Sent
  <2>3. CASE client.conn = c
    <3>1. Sent \in Seq(Nat)
      <4>1. Sent \in Seq(Requests \cup {Hello})  BY <2>1, <2>2 DEF ConnTypes, Connections
      <4>2. Requests \cup {Hello} \subseteq Nat  BY DEF Requests, Hello
      <4> QED BY <4>1, <4>2
    <3>2. InOrder(Sent)  BY QueueParts DEF QueueInv, InLine
    <3>3. Shortened(Sent, Sent')  BY <2>2, <2>3 DEF OnlyConn
    <3> QED BY <3>1, <3>2, <3>3, ShortenedInOrder
  <2>4. CASE client.conn # c  BY <2>1, <2>2, <2>4 DEF OnlyConn
  <2> QED BY <2>3, <2>4
<1> QED BY <1>1, <1>2

\* Only what is waited for is given up.
OnlyAliveAreLost == \A r \in Requests : lost'[r] = lost[r] \/ Alive(r)

\* The daemon works, or a connection does.
LEMMA TheDaemonWorks ==
  ASSUME IInv, UNCHANGED <<bridgeVars, clientVars, answer>>,
         ConnTypes', ConnInv', DaemonTypes', CommandTypes', LostTypes', StoreInv', PlaceInv',
         OnlyAliveAreLost, LeftOf(Sent, Sent') \/ UNCHANGED Sent
  PROVE  IInv'
<1> USE DEF IInv, Types, bridgeVars, clientVars
<1>1. Types'  BY DEF BridgeTypes, ClientTypes
<1>2. ClientInv'  BY DEF ClientInv, At
<1>3. BridgeInv'  BY DEF BridgeInv
<1>4. AskedInv'  BY DEF AskedInv, OnlyAliveAreLost, Alive
<1>5. ToldWhatTheUserSaid'  BY DEF ToldWhatTheUserSaid
<1>6. QueueInv'  BY QueueShrinks
<1> QED BY <1>1, <1>2, <1>3, <1>4, <1>5, <1>6

\* One connection changes, and the daemon with it.
LEMMA OneConnectionWorks ==
  ASSUME IInv, UNCHANGED <<bridgeVars, clientVars, answer>>,
         NEW c \in Conns, NEW k, OnlyConn(c, k), Sound(client, answer, c, k),
         Shortened(conn[c].up, k.up),
         DaemonTypes', CommandTypes', LostTypes', StoreInv', PlaceInv', OnlyAliveAreLost
  PROVE  IInv'
<1>1. ConnInv /\ ConnTypes /\ ClientTypes /\ ClientTypes' /\ QueueInv
  BY DEF IInv, Types, ClientTypes, clientVars
<1>2. client' = client  BY DEF clientVars
<1>3. ConnTypes' /\ ConnInv'  BY <1>1, <1>2, OneConnection
<1>4. LeftOf(Sent, Sent') \/ UNCHANGED Sent  BY <1>1, <1>2, SentChanges
<1> QED BY <1>3, <1>4, TheDaemonWorks

\* What is held can be given up.
LEMMA HeldIsGivenUp ==
  ASSUME IInv, UNCHANGED awaiting, NEW ids, NEW cause \in Causes, Lose(ids, cause),
         \A r \in Requests : r \in ids => \E p \in Places : r \in In(p)
  PROVE  /\ LostTypes' /\ OnlyAliveAreLost
         /\ \A r \in Requests : Alive(r)' <=> Alive(r) /\ r \notin ids
<1>1. LostTypes /\ PlaceInv  BY DEF IInv, Types
<1>2. LostTypes' /\ \A r \in Requests : Alive(r)' <=> Alive(r) /\ r \notin ids
  BY <1>1, GivenUp
<1>3. OnlyAliveAreLost  BY <1>1 DEF PlaceInv, OnlyAliveAreLost, Lose
<1> QED BY <1>2, <1>3

\* Nothing is given up.
LEMMA NothingIsLost ==
  ASSUME IInv, UNCHANGED <<awaiting, lost>>
  PROVE  LostTypes' /\ OnlyAliveAreLost /\ \A r \in Requests : Alive(r)' <=> Alive(r)
BY NothingGivenUp DEF IInv, Types, LostTypes, OnlyAliveAreLost

\* A connection that has a handler, or a link or anything on it, has been opened.
LEMMA UsedConnections ==
  ASSUME ConnInv, NEW c \in Conns,
         \/ conn[c].handler # "none" \/ conn[c].link \/ conn[c].sender
         \/ conn[c].up # <<>> \/ conn[c].down # <<>>
  PROVE  ~ c > client.conn
BY DEF ConnInv, Sound, Conn

\* A connection that only changes its handler holds what it held.
LEMMA HandlerMovesOn ==
  ASSUME IInv, UNCHANGED <<bridgeVars, clientVars, storeVars, verdicts, command, lost>>,
         DaemonTypes', NEW c \in Conns, NEW h,
         LET k == [conn[c] EXCEPT !.handler = h] IN OnlyConn(c, k) /\ Greeting(client, c, k),
         conn[c].handler # "none", h # "none"
  PROVE  IInv'
<1> DEFINE k == [conn[c] EXCEPT !.handler = h]
<1>1. /\ ConnInv /\ ConnTypes /\ PlaceInv /\ CommandTypes /\ StoreInv
      /\ ClientTypes
  BY DEF IInv, Types
<1>2. conn[c] \in Connections /\ Sound(client, answer, c, conn[c])
  BY <1>1 DEF ConnTypes, ConnInv
<1>3. /\ k.up = conn[c].up /\ k.hands = conn[c].hands /\ k.out = conn[c].out
      /\ k.down = conn[c].down /\ k.handler = h
  BY <1>2 DEF Connections
<1>4. OnlyConn(c, k) /\ Greeting(client, c, k)  OBVIOUS
<1> HIDE DEF k
<1>5. Sound(client, answer, c, k)
  <2>1. ~ c > client.conn  BY <1>1, UsedConnections
  <2> QED BY <1>2, <1>3, <1>4, <2>1 DEF Sound
<1>6. PlaceInv'
  <2>1. \A p \in Places : In(p)' = In(p)
    <3>0. /\ In(<<"up", c>>)' = In(<<"up", c>>) /\ In(<<"hands", c>>)' = In(<<"hands", c>>)
          /\ In(<<"out", c>>)' = In(<<"out", c>>) /\ In(<<"down", c>>)' = In(<<"down", c>>)
      <4>1. OnlyConn(c, k)  BY <1>4
      <4>2. /\ In(<<"up", c>>)' = ToSet(k.up) \ {Hello} /\ In(<<"hands", c>>)' = Ids(k.hands)
            /\ In(<<"out", c>>)' = Ids(k.out) /\ In(<<"down", c>>)' = Ids(k.down)
        BY <4>1, PlacesOfOne
      <4> QED BY <1>3, <4>2, WhatPlacesHold
    <3>1. ASSUME NEW p \in Places PROVE In(p)' = In(p)
      <4>1. UNCHANGED <<outbound, backlog, stored, command, verdicts, inbound>>
        BY DEF bridgeVars, clientVars, storeVars
      <4>2. CASE p \in {<<"up", c>>, <<"hands", c>>, <<"out", c>>, <<"down", c>>}
        BY <3>0, <4>2
      <4> QED BY <1>4, <4>1, <4>2, PlacesOfOthers
    <3> QED BY <3>1
  <2> QED BY <1>1, <2>1, NothingMoves DEF bridgeVars
<1>7. CommandTypes' /\ StoreInv'
  BY <1>1 DEF CommandTypes, StoreInv, storeVars, Idle
<1>8. LostTypes' /\ OnlyAliveAreLost  BY NothingIsLost DEF bridgeVars
<1>9. Shortened(conn[c].up, k.up)  BY <1>3 DEF Shortened
<1> QED BY <1>4, <1>5, <1>6, <1>7, <1>8, <1>9, OneConnectionWorks DEF storeVars

\* A place loses something.
LEMMA PlaceLoses ==
  ASSUME PlaceInv, NEW a \in Places, NEW dropped, dropped \subseteq In(a),
         In(a)' = In(a) \ dropped, \A p \in Places : p # a => In(p)' = In(p),
         \A r \in Requests : Alive(r)' <=> Alive(r) /\ r \notin dropped
  PROVE  PlaceInv'
<1>1. \A p \in Places : In(p)' \subseteq In(p)  OBVIOUS
<1>2. ASSUME NEW r \in Requests
      PROVE  Alive(r)' <=> Alive(r) /\ ~ \E p \in Places : r \in In(p) /\ r \notin In(p)'
  <2>1. (\E p \in Places : r \in In(p) /\ r \notin In(p)') <=> r \in dropped  OBVIOUS
  <2> QED BY <2>1
<1> QED BY <1>1, <1>2, TakenOut

\* The handler has replayed what waited for the bridge.
LEMMA ReplayEndsPreserves ==
  ASSUME IInv, NEW c \in Conns, ReplayEnds(c)
  PROVE  IInv'
<1> DEFINE k == [conn[c] EXCEPT !.handler = "open"]
<1>1. ConnInv /\ ConnTypes /\ DaemonTypes  BY DEF IInv, Types
<1>2. conn[c] \in Connections /\ Sound(client, answer, c, conn[c])
  BY <1>1 DEF ConnTypes, ConnInv
<1>3. conn[c].handler = "replaying" /\ conn[c].hands = <<>>  BY DEF ReplayEnds
<1>4. /\ k \in Connections /\ k.handler = "open"
      /\ k.up = conn[c].up /\ k.hands = conn[c].hands /\ k.link = conn[c].link
  BY <1>2 DEF Connections
<1>5. conn' = [conn EXCEPT ![c] = k]  BY <1>1 DEF ReplayEnds, ConnTypes
<1> HIDE DEF k
<1>6. OnlyConn(c, k)  BY <1>1, <1>4, <1>5, ConnIsChanged
<1>7. Greeting(client, c, k)  BY <1>2, <1>3, <1>4 DEF Sound, Greeting
<1>8. DaemonTypes'  BY <1>1 DEF DaemonTypes, ReplayEnds, lifeVars, daemonVars, storeVars
<1> QED BY <1>3, <1>6, <1>7, <1>8, HandlerMovesOn DEF k, ReplayEnds, daemonVars

\* The handler sees the end of its connection.
LEMMA HandlerEndsPreserves ==
  ASSUME IInv, NEW c \in Conns, HandlerEnds(c)
  PROVE  IInv'
<1> DEFINE k == [conn[c] EXCEPT !.handler = "closed"]
<1>1. ConnInv /\ ConnTypes /\ DaemonTypes  BY DEF IInv, Types
<1>2. conn[c] \in Connections /\ Sound(client, answer, c, conn[c])
  BY <1>1 DEF ConnTypes, ConnInv
<1>3. conn[c].handler \in {"accepted", "open"} /\ ~conn[c].link /\ conn[c].up = <<>>
  BY DEF HandlerEnds
<1>4. /\ k \in Connections /\ k.handler = "closed"
      /\ k.up = conn[c].up /\ k.hands = conn[c].hands /\ k.link = conn[c].link
  BY <1>2 DEF Connections
<1>5. conn' = [conn EXCEPT ![c] = k]  BY <1>1 DEF HandlerEnds, ConnTypes
<1> HIDE DEF k
<1>6. OnlyConn(c, k)  BY <1>1, <1>4, <1>5, ConnIsChanged
<1>7. Greeting(client, c, k)  BY <1>2, <1>3, <1>4 DEF Sound, Greeting
<1>8. DaemonTypes'  BY <1>1 DEF DaemonTypes, HandlerEnds, lifeVars, storeVars
<1> QED BY <1>3, <1>6, <1>7, <1>8, HandlerMovesOn DEF k, HandlerEnds

\* What the invariant says of a connection.
LEMMA AConnection ==
  ASSUME IInv, NEW c \in Conns
  PROVE  /\ ConnTypes /\ conn[c] \in Connections
         /\ Sound(client, answer, c, conn[c]) /\ Greeting(client, c, conn[c])
BY DEF IInv, Types, ConnTypes, ConnInv, Sound

\* A greeting that waits is the first of what waits, and the only one.
LEMMA AGreeting ==
  ASSUME IInv, NEW c \in Conns, conn[c].handler = "accepted", conn[c].up # <<>>,
         Head(conn[c].up) = Hello
  PROVE  /\ Hello \notin ToSet(Tail(conn[c].up))
         /\ ToSet(conn[c].up) \ {Hello} = ToSet(Tail(conn[c].up))
         /\ ~ (c = client.conn /\ client.pc = "greeting")
         /\ Once(Tail(conn[c].up)) /\ Unanswered(answer, ToSet(Tail(conn[c].up)))
         /\ \A i \in DOMAIN Tail(conn[c].up) : Tail(conn[c].up)[i] # Hello
         /\ Tail(conn[c].up) \in Seq(Requests \cup {Hello})
<1>1. conn[c] \in Connections /\ Sound(client, answer, c, conn[c])  BY AConnection
<1> DEFINE s == conn[c].up
<1>2. s \in Seq(Requests \cup {Hello}) /\ Once(s) /\ Unanswered(answer, ToSet(s))
      /\ Head(s) = Hello /\ s # <<>>
  BY <1>1 DEF Connections, Sound
<1>3. ~ (c = client.conn /\ client.pc = "greeting")  BY <1>1 DEF Sound, Greeting
<1> HIDE DEF s
<1>4. /\ Tail(s) \in Seq(Requests \cup {Hello}) /\ ToSet(s) = {Hello} \cup ToSet(Tail(s))
      /\ Once(Tail(s)) /\ Hello \notin ToSet(Tail(s))
  <2>1. /\ Tail(s) \in Seq(Requests \cup {Hello}) /\ ToSet(s) = {Head(s)} \cup ToSet(Tail(s))
        /\ Once(s) => Once(Tail(s)) /\ Head(s) \notin ToSet(Tail(s))
    BY <1>2, HeadIsTaken
  <2> QED BY <1>2, <2>1
<1>5. Unanswered(answer, ToSet(Tail(s)))  BY <1>2, <1>4 DEF Unanswered
<1>6. \A i \in DOMAIN Tail(s) : Tail(s)[i] # Hello  BY <1>4 DEF ToSet
<1> QED BY <1>3, <1>4, <1>5, <1>6 DEF s

\* The handler registers the connection and takes the verdicts that waited for it.
LEMMA AcceptHelloPreserves ==
  ASSUME IInv, NEW c \in Conns, AcceptHello(c)
  PROVE  IInv'
<1> DEFINE k == [conn[c] EXCEPT !.handler = "replaying", !.up = Tail(conn[c].up),
                                !.hands = verdicts]
           taken == <<"verdicts", 0>>
           given == <<"hands", c>>
<1>1. /\ ConnTypes /\ conn[c] \in Connections
      /\ Sound(client, answer, c, conn[c]) /\ Greeting(client, c, conn[c])
  BY AConnection
<1>2. DaemonTypes /\ CommandTypes /\ StoreInv /\ PlaceInv  BY DEF IInv, Types
<1>3. conn[c].handler = "accepted" /\ conn[c].up # <<>> /\ Head(conn[c].up) = Hello
  BY DEF AcceptHello
<1>4. verdicts \in Seq(Verdicts) /\ OnceById(verdicts) /\ Agree(answer, verdicts)
  BY <1>2 DEF DaemonTypes, StoreInv
<1>5. /\ k.handler = "replaying" /\ k.up = Tail(conn[c].up) /\ k.hands = verdicts
      /\ k.link = conn[c].link /\ k.out = conn[c].out /\ k.down = conn[c].down
      /\ conn[c].hands = <<>>
  BY <1>1, <1>3 DEF Connections, Greeting
<1>6. k \in Connections  BY <1>1, <1>3, <1>4, AGreeting DEF Connections
<1>7. conn' = [conn EXCEPT ![c] = k]  BY <1>1 DEF AcceptHello, ConnTypes
<1> HIDE DEF k
<1>8. OnlyConn(c, k)  BY <1>1, <1>6, <1>7, ConnIsChanged
<1>9. Sound(client, answer, c, k)
  <2>1. Greeting(client, c, k)  BY <1>3, <1>5, AGreeting DEF Greeting
  <2>2. ~ c > client.conn  BY <1>2, <1>3, UsedConnections DEF IInv
  <2>3. Once(k.up) /\ Unanswered(answer, ToSet(k.up))  BY <1>3, <1>5, AGreeting
  <2> QED BY <1>1, <1>4, <1>5, <2>1, <2>2, <2>3 DEF Sound
<1>10. /\ UNCHANGED <<bridgeVars, clientVars, storeVars, command, lost>> /\ verdicts' = <<>>
       /\ attached' = c /\ UNCHANGED lifeVars
  BY DEF AcceptHello
<1>11. LostTypes' /\ OnlyAliveAreLost /\ \A r \in Requests : Alive(r)' <=> Alive(r)
  BY <1>10, NothingIsLost DEF bridgeVars
<1>12. Ids(<<>>) = {} /\ OnceById(<<>>) /\ Agree(answer, <<>>)  BY NoVerdicts
<1>13. PlaceInv'
  <2>1. taken \in Places /\ given \in Places /\ taken # given  BY ThePlaces
  <2>2. In(taken)' = {} /\ In(given) = {} /\ In(given)' = In(taken)
    <3>1. In(given) = Ids(conn[c].hands) /\ In(given)' = Ids(k.hands)  BY <1>8, PlacesOfOne
    <3> QED BY <1>5, <1>10, <1>12, <3>1, WhatPlacesHold, WhatPlacesHoldThen
  <2>3. ASSUME NEW p \in Places, p # taken, p # given PROVE In(p)' = In(p)
    <3>1. CASE p \notin {<<"up", c>>, <<"out", c>>, <<"down", c>>}
      BY <1>8, <1>10, <2>3, <3>1, PlacesOfOthers DEF bridgeVars, clientVars, storeVars
    <3>3. CASE p \in {<<"up", c>>, <<"out", c>>, <<"down", c>>}
      <4>1. /\ In(<<"up", c>>)' = ToSet(k.up) \ {Hello}
            /\ In(<<"out", c>>)' = Ids(k.out) /\ In(<<"down", c>>)' = Ids(k.down)
        BY <1>8, PlacesOfOne
      <4>2. ToSet(k.up) \ {Hello} = ToSet(conn[c].up) \ {Hello}  BY <1>3, <1>5, AGreeting
      <4> QED BY <1>5, <3>3, <4>1, <4>2, WhatPlacesHold
    <3> QED BY <3>1, <3>3
  <2> HIDE DEF taken, given
  <2>4. Exchange(taken, given, {})  BY <1>11, <2>2, <2>3 DEF Exchange
  <2> QED BY <1>2, <2>1, <2>4, Exchanged
<1>14. DaemonTypes'
  BY <1>2, <1>10, RelayAssumption DEF DaemonTypes, lifeVars, storeVars
<1>15. CommandTypes' /\ StoreInv'
  BY <1>2, <1>10, <1>12 DEF CommandTypes, StoreInv, Idle, storeVars
<1>16. Shortened(conn[c].up, k.up)  BY <1>3, <1>5 DEF Shortened
<1> QED BY <1>8, <1>9, <1>10, <1>11, <1>13, <1>14, <1>15, <1>16, OneConnectionWorks
       DEF storeVars

\* The handler refuses the connection.
LEMMA RejectHelloPreserves ==
  ASSUME IInv, NEW c \in Conns, RejectHello(c)
  PROVE  IInv'
<1> DEFINE k == [conn[c] EXCEPT !.handler = "closed", !.link = FALSE, !.sender = FALSE,
                                !.up = <<>>]
           left == <<"up", c>>
<1>1. /\ ConnTypes /\ conn[c] \in Connections
      /\ Sound(client, answer, c, conn[c]) /\ Greeting(client, c, conn[c])
  BY AConnection
<1>2. DaemonTypes /\ CommandTypes /\ StoreInv /\ PlaceInv  BY DEF IInv, Types
<1>3. conn[c].handler = "accepted" /\ conn[c].up # <<>> /\ Head(conn[c].up) = Hello
  BY DEF RejectHello
<1>4. /\ k.handler = "closed" /\ k.up = <<>> /\ k.hands = conn[c].hands /\ ~k.link
      /\ k.out = conn[c].out /\ k.down = conn[c].down /\ k \in Connections
      /\ conn[c].hands = <<>>
  <2>1. conn[c].hands = <<>>  BY <1>1, <1>3 DEF Greeting
  <2>2. conn[c] \in Connections /\ <<>> \in Seq(Requests \cup {Hello})  BY <1>1
  <2>3. k \in Connections  BY <2>2 DEF Connections
  <2>4. /\ k.handler = "closed" /\ k.up = <<>> /\ k.hands = conn[c].hands /\ ~k.link
        /\ k.out = conn[c].out /\ k.down = conn[c].down
    BY <2>2 DEF Connections
  <2> QED BY <2>1, <2>3, <2>4
<1>5. conn' = [conn EXCEPT ![c] = k]  BY <1>1 DEF RejectHello, ConnTypes
<1> HIDE DEF k
<1>6. OnlyConn(c, k)  BY <1>1, <1>4, <1>5, ConnIsChanged
<1>7. ToSet(<<>>) = {} /\ Once(<<>>)  BY DEF ToSet, Once
<1>8. Sound(client, answer, c, k)
  <2>1. Greeting(client, c, k)  BY <1>4 DEF Greeting
  <2>2. ~ c > client.conn  BY <1>3, UsedConnections DEF IInv
  <2> QED BY <1>1, <1>4, <1>7, <2>1, <2>2 DEF Sound, Unanswered
<1>9. /\ UNCHANGED <<bridgeVars, clientVars, storeVars, command, verdicts, lifeVars>>
      /\ attached' \in {attached, None} /\ Lose(ToSet(Tail(conn[c].up)), "connection")
  BY DEF RejectHello
<1>10. /\ In(left) = ToSet(Tail(conn[c].up)) /\ In(left)' = {}
       /\ \A p \in Places : p # left => In(p)' = In(p)
  <2>1. /\ In(<<"up", c>>)' = ToSet(k.up) \ {Hello} /\ In(<<"hands", c>>)' = Ids(k.hands)
        /\ In(<<"out", c>>)' = Ids(k.out) /\ In(<<"down", c>>)' = Ids(k.down)
    BY <1>6, PlacesOfOne
  <2>2. In(left) = ToSet(Tail(conn[c].up))  BY <1>3, AGreeting, WhatPlacesHold
  <2>3. ASSUME NEW p \in Places, p # left PROVE In(p)' = In(p)
    <3>1. CASE p \in {<<"hands", c>>, <<"out", c>>, <<"down", c>>}
      BY <1>4, <2>1, <3>1, WhatPlacesHold
    <3>2. CASE p \notin {<<"hands", c>>, <<"out", c>>, <<"down", c>>}
      BY <1>6, <1>9, <2>3, <3>2, PlacesOfOthers DEF bridgeVars, clientVars, storeVars
    <3> QED BY <3>1, <3>2
  <2> QED BY <1>4, <1>7, <2>1, <2>2, <2>3
<1>11. left \in Places  BY ThePlaces
<1> HIDE DEF left
<1>12. /\ LostTypes' /\ OnlyAliveAreLost
       /\ \A r \in Requests : Alive(r)' <=> Alive(r) /\ r \notin ToSet(Tail(conn[c].up))
  <2>1. \A r \in ToSet(Tail(conn[c].up)) : \E p \in Places : r \in In(p)
    BY <1>10, <1>11
  <2>2. "connection" \in Causes /\ UNCHANGED awaiting  BY <1>9 DEF Causes, bridgeVars
  <2> QED BY <1>9, <2>1, <2>2, HeldIsGivenUp
<1>13. PlaceInv'  BY <1>2, <1>10, <1>11, <1>12, PlaceLoses
<1>14. DaemonTypes' /\ CommandTypes' /\ StoreInv'
  BY <1>2, <1>9 DEF DaemonTypes, CommandTypes, StoreInv, Idle, lifeVars, storeVars
<1>15. Shortened(conn[c].up, k.up)  BY <1>4 DEF Shortened
<1> QED BY <1>6, <1>8, <1>9, <1>12, <1>13, <1>14, <1>15, OneConnectionWorks DEF storeVars

\* The handler replays a verdict.
LEMMA ReplayVerdictSends ==
  ASSUME IInv, NEW c \in Conns, ReplayVerdict(c), conn[c].sender
  PROVE  IInv'
<1> DEFINE v == Head(conn[c].hands)
           k == [conn[c] EXCEPT !.out = Append(conn[c].out, v), !.hands = Tail(conn[c].hands)]
           taken == <<"hands", c>>
           given == <<"out", c>>
<1>1. /\ ConnTypes /\ conn[c] \in Connections
      /\ Sound(client, answer, c, conn[c]) /\ Greeting(client, c, conn[c])
  BY AConnection
<1>2. DaemonTypes /\ CommandTypes /\ StoreInv /\ PlaceInv  BY DEF IInv, Types
<1>3. conn[c].handler = "replaying" /\ conn[c].hands # <<>>  BY DEF ReplayVerdict
<1>4. /\ conn[c].hands \in Seq(Verdicts) /\ conn[c].out \in Seq(Verdicts)
      /\ OnceById(conn[c].hands) /\ Agree(answer, conn[c].hands)
      /\ OnceById(conn[c].out) /\ Agree(answer, conn[c].out)
  BY <1>1 DEF Connections, Sound
<1>5. /\ v \in Verdicts /\ Tail(conn[c].hands) \in Seq(Verdicts)
      /\ Ids(conn[c].hands) = {v.id} \cup Ids(Tail(conn[c].hands))
      /\ OnceById(Tail(conn[c].hands)) /\ v.id \notin Ids(Tail(conn[c].hands))
      /\ Agree(answer, Tail(conn[c].hands)) /\ answer[v.id] = v.behavior
  BY <1>3, <1>4, VerdictIsTaken
<1>6. conn' = [conn EXCEPT ![c] = k]  BY <1>1 DEF ReplayVerdict, ConnTypes
<1>7. /\ UNCHANGED <<bridgeVars, clientVars, storeVars, command, verdicts, attached>>
      /\ UNCHANGED <<lifeVars, lost>>
  BY DEF ReplayVerdict
<1> HIDE DEF v
<1>8. taken \in Places /\ given \in Places /\ taken # given  BY ThePlaces
<1>9. v.id \notin Ids(conn[c].out)
  <2>1. In(taken) \cap In(given) = {}  BY <1>2, <1>8 DEF PlaceInv
  <2>2. In(taken) = Ids(conn[c].hands) /\ In(given) = Ids(conn[c].out)  BY WhatPlacesHold
  <2> QED BY <1>5, <2>1, <2>2
<1>10. /\ Append(conn[c].out, v) \in Seq(Verdicts)
       /\ Ids(Append(conn[c].out, v)) = Ids(conn[c].out) \cup {v.id}
       /\ OnceById(Append(conn[c].out, v)) /\ Agree(answer, Append(conn[c].out, v))
  BY <1>4, <1>5, <1>9, VerdictIsPut
<1>11. /\ k \in Connections /\ k.handler = conn[c].handler /\ k.link = conn[c].link
       /\ k.up = conn[c].up /\ k.down = conn[c].down
       /\ k.out = Append(conn[c].out, v) /\ k.hands = Tail(conn[c].hands)
  BY <1>1, <1>5, <1>10 DEF Connections
<1> HIDE DEF k
<1>12. OnlyConn(c, k)  BY <1>1, <1>6, <1>11, ConnIsChanged
<1>13. Sound(client, answer, c, k)
  <2>1. Greeting(client, c, k)  BY <1>1, <1>3, <1>11 DEF Greeting
  <2>2. ~ c > client.conn  BY <1>3, UsedConnections DEF IInv
  <2> QED BY <1>1, <1>5, <1>10, <1>11, <2>1, <2>2 DEF Sound
<1>14. LostTypes' /\ OnlyAliveAreLost /\ \A r \in Requests : Alive(r)' <=> Alive(r)
  BY <1>7, NothingIsLost DEF bridgeVars
<1>15. /\ In(taken)' = In(taken) \ {v.id} /\ In(given)' = In(given) \cup {v.id}
       /\ v.id \in In(taken)
       /\ \A p \in Places : p # taken /\ p # given => In(p)' = In(p)
  <2>1. /\ In(<<"up", c>>)' = ToSet(k.up) \ {Hello} /\ In(<<"hands", c>>)' = Ids(k.hands)
        /\ In(<<"out", c>>)' = Ids(k.out) /\ In(<<"down", c>>)' = Ids(k.down)
    BY <1>12, PlacesOfOne
  <2>2. In(taken) = Ids(conn[c].hands) /\ In(given) = Ids(conn[c].out)  BY WhatPlacesHold
  <2>3. ASSUME NEW p \in Places, p # taken, p # given PROVE In(p)' = In(p)
    <3>1. CASE p \in {<<"up", c>>, <<"down", c>>}  BY <1>11, <2>1, <3>1, WhatPlacesHold
    <3>2. CASE p \notin {<<"up", c>>, <<"down", c>>}
      BY <1>7, <1>12, <2>3, <3>2, PlacesOfOthers DEF bridgeVars, clientVars, storeVars
    <3> QED BY <3>1, <3>2
  <2> QED BY <1>5, <1>10, <1>11, <2>1, <2>2, <2>3
<1> HIDE DEF taken, given
<1>16. PlaceInv'
  <2>1. Exchange(taken, given, {})  BY <1>14, <1>15 DEF Exchange
  <2> QED BY <1>2, <1>8, <2>1, Exchanged
<1>17. DaemonTypes' /\ CommandTypes' /\ StoreInv'
  BY <1>2, <1>7 DEF DaemonTypes, CommandTypes, StoreInv, Idle, lifeVars, storeVars
<1>18. Shortened(conn[c].up, k.up)  BY <1>11 DEF Shortened
<1> QED BY <1>7, <1>12, <1>13, <1>14, <1>16, <1>17, <1>18, OneConnectionWorks DEF storeVars

\* What does not fit into the buffer is lost, and all else that was there or came is in it.
LEMMA VerdictsAreBuffered ==
  ASSUME IInv, NEW vs \in Seq(Verdicts), BufferVerdicts(vs), UNCHANGED awaiting,
         OnceById(vs), Agree(answer, vs), NEW a \in Places, Ids(vs) = In(a),
         a # <<"verdicts", 0>>, In(a)' = {},
         \A p \in Places : p # a /\ p # <<"verdicts", 0>> => In(p)' = In(p)
  PROVE  /\ verdicts' \in Seq(Verdicts) /\ Len(verdicts') <= VerdictMax
         /\ OnceById(verdicts') /\ Agree(answer, verdicts')
         /\ LostTypes' /\ OnlyAliveAreLost /\ PlaceInv'
<1> DEFINE b == <<"verdicts", 0>>
           dropped == (Ids(verdicts) \cup Ids(vs)) \ Ids(verdicts')
<1>1. /\ verdicts \in Seq(Verdicts) /\ Len(verdicts) <= VerdictMax /\ OnceById(verdicts)
      /\ Agree(answer, verdicts) /\ PlaceInv
  BY DEF IInv, Types, DaemonTypes, StoreInv
<1>2. verdicts' = Kept(verdicts, vs) /\ Lose(dropped, "drained")
  BY Zenon DEF BufferVerdicts, Kept
<1>3. b \in Places /\ In(b) = Ids(verdicts) /\ In(b)' = Ids(verdicts')
  BY ThePlaces, WhatPlacesHold, WhatPlacesHoldThen
<1>4. Ids(verdicts) \cap Ids(vs) = {}  BY <1>1, <1>3 DEF PlaceInv
<1>5. /\ verdicts' \in Seq(Verdicts) /\ Len(verdicts') <= VerdictMax
      /\ Ids(verdicts') \subseteq Ids(verdicts) \cup Ids(vs)
      /\ OnceById(verdicts') /\ Agree(answer, verdicts')
  <2>1. /\ Kept(verdicts, vs) \in Seq(Verdicts) /\ Len(Kept(verdicts, vs)) <= VerdictMax
        /\ Ids(Kept(verdicts, vs)) \subseteq Ids(verdicts) \cup Ids(vs)
        /\ (OnceById(verdicts) /\ OnceById(vs) /\ Ids(verdicts) \cap Ids(vs) = {}
              => OnceById(Kept(verdicts, vs)))
        /\ \A x : Agree(x, verdicts) /\ Agree(x, vs) => Agree(x, Kept(verdicts, vs))
    BY <1>1, KeptVerdicts
  <2> QED BY <1>1, <1>2, <1>4, <2>1
<1>6. /\ LostTypes' /\ OnlyAliveAreLost
      /\ \A r \in Requests : Alive(r)' <=> Alive(r) /\ r \notin dropped
  <2>1. \A r \in dropped : \E p \in Places : r \in In(p)  BY <1>3
  <2>2. "drained" \in Causes  BY DEF Causes
  <2> QED BY <1>2, <2>1, <2>2, HeldIsGivenUp
<1> HIDE DEF b
<1>7. PlaceInv'
  <2>1. Exchange(a, b, dropped)  BY <1>3, <1>5, <1>6 DEF Exchange, b
  <2> QED BY <1>1, <1>3, <2>1, Exchanged DEF b
<1> QED BY <1>5, <1>6, <1>7

\* The sender task is gone: the handler gives the verdicts back.
LEMMA ReplayVerdictGivesBack ==
  ASSUME IInv, NEW c \in Conns, ReplayVerdict(c), ~conn[c].sender
  PROVE  IInv'
<1> DEFINE k == [conn[c] EXCEPT !.hands = <<>>]
<1>1. /\ ConnTypes /\ conn[c] \in Connections
      /\ Sound(client, answer, c, conn[c]) /\ Greeting(client, c, conn[c])
  BY AConnection
<1>2. DaemonTypes /\ CommandTypes /\ StoreInv  BY DEF IInv, Types
<1>3. conn[c].handler = "replaying" /\ conn[c].hands # <<>>  BY DEF ReplayVerdict
<1>4. /\ conn[c].hands \in Seq(Verdicts) /\ OnceById(conn[c].hands)
      /\ Agree(answer, conn[c].hands)
  BY <1>1 DEF Connections, Sound
<1>5. conn' = [conn EXCEPT ![c] = k]  BY <1>1 DEF ReplayVerdict, ConnTypes
<1>6. /\ UNCHANGED <<bridgeVars, clientVars, storeVars, command, attached, lifeVars>>
      /\ BufferVerdicts(conn[c].hands)
  BY Zenon DEF ReplayVerdict
<1>7. /\ k \in Connections /\ k.handler = conn[c].handler /\ k.link = conn[c].link
      /\ k.up = conn[c].up /\ k.down = conn[c].down /\ k.out = conn[c].out /\ k.hands = <<>>
  <2>1. conn[c] \in Connections /\ <<>> \in Seq(Verdicts)  BY <1>1, NoVerdicts
  <2>2. k \in Connections  BY <2>1 DEF Connections
  <2> QED BY <2>1, <2>2 DEF Connections
<1> HIDE DEF k
<1>8. OnlyConn(c, k)  BY <1>1, <1>5, <1>7, ConnIsChanged
<1>9. Ids(<<>>) = {} /\ OnceById(<<>>) /\ Agree(answer, <<>>)  BY NoVerdicts
<1>10. Sound(client, answer, c, k)
  <2>1. Greeting(client, c, k)  BY <1>1, <1>3, <1>7 DEF Greeting
  <2>2. ~ c > client.conn  BY <1>3, UsedConnections DEF IInv
  <2> QED BY <1>1, <1>7, <1>9, <2>1, <2>2 DEF Sound
<1> DEFINE a == <<"hands", c>>
<1>11. /\ a \in Places /\ a # <<"verdicts", 0>> /\ Ids(conn[c].hands) = In(a) /\ In(a)' = {}
       /\ \A p \in Places : p # a /\ p # <<"verdicts", 0>> => In(p)' = In(p)
  <2>1. /\ In(<<"up", c>>)' = ToSet(k.up) \ {Hello} /\ In(<<"hands", c>>)' = Ids(k.hands)
        /\ In(<<"out", c>>)' = Ids(k.out) /\ In(<<"down", c>>)' = Ids(k.down)
    BY <1>8, PlacesOfOne
  <2>2. ASSUME NEW p \in Places, p # a, p # <<"verdicts", 0>> PROVE In(p)' = In(p)
    <3>1. CASE p \in {<<"up", c>>, <<"out", c>>, <<"down", c>>}
      BY <1>7, <2>1, <3>1, WhatPlacesHold
    <3>2. CASE p \notin {<<"up", c>>, <<"out", c>>, <<"down", c>>}
      <4>1. UNCHANGED <<outbound, backlog, stored, command, inbound>>
        BY <1>6 DEF bridgeVars, clientVars, storeVars
      <4> QED BY <1>8, <2>2, <3>2, <4>1, PlacesOfOthers
    <3> QED BY <3>1, <3>2
  <2>3. a \in Places /\ a # <<"verdicts", 0>>  BY ThePlaces
  <2>4. Ids(conn[c].hands) = In(a)  BY WhatPlacesHold
  <2> QED BY <1>7, <1>9, <2>1, <2>2, <2>3, <2>4
<1> HIDE DEF a
<1>12. /\ verdicts' \in Seq(Verdicts) /\ Len(verdicts') <= VerdictMax
       /\ OnceById(verdicts') /\ Agree(answer, verdicts')
       /\ LostTypes' /\ OnlyAliveAreLost /\ PlaceInv'
  <2>1. UNCHANGED awaiting  BY <1>6 DEF bridgeVars
  <2> HIDE DEF ReplayVerdict
  <2> QED BY <1>4, <1>6, <1>11, <2>1, VerdictsAreBuffered
<1>13. DaemonTypes' /\ CommandTypes' /\ StoreInv'
  BY <1>2, <1>6, <1>12 DEF DaemonTypes, CommandTypes, StoreInv, Idle, lifeVars, storeVars
<1>14. Shortened(conn[c].up, k.up)  BY <1>7 DEF Shortened
<1> QED BY <1>6, <1>8, <1>10, <1>12, <1>13, <1>14, OneConnectionWorks DEF storeVars

\* The handler replays a verdict, or gives back those it has.
LEMMA ReplayVerdictPreserves ==
  ASSUME IInv, NEW c \in Conns, ReplayVerdict(c)
  PROVE  IInv'
BY ReplayVerdictSends, ReplayVerdictGivesBack

\* The handler stores a request.
LEMMA StoreRequestPreserves ==
  ASSUME IInv, NEW c \in Conns, StoreRequest(c)
  PROVE  IInv'
<1> DEFINE x == Head(conn[c].up)
           k == [conn[c] EXCEPT !.up = Tail(conn[c].up)]
           taken == <<"up", c>>
           given == <<"stored", 0>>
<1>1. /\ ConnTypes /\ conn[c] \in Connections
      /\ Sound(client, answer, c, conn[c]) /\ Greeting(client, c, conn[c])
  BY AConnection
<1>2. DaemonTypes /\ CommandTypes /\ StoreInv /\ PlaceInv  BY DEF IInv, Types
<1>3. conn[c].handler = "open" /\ conn[c].up # <<>>  BY DEF StoreRequest
<1>4. conn[c].up \in Seq(Requests \cup {Hello}) /\ Once(conn[c].up)
      /\ Unanswered(answer, ToSet(conn[c].up))
  BY <1>1 DEF Connections, Sound
<1>5. /\ Tail(conn[c].up) \in Seq(Requests \cup {Hello})
      /\ ToSet(conn[c].up) = {x} \cup ToSet(Tail(conn[c].up))
      /\ Once(Tail(conn[c].up)) /\ x \notin ToSet(Tail(conn[c].up))
      /\ x \in Requests \cup {Hello}
  BY <1>3, <1>4, HeadIsTaken
<1>6. \A i \in DOMAIN conn[c].up : conn[c].up[i] # Hello  BY <1>1, <1>3 DEF Greeting
<1>7. x \in Requests /\ Hello \notin ToSet(conn[c].up)
  <2>1. Hello \notin ToSet(conn[c].up)  BY <1>6 DEF ToSet
  <2> QED BY <1>5, <2>1
<1>8. answer[x] = "none" /\ Unanswered(answer, ToSet(Tail(conn[c].up)))
  BY <1>4, <1>5, <1>7 DEF Unanswered
<1>9. conn' = [conn EXCEPT ![c] = k]  BY <1>1 DEF StoreRequest, ConnTypes
<1>10. /\ UNCHANGED <<bridgeVars, clientVars, command, verdicts, answer, attached>>
       /\ UNCHANGED lifeVars /\ Lose(aged, "expired") /\ aged' = {}
       /\ stored' = (stored \ aged) \cup {x}
  BY DEF StoreRequest, Prune, Fresh
<1>11. /\ k \in Connections /\ k.handler = conn[c].handler /\ k.link = conn[c].link
       /\ k.up = Tail(conn[c].up) /\ k.down = conn[c].down
       /\ k.out = conn[c].out /\ k.hands = conn[c].hands
  BY <1>1, <1>5 DEF Connections
<1> HIDE DEF x, k
<1>12. OnlyConn(c, k)  BY <1>1, <1>9, <1>11, ConnIsChanged
<1>13. Sound(client, answer, c, k)
  <2>1. \A i \in DOMAIN k.up : k.up[i] # Hello  BY <1>5, <1>7, <1>11 DEF ToSet
  <2>2. Greeting(client, c, k)  BY <1>1, <1>3, <1>11, <2>1 DEF Greeting
  <2>3. ~ c > client.conn  BY <1>3, UsedConnections DEF IInv
  <2> QED BY <1>1, <1>5, <1>8, <1>11, <2>2, <2>3 DEF Sound
<1>14. /\ taken \in Places /\ given \in Places /\ taken # given
       /\ In(taken) = ToSet(conn[c].up) /\ In(given) = stored
  BY <1>7, ThePlaces, WhatPlacesHold
<1>15. x \notin stored /\ aged \subseteq stored /\ stored \subseteq Requests
  BY <1>2, <1>5, <1>14 DEF PlaceInv, DaemonTypes
<1>16. /\ In(taken)' = In(taken) \ {x} /\ In(given)' = (In(given) \cup {x}) \ aged
       /\ x \in In(taken)
       /\ \A p \in Places : p # taken /\ p # given => In(p)' = In(p)
  <2>1. /\ In(<<"up", c>>)' = ToSet(k.up) \ {Hello} /\ In(<<"hands", c>>)' = Ids(k.hands)
        /\ In(<<"out", c>>)' = Ids(k.out) /\ In(<<"down", c>>)' = Ids(k.down)
    BY <1>12, PlacesOfOne
  <2>2. ASSUME NEW p \in Places, p # taken, p # given PROVE In(p)' = In(p)
    <3>1. CASE p \in {<<"hands", c>>, <<"out", c>>, <<"down", c>>}
      BY <1>11, <2>1, <3>1, WhatPlacesHold
    <3>2. CASE p \notin {<<"hands", c>>, <<"out", c>>, <<"down", c>>}
      <4>1. UNCHANGED <<outbound, backlog, command, verdicts, inbound>>
        BY <1>10 DEF bridgeVars, clientVars
      <4> QED BY <1>12, <2>2, <3>2, <4>1, PlacesOfOthers
    <3> QED BY <3>1, <3>2
  <2>3. In(taken)' = In(taken) \ {x}  BY <1>5, <1>7, <1>11, <1>14, <2>1
  <2>4. In(given)' = (In(given) \cup {x}) \ aged
    <3>1. In(given)' = (stored \ aged) \cup {x}  BY <1>10, WhatPlacesHoldThen
    <3> QED BY <1>14, <1>15, <3>1
  <2> QED BY <1>5, <1>14, <2>2, <2>3, <2>4
<1> HIDE DEF taken, given
<1>17. /\ LostTypes' /\ OnlyAliveAreLost
       /\ \A r \in Requests : Alive(r)' <=> Alive(r) /\ r \notin aged
  <2>1. \A r \in Requests : r \in aged => \E p \in Places : r \in In(p)  BY <1>14, <1>15
  <2>2. "expired" \in Causes /\ UNCHANGED awaiting  BY <1>10 DEF Causes, bridgeVars
  <2> QED BY <1>10, <2>1, <2>2, HeldIsGivenUp
<1>18. PlaceInv'
  <2>1. Exchange(taken, given, aged)  BY <1>14, <1>15, <1>16, <1>17 DEF Exchange
  <2> QED BY <1>2, <1>14, <2>1, Exchanged
<1>19. DaemonTypes'
  <2>1. stored' \subseteq Requests /\ aged' \subseteq stored'  BY <1>7, <1>10, <1>15
  <2> QED BY <1>2, <1>10, <2>1 DEF DaemonTypes, lifeVars
<1>20. CommandTypes' /\ StoreInv'
  <2>1. Unanswered(answer, stored')  BY <1>2, <1>8, <1>10 DEF StoreInv, Unanswered
  <2> QED BY <1>2, <1>10, <2>1 DEF CommandTypes, StoreInv, Idle
<1>21. Shortened(conn[c].up, k.up)  BY <1>3, <1>11 DEF Shortened
<1> QED BY <1>10, <1>12, <1>13, <1>17, <1>18, <1>19, <1>20, <1>21, OneConnectionWorks

\* The sender task sends.
LEMMA ForwardSends ==
  ASSUME IInv, NEW c \in Conns, Forward(c), conn[c].link
  PROVE  IInv'
<1> DEFINE v == Head(conn[c].out)
           k == [conn[c] EXCEPT !.out = Tail(conn[c].out), !.down = Append(conn[c].down, v)]
           taken == <<"out", c>>
           given == <<"down", c>>
<1>1. /\ ConnTypes /\ conn[c] \in Connections
      /\ Sound(client, answer, c, conn[c]) /\ Greeting(client, c, conn[c])
  BY AConnection
<1>2. DaemonTypes /\ CommandTypes /\ StoreInv /\ PlaceInv  BY DEF IInv, Types
<1>3. conn[c].sender /\ conn[c].out # <<>>  BY DEF Forward
<1>4. /\ conn[c].down \in Seq(Verdicts) /\ conn[c].out \in Seq(Verdicts)
      /\ OnceById(conn[c].down) /\ Agree(answer, conn[c].down)
      /\ OnceById(conn[c].out) /\ Agree(answer, conn[c].out)
  BY <1>1 DEF Connections, Sound
<1>5. /\ v \in Verdicts /\ Tail(conn[c].out) \in Seq(Verdicts)
      /\ Ids(conn[c].out) = {v.id} \cup Ids(Tail(conn[c].out))
      /\ OnceById(Tail(conn[c].out)) /\ v.id \notin Ids(Tail(conn[c].out))
      /\ Agree(answer, Tail(conn[c].out)) /\ answer[v.id] = v.behavior
  BY <1>3, <1>4, VerdictIsTaken
<1>6. conn' = [conn EXCEPT ![c] = k]  BY <1>1 DEF Forward, ConnTypes
<1>7. UNCHANGED <<bridgeVars, clientVars, lifeVars, daemonVars, lost>>  BY DEF Forward
<1> HIDE DEF v
<1>8. /\ taken \in Places /\ given \in Places /\ taken # given
      /\ In(taken) = Ids(conn[c].out) /\ In(given) = Ids(conn[c].down)
  BY ThePlaces, WhatPlacesHold
<1>9. v.id \notin Ids(conn[c].down)  BY <1>2, <1>5, <1>8 DEF PlaceInv
<1>10. /\ Append(conn[c].down, v) \in Seq(Verdicts)
       /\ Ids(Append(conn[c].down, v)) = Ids(conn[c].down) \cup {v.id}
       /\ OnceById(Append(conn[c].down, v)) /\ Agree(answer, Append(conn[c].down, v))
  BY <1>4, <1>5, <1>9, VerdictIsPut
<1>11. /\ k \in Connections /\ k.handler = conn[c].handler /\ k.link = conn[c].link
       /\ k.up = conn[c].up /\ k.hands = conn[c].hands
       /\ k.out = Tail(conn[c].out) /\ k.down = Append(conn[c].down, v)
  BY <1>1, <1>5, <1>10 DEF Connections
<1> HIDE DEF k
<1>12. OnlyConn(c, k)  BY <1>1, <1>6, <1>11, ConnIsChanged
<1>13. Sound(client, answer, c, k)
  <2>1. Greeting(client, c, k)  BY <1>1, <1>11 DEF Greeting
  <2>2. ~ c > client.conn  BY <1>3, UsedConnections DEF IInv
  <2> QED BY <1>1, <1>5, <1>10, <1>11, <2>1, <2>2 DEF Sound
<1>14. LostTypes' /\ OnlyAliveAreLost /\ \A r \in Requests : Alive(r)' <=> Alive(r)
  BY <1>7, NothingIsLost DEF bridgeVars
<1>15. /\ In(taken)' = In(taken) \ {v.id} /\ In(given)' = In(given) \cup {v.id}
       /\ v.id \in In(taken)
       /\ \A p \in Places : p # taken /\ p # given => In(p)' = In(p)
  <2>1. /\ In(<<"up", c>>)' = ToSet(k.up) \ {Hello} /\ In(<<"hands", c>>)' = Ids(k.hands)
        /\ In(<<"out", c>>)' = Ids(k.out) /\ In(<<"down", c>>)' = Ids(k.down)
    BY <1>12, PlacesOfOne
  <2>2. ASSUME NEW p \in Places, p # taken, p # given PROVE In(p)' = In(p)
    <3>1. CASE p \in {<<"up", c>>, <<"hands", c>>}  BY <1>11, <2>1, <3>1, WhatPlacesHold
    <3>2. CASE p \notin {<<"up", c>>, <<"hands", c>>}
      BY <1>7, <1>12, <2>2, <3>2, PlacesOfOthers
           DEF bridgeVars, clientVars, storeVars, daemonVars
    <3> QED BY <3>1, <3>2
  <2> QED BY <1>5, <1>8, <1>10, <1>11, <2>1, <2>2
<1> HIDE DEF taken, given
<1>16. PlaceInv'
  <2>1. Exchange(taken, given, {})  BY <1>14, <1>15 DEF Exchange
  <2> QED BY <1>2, <1>8, <2>1, Exchanged
<1>17. DaemonTypes' /\ CommandTypes' /\ StoreInv'
  BY <1>2, <1>7 DEF DaemonTypes, CommandTypes, StoreInv, Idle, lifeVars, daemonVars, storeVars
<1>18. Shortened(conn[c].up, k.up)  BY <1>11 DEF Shortened
<1> QED BY <1>7, <1>12, <1>13, <1>14, <1>16, <1>17, <1>18, OneConnectionWorks
       DEF daemonVars, storeVars

\* The sender task finds the link broken.
LEMMA ForwardFails ==
  ASSUME IInv, NEW c \in Conns, Forward(c), ~conn[c].link
  PROVE  IInv'
<1> DEFINE k == [conn[c] EXCEPT !.out = <<>>, !.sender = FALSE]
           left == <<"out", c>>
<1>1. /\ ConnTypes /\ conn[c] \in Connections
      /\ Sound(client, answer, c, conn[c]) /\ Greeting(client, c, conn[c])
  BY AConnection
<1>2. DaemonTypes /\ CommandTypes /\ StoreInv /\ PlaceInv  BY DEF IInv, Types
<1>3. conn[c].sender  BY DEF Forward
<1>4. conn' = [conn EXCEPT ![c] = k]  BY <1>1 DEF Forward, ConnTypes
<1>5. /\ UNCHANGED <<bridgeVars, clientVars, lifeVars, daemonVars>>
      /\ Lose(Ids(conn[c].out), "connection")
  BY DEF Forward
<1>6. /\ k \in Connections /\ k.handler = conn[c].handler /\ k.link = conn[c].link
      /\ k.up = conn[c].up /\ k.hands = conn[c].hands /\ k.out = <<>>
      /\ k.down = conn[c].down
  <2>1. conn[c] \in Connections /\ <<>> \in Seq(Verdicts)  BY <1>1, NoVerdicts
  <2>2. k \in Connections  BY <2>1 DEF Connections
  <2> QED BY <2>1, <2>2 DEF Connections
<1> HIDE DEF k
<1>7. OnlyConn(c, k)  BY <1>1, <1>4, <1>6, ConnIsChanged
<1>8. Ids(<<>>) = {} /\ OnceById(<<>>) /\ Agree(answer, <<>>)  BY NoVerdicts
<1>9. Sound(client, answer, c, k)
  <2>1. Greeting(client, c, k)  BY <1>1, <1>6 DEF Greeting
  <2>2. ~ c > client.conn  BY <1>3, UsedConnections DEF IInv
  <2> QED BY <1>1, <1>6, <1>8, <2>1, <2>2 DEF Sound
<1>10. /\ left \in Places /\ In(left) = Ids(conn[c].out) /\ In(left)' = {}
       /\ \A p \in Places : p # left => In(p)' = In(p)
  <2>1. /\ In(<<"up", c>>)' = ToSet(k.up) \ {Hello} /\ In(<<"hands", c>>)' = Ids(k.hands)
        /\ In(<<"out", c>>)' = Ids(k.out) /\ In(<<"down", c>>)' = Ids(k.down)
    BY <1>7, PlacesOfOne
  <2>2. ASSUME NEW p \in Places, p # left PROVE In(p)' = In(p)
    <3>1. CASE p \in {<<"up", c>>, <<"hands", c>>, <<"down", c>>}
      BY <1>6, <2>1, <3>1, WhatPlacesHold
    <3>2. CASE p \notin {<<"up", c>>, <<"hands", c>>, <<"down", c>>}
      BY <1>5, <1>7, <2>2, <3>2, PlacesOfOthers
           DEF bridgeVars, clientVars, storeVars, daemonVars
    <3> QED BY <3>1, <3>2
  <2> QED BY <1>6, <1>8, <2>1, <2>2, ThePlaces, WhatPlacesHold
<1> HIDE DEF left
<1>11. /\ LostTypes' /\ OnlyAliveAreLost
       /\ \A r \in Requests : Alive(r)' <=> Alive(r) /\ r \notin Ids(conn[c].out)
  <2>1. \A r \in Requests : r \in Ids(conn[c].out) => \E p \in Places : r \in In(p)
    BY <1>10
  <2>2. "connection" \in Causes /\ UNCHANGED awaiting  BY <1>5 DEF Causes, bridgeVars
  <2> QED BY <1>5, <2>1, <2>2, HeldIsGivenUp
<1>12. PlaceInv'  BY <1>2, <1>10, <1>11, PlaceLoses
<1>13. DaemonTypes' /\ CommandTypes' /\ StoreInv'
  BY <1>2, <1>5 DEF DaemonTypes, CommandTypes, StoreInv, Idle, lifeVars, daemonVars, storeVars
<1>14. Shortened(conn[c].up, k.up)  BY <1>6 DEF Shortened
<1> QED BY <1>5, <1>7, <1>9, <1>11, <1>12, <1>13, <1>14, OneConnectionWorks
       DEF daemonVars, storeVars

\* The sender task sends a verdict, or ends.
LEMMA ForwardPreserves ==
  ASSUME IInv, NEW c \in Conns, Forward(c)
  PROVE  IInv'
BY ForwardSends, ForwardFails

\* A connection breaks, with what either end does not read any more.
LEMMA BreakLinkPreserves ==
  ASSUME IInv, NEW c \in Conns, BreakLink(c)
  PROVE  IInv'
<1>1. /\ ConnTypes /\ conn[c] \in Connections
      /\ Sound(client, answer, c, conn[c]) /\ Greeting(client, c, conn[c])
  BY AConnection
<1>2. DaemonTypes /\ CommandTypes /\ StoreInv /\ PlaceInv  BY DEF IInv, Types
<1>3. PICK i \in 0..Len(conn[c].up), j \in 0..Len(conn[c].down) :
        /\ conn' = [conn EXCEPT ![c].link = FALSE, ![c].up = SubSeq(@, 1, i),
                                ![c].down = SubSeq(@, 1, j)]
        /\ Lose(ToSet(SubSeq(conn[c].up, i + 1, Len(conn[c].up))) \cup
                  Ids(SubSeq(conn[c].down, j + 1, Len(conn[c].down))), "connection")
  BY DEF BreakLink
<1> DEFINE up == SubSeq(conn[c].up, 1, i)
           upEnd == SubSeq(conn[c].up, i + 1, Len(conn[c].up))
           down == SubSeq(conn[c].down, 1, j)
           downEnd == SubSeq(conn[c].down, j + 1, Len(conn[c].down))
           k == [conn[c] EXCEPT !.link = FALSE, !.up = up, !.down = down]
           dropped == ToSet(upEnd) \cup Ids(downEnd)
<1>4. /\ conn[c].up \in Seq(Requests \cup {Hello}) /\ Once(conn[c].up)
      /\ Unanswered(answer, ToSet(conn[c].up))
      /\ conn[c].down \in Seq(Verdicts) /\ OnceById(conn[c].down) /\ Agree(answer, conn[c].down)
  BY <1>1 DEF Connections, Sound
<1>5. CutAt(i, conn[c].up, up, upEnd) /\ CutAt(j, conn[c].down, down, downEnd)
  BY DEF CutAt
<1>6. conn' = [conn EXCEPT ![c] = k] /\ Lose(dropped, "connection")
  BY <1>1, <1>3 DEF ConnTypes
<1>7. conn[c].link /\ UNCHANGED <<bridgeVars, clientVars, lifeVars, daemonVars>>
  BY DEF BreakLink
<1> HIDE DEF up, upEnd, down, downEnd
<1>8. /\ up \in Seq(Requests \cup {Hello}) /\ Len(up) = i /\ \A m \in 1..i : up[m] = conn[c].up[m]
      /\ ToSet(conn[c].up) = ToSet(up) \cup ToSet(upEnd)
      /\ Once(up) /\ ToSet(up) \cap ToSet(upEnd) = {}
  BY <1>4, <1>5, CutInTwo
<1>9. /\ down \in Seq(Verdicts) /\ Ids(conn[c].down) = Ids(down) \cup Ids(downEnd)
      /\ OnceById(down) /\ Ids(down) \cap Ids(downEnd) = {} /\ Agree(answer, down)
  BY <1>4, <1>5, VerdictsAreCut
<1>10. /\ k \in Connections /\ k.handler = conn[c].handler /\ ~k.link
       /\ k.up = up /\ k.down = down /\ k.out = conn[c].out /\ k.hands = conn[c].hands
  BY <1>1, <1>8, <1>9 DEF Connections
<1> HIDE DEF k
<1>11. OnlyConn(c, k)  BY <1>1, <1>6, <1>10, ConnIsChanged
<1>12. Sound(client, answer, c, k)
  <2>1. i \in Nat /\ i <= Len(conn[c].up) /\ DOMAIN up = 1..i
        /\ DOMAIN conn[c].up = 1..Len(conn[c].up) /\ Len(conn[c].up) \in Nat
    BY <1>4, <1>8
  <2>2. \A m \in DOMAIN up : m \in DOMAIN conn[c].up /\ up[m] = conn[c].up[m]
    BY <1>8, <2>1
  <2>3. conn[c].up = <<>> => up = <<>>  BY <1>8, <2>1
  <2>4. Greeting(client, c, k)  BY <1>1, <1>10, <2>2, <2>3 DEF Greeting
  <2>5. ~ c > client.conn  BY <1>7, UsedConnections DEF IInv
  <2>6. Unanswered(answer, ToSet(up))  BY <1>4, <1>8 DEF Unanswered
  <2> QED BY <1>1, <1>8, <1>9, <1>10, <2>4, <2>5, <2>6 DEF Sound
<1> DEFINE a == <<"up", c>>
           b == <<"down", c>>
<1>13. /\ a \in Places /\ b \in Places
       /\ In(a) = ToSet(conn[c].up) \ {Hello} /\ In(a)' = ToSet(up) \ {Hello}
       /\ In(b) = Ids(conn[c].down) /\ In(b)' = Ids(down)
       /\ \A p \in Places : p # a /\ p # b => In(p)' = In(p)
  <2>1. /\ In(<<"up", c>>)' = ToSet(k.up) \ {Hello} /\ In(<<"hands", c>>)' = Ids(k.hands)
        /\ In(<<"out", c>>)' = Ids(k.out) /\ In(<<"down", c>>)' = Ids(k.down)
    BY <1>11, PlacesOfOne
  <2>2. ASSUME NEW p \in Places, p # a, p # b PROVE In(p)' = In(p)
    <3>1. CASE p \in {<<"out", c>>, <<"hands", c>>}  BY <1>10, <2>1, <3>1, WhatPlacesHold
    <3>2. CASE p \notin {<<"out", c>>, <<"hands", c>>}
      BY <1>7, <1>11, <2>2, <3>2, PlacesOfOthers
           DEF bridgeVars, clientVars, storeVars, daemonVars
    <3> QED BY <3>1, <3>2
  <2> QED BY <1>10, <2>1, <2>2, ThePlaces, WhatPlacesHold
<1> HIDE DEF a, b
<1>14. \A r \in Requests : r \in dropped <=> \E p \in Places : r \in In(p) /\ r \notin In(p)'
  <2>1. \A r \in Requests : r # Hello  BY DEF Requests, Hello
  <2> QED BY <1>8, <1>9, <1>13, <2>1
<1>15. /\ LostTypes' /\ OnlyAliveAreLost
       /\ \A r \in Requests : Alive(r)' <=> Alive(r) /\ r \notin dropped
  <2>1. \A r \in Requests : r \in dropped => \E p \in Places : r \in In(p)  BY <1>14
  <2>2. "connection" \in Causes /\ UNCHANGED awaiting  BY <1>7 DEF Causes, bridgeVars
  <2> HIDE DEF dropped
  <2> QED BY <1>6, <2>1, <2>2, HeldIsGivenUp
<1>16. PlaceInv'
  <2>1. \A p \in Places : In(p)' \subseteq In(p)  BY <1>8, <1>9, <1>13
  <2> HIDE DEF dropped
  <2> QED BY <1>2, <1>14, <1>15, <2>1, TakenOut
<1>17. DaemonTypes' /\ CommandTypes' /\ StoreInv'
  BY <1>2, <1>7 DEF DaemonTypes, CommandTypes, StoreInv, Idle, lifeVars, daemonVars, storeVars
<1>18. Shortened(conn[c].up, k.up)  BY <1>10 DEF Shortened, up
<1> QED BY <1>7, <1>11, <1>12, <1>15, <1>16, <1>17, <1>18, OneConnectionWorks
       DEF daemonVars, storeVars

----------------------------------------------------------------------------
(* The command loop.                                                       *)

\* The verdict the command loop has.
LEMMA TheVerdict ==
  ASSUME IInv, command.pc # "idle"
  PROVE  /\ command # Idle /\ command.verdict \in Verdicts
         /\ command \in [pc: {"sdk", "send", "buffer"}, verdict: Verdicts, to: Conns \cup {None}]
         /\ answer[command.verdict.id] = command.verdict.behavior
         /\ In(<<"command", 0>>) = {command.verdict.id}
<1>1. CommandTypes /\ StoreInv  BY DEF IInv, Types
<1>2. command # Idle  BY DEF Idle
<1>3. command \in [pc: {"sdk", "send", "buffer"}, verdict: Verdicts, to: Conns \cup {None}]
  BY <1>1, <1>2 DEF CommandTypes
<1>4. In(<<"command", 0>>) = {command.verdict.id}
  BY <1>2, WhatPlacesHold DEF Answered
<1> QED BY <1>1, <1>2, <1>3, <1>4 DEF StoreInv

\* The command loop is done.
LEMMA TheLoopIsIdle ==
  ASSUME command' = Idle
  PROVE  CommandTypes' /\ In(<<"command", 0>>)' = {}
BY WhatPlacesHoldThen DEF CommandTypes, Answered

\* What the command loop does changes at most the connection it sends on.
LEMMA PlacesOfTheBridge ==
  ASSUME NEW p \in Places, UNCHANGED <<bridgeVars, clientVars, conn>>,
         p = <<"stored", 0>> => UNCHANGED stored,
         p = <<"command", 0>> => UNCHANGED command,
         p = <<"verdicts", 0>> => UNCHANGED verdicts
  PROVE  In(p)' = In(p)
<1> USE DEF bridgeVars, clientVars
<1>1. CASE p \in {<<"outbound", 0>>, <<"backlog", 0>>, <<"stored", 0>>, <<"command", 0>>,
                  <<"verdicts", 0>>, <<"inbound", 0>>}
  BY <1>1, WhatPlacesHold, WhatPlacesHoldThen
<1>2. ASSUME NEW d \in Conns, p \in {<<"up", d>>, <<"hands", d>>, <<"out", d>>, <<"down", d>>}
      PROVE  In(p)' = In(p)
  BY <1>2, WhatPlacesHold, WhatPlacesHoldThen
<1> QED BY <1>1, <1>2, ThePlaces

\* The connections are left alone.
LEMMA ConnectionsStay ==
  ASSUME IInv, UNCHANGED <<clientVars, conn, answer>>
  PROVE  ConnTypes' /\ ConnInv' /\ UNCHANGED Sent
BY DEF IInv, Types, ConnTypes, ConnInv, clientVars, Sent

\* The verdict goes to the SDK session.
LEMMA DeliverToSdkPreserves ==
  ASSUME IInv, DeliverToSdk
  PROVE  IInv'
<1> DEFINE left == <<"command", 0>>
           id == command.verdict.id
<1>1. DaemonTypes /\ StoreInv /\ PlaceInv  BY DEF IInv, Types
<1>2. /\ UNCHANGED <<bridgeVars, clientVars, conn, lifeVars, attached, storeVars, verdicts>>
      /\ command.pc # "idle" /\ command' = Idle /\ Lose({id}, "sdk")
  BY DEF DeliverToSdk
<1>3. In(left) = {id} /\ In(left)' = {} /\ CommandTypes' /\ left \in Places
  BY <1>2, TheVerdict, TheLoopIsIdle, ThePlaces
<1>4. ASSUME NEW p \in Places, p # left PROVE In(p)' = In(p)
  BY <1>2, <1>4, PlacesOfTheBridge DEF storeVars
<1> HIDE DEF left, id
<1>5. /\ LostTypes' /\ OnlyAliveAreLost
      /\ \A r \in Requests : Alive(r)' <=> Alive(r) /\ r \notin {id}
  <2>1. \A r \in Requests : r \in {id} => \E p \in Places : r \in In(p)  BY <1>3
  <2>2. "sdk" \in Causes /\ UNCHANGED awaiting  BY <1>2 DEF Causes, bridgeVars
  <2> QED BY <1>2, <2>1, <2>2, HeldIsGivenUp
<1>6. PlaceInv'  BY <1>1, <1>3, <1>4, <1>5, PlaceLoses
<1>7. DaemonTypes' /\ StoreInv'
  BY <1>1, <1>2 DEF DaemonTypes, StoreInv, lifeVars, storeVars
<1>8. ConnTypes' /\ ConnInv' /\ UNCHANGED Sent  BY <1>2, ConnectionsStay DEF storeVars
<1> QED BY <1>2, <1>3, <1>5, <1>6, <1>7, <1>8, TheDaemonWorks DEF storeVars

\* The verdict waits for the bridge.
LEMMA BufferUndeliveredPreserves ==
  ASSUME IInv, BufferUndelivered
  PROVE  IInv'
<1> DEFINE left == <<"command", 0>>
           vs == <<command.verdict>>
<1>1. DaemonTypes /\ StoreInv /\ PlaceInv  BY DEF IInv, Types
<1>2. /\ UNCHANGED <<bridgeVars, clientVars, conn, lifeVars, attached, storeVars>>
      /\ command.pc # "idle" /\ command' = Idle /\ BufferVerdicts(vs)
  BY Zenon DEF BufferUndelivered
<1>3. /\ In(left) = {command.verdict.id} /\ In(left)' = {} /\ CommandTypes' /\ left \in Places
      /\ command.verdict \in Verdicts
      /\ answer[command.verdict.id] = command.verdict.behavior
  BY <1>2, TheVerdict, TheLoopIsIdle, ThePlaces
<1>4. /\ vs \in Seq(Verdicts) /\ Ids(vs) = {command.verdict.id} /\ OnceById(vs)
      /\ Agree(answer, vs)
  BY <1>3 DEF Ids, ToSet, OnceById, Agree
<1>5. ASSUME NEW p \in Places, p # left, p # <<"verdicts", 0>> PROVE In(p)' = In(p)
  BY <1>2, <1>5, PlacesOfTheBridge DEF storeVars
<1>6. left # <<"verdicts", 0>> /\ UNCHANGED awaiting  BY <1>2 DEF bridgeVars
<1> HIDE DEF left, vs
<1>7. /\ verdicts' \in Seq(Verdicts) /\ Len(verdicts') <= VerdictMax
      /\ OnceById(verdicts') /\ Agree(answer, verdicts')
      /\ LostTypes' /\ OnlyAliveAreLost /\ PlaceInv'
  <2> HIDE DEF BufferUndelivered
  <2> QED BY <1>2, <1>3, <1>4, <1>5, <1>6, VerdictsAreBuffered
<1>8. DaemonTypes' /\ StoreInv'
  BY <1>1, <1>2, <1>7 DEF DaemonTypes, StoreInv, lifeVars, storeVars
<1>9. ConnTypes' /\ ConnInv' /\ UNCHANGED Sent  BY <1>2, ConnectionsStay DEF storeVars
<1> QED BY <1>2, <1>3, <1>7, <1>8, <1>9, TheDaemonWorks DEF storeVars

\* The bridge is registered, and its sender task takes the verdict.
LEMMA SendSucceeds ==
  ASSUME IInv, Send, command.to # None, conn[command.to].sender
  PROVE  IInv'
<1>0. PICK c \in Conns, v \in Verdicts : c = command.to /\ v = command.verdict
  <2>1. command.pc # "idle"  BY DEF Send
  <2>2. command.verdict \in Verdicts /\ command.to \in Conns  BY <2>1, TheVerdict
  <2> QED BY <2>2
<1> DEFINE k == [conn[c] EXCEPT !.out = Append(conn[c].out, v)]
           taken == <<"command", 0>>
           given == <<"out", c>>
<1>1. command.pc # "idle"  BY DEF Send
<1>2. /\ v \in Verdicts /\ c \in Conns /\ answer[v.id] = v.behavior /\ In(taken) = {v.id}
  BY <1>0, <1>1, TheVerdict
<1>3. /\ ConnTypes /\ conn[c] \in Connections
      /\ Sound(client, answer, c, conn[c]) /\ Greeting(client, c, conn[c])
  BY <1>2, AConnection
<1>4. DaemonTypes /\ StoreInv /\ PlaceInv  BY DEF IInv, Types
<1>5. conn[c].out \in Seq(Verdicts) /\ OnceById(conn[c].out) /\ Agree(answer, conn[c].out)
  BY <1>3 DEF Connections, Sound
<1>6. /\ UNCHANGED <<bridgeVars, clientVars, lifeVars, attached, storeVars, verdicts, lost>>
      /\ command' = Idle /\ conn' = [conn EXCEPT ![c] = k]
  BY <1>0, <1>3 DEF Send, ConnTypes
<1>7. /\ taken \in Places /\ given \in Places /\ taken # given
      /\ In(given) = Ids(conn[c].out) /\ In(taken)' = {} /\ CommandTypes'
  BY <1>2, <1>6, ThePlaces, WhatPlacesHold, TheLoopIsIdle
<1>8. v.id \notin Ids(conn[c].out)  BY <1>2, <1>4, <1>7 DEF PlaceInv
<1>9. /\ Append(conn[c].out, v) \in Seq(Verdicts)
      /\ Ids(Append(conn[c].out, v)) = Ids(conn[c].out) \cup {v.id}
      /\ OnceById(Append(conn[c].out, v)) /\ Agree(answer, Append(conn[c].out, v))
  BY <1>2, <1>5, <1>8, VerdictIsPut
<1>10. /\ k \in Connections /\ k.handler = conn[c].handler /\ k.link = conn[c].link
       /\ k.up = conn[c].up /\ k.hands = conn[c].hands /\ k.down = conn[c].down
       /\ k.out = Append(conn[c].out, v)
  BY <1>3, <1>9 DEF Connections
<1> HIDE DEF k
<1>11. OnlyConn(c, k)  BY <1>2, <1>3, <1>6, <1>10, ConnIsChanged
<1>12. Sound(client, answer, c, k)
  <2>1. Greeting(client, c, k)  BY <1>3, <1>10 DEF Greeting
  <2>2. ~ c > client.conn  BY <1>0, <1>2, UsedConnections DEF IInv
  <2> QED BY <1>3, <1>9, <1>10, <2>1, <2>2 DEF Sound
<1>13. LostTypes' /\ OnlyAliveAreLost /\ \A r \in Requests : Alive(r)' <=> Alive(r)
  BY <1>6, NothingIsLost DEF bridgeVars
<1>14. /\ In(given)' = In(given) \cup {v.id}
       /\ \A p \in Places : p # taken /\ p # given => In(p)' = In(p)
  <2>1. /\ In(<<"up", c>>)' = ToSet(k.up) \ {Hello} /\ In(<<"hands", c>>)' = Ids(k.hands)
        /\ In(<<"out", c>>)' = Ids(k.out) /\ In(<<"down", c>>)' = Ids(k.down)
    BY <1>2, <1>11, PlacesOfOne
  <2>2. ASSUME NEW p \in Places, p # taken, p # given PROVE In(p)' = In(p)
    <3>1. CASE p \in {<<"up", c>>, <<"hands", c>>, <<"down", c>>}
      BY <1>2, <1>10, <2>1, <3>1, WhatPlacesHold
    <3>2. CASE p \notin {<<"up", c>>, <<"hands", c>>, <<"down", c>>}
      <4>1. UNCHANGED <<outbound, backlog, stored, verdicts, inbound>>
        BY <1>6 DEF bridgeVars, clientVars, storeVars
      <4> QED BY <1>2, <1>11, <2>2, <3>2, <4>1, PlacesOfOthers
    <3> QED BY <3>1, <3>2
  <2> QED BY <1>7, <1>9, <1>10, <2>1, <2>2
<1> HIDE DEF taken, given
<1>15. PlaceInv'
  <2>1. Exchange(taken, given, {})  BY <1>2, <1>7, <1>13, <1>14 DEF Exchange
  <2> QED BY <1>4, <1>7, <2>1, Exchanged
<1>16. DaemonTypes' /\ StoreInv'
  BY <1>4, <1>6 DEF DaemonTypes, StoreInv, lifeVars, storeVars
<1>17. Shortened(conn[c].up, k.up)  BY <1>10 DEF Shortened
<1> QED BY <1>2, <1>6, <1>7, <1>11, <1>12, <1>13, <1>15, <1>16, <1>17, OneConnectionWorks
       DEF storeVars

\* There is nobody to send the verdict to.
LEMMA SendFails ==
  ASSUME IInv, Send, ~ (command.to # None /\ conn[command.to].sender)
  PROVE  IInv'
<1>1. command.pc # "idle"  BY DEF Send
<1>2. /\ UNCHANGED <<bridgeVars, clientVars, lifeVars, attached, storeVars, verdicts, lost, conn>>
      /\ command' = [command EXCEPT !.pc = "buffer", !.to = None]
  BY DEF Send
<1>3. /\ command # Idle
      /\ command \in [pc: {"sdk", "send", "buffer"}, verdict: Verdicts, to: Conns \cup {None}]
  BY <1>1, TheVerdict
<1>4. /\ command' \in [pc: {"sdk", "send", "buffer"}, verdict: Verdicts, to: Conns \cup {None}]
      /\ command'.pc = "buffer" /\ command'.verdict = command.verdict
  BY <1>2, <1>3
<1>5. command' # Idle  BY <1>4 DEF Idle
<1>6. Answered(command') = Answered(command)  BY <1>3, <1>4, <1>5 DEF Answered
<1>7. DaemonTypes /\ CommandTypes /\ StoreInv  BY DEF IInv, Types
<1>8. DaemonTypes' /\ CommandTypes' /\ StoreInv'
  BY <1>2, <1>3, <1>4, <1>5, <1>7 DEF DaemonTypes, CommandTypes, StoreInv, lifeVars, storeVars
<1> QED BY <1>2, <1>6, <1>8, NoRequestMoves DEF storeVars

\* The command loop sends the verdict, or finds nobody to send it to.
LEMMA SendPreserves ==
  ASSUME IInv, Send
  PROVE  IInv'
BY SendSucceeds, SendFails

\* What is said of other requests stays true when one is answered.
LEMMA AgreedElsewhere ==
  ASSUME NEW a \in [Requests -> Behaviors \cup {"none"}], NEW r \in Requests, NEW b,
         NEW s \in Seq(Verdicts), Agree(a, s), r \notin Ids(s)
  PROVE  Agree([a EXCEPT ![r] = b], s)
<1>1. ASSUME NEW i \in DOMAIN s PROVE s[i].id \in Requests /\ s[i].id # r
  <2>1. s[i] \in Verdicts /\ s[i].id \in Ids(s)  BY DEF Ids, ToSet
  <2> QED BY <2>1 DEF Verdicts
<1> QED BY <1>1 DEF Agree

\* Nothing that was unanswered elsewhere is answered when a stored request is.
LEMMA UnansweredElsewhere ==
  ASSUME NEW a \in [Requests -> Behaviors \cup {"none"}], NEW r \in Requests, NEW b,
         NEW S, Unanswered(a, S), r \notin S
  PROVE  Unanswered([a EXCEPT ![r] = b], S)
BY DEF Unanswered

\* The user answers what has grown too old.
LEMMA ResolveTooLate ==
  ASSUME IInv, NEW r \in Requests, NEW b \in Behaviors, Resolve(r, b), r \notin Fresh
  PROVE  IInv'
<1> DEFINE left == <<"stored", 0>>
<1>1. DaemonTypes /\ CommandTypes /\ StoreInv /\ PlaceInv  BY DEF IInv, Types
<1>2. aged \subseteq stored  BY <1>1 DEF DaemonTypes
<1>3. /\ UNCHANGED <<bridgeVars, clientVars, conn, lifeVars, attached, verdicts>>
      /\ UNCHANGED <<command, answer>> /\ aged' = {} /\ Lose(aged, "expired")
      /\ stored' = stored \ aged
  BY DEF Resolve, Prune, Fresh
<1>4. left \in Places /\ In(left) = stored /\ In(left)' = stored \ aged
  BY <1>3, ThePlaces, WhatPlacesHold, WhatPlacesHoldThen
<1>5. ASSUME NEW p \in Places, p # left PROVE In(p)' = In(p)
  BY <1>3, <1>5, PlacesOfTheBridge
<1> HIDE DEF left
<1>6. /\ LostTypes' /\ OnlyAliveAreLost
      /\ \A x \in Requests : Alive(x)' <=> Alive(x) /\ x \notin aged
  <2>1. \A x \in Requests : x \in aged => \E p \in Places : x \in In(p)  BY <1>2, <1>4
  <2>2. "expired" \in Causes /\ UNCHANGED awaiting  BY <1>3 DEF Causes, bridgeVars
  <2> QED BY <1>3, <2>1, <2>2, HeldIsGivenUp
<1>7. PlaceInv'  BY <1>1, <1>2, <1>4, <1>5, <1>6, PlaceLoses
<1>8. DaemonTypes' /\ CommandTypes'
  BY <1>1, <1>3 DEF DaemonTypes, CommandTypes, lifeVars, Idle
<1>9. StoreInv'  BY <1>1, <1>3 DEF StoreInv, Unanswered, Idle
<1>10. ConnTypes' /\ ConnInv' /\ UNCHANGED Sent  BY <1>3, ConnectionsStay
<1> QED BY <1>3, <1>6, <1>7, <1>8, <1>9, <1>10, TheDaemonWorks

\* The user answers in time.
LEMMA ResolveInTime ==
  ASSUME IInv, NEW r \in Requests, NEW b \in Behaviors, Resolve(r, b), r \in Fresh
  PROVE  IInv'
<1> DEFINE v == [id |-> r, behavior |-> b]
           taken == <<"stored", 0>>
           given == <<"command", 0>>
<1>1. /\ BridgeTypes /\ ClientTypes /\ ConnTypes /\ DaemonTypes /\ LostTypes /\ StoreInv
      /\ PlaceInv /\ BridgeInv /\ ConnInv /\ AskedInv /\ ToldWhatTheUserSaid /\ QueueInv
      /\ ClientInv /\ CommandTypes
  BY DEF IInv, Types
<1>2. aged \subseteq stored /\ r \in stored /\ r \notin aged /\ stored \subseteq Requests
      /\ answer \in [Requests -> Behaviors \cup {"none"}]
  BY <1>1 DEF DaemonTypes, Fresh
<1>3. /\ UNCHANGED <<bridgeVars, clientVars, conn, lifeVars, attached, verdicts>>
      /\ command.pc = "idle" /\ aged' = {} /\ Lose(aged, "expired")
      /\ stored' = (stored \ aged) \ {r}
      /\ command' = [pc |-> "sdk", verdict |-> v, to |-> None]
      /\ answer' = [answer EXCEPT ![r] = b]
  BY DEF Resolve, Prune, Fresh
<1>4. command = Idle /\ command' # Idle /\ v \in Verdicts /\ v.id = r
      /\ command'.verdict = v /\ v.behavior = b
  BY <1>1, <1>3 DEF CommandTypes, Idle, Verdicts
<1>5. /\ taken \in Places /\ given \in Places /\ taken # given
      /\ In(taken) = stored /\ In(taken)' = (stored \ aged) \ {r}
      /\ In(given) = {} /\ In(given)' = {r}
  BY <1>3, <1>4, ThePlaces, WhatPlacesHold, WhatPlacesHoldThen DEF Answered
<1>6. ASSUME NEW p \in Places, p # taken, p # given PROVE In(p)' = In(p)
  BY <1>3, <1>6, PlacesOfTheBridge
<1>7. Alive(r) /\ \A p \in Places : p # taken => r \notin In(p)
  BY <1>1, <1>2, <1>5, HeldIsAlive
<1>8. /\ LostTypes' /\ OnlyAliveAreLost
      /\ \A x \in Requests : Alive(x)' <=> Alive(x) /\ x \notin aged
  <2>1. \A x \in Requests : x \in aged => \E p \in Places : x \in In(p)  BY <1>2, <1>5
  <2>2. "expired" \in Causes /\ UNCHANGED awaiting  BY <1>3 DEF Causes, bridgeVars
  <2> QED BY <1>3, <2>1, <2>2, HeldIsGivenUp
<1>9. PlaceInv'
  <2>1. Exchange(taken, given, aged)
    <3> HIDE DEF taken, given
    <3> QED BY <1>2, <1>5, <1>6, <1>8 DEF Exchange
  <2> QED BY <1>1, <1>5, <2>1, Exchanged
<1>10. DaemonTypes' /\ CommandTypes'
  <2>1. DaemonTypes'  BY <1>1, <1>2, <1>3 DEF DaemonTypes, lifeVars
  <2>2. CommandTypes'  BY <1>3, <1>4 DEF CommandTypes
  <2> QED BY <2>1, <2>2
<1>11. StoreInv'
  <2>1. Unanswered(answer', stored')  BY <1>1, <1>2, <1>3 DEF StoreInv, Unanswered
  <2>2. Agree(answer', verdicts)
    <3>1. r \notin Ids(verdicts)  BY <1>7, ThePlaces, WhatPlacesHold
    <3>2. verdicts \in Seq(Verdicts) /\ Agree(answer, verdicts)
      BY <1>1 DEF DaemonTypes, StoreInv
    <3> QED BY <1>2, <1>3, <3>1, <3>2, AgreedElsewhere
  <2>3. answer'[r] = b  BY <1>2, <1>3
  <2> QED BY <1>1, <1>3, <1>4, <2>1, <2>2, <2>3 DEF StoreInv
<1>12. BridgeInv'
  <2>1. r \notin ToSet(outbound) /\ r \notin ToSet(backlog) /\ r \notin Ids(inbound)
    BY <1>7, ThePlaces, WhatPlacesHold
  <2>2. inbound \in Seq(Verdicts)  BY <1>1 DEF BridgeTypes
  <2>3. /\ Unanswered(answer, ToSet(outbound)) /\ Unanswered(answer, ToSet(backlog))
        /\ Agree(answer, inbound)
    BY <1>1 DEF BridgeInv
  <2>4. Unanswered(answer', ToSet(outbound))  BY <1>2, <1>3, <2>1, <2>3, UnansweredElsewhere
  <2>5. Unanswered(answer', ToSet(backlog))  BY <1>2, <1>3, <2>1, <2>3, UnansweredElsewhere
  <2>6. Agree(answer', inbound)  BY <1>2, <1>3, <2>1, <2>2, <2>3, AgreedElsewhere
  <2> QED BY <1>1, <1>3, <2>4, <2>5, <2>6 DEF BridgeInv, bridgeVars, clientVars
<1>13. ConnInv'
  <2>1. ASSUME NEW c \in Conns PROVE Sound(client, answer', c, conn[c])
    <3>1. Sound(client, answer, c, conn[c]) /\ conn[c] \in Connections
      BY <1>1 DEF ConnInv, ConnTypes
    <3>2. /\ r \notin ToSet(conn[c].up) /\ r \notin Ids(conn[c].hands)
          /\ r \notin Ids(conn[c].out) /\ r \notin Ids(conn[c].down)
      <4>1. r # Hello  BY DEF Requests, Hello
      <4> QED BY <1>7, <4>1, ThePlaces, WhatPlacesHold
    <3>3. Unanswered(answer', ToSet(conn[c].up))
      BY <1>2, <1>3, <3>1, <3>2, UnansweredElsewhere DEF Sound
    <3>4. /\ conn[c].hands \in Seq(Verdicts) /\ conn[c].out \in Seq(Verdicts)
          /\ conn[c].down \in Seq(Verdicts)
          /\ Agree(answer, conn[c].hands) /\ Agree(answer, conn[c].out)
          /\ Agree(answer, conn[c].down)
      BY <3>1 DEF Connections, Sound
    <3>5. Agree(answer', conn[c].hands)  BY <1>2, <1>3, <3>2, <3>4, AgreedElsewhere
    <3>6. Agree(answer', conn[c].out)  BY <1>2, <1>3, <3>2, <3>4, AgreedElsewhere
    <3>7. Agree(answer', conn[c].down)  BY <1>2, <1>3, <3>2, <3>4, AgreedElsewhere
    <3> QED BY <3>1, <3>3, <3>5, <3>6, <3>7 DEF Sound
  <2> QED BY <1>3, <2>1 DEF ConnInv, clientVars
<1>14. AskedInv'
  <2>1. r \in awaiting  BY <1>7 DEF Alive
  <2>2. ~ r > asked  BY <1>1, <2>1 DEF AskedInv
  <2>3. \A x \in Requests : x # r => answer'[x] = answer[x]  BY <1>2, <1>3
  <2> QED BY <1>1, <1>3, <1>8, <2>2, <2>3 DEF AskedInv, OnlyAliveAreLost, Alive, bridgeVars
<1>15. ToldWhatTheUserSaid'
  <2>1. told[r] = <<>>  BY <1>1, <1>7 DEF AskedInv, Alive
  <2>2. \A x \in Requests : x # r => answer'[x] = answer[x]  BY <1>2, <1>3
  <2> QED BY <1>1, <1>3, <2>1, <2>2 DEF ToldWhatTheUserSaid, bridgeVars, clientVars
<1>16. Types'
  BY <1>1, <1>3, <1>8, <1>10
     DEF Types, BridgeTypes, ClientTypes, ConnTypes, bridgeVars, clientVars
<1>17. QueueInv' /\ ClientInv'
  BY <1>1, <1>3 DEF QueueInv, Queue, Sent, ClientInv, At, bridgeVars, clientVars
<1> QED BY <1>9, <1>11, <1>12, <1>13, <1>14, <1>15, <1>16, <1>17 DEF IInv

\* The user answers.
LEMMA ResolvePreserves ==
  ASSUME IInv, NEW r \in Requests, NEW b \in Behaviors, Resolve(r, b)
  PROVE  IInv'
BY ResolveTooLate, ResolveInTime

----------------------------------------------------------------------------
(* The app exits.                                                          *)

\* What the exit leaves of a connection.
LEMMA ExitLeaves ==
  ASSUME IInv, Exit, NEW c \in Conns
  PROVE  /\ conn'[c] \in Connections /\ ~conn'[c].link
         /\ conn'[c].up = <<>> /\ conn'[c].hands = <<>> /\ conn'[c].out = <<>>
         /\ conn'[c].down = conn[c].down
         /\ conn'[c].handler = "none" <=> conn[c].handler = "none"
         /\ conn[c].handler = "none" => conn'[c] = conn[c] /\ conn[c] = Conn("none", FALSE)
<1>1. /\ ConnTypes /\ conn[c] \in Connections /\ Sound(client, answer, c, conn[c])
  BY AConnection
<1>2. conn'[c] = IF conn[c].handler = "none" THEN conn[c]
                 ELSE [Conn("closed", FALSE) EXCEPT !.down = conn[c].down]
  BY DEF Exit
<1>3. CASE conn[c].handler = "none"
  <2>1. conn'[c] = conn[c] /\ conn[c] = Conn("none", FALSE)  BY <1>1, <1>2, <1>3 DEF Sound
  <2> QED BY <1>1, <1>3, <2>1 DEF Conn
<1>4. CASE conn[c].handler # "none"
  <2> DEFINE k == [Conn("closed", FALSE) EXCEPT !.down = conn[c].down]
  <2>1. conn[c].down \in Seq(Verdicts) /\ <<>> \in Seq(Verdicts)
        /\ <<>> \in Seq(Requests \cup {Hello})
    BY <1>1 DEF Connections
  <2>2. /\ Conn("closed", FALSE) \in Connections /\ ~Conn("closed", FALSE).link
        /\ Conn("closed", FALSE).up = <<>> /\ Conn("closed", FALSE).hands = <<>>
        /\ Conn("closed", FALSE).out = <<>> /\ Conn("closed", FALSE).handler = "closed"
    BY <2>1 DEF Conn, Connections
  <2>3. conn'[c] = k  BY <1>2, <1>4
  <2>4. /\ k \in Connections /\ ~k.link /\ k.up = <<>> /\ k.hands = <<>> /\ k.out = <<>>
        /\ k.handler = "closed" /\ k.down = conn[c].down
    BY <2>1, <2>2 DEF Connections
  <2> HIDE DEF k
  <2> QED BY <1>4, <2>3, <2>4
<1> QED BY <1>3, <1>4

\* The app exits.
LEMMA ExitPreserves ==
  ASSUME IInv, Exit
  PROVE  IInv'
<1> DEFINE carried == UNION {Carried(c) : c \in Conns}
           dropped == carried \cup stored \cup Ids(verdicts)
                        \cup (IF command = Idle THEN {} ELSE {command.verdict.id})
<1>1. /\ ConnTypes /\ ConnInv /\ ClientTypes /\ DaemonTypes /\ StoreInv /\ PlaceInv /\ QueueInv
  BY DEF IInv, Types
<1>2. /\ UNCHANGED <<bridgeVars, clientVars, answer>> /\ running' = FALSE
      /\ restarts' = restarts + 1 /\ restarts < MaxRestarts
      /\ attached' = None /\ stored' = {} /\ aged' = {} /\ verdicts' = <<>> /\ command' = Idle
      /\ Lose(dropped, "restart")
  BY DEF Exit
<1>3. ConnTypes'
  <2>1. conn' = [c \in Conns |-> conn'[c]]  BY DEF Exit
  <2>2. \A c \in Conns : conn'[c] \in Connections  BY ExitLeaves
  <2> QED BY <2>1, <2>2 DEF ConnTypes
<1>4. ConnInv'
  <2>1. ASSUME NEW c \in Conns PROVE Sound(client, answer, c, conn'[c])
    <3>1. Sound(client, answer, c, conn[c])  BY <1>1 DEF ConnInv
    <3>2. /\ conn'[c].up = <<>> /\ conn'[c].hands = <<>> /\ conn'[c].out = <<>>
          /\ conn'[c].down = conn[c].down /\ ~conn'[c].link
          /\ conn'[c].handler = "none" <=> conn[c].handler = "none"
          /\ conn[c].handler = "none" => conn'[c] = conn[c]
      BY ExitLeaves
    <3>3. Once(<<>>) /\ OnceById(<<>>) /\ Agree(answer, <<>>) /\ ToSet(<<>>) = {}
      BY NoVerdicts DEF Once, ToSet
    <3>4. Greeting(client, c, conn'[c])  BY <3>2 DEF Greeting
    <3>5. c > client.conn => conn'[c] = Conn("none", FALSE)
      BY <3>1, <3>2 DEF Sound, Conn
    <3> QED BY <3>1, <3>2, <3>3, <3>4, <3>5 DEF Sound, Unanswered
  <2> QED BY <1>2, <2>1 DEF ConnInv, clientVars
<1>5. Ids(<<>>) = {} /\ ToSet(<<>>) = {} /\ OnceById(<<>>) /\ Agree(answer, <<>>)
      /\ <<>> \in Seq(Verdicts)
  BY NoVerdicts DEF ToSet
<1>6. /\ \A p \in Places : In(p)' \subseteq In(p)
      /\ \A r \in Requests : r \in dropped <=> \E p \in Places : r \in In(p) /\ r \notin In(p)'
  <2>1. /\ In(<<"outbound", 0>>)' = In(<<"outbound", 0>>)
        /\ In(<<"backlog", 0>>)' = In(<<"backlog", 0>>)
        /\ In(<<"inbound", 0>>)' = In(<<"inbound", 0>>)
    BY <1>2, WhatPlacesHold, WhatPlacesHoldThen DEF bridgeVars, clientVars
  <2>2. /\ In(<<"stored", 0>>)' = {} /\ In(<<"verdicts", 0>>)' = {} /\ In(<<"command", 0>>)' = {}
    BY <1>2, <1>5, WhatPlacesHoldThen DEF Answered
  <2>3. ASSUME NEW c \in Conns
        PROVE  /\ In(<<"down", c>>)' = In(<<"down", c>>) /\ In(<<"up", c>>)' = {}
               /\ In(<<"hands", c>>)' = {} /\ In(<<"out", c>>)' = {}
    BY <1>5, ExitLeaves, WhatPlacesHold, WhatPlacesHoldThen
  <2>4. \A p \in Places : In(p)' = {} \/ In(p)' = In(p)
    BY <2>1, <2>2, <2>3, ThePlaces
  <2>5. \A r : r \in carried <=> \E c \in Conns : r \in Carried(c)  OBVIOUS
  <2>6. (IF command = Idle THEN {} ELSE {command.verdict.id}) = Answered(command)
    BY DEF Answered
  <2> HIDE DEF carried
  <2>7. dropped = carried \cup stored \cup Ids(verdicts) \cup Answered(command)  BY <2>6
  <2> HIDE DEF dropped
  <2>8. \A r : \/ r \in dropped
               \/ /\ r \notin stored /\ r \notin Ids(verdicts) /\ r \notin Answered(command)
                  /\ \A c \in Conns : r \notin Carried(c)
    BY <2>5, <2>7
  <2>9. \A r : r \in dropped =>
               \/ r \in stored \/ r \in Ids(verdicts) \/ r \in Answered(command)
               \/ \E c \in Conns : r \in Carried(c)
    BY <2>5, <2>7
  <2>10. ASSUME NEW r \in Requests, r \in dropped
        PROVE  \E p \in Places : r \in In(p) /\ r \notin In(p)'
    <3>1. r # Hello  BY DEF Requests, Hello
    <3>2. CASE r \in stored \/ r \in Ids(verdicts) \/ r \in Answered(command)
      BY <2>2, <3>2, ThePlaces, WhatPlacesHold
    <3>3. CASE \E c \in Conns : r \in Carried(c)
      <4>1. PICK c \in Conns : r \in Carried(c)  BY <3>3
      <4>2. r \in In(<<"up", c>>) \/ r \in In(<<"hands", c>>) \/ r \in In(<<"out", c>>)
        BY <3>1, <4>1, WhatPlacesHold DEF Carried
      <4> QED BY <2>3, <4>2, ThePlaces
    <3> QED BY <2>9, <2>10, <3>2, <3>3
  <2>11. ASSUME NEW r \in Requests, NEW p \in Places, r \in In(p), r \notin In(p)'
        PROVE  r \in dropped
    <3>1. CASE p \in {<<"stored", 0>>, <<"verdicts", 0>>, <<"command", 0>>}
      BY <2>8, <2>11, <3>1, WhatPlacesHold
    <3>2. ASSUME NEW c \in Conns, p \in {<<"up", c>>, <<"hands", c>>, <<"out", c>>}
          PROVE  r \in dropped
      <4>1. r \in Carried(c)  BY <2>11, <3>2, WhatPlacesHold DEF Carried
      <4> QED BY <2>8, <4>1
    <3>3. ASSUME NEW c \in Conns, p = <<"down", c>> PROVE FALSE  BY <2>3, <2>11, <3>3
    <3>4. p \notin {<<"outbound", 0>>, <<"backlog", 0>>, <<"inbound", 0>>}  BY <2>1, <2>11
    <3> QED BY <3>1, <3>2, <3>3, <3>4, ThePlaces
  <2> QED BY <2>4, <2>10, <2>11
<1> HIDE DEF dropped, carried
<1>7. /\ LostTypes' /\ OnlyAliveAreLost
      /\ \A r \in Requests : Alive(r)' <=> Alive(r) /\ r \notin dropped
  <2>1. "restart" \in Causes /\ UNCHANGED awaiting  BY <1>2 DEF Causes, bridgeVars
  <2>2. \A r \in Requests : r \in dropped => \E p \in Places : r \in In(p)  BY <1>6
  <2> QED BY <1>2, <2>1, <2>2, HeldIsGivenUp
<1>8. PlaceInv'  BY <1>1, <1>6, <1>7, TakenOut
<1>9. DaemonTypes'
  <2>1. restarts' \in 0..MaxRestarts  BY <1>1, <1>2, RelayAssumption DEF DaemonTypes
  <2>2. Len(<<>>) <= VerdictMax  BY RelayAssumption
  <2> QED BY <1>1, <1>2, <1>5, <2>1, <2>2 DEF DaemonTypes
<1>10. CommandTypes' /\ StoreInv'
  BY <1>1, <1>2, <1>5 DEF CommandTypes, StoreInv, Unanswered
<1>11. LeftOf(Sent, Sent')
  <2>1. Sent' = <<>>
    <3>1. client' = client  BY <1>2 DEF clientVars
    <3>2. CASE client.conn = 0  BY <3>1, <3>2 DEF Sent
    <3>3. CASE client.conn # 0
      <4>1. client.conn \in Conns  BY <1>1, <3>3, RelayAssumption DEF ClientTypes, Conns
      <4>2. conn'[client.conn].up = <<>>  BY <4>1, ExitLeaves
      <4> QED BY <3>1, <3>3, <4>2 DEF Sent
    <3> QED BY <3>2, <3>3
  <2> QED BY <2>1, EmptySequence DEF LeftOf
<1> QED BY <1>2, <1>3, <1>4, <1>7, <1>8, <1>9, <1>10, <1>11, TheDaemonWorks

----------------------------------------------------------------------------
(* The daemon client of the bridge.                                        *)

\* The client works: what Claude waits for and what the daemon holds stays as it is.
LEMMA TheClientWorks ==
  ASSUME IInv, UNCHANGED <<asked, awaiting, told, lifeVars, daemonVars>>, ~At("ended"),
         BridgeTypes', ClientTypes', ConnTypes', LostTypes',
         ClientInv', ConnInv', BridgeInv', PlaceInv', OnlyAliveAreLost, QueueInv'
  PROVE  IInv'
<1> USE DEF IInv, Types, lifeVars, storeVars, daemonVars
<1>1. DaemonTypes' /\ CommandTypes'  BY DEF DaemonTypes, CommandTypes, Idle
<1>2. StoreInv'  BY DEF StoreInv, Idle
<1>3. AskedInv'  BY DEF AskedInv, OnlyAliveAreLost, Alive
<1>4. ToldWhatTheUserSaid'  BY DEF ToldWhatTheUserSaid, At
<1> QED BY <1>1, <1>2, <1>3, <1>4

\* What the bridge and the daemon hold beside the connections.
LEMMA PlacesOfTheDaemon ==
  ASSUME NEW p \in Places, UNCHANGED <<daemonVars, conn>>,
         p = <<"outbound", 0>> => UNCHANGED outbound,
         p = <<"backlog", 0>> => UNCHANGED backlog,
         p = <<"inbound", 0>> => UNCHANGED inbound
  PROVE  In(p)' = In(p)
<1> USE DEF daemonVars, storeVars
<1>1. CASE p \in {<<"outbound", 0>>, <<"backlog", 0>>, <<"stored", 0>>, <<"command", 0>>,
                  <<"verdicts", 0>>, <<"inbound", 0>>}
  BY <1>1, WhatPlacesHold, WhatPlacesHoldThen
<1>2. ASSUME NEW d \in Conns, p \in {<<"up", d>>, <<"hands", d>>, <<"out", d>>, <<"down", d>>}
      PROVE  In(p)' = In(p)
  BY <1>2, WhatPlacesHold, WhatPlacesHoldThen
<1> QED BY <1>1, <1>2, ThePlaces

\* Requests are numbers.
LEMMA RequestsAreNumbers ==
  ASSUME NEW s \in Seq(Requests)
  PROVE  s \in Seq(Nat)
<1>1. /\ Len(s) \in Nat /\ s = [i \in 1..Len(s) |-> s[i]]
      /\ \A i \in 1..Len(s) : s[i] \in Requests
  OBVIOUS
<1>2. \A x \in Requests : x \in Nat  BY DEF Requests
<1> QED BY <1>1, <1>2

\* The queue is in order, and made of numbers.
LEMMA QueueNumbers ==
  ASSUME IInv
  PROVE  /\ InLine(3, Queue) /\ Numbers(3, Queue)
         /\ outbound \in Seq(Requests) /\ backlog \in Seq(Requests)
<1>1. BridgeTypes /\ ClientTypes /\ ConnTypes /\ QueueInv  BY DEF IInv, Types
<1>2. Sent \in Seq(Nat)
  <2>1. CASE client.conn = 0  BY <2>1 DEF Sent
  <2>2. CASE client.conn # 0
    <3>1. client.conn \in Conns  BY <1>1, <2>2, RelayAssumption DEF ClientTypes, Conns
    <3>2. Sent \in Seq(Requests \cup {Hello})
      BY <1>1, <2>2, <3>1 DEF Sent, ConnTypes, Connections
    <3>3. Requests \cup {Hello} \subseteq Nat  BY DEF Requests, Hello
    <3> QED BY <3>2, <3>3
  <2> QED BY <2>1, <2>2
<1>3. outbound \in Seq(Requests) /\ backlog \in Seq(Requests)  BY <1>1 DEF BridgeTypes
<1>4. outbound \in Seq(Nat) /\ backlog \in Seq(Nat)  BY <1>3, RequestsAreNumbers
<1>5. \A a \in 1..3 : Queue[a] \in Seq(Nat)  BY <1>2, <1>4 DEF Queue
<1> QED BY <1>1, <1>3, <1>5 DEF QueueInv, Numbers

\* A sequence of the bridge loses its head.
LEMMA TheQueueLosesAHead ==
  ASSUME NEW s \in Seq(Requests), s # <<>>, InOrder(s)
  PROVE  LeftOf(s, Tail(s))
<1>1. s \in Seq(Nat)  BY RequestsAreNumbers
<1> QED BY <1>1, TakeFirst DEF LeftOf

\* The client opens the next connection.
LEMMA ConnectPreserves ==
  ASSUME IInv, Connect
  PROVE  IInv'
<1>1. /\ BridgeTypes /\ ClientTypes /\ ConnTypes /\ LostTypes /\ ClientInv /\ ConnInv
      /\ BridgeInv /\ PlaceInv /\ QueueInv
  BY DEF IInv, Types
<1>2. PICK c \in Conns : c = client.conn + 1  BY DEF Connect
<1> DEFINE k == Conn("accepted", TRUE)
<1>3. /\ client.pc = "connecting" /\ client' = [client EXCEPT !.pc = "greeting", !.conn = c]
      /\ conn' = [conn EXCEPT ![c] = k]
      /\ UNCHANGED <<bridgeVars, backlog, lifeVars, daemonVars, lost>>
  BY <1>2 DEF Connect, At
<1>4. /\ ClientTypes' /\ client'.pc = "greeting" /\ client'.conn = c
      /\ client'.attempt = client.attempt
  <2>1. c \in 0..MaxConns  BY RelayAssumption DEF Conns
  <2> QED BY <1>1, <1>3, <2>1 DEF ClientTypes
<1>5. ClientInv'
  <2>1. c # 0  BY DEF Conns
  <2> QED BY <1>1, <1>3, <1>4, <2>1 DEF ClientInv, At
<1>6. <<>> \in Seq(Verdicts) /\ <<>> \in Seq(Requests \cup {Hello})  BY NoVerdicts
<1>7. /\ k.handler = "accepted" /\ k.link /\ k.up = <<>> /\ k.hands = <<>> /\ k.out = <<>>
      /\ k.down = <<>> /\ k \in Connections
  BY <1>6 DEF Conn, Connections
<1> HIDE DEF k
<1>8. OnlyConn(c, k)  BY <1>1, <1>3, <1>7, ConnIsChanged
<1>9. client.conn \in Nat /\ c > client.conn /\ ~ c > client'.conn
  BY <1>1, <1>2, <1>4, RelayAssumption DEF ClientTypes, Conns
<1>10. /\ Ids(<<>>) = {} /\ ToSet(<<>>) = {} /\ OnceById(<<>>) /\ Once(<<>>)
       /\ Agree(answer, <<>>)
  BY NoVerdicts DEF ToSet, Once
<1>11. Sound(client', answer, c, k)
  <2>1. Greeting(client', c, k)  BY <1>4, <1>7 DEF Greeting
  <2> QED BY <1>7, <1>9, <1>10, <2>1 DEF Sound, Unanswered
<1>12. ConnTypes' /\ ConnInv'
  BY <1>1, <1>2, <1>3, <1>4, <1>8, <1>11, OneConnection DEF daemonVars, storeVars
<1>13. LostTypes' /\ OnlyAliveAreLost  BY <1>3, NothingIsLost DEF bridgeVars
<1>14. PlaceInv'
  <2>1. conn[c] = Conn("none", FALSE)  BY <1>1, <1>9 DEF ConnInv, Sound
  <2>2. conn[c].up = <<>> /\ conn[c].hands = <<>> /\ conn[c].out = <<>> /\ conn[c].down = <<>>
    BY <2>1 DEF Conn
  <2>3. /\ In(<<"up", c>>)' = In(<<"up", c>>) /\ In(<<"hands", c>>)' = In(<<"hands", c>>)
        /\ In(<<"out", c>>)' = In(<<"out", c>>) /\ In(<<"down", c>>)' = In(<<"down", c>>)
    <3>1. /\ In(<<"up", c>>)' = ToSet(k.up) \ {Hello} /\ In(<<"hands", c>>)' = Ids(k.hands)
          /\ In(<<"out", c>>)' = Ids(k.out) /\ In(<<"down", c>>)' = Ids(k.down)
      BY <1>8, PlacesOfOne
    <3> QED BY <1>7, <2>2, <3>1, WhatPlacesHold
  <2>4. ASSUME NEW p \in Places PROVE In(p)' = In(p)
    <3>1. CASE p \in {<<"up", c>>, <<"hands", c>>, <<"out", c>>, <<"down", c>>}
      BY <2>3, <3>1
    <3>2. CASE p \notin {<<"up", c>>, <<"hands", c>>, <<"out", c>>, <<"down", c>>}
      BY <1>3, <1>8, <3>2, PlacesOfOthers DEF bridgeVars, daemonVars, storeVars
    <3> QED BY <3>1, <3>2
  <2> QED BY <1>1, <1>3, <2>4, NothingMoves DEF bridgeVars
<1>15. QueueInv'
  <2>1. Sent' = <<>>
    <3>1. client'.conn # 0  BY <1>4 DEF Conns
    <3> QED BY <1>4, <1>7, <1>8, <3>1 DEF Sent, OnlyConn
  <2>2. LeftOf(Sent, Sent')  BY <2>1, EmptySequence DEF LeftOf
  <2> QED BY <1>1, <1>3, <2>2, QueueShrinks DEF bridgeVars
<1>16. BridgeTypes' /\ BridgeInv'
  BY <1>1, <1>3 DEF BridgeTypes, BridgeInv, bridgeVars, daemonVars, storeVars
<1>17. ~At("ended")  BY <1>3 DEF At
<1> QED BY <1>3, <1>4, <1>5, <1>12, <1>13, <1>14, <1>15, <1>16, <1>17, TheClientWorks
       DEF bridgeVars

\* Something moves on in the queue.
LEMMA QueueMoves ==
  ASSUME IInv, NEW a \in 1..3, NEW b \in 1..3, MovesOn(3, Queue, Queue', a, b)
  PROVE  QueueInv'
<1>1. InLine(3, Queue) /\ Numbers(3, Queue)  BY QueueNumbers
<1>2. InLine(3, Queue')  BY <1>1, LineMoves
<1> QED BY <1>2 DEF QueueInv

\* The retries are exhausted: what the bridge still has to send is given up.
LEMMA ConnectFailsForGood ==
  ASSUME IInv, ConnectFails, client.attempt + 1 >= MaxRetries
  PROVE  IInv'
<1> DEFINE dropped == ToSet(outbound) \cup ToSet(backlog)
           denied == IF Asking THEN {Last(outbound)} ELSE {}
           a == <<"outbound", 0>>
           b == <<"backlog", 0>>
<1>1. /\ BridgeTypes /\ ClientTypes /\ ConnTypes /\ LostTypes /\ ClientInv /\ ConnInv
      /\ BridgeInv /\ PlaceInv /\ QueueInv /\ DaemonTypes /\ CommandTypes /\ StoreInv /\ AskedInv
      /\ ToldWhatTheUserSaid
  BY DEF IInv, Types
<1>2. /\ client.pc = "connecting" /\ outbound' = <<>> /\ backlog' = <<>>
      /\ client' = [client EXCEPT !.pc = "ended", !.attempt = client.attempt + 1]
      /\ Lose(dropped \ denied, "retries") /\ awaiting' = awaiting \ denied
      /\ told' = [r \in Requests |-> IF r \in denied THEN Append(told[r], "deny") ELSE told[r]]
      /\ UNCHANGED <<asked, inbound, conn, lifeVars, daemonVars>>
  BY DEF ConnectFails, GiveUp, At
<1>3. denied \subseteq ToSet(outbound) /\ denied \subseteq Requests
  <2>1. outbound \in Seq(Requests) /\ OutCap \in Nat  BY <1>1, RelayAssumption DEF BridgeTypes
  <2>2. CASE Asking
    <3>1. Len(outbound) \in DOMAIN outbound  BY <2>1, <2>2 DEF Asking
    <3> QED BY <2>1, <2>2, <3>1 DEF Last, ToSet
  <2> QED BY <2>2
<1> HIDE DEF denied
<1>4. /\ ClientTypes' /\ client'.pc = "ended" /\ client'.conn = client.conn
  <2>1. client.attempt \in Nat /\ client.attempt < MaxRetries
    BY <1>1, <1>2, RelayAssumption DEF ClientTypes, ClientInv, At
  <2>2. client.attempt + 1 \in 0..MaxRetries  BY <2>1, RelayAssumption
  <2> QED BY <1>1, <1>2, <2>2 DEF ClientTypes
<1>5. ClientInv'  BY <1>2, <1>4 DEF ClientInv, At
<1>6. ConnTypes' /\ ConnInv'
  <2>1. \A c \in Conns : Greeting(client', c, conn[c])
    BY <1>1, <1>4, NotSending DEF ConnInv, Sound
  <2> QED BY <1>1, <1>2, <1>4, <2>1, NoConnection DEF ConnTypes, daemonVars, storeVars
<1>7. UNCHANGED <<lifeVars, daemonVars, running, restarts, attached, stored, aged, answer,
                   verdicts, command>>
  BY <1>2 DEF lifeVars, daemonVars, storeVars
<1>8. ToSet(<<>>) = {} /\ Once(<<>>) /\ <<>> \in Seq(Requests)  BY DEF ToSet, Once
<1>9. BridgeTypes' /\ BridgeInv'
  <2>1. Len(<<>>) <= BackoffCap  BY RelayAssumption
  <2>2. told' \in [Requests -> Seq(Behaviors)]
    <3>1. "deny" \in Behaviors  BY DEF Behaviors
    <3>2. \A r \in Requests :
            told[r] \in Seq(Behaviors) /\ Append(told[r], "deny") \in Seq(Behaviors)
      BY <1>1, <3>1 DEF BridgeTypes
    <3> QED BY <1>2, <3>2
  <2> QED BY <1>1, <1>2, <1>8, <1>7, <2>1, <2>2 DEF BridgeTypes, BridgeInv, Unanswered
<1>10. /\ a \in Places /\ b \in Places
      /\ In(a) = ToSet(outbound) /\ In(a)' = {} /\ In(b) = ToSet(backlog) /\ In(b)' = {}
  BY <1>2, <1>8, ThePlaces, WhatPlacesHold, WhatPlacesHoldThen
<1>11. ASSUME NEW p \in Places, p # a, p # b PROVE In(p)' = In(p)
  BY <1>2, <1>11, PlacesOfTheDaemon
<1> HIDE DEF a, b
<1>12. \A r \in Requests : r \in dropped <=> \E p \in Places : r \in In(p) /\ r \notin In(p)'
  BY <1>10, <1>11
<1>13. \A p \in Places : In(p)' \subseteq In(p)  BY <1>10, <1>11
<1> HIDE DEF dropped
<1>14. \A r \in dropped : r \in Requests => Alive(r)
  BY <1>1, <1>12, HeldIsAlive
<1>15. /\ LostTypes'
       /\ \A r \in Requests : Alive(r)' <=> Alive(r) /\ r \notin dropped
  <2>1. LostTypes'  BY <1>1, <1>2 DEF LostTypes, Lose, Causes
  <2>2. \A r \in Requests : r \in dropped \ denied => lost'[r] = "retries"
    BY <1>2 DEF Lose
  <2>3. \A r \in Requests : r \notin dropped => lost'[r] = lost[r]  BY <1>2 DEF Lose
  <2>4. denied \subseteq dropped  BY <1>3 DEF dropped
  <2> QED BY <1>2, <2>1, <2>2, <2>3, <2>4 DEF Alive
<1>16. PlaceInv'  BY <1>1, <1>12, <1>13, <1>15, TakenOut
<1>17. QueueInv'
  <2>1. LeftOf(backlog, backlog') /\ LeftOf(outbound, outbound')
    BY <1>2, EmptySequence DEF LeftOf
  <2>2. UNCHANGED Sent  BY <1>2, <1>4 DEF Sent
  <2> QED BY <1>1, <2>1, <2>2, QueueShrinks
<1>18. DaemonTypes' /\ CommandTypes' /\ StoreInv'
  BY <1>1, <1>7 DEF DaemonTypes, CommandTypes, StoreInv, Idle
<1>19. \A r \in denied : r \in dropped /\ r \in Requests /\ Alive(r)
  BY <1>3, <1>14 DEF dropped
<1>20. AskedInv'
  <2>1. ASSUME NEW r \in Requests, r > asked' PROVE r \notin dropped /\ r \notin denied
    <3>1. r \notin awaiting  BY <1>1, <1>2, <2>1 DEF AskedInv
    <3> QED BY <1>14, <1>19, <3>1 DEF Alive
  <2>2. \A r \in Requests : r \in awaiting' => r \notin denied /\ told'[r] = told[r]  BY <1>2
  <2> QED BY <1>1, <1>2, <1>7, <2>1, <2>2 DEF AskedInv, Lose
<1>21. ToldWhatTheUserSaid'
  <2>1. ASSUME NEW r \in Requests, r \in denied PROVE answer'[r] = "none" /\ told'[r] = <<"deny">>
    <3>1. answer[r] = "none"  BY <1>1, <1>3, <2>1 DEF BridgeInv, Unanswered
    <3>2. told[r] = <<>>  BY <1>1, <1>19, <2>1 DEF Alive, AskedInv
    <3>3. told'[r] = Append(<<>>, "deny")  BY <1>2, <2>1, <3>2
    <3>4. Append(<<>>, "deny") = <<"deny">>  OBVIOUS
    <3> QED BY <1>7, <3>1, <3>3, <3>4
  <2>2. ASSUME NEW r \in Requests, r \notin denied
        PROVE  told'[r] = told[r] /\ answer'[r] = answer[r]
    BY <1>2, <1>7, <2>2
  <2> QED BY <1>1, <1>4, <2>1, <2>2 DEF ToldWhatTheUserSaid
<1> QED BY <1>4, <1>5, <1>6, <1>9, <1>15, <1>16, <1>17, <1>18, <1>20, <1>21 DEF IInv, Types

\* The client waits before it tries again.
LEMMA ConnectFailsOnce ==
  ASSUME IInv, ConnectFails, ~ client.attempt + 1 >= MaxRetries
  PROVE  IInv'
<1>1. ClientTypes /\ ClientInv /\ ConnInv  BY DEF IInv, Types
<1>2. /\ client.pc = "connecting"
      /\ client' = [client EXCEPT !.pc = "backoff", !.attempt = client.attempt + 1]
      /\ UNCHANGED <<bridgeVars, backlog, conn, lifeVars, daemonVars, lost>>
  BY DEF ConnectFails, BackOff, At, bridgeVars
<1>3. /\ ClientTypes' /\ client'.pc = "backoff" /\ client'.conn = client.conn
      /\ client'.attempt < MaxRetries
  <2>1. client.attempt \in Nat  BY <1>1, RelayAssumption DEF ClientTypes
  <2>2. client.attempt + 1 \in 0..MaxRetries /\ client.attempt + 1 < MaxRetries
    BY <2>1, RelayAssumption
  <2> QED BY <1>1, <1>2, <2>2 DEF ClientTypes
<1>4. ClientInv'  BY <1>3 DEF ClientInv, At
<1>5. \A c \in Conns : Greeting(client', c, conn[c])
  BY <1>1, <1>3, NotSending DEF ConnInv, Sound
<1>6. ~At("ended")  BY <1>2 DEF At
<1> QED BY <1>2, <1>3, <1>4, <1>5, <1>6, OnlyTheClientMoves

\* An attempt to connect fails.
LEMMA ConnectFailsPreserves ==
  ASSUME IInv, ConnectFails
  PROVE  IInv'
BY ConnectFailsForGood, ConnectFailsOnce

\* The first of the channel is kept for the next connection.
LEMMA BackoffBuffers ==
  ASSUME IInv, BufferDuringBackoff, Len(backlog) < BackoffCap
  PROVE  IInv'
<1> DEFINE x == Head(outbound)
           a == <<"outbound", 0>>
           b == <<"backlog", 0>>
<1>1. /\ BridgeTypes /\ ClientTypes /\ ConnTypes /\ LostTypes /\ ClientInv /\ ConnInv
      /\ BridgeInv /\ PlaceInv /\ QueueInv
  BY DEF IInv, Types
<1>2. /\ client.pc = "backoff" /\ outbound # <<>> /\ outbound' = Tail(outbound)
      /\ backlog' = Append(backlog, x)
      /\ UNCHANGED <<asked, awaiting, told, inbound, client, conn, lifeVars, daemonVars, lost>>
  BY DEF BufferDuringBackoff, At
<1>3. outbound \in Seq(Requests) /\ backlog \in Seq(Requests)  BY <1>1 DEF BridgeTypes
<1>4. /\ x \in Requests /\ Tail(outbound) \in Seq(Requests)
      /\ ToSet(outbound) = {x} \cup ToSet(Tail(outbound))
      /\ Once(Tail(outbound)) /\ x \notin ToSet(Tail(outbound))
  BY <1>1, <1>2, <1>3, HeadIsTaken DEF BridgeInv
<1> HIDE DEF x
<1>5. /\ a \in Places /\ b \in Places /\ a # b
      /\ In(a) = ToSet(outbound) /\ In(a)' = ToSet(Tail(outbound))
      /\ In(b) = ToSet(backlog) /\ In(b)' = ToSet(Append(backlog, x))
  BY <1>2, ThePlaces, WhatPlacesHold, WhatPlacesHoldThen
<1>6. x \notin ToSet(backlog)  BY <1>1, <1>4, <1>5 DEF PlaceInv
<1>7. /\ Append(backlog, x) \in Seq(Requests) /\ Len(Append(backlog, x)) = Len(backlog) + 1
      /\ ToSet(Append(backlog, x)) = ToSet(backlog) \cup {x} /\ Once(Append(backlog, x))
  BY <1>1, <1>3, <1>4, <1>6, LastIsPut DEF BridgeInv
<1>8. BridgeTypes' /\ BridgeInv'
  <2>1. Len(backlog) + 1 <= BackoffCap  BY <1>3, RelayAssumption
  <2>2. BridgeTypes'  BY <1>1, <1>2, <1>4, <1>7, <2>1 DEF BridgeTypes
  <2>3. BridgeInv'
    BY <1>1, <1>2, <1>4, <1>7 DEF BridgeInv, Unanswered, daemonVars, storeVars
  <2> QED BY <2>2, <2>3
<1>9. ASSUME NEW p \in Places, p # a, p # b PROVE In(p)' = In(p)
  BY <1>2, <1>9, PlacesOfTheDaemon
<1>10. LostTypes' /\ OnlyAliveAreLost /\ \A r \in Requests : Alive(r)' <=> Alive(r)
  BY <1>2, NothingIsLost
<1> HIDE DEF a, b
<1>11. PlaceInv'
  <2>1. Exchange(a, b, {})  BY <1>4, <1>5, <1>7, <1>9, <1>10 DEF Exchange
  <2> QED BY <1>1, <1>5, <2>1, Exchanged
<1>12. QueueInv'
  <2>1. UNCHANGED Sent  BY <1>2 DEF Sent
  <2>2. MovesOn(3, Queue, Queue', 3, 2)  BY <1>2, <2>1 DEF MovesOn, Queue, x
  <2> QED BY <2>2, QueueMoves
<1>13. ClientTypes' /\ ConnTypes' /\ ClientInv' /\ ConnInv'
  BY <1>1, <1>2 DEF ClientTypes, ConnTypes, ClientInv, At, ConnInv, daemonVars, storeVars
<1>14. ~At("ended")  BY <1>2 DEF At
<1> QED BY <1>2, <1>8, <1>10, <1>11, <1>12, <1>13, <1>14, TheClientWorks

\* There is no room for it.
LEMMA BackoffOverflows ==
  ASSUME IInv, BufferDuringBackoff, ~ Len(backlog) < BackoffCap
  PROVE  IInv'
<1> DEFINE x == Head(outbound)
           a == <<"outbound", 0>>
<1>1. /\ BridgeTypes /\ ClientTypes /\ ConnTypes /\ LostTypes /\ ClientInv /\ ConnInv
      /\ BridgeInv /\ PlaceInv /\ QueueInv
  BY DEF IInv, Types
<1>2. /\ client.pc = "backoff" /\ outbound # <<>> /\ outbound' = Tail(outbound)
      /\ Lose({x}, "overflow")
      /\ UNCHANGED <<asked, awaiting, told, inbound, client, backlog, conn, lifeVars, daemonVars>>
  BY DEF BufferDuringBackoff, At
<1>3. outbound \in Seq(Requests)  BY <1>1 DEF BridgeTypes
<1>4. /\ x \in Requests /\ Tail(outbound) \in Seq(Requests)
      /\ ToSet(outbound) = {x} \cup ToSet(Tail(outbound))
      /\ Once(Tail(outbound)) /\ x \notin ToSet(Tail(outbound))
  BY <1>1, <1>2, <1>3, HeadIsTaken DEF BridgeInv
<1> HIDE DEF x
<1>5. /\ a \in Places /\ In(a) = ToSet(outbound) /\ In(a)' = ToSet(Tail(outbound))
  BY <1>2, ThePlaces, WhatPlacesHold, WhatPlacesHoldThen
<1>6. BridgeTypes' /\ BridgeInv'
  BY <1>1, <1>2, <1>4 DEF BridgeTypes, BridgeInv, Unanswered, daemonVars, storeVars
<1>7. ASSUME NEW p \in Places, p # a PROVE In(p)' = In(p)
  BY <1>2, <1>7, PlacesOfTheDaemon
<1> HIDE DEF a
<1>8. /\ LostTypes' /\ OnlyAliveAreLost
      /\ \A r \in Requests : Alive(r)' <=> Alive(r) /\ r \notin {x}
  <2>1. "overflow" \in Causes /\ UNCHANGED awaiting  BY <1>2 DEF Causes
  <2>2. \A r \in Requests : r \in {x} => \E p \in Places : r \in In(p)  BY <1>4, <1>5
  <2> QED BY <1>2, <2>1, <2>2, HeldIsGivenUp
<1>9. PlaceInv'
  <2>1. {x} \subseteq In(a) /\ In(a)' = In(a) \ {x}  BY <1>4, <1>5
  <2> QED BY <1>1, <1>5, <1>7, <1>8, <2>1, PlaceLoses
<1>10. QueueInv'
  <2>1. UNCHANGED Sent  BY <1>2 DEF Sent
  <2>2. InOrder(outbound)  BY <1>1, QueueParts DEF QueueInv, InLine
  <2>3. LeftOf(outbound, outbound')  BY <1>2, <1>3, <2>2, TheQueueLosesAHead
  <2> QED BY <1>1, <1>2, <2>1, <2>3, QueueShrinks
<1>11. ClientTypes' /\ ConnTypes' /\ ClientInv' /\ ConnInv'
  BY <1>1, <1>2 DEF ClientTypes, ConnTypes, ClientInv, At, ConnInv, daemonVars, storeVars
<1>12. ~At("ended")  BY <1>2 DEF At
<1> QED BY <1>2, <1>6, <1>8, <1>9, <1>10, <1>11, <1>12, TheClientWorks

\* The channel is read during the back-off.
LEMMA BufferDuringBackoffPreserves ==
  ASSUME IInv, BufferDuringBackoff
  PROVE  IInv'
BY BackoffBuffers, BackoffOverflows

\* The client, which is at cl, puts m on its connection, and is then at new.
LEMMA Transmitted ==
  ASSUME IInv, NEW c \in Conns, c = client.conn, NEW m \in Requests \cup {Hello}, Transmit(m),
         m \notin ToSet(conn[c].up), m # Hello => answer[m] = "none",
         UNCHANGED answer, ClientTypes', client'.conn = client.conn,
         \A k : /\ k.up = Append(conn[c].up, m) /\ k.handler = conn[c].handler
                /\ k.link = conn[c].link /\ k.hands = conn[c].hands
                => Greeting(client', c, k)
  PROVE  /\ ConnTypes' /\ ConnInv' /\ Sent = conn[c].up /\ Sent' = Append(Sent, m)
         /\ In(<<"up", c>>)' = In(<<"up", c>>) \cup ({m} \ {Hello})
         /\ \A p \in Places :
              /\ p # <<"up", c>>
              /\ p = <<"outbound", 0>> => UNCHANGED outbound
              /\ p = <<"backlog", 0>> => UNCHANGED backlog
              /\ UNCHANGED <<inbound, daemonVars>>
              => In(p)' = In(p)
<1> DEFINE k == [conn[c] EXCEPT !.up = Append(conn[c].up, m)]
<1>1. /\ ConnTypes /\ conn[c] \in Connections /\ Sound(client, answer, c, conn[c])
  BY AConnection
<1>2. ConnInv /\ ClientTypes  BY DEF IInv, Types
<1>3. conn[c].up \in Seq(Requests \cup {Hello}) /\ Once(conn[c].up)
      /\ Unanswered(answer, ToSet(conn[c].up))
  BY <1>1 DEF Connections, Sound
<1>4. /\ Append(conn[c].up, m) \in Seq(Requests \cup {Hello})
      /\ ToSet(Append(conn[c].up, m)) = ToSet(conn[c].up) \cup {m}
      /\ Once(Append(conn[c].up, m))
  BY <1>3, LastIsPut
<1>5. conn' = [conn EXCEPT ![c] = k]  BY <1>1 DEF Transmit, ConnTypes
<1>6. /\ k \in Connections /\ k.up = Append(conn[c].up, m) /\ k.handler = conn[c].handler
      /\ k.link = conn[c].link /\ k.hands = conn[c].hands
      /\ k.out = conn[c].out /\ k.down = conn[c].down
  BY <1>1, <1>4 DEF Connections
<1> HIDE DEF k
<1>7. OnlyConn(c, k)  BY <1>1, <1>5, <1>6, ConnIsChanged
<1>8. Sound(client', answer, c, k)
  <2>1. Greeting(client', c, k)  BY <1>6
  <2>2. ~ c > client'.conn /\ ~ c > client.conn  BY DEF Conns
  <2>3. Unanswered(answer, ToSet(k.up))
    <3>1. \A r \in Requests : r # Hello  BY DEF Requests, Hello
    <3> QED BY <1>3, <1>4, <1>6, <3>1 DEF Unanswered
  <2> QED BY <1>1, <1>4, <1>6, <2>1, <2>2, <2>3 DEF Sound
<1>9. ConnTypes' /\ ConnInv'
  <2>1. client'.conn = c /\ c \in {client.conn, client.conn + 1}  OBVIOUS
  <2> QED BY <1>2, <1>7, <1>8, <2>1, OneConnection
<1>10. Sent = conn[c].up /\ Sent' = Append(Sent, m)
  <2>1. client.conn # 0 /\ client'.conn # 0  BY DEF Conns
  <2> QED BY <1>6, <1>7, <2>1 DEF Sent, OnlyConn
<1>11. /\ In(<<"up", c>>) = ToSet(conn[c].up) \ {Hello}
       /\ In(<<"up", c>>)' = ToSet(k.up) \ {Hello} /\ In(<<"hands", c>>)' = Ids(k.hands)
       /\ In(<<"out", c>>)' = Ids(k.out) /\ In(<<"down", c>>)' = Ids(k.down)
  BY <1>7, PlacesOfOne
<1>12. ASSUME NEW p \in Places, p # <<"up", c>>, UNCHANGED <<inbound, daemonVars>>,
              p = <<"outbound", 0>> => UNCHANGED outbound,
              p = <<"backlog", 0>> => UNCHANGED backlog
       PROVE  In(p)' = In(p)
  <2>1. CASE p \in {<<"hands", c>>, <<"out", c>>, <<"down", c>>}
    BY <1>6, <1>11, <2>1, WhatPlacesHold
  <2>2. CASE p \notin {<<"hands", c>>, <<"out", c>>, <<"down", c>>}
    BY <1>7, <1>12, <2>2, PlacesOfOthers DEF daemonVars, storeVars
  <2> QED BY <2>1, <2>2
<1> QED BY <1>4, <1>6, <1>9, <1>10, <1>11, <1>12

\* The connection of a client that is greeting or sending.
LEMMA TheConnection ==
  ASSUME IInv, client.pc \in {"greeting", "replaying", "serving"}
  PROVE  client.conn \in Conns /\ Greeting(client, client.conn, conn[client.conn])
<1>1. client.conn # 0 /\ client.conn \in 0..MaxConns
  BY DEF IInv, Types, ClientInv, ClientTypes
<1>2. client.conn \in Conns  BY <1>1, RelayAssumption DEF Conns
<1> QED BY <1>2, AConnection

\* The client greets.
LEMMA GreetLinked ==
  ASSUME IInv, Greet, Linked
  PROVE  IInv'
<1>1. /\ BridgeTypes /\ ClientTypes /\ ConnTypes /\ LostTypes /\ ClientInv /\ ConnInv
      /\ BridgeInv /\ PlaceInv /\ QueueInv
  BY DEF IInv, Types
<1>2. /\ client.pc = "greeting" /\ client' = [client EXCEPT !.pc = "replaying"]
      /\ Transmit(Hello)
      /\ UNCHANGED <<bridgeVars, backlog, lifeVars, daemonVars, lost>>
  BY DEF Greet, At
<1>3. PICK c \in Conns : c = client.conn  BY <1>2, TheConnection
<1>4. Greeting(client, c, conn[c]) /\ conn[c].link  BY <1>2, <1>3, TheConnection DEF Linked
<1>5. conn[c].up = <<>> /\ conn[c].handler = "accepted"  BY <1>2, <1>3, <1>4 DEF Greeting
<1>6. /\ ClientTypes' /\ client'.pc = "replaying" /\ client'.conn = client.conn
      /\ client'.attempt = client.attempt
  BY <1>1, <1>2 DEF ClientTypes
<1>7. ClientInv'  BY <1>1, <1>2, <1>6 DEF ClientInv, At
<1>8. ASSUME NEW k, k.up = Append(conn[c].up, Hello), k.handler = conn[c].handler,
             k.link = conn[c].link, k.hands = conn[c].hands
      PROVE  Greeting(client', c, k)
  <2>1. k.up = <<Hello>>  BY <1>5, <1>8
  <2>2. DOMAIN k.up = {1} /\ k.up[1] = Hello /\ k.up # <<>>  BY <2>1
  <2> QED BY <1>4, <1>5, <1>6, <1>8, <2>2 DEF Greeting
<1>9. /\ ConnTypes' /\ ConnInv' /\ Sent = conn[c].up /\ Sent' = Append(Sent, Hello)
      /\ In(<<"up", c>>)' = In(<<"up", c>>) \cup ({Hello} \ {Hello})
      /\ \A p \in Places :
           /\ p # <<"up", c>>
           /\ p = <<"outbound", 0>> => UNCHANGED outbound
           /\ p = <<"backlog", 0>> => UNCHANGED backlog
           /\ UNCHANGED <<inbound, daemonVars>>
           => In(p)' = In(p)
  <2>1. Hello \notin ToSet(conn[c].up)  BY <1>5 DEF ToSet
  <2>2. UNCHANGED answer  BY <1>2 DEF daemonVars, storeVars
  <2> QED BY <1>2, <1>3, <1>6, <1>8, <2>1, <2>2, Transmitted
<1>10. PlaceInv'
  <2>1. \A p \in Places : In(p)' = In(p)  BY <1>2, <1>9 DEF bridgeVars
  <2> QED BY <1>1, <1>2, <2>1, NothingMoves DEF bridgeVars
<1>11. QueueInv'
  <2>1. Sent' = <<Hello>>  BY <1>5, <1>9
  <2>2. Contents(Sent') = {} /\ InOrder(Sent')  BY <2>1 DEF Contents, InOrder, Hello
  <2>3. LeftOf(Sent, Sent')  BY <2>2 DEF LeftOf
  <2> QED BY <1>1, <1>2, <2>3, QueueShrinks DEF bridgeVars
<1>12. LostTypes' /\ OnlyAliveAreLost  BY <1>2, NothingIsLost DEF bridgeVars
<1>13. BridgeTypes' /\ BridgeInv'
  BY <1>1, <1>2 DEF BridgeTypes, BridgeInv, bridgeVars, daemonVars, storeVars
<1>14. ~At("ended")  BY <1>2 DEF At
<1> QED BY <1>2, <1>6, <1>7, <1>9, <1>10, <1>11, <1>12, <1>13, <1>14, TheClientWorks
       DEF bridgeVars

\* The connection is gone before the greeting.
LEMMA GreetBroken ==
  ASSUME IInv, Greet, ~Linked
  PROVE  IInv'
<1>1. ClientTypes /\ ClientInv /\ ConnInv  BY DEF IInv, Types
<1>2. /\ client.pc = "greeting" /\ client' = [client EXCEPT !.pc = "connecting"]
      /\ UNCHANGED <<bridgeVars, backlog, conn, lifeVars, daemonVars, lost>>
  BY DEF Greet, At
<1>3. /\ ClientTypes' /\ client'.pc = "connecting" /\ client'.conn = client.conn
      /\ client'.attempt = client.attempt
  BY <1>1, <1>2 DEF ClientTypes
<1>4. ClientInv'  BY <1>1, <1>2, <1>3 DEF ClientInv, At
<1>5. \A c \in Conns : Greeting(client', c, conn[c])
  BY <1>1, <1>3, NotSending DEF ConnInv, Sound
<1>6. ~At("ended")  BY <1>2 DEF At
<1> QED BY <1>2, <1>3, <1>4, <1>5, <1>6, OnlyTheClientMoves

\* The client greets, or finds its connection gone.
LEMMA GreetPreserves ==
  ASSUME IInv, Greet
  PROVE  IInv'
BY GreetLinked, GreetBroken

\* The client goes on sending behind its greeting.
LEMMA SendingGoesOn ==
  ASSUME NEW cl, NEW c \in Conns, NEW up \in Seq(Requests \cup {Hello}), NEW k, NEW l,
         Greeting(cl, c, k), k.up = up, k.link, c = cl.conn, cl.pc \in {"replaying", "serving"},
         NEW m \in Requests, l.up = Append(up, m), l.handler = k.handler, l.hands = k.hands
  PROVE  Greeting(cl, c, l)
<1>1. /\ DOMAIN up = 1..Len(up) /\ DOMAIN l.up = 1..(Len(up) + 1) /\ Len(up) \in Nat
      /\ \A i \in 1..Len(up) : l.up[i] = up[i]
      /\ l.up[Len(up) + 1] = m /\ l.up # <<>> /\ (up # <<>> => Len(up) # 0)
  OBVIOUS
<1>2. m # Hello  BY DEF Requests, Hello
<1>3. k.handler = "accepted" => up # <<>>  BY DEF Greeting
<1>4. ASSUME NEW i \in DOMAIN l.up PROVE l.up[i] = Hello <=> i = 1 /\ k.handler = "accepted"
  <2>1. CASE i \in 1..Len(up)  BY <1>1, <2>1 DEF Greeting
  <2>2. CASE i = Len(up) + 1  BY <1>1, <1>2, <1>3, <2>2
  <2> QED BY <1>1, <2>1, <2>2
<1> QED BY <1>1, <1>4 DEF Greeting

\* A request that the bridge holds is sent: it is not on the connection yet.
LEMMA RequestIsSent ==
  ASSUME IInv, client.pc \in {"replaying", "serving"}, NEW c \in Conns, c = client.conn, Linked,
         NEW a \in {<<"outbound", 0>>, <<"backlog", 0>>}, NEW m \in Requests, m \in In(a),
         answer[m] = "none", In(a)' = In(a) \ {m}, Transmit(m),
         a # <<"outbound", 0>> => UNCHANGED outbound,
         a # <<"backlog", 0>> => UNCHANGED backlog,
         UNCHANGED <<asked, awaiting, told, inbound, client, lifeVars, daemonVars, lost>>
  PROVE  /\ ConnTypes' /\ ConnInv' /\ LostTypes' /\ OnlyAliveAreLost /\ PlaceInv'
         /\ Sent' = Append(Sent, m)
<1> DEFINE b == <<"up", c>>
<1>1. ClientTypes /\ PlaceInv /\ ClientTypes'  BY DEF IInv, Types, ClientTypes
<1>2. /\ conn[c] \in Connections /\ Greeting(client, c, conn[c]) /\ conn[c].link
  BY AConnection DEF Linked
<1>3. conn[c].up \in Seq(Requests \cup {Hello})  BY <1>2 DEF Connections
<1>4. a \in Places /\ b \in Places /\ a # b /\ In(b) = ToSet(conn[c].up) \ {Hello}
  <2>1. a = <<"outbound", 0>> \/ a = <<"backlog", 0>>  OBVIOUS
  <2>2. a \in Places /\ b \in Places  BY <2>1, ThePlaces
  <2>3. a # b  BY <2>1
  <2>4. In(b) = ToSet(conn[c].up) \ {Hello}  BY WhatPlacesHold
  <2> QED BY <2>2, <2>3, <2>4
<1>5. m # Hello  BY DEF Requests, Hello
<1>6. m \notin ToSet(conn[c].up)  BY <1>1, <1>4, <1>5 DEF PlaceInv
<1>7. ASSUME NEW k, k.up = Append(conn[c].up, m), k.handler = conn[c].handler,
             k.link = conn[c].link, k.hands = conn[c].hands
      PROVE  Greeting(client', c, k)
  <2>1. Greeting(client, c, k)  BY <1>2, <1>3, <1>7, SendingGoesOn
  <2> QED BY <2>1
<1>8. /\ ConnTypes' /\ ConnInv' /\ Sent' = Append(Sent, m)
      /\ In(<<"up", c>>)' = In(<<"up", c>>) \cup ({m} \ {Hello})
      /\ \A p \in Places :
           /\ p # <<"up", c>>
           /\ p = <<"outbound", 0>> => UNCHANGED outbound
           /\ p = <<"backlog", 0>> => UNCHANGED backlog
           /\ UNCHANGED <<inbound, daemonVars>>
           => In(p)' = In(p)
  <2>1. UNCHANGED answer /\ client'.conn = client.conn /\ m \in Requests \cup {Hello}
    BY DEF daemonVars, storeVars
  <2> QED BY <1>1, <1>6, <1>7, <2>1, Transmitted
<1>9. ASSUME NEW p \in Places, p # a, p # b PROVE In(p)' = In(p)
  BY <1>8, <1>9
<1>10. In(b)' = In(b) \cup {m}  BY <1>5, <1>8
<1>11. LostTypes' /\ OnlyAliveAreLost /\ \A r \in Requests : Alive(r)' <=> Alive(r)
  BY NothingIsLost
<1> HIDE DEF b
<1>12. Exchange(a, b, {})  BY <1>9, <1>10, <1>11 DEF Exchange
<1>13. PlaceInv'  BY <1>1, <1>4, <1>12, Exchanged
<1> QED BY <1>8, <1>11, <1>13

\* The first of the backlog is sent.
LEMMA ReplaySends ==
  ASSUME IInv, ReplayBacklog, Linked
  PROVE  IInv'
<1> DEFINE m == Head(backlog)
           a == <<"backlog", 0>>
<1>1. /\ BridgeTypes /\ ClientTypes /\ ClientInv /\ BridgeInv /\ AskedInv
  BY DEF IInv, Types
<1>2. /\ client.pc = "replaying" /\ backlog # <<>> /\ backlog' = Tail(backlog) /\ Transmit(m)
      /\ UNCHANGED <<bridgeVars, client, lifeVars, daemonVars, lost>>
  BY DEF ReplayBacklog, At
<1>3. PICK c \in Conns : c = client.conn  BY <1>2, TheConnection
<1>4. backlog \in Seq(Requests)  BY <1>1 DEF BridgeTypes
<1>5. /\ m \in Requests /\ Tail(backlog) \in Seq(Requests)
      /\ Len(Tail(backlog)) = Len(backlog) - 1
      /\ ToSet(backlog) = {m} \cup ToSet(Tail(backlog))
      /\ Once(Tail(backlog)) /\ m \notin ToSet(Tail(backlog))
  BY <1>1, <1>2, <1>4, HeadIsTaken DEF BridgeInv
<1> HIDE DEF m
<1>6. In(a) = ToSet(backlog) /\ In(a)' = ToSet(Tail(backlog))
  BY <1>2, WhatPlacesHold, WhatPlacesHoldThen
<1>7. answer[m] = "none"  BY <1>1, <1>5 DEF BridgeInv, Unanswered
<1>8. /\ ConnTypes' /\ ConnInv' /\ LostTypes' /\ OnlyAliveAreLost /\ PlaceInv'
      /\ Sent' = Append(Sent, m)
  <2>1. a \in {<<"outbound", 0>>, <<"backlog", 0>>} /\ a # <<"outbound", 0>>  OBVIOUS
  <2>2. m \in In(a) /\ In(a)' = In(a) \ {m}  BY <1>5, <1>6
  <2>3. UNCHANGED <<asked, awaiting, told, inbound, outbound>>  BY <1>2 DEF bridgeVars
  <2> HIDE DEF a
  <2> QED BY <1>2, <1>3, <1>5, <1>7, <2>1, <2>2, <2>3, RequestIsSent
<1>9. QueueInv'
  <2>1. outbound' = outbound  BY <1>2 DEF bridgeVars
  <2>2. MovesOn(3, Queue, Queue', 2, 1)
    BY <1>2, <1>8, <2>1 DEF MovesOn, Queue, m
  <2> QED BY <2>2, QueueMoves
<1>10. BridgeTypes' /\ BridgeInv'
  <2>1. Len(Tail(backlog)) <= BackoffCap  BY <1>1, <1>4, <1>5, RelayAssumption DEF BridgeTypes
  <2> QED BY <1>1, <1>2, <1>5, <2>1
         DEF BridgeTypes, BridgeInv, Unanswered, bridgeVars, daemonVars, storeVars
<1>11. ClientTypes' /\ ClientInv'  BY <1>1, <1>2 DEF ClientTypes, ClientInv, At
<1>12. ~At("ended")  BY <1>2 DEF At
<1> QED BY <1>2, <1>8, <1>9, <1>10, <1>11, <1>12, TheClientWorks DEF bridgeVars

\* The client turns away from its connection: what it has not read is given up.
LEMMA Abandoned ==
  ASSUME IInv, NEW c \in Conns, c = client.conn, Abandon, UNCHANGED <<awaiting, answer>>,
         ClientTypes', client'.conn = client.conn, client'.pc = "connecting"
  PROVE  /\ ConnTypes' /\ ConnInv' /\ LostTypes' /\ OnlyAliveAreLost /\ UNCHANGED Sent
         /\ In(<<"down", c>>)' = {}
         /\ \A r \in Requests : Alive(r)' <=> Alive(r) /\ r \notin In(<<"down", c>>)
         /\ \A p \in Places :
              /\ p # <<"down", c>>
              /\ p = <<"outbound", 0>> => UNCHANGED outbound
              /\ p = <<"backlog", 0>> => UNCHANGED backlog
              /\ UNCHANGED <<inbound, daemonVars>>
              => In(p)' = In(p)
<1> DEFINE k == [conn[c] EXCEPT !.down = <<>>]
           given == Ids(conn[c].down)
<1>1. /\ ConnTypes /\ conn[c] \in Connections
      /\ Sound(client, answer, c, conn[c]) /\ Greeting(client, c, conn[c])
  BY AConnection
<1>2. ClientTypes /\ ConnInv  BY DEF IInv, Types
<1>3. conn' = [conn EXCEPT ![c] = k]  BY <1>1 DEF Abandon, ConnTypes
<1>4. <<>> \in Seq(Verdicts) /\ Ids(<<>>) = {} /\ OnceById(<<>>) /\ Agree(answer, <<>>)
  BY NoVerdicts
<1>5. /\ k \in Connections /\ k.handler = conn[c].handler /\ k.link = conn[c].link
      /\ k.up = conn[c].up /\ k.hands = conn[c].hands /\ k.out = conn[c].out /\ k.down = <<>>
  BY <1>1, <1>4 DEF Connections
<1> HIDE DEF k
<1>6. OnlyConn(c, k)  BY <1>1, <1>3, <1>5, ConnIsChanged
<1>7. Sound(client', answer, c, k)
  <2>1. Greeting(client, c, k)  BY <1>1, <1>5 DEF Greeting
  <2>2. Greeting(client', c, k)  BY <2>1, NotSending
  <2>3. ~ c > client.conn /\ ~ c > client'.conn  BY DEF Conns
  <2>4. k.handler # "none"  BY <1>1, <1>5, <2>3 DEF Sound
  <2> QED BY <1>1, <1>4, <1>5, <2>2, <2>3, <2>4 DEF Sound
<1>8. ConnTypes' /\ ConnInv'
  <2>1. client'.conn = c /\ c \in {client.conn, client.conn + 1}  OBVIOUS
  <2> QED BY <1>2, <1>6, <1>7, <2>1, OneConnection
<1>9. UNCHANGED Sent
  <2>1. client.conn # 0 /\ client'.conn # 0  BY DEF Conns
  <2> QED BY <1>5, <1>6, <2>1 DEF Sent, OnlyConn
<1>10. /\ In(<<"up", c>>)' = ToSet(k.up) \ {Hello} /\ In(<<"hands", c>>)' = Ids(k.hands)
       /\ In(<<"out", c>>)' = Ids(k.out) /\ In(<<"down", c>>)' = Ids(k.down)
       /\ In(<<"down", c>>) = given
  BY <1>6, PlacesOfOne
<1>11. ASSUME NEW p \in Places, p # <<"down", c>>, UNCHANGED <<inbound, daemonVars>>,
              p = <<"outbound", 0>> => UNCHANGED outbound,
              p = <<"backlog", 0>> => UNCHANGED backlog
       PROVE  In(p)' = In(p)
  <2>1. CASE p \in {<<"up", c>>, <<"hands", c>>, <<"out", c>>}
    BY <1>5, <1>10, <2>1, WhatPlacesHold
  <2>2. CASE p \notin {<<"up", c>>, <<"hands", c>>, <<"out", c>>}
    BY <1>6, <1>11, <2>2, PlacesOfOthers DEF daemonVars, storeVars
  <2> QED BY <2>1, <2>2
<1>12. /\ LostTypes' /\ OnlyAliveAreLost
       /\ \A r \in Requests : Alive(r)' <=> Alive(r) /\ r \notin given
  <2>1. <<"down", c>> \in Places  BY ThePlaces
  <2>2. \A r \in Requests : r \in given => \E p \in Places : r \in In(p)  BY <1>10, <2>1
  <2>3. "connection" \in Causes /\ UNCHANGED awaiting  BY DEF Causes
  <2>4. Lose(given, "connection")  BY DEF Abandon
  <2> HIDE DEF given
  <2> QED BY <2>2, <2>3, <2>4, HeldIsGivenUp
<1> QED BY <1>4, <1>5, <1>8, <1>9, <1>10, <1>11, <1>12

\* The connection is gone while the backlog is sent.
LEMMA ReplayBreaksOff ==
  ASSUME IInv, ReplayBacklog, ~Linked
  PROVE  IInv'
<1>1. /\ BridgeTypes /\ ClientTypes /\ ClientInv /\ BridgeInv /\ PlaceInv /\ QueueInv
  BY DEF IInv, Types
<1>2. /\ client.pc = "replaying" /\ client' = [client EXCEPT !.pc = "connecting"] /\ Abandon
      /\ UNCHANGED <<bridgeVars, backlog, lifeVars, daemonVars>>
  BY DEF ReplayBacklog, At
<1>3. PICK c \in Conns : c = client.conn  BY <1>2, TheConnection
<1>4. /\ ClientTypes' /\ client'.pc = "connecting" /\ client'.conn = client.conn
      /\ client'.attempt = client.attempt
  BY <1>1, <1>2 DEF ClientTypes
<1>5. ClientInv'  BY <1>1, <1>2, <1>4 DEF ClientInv, At
<1>6. UNCHANGED <<awaiting, answer, inbound, outbound, backlog, daemonVars>>
  BY <1>2 DEF bridgeVars, daemonVars, storeVars
<1>7. /\ ConnTypes' /\ ConnInv' /\ LostTypes' /\ OnlyAliveAreLost /\ UNCHANGED Sent
      /\ In(<<"down", c>>)' = {}
      /\ \A r \in Requests : Alive(r)' <=> Alive(r) /\ r \notin In(<<"down", c>>)
      /\ \A p \in Places :
           /\ p # <<"down", c>>
           /\ p = <<"outbound", 0>> => UNCHANGED outbound
           /\ p = <<"backlog", 0>> => UNCHANGED backlog
           /\ UNCHANGED <<inbound, daemonVars>>
           => In(p)' = In(p)
  BY <1>2, <1>3, <1>4, <1>6, Abandoned
<1>8. PlaceInv'
  <2>1. <<"down", c>> \in Places  BY ThePlaces
  <2>2. ASSUME NEW p \in Places, p # <<"down", c>> PROVE In(p)' = In(p)
    BY <1>6, <1>7, <2>2
  <2> QED BY <1>1, <1>7, <2>1, <2>2, PlaceLoses
<1>9. QueueInv'  BY <1>1, <1>6, <1>7, QueueShrinks
<1>10. BridgeTypes' /\ BridgeInv'
  BY <1>1, <1>2 DEF BridgeTypes, BridgeInv, bridgeVars, daemonVars, storeVars
<1>11. ~At("ended")  BY <1>2 DEF At
<1> QED BY <1>2, <1>4, <1>5, <1>7, <1>8, <1>9, <1>10, <1>11, TheClientWorks DEF bridgeVars

\* The client sends its backlog.
LEMMA ReplayBacklogPreserves ==
  ASSUME IInv, ReplayBacklog
  PROVE  IInv'
BY ReplaySends, ReplayBreaksOff

\* The first of the channel is sent.
LEMMA OutboundIsSent ==
  ASSUME IInv, SendOutbound, Linked
  PROVE  IInv'
<1> DEFINE m == Head(outbound)
           a == <<"outbound", 0>>
<1>1. /\ BridgeTypes /\ ClientTypes /\ ClientInv /\ BridgeInv
  BY DEF IInv, Types
<1>2. /\ client.pc = "serving" /\ outbound # <<>> /\ outbound' = Tail(outbound) /\ Transmit(m)
      /\ UNCHANGED <<asked, awaiting, told, inbound, clientVars, lifeVars, daemonVars, lost>>
  BY DEF SendOutbound, At
<1>3. PICK c \in Conns : c = client.conn  BY <1>2, TheConnection
<1>4. outbound \in Seq(Requests) /\ backlog = <<>>
  BY <1>1, <1>2 DEF BridgeTypes, ClientInv, At
<1>5. /\ m \in Requests /\ Tail(outbound) \in Seq(Requests)
      /\ ToSet(outbound) = {m} \cup ToSet(Tail(outbound))
      /\ Once(Tail(outbound)) /\ m \notin ToSet(Tail(outbound))
  BY <1>1, <1>2, <1>4, HeadIsTaken DEF BridgeInv
<1> HIDE DEF m
<1>6. In(a) = ToSet(outbound) /\ In(a)' = ToSet(Tail(outbound))
  BY <1>2, WhatPlacesHold, WhatPlacesHoldThen
<1>7. answer[m] = "none"  BY <1>1, <1>5 DEF BridgeInv, Unanswered
<1>8. /\ ConnTypes' /\ ConnInv' /\ LostTypes' /\ OnlyAliveAreLost /\ PlaceInv'
      /\ Sent' = Append(Sent, m)
  <2>1. a \in {<<"outbound", 0>>, <<"backlog", 0>>} /\ a # <<"backlog", 0>>  OBVIOUS
  <2>2. m \in In(a) /\ In(a)' = In(a) \ {m}  BY <1>5, <1>6
  <2>3. UNCHANGED <<client, backlog>>  BY <1>2 DEF clientVars
  <2> HIDE DEF a
  <2> QED BY <1>2, <1>3, <1>5, <1>7, <2>1, <2>2, <2>3, RequestIsSent
<1>9. QueueInv'
  <2>1. backlog' = backlog  BY <1>2 DEF clientVars
  <2>2. MovesOn(3, Queue, Queue', 3, 1)
    BY <1>2, <1>4, <1>8, <2>1 DEF MovesOn, Queue, m
  <2> QED BY <2>2, QueueMoves
<1>10. BridgeTypes' /\ BridgeInv'
  BY <1>1, <1>2, <1>5
     DEF BridgeTypes, BridgeInv, Unanswered, clientVars, daemonVars, storeVars
<1>11. ClientTypes' /\ ClientInv'
  BY <1>1, <1>2 DEF ClientTypes, ClientInv, At, clientVars
<1>12. ~At("ended")  BY <1>2 DEF At
<1> QED BY <1>2, <1>8, <1>9, <1>10, <1>11, <1>12, TheClientWorks

\* A request moves from one place to another, and all that a third one holds is given up.
LEMMA MovedAndGivenUp ==
  ASSUME PlaceInv, NEW a \in Places, NEW b \in Places, NEW z \in Places,
         a # b, b # z, z # a, NEW m \in In(a),
         In(a)' = In(a) \ {m}, In(b)' = In(b) \cup {m}, In(z)' = {},
         \A p \in Places : p \notin {a, b, z} => In(p)' = In(p),
         \A r \in Requests : Alive(r)' <=> Alive(r) /\ r \notin In(z)
  PROVE  PlaceInv'
<1> DEFINE f == [p \in Places |-> In(p)]
           g == [p \in Places |-> In(p)']
<1>1. \A p, q \in Places : p # q => f[p] \cap f[q] = {}  BY DEF PlaceInv
<1>2. /\ m \in f[a] /\ g[a] = f[a] \ {m} /\ g[b] = f[b] \cup {m} /\ g[z] = {}
      /\ \A p \in Places : p \notin {a, b, z} => g[p] = f[p]
  OBVIOUS
<1>3. ASSUME NEW r \in Requests PROVE Alive(r)' <=> r \notin f[z] /\ \E p \in Places : r \in f[p]
  BY DEF PlaceInv
<1>4. ASSUME NEW r \in Requests
      PROVE  (\E p \in Places : r \in g[p]) <=> \E p \in Places : r \in In(p)'
  OBVIOUS
<1>5. SUFFICES /\ \A p, q \in Places : p # q => g[p] \cap g[q] = {}
               /\ \A r \in Requests : Alive(r)' <=> \E p \in Places : r \in g[p]
  BY <1>4 DEF PlaceInv
<1> HIDE DEF f, g
<1>6. ASSUME NEW p \in Places, NEW y \in g[p]
      PROVE  p # z /\ ((p = b /\ y = m) \/ (y \in f[p] /\ y # m))
  <2>1. CASE p = b
    <3>1. m \notin f[b]  BY <1>1, <1>2
    <3> QED BY <1>2, <1>6, <2>1, <3>1
  <2>2. CASE p = a  BY <1>2, <1>6, <2>2
  <2>3. CASE p = z  BY <1>2, <1>6, <2>3
  <2>4. CASE p \notin {a, b, z}
    <3>1. g[p] = f[p] /\ m \notin f[p]  BY <1>1, <1>2, <2>4
    <3> QED BY <1>6, <2>4, <3>1
  <2> QED BY <2>1, <2>2, <2>3, <2>4
<1>7. ASSUME NEW p \in Places, NEW q \in Places, p # q, NEW y, y \in g[p], y \in g[q]
      PROVE  FALSE
  <2>1. (p = b /\ y = m) \/ (y \in f[p] /\ y # m)  BY <1>6, <1>7
  <2>2. (q = b /\ y = m) \/ (y \in f[q] /\ y # m)  BY <1>6, <1>7
  <2>3. y \in f[p] /\ y \in f[q]  BY <1>7, <2>1, <2>2
  <2> QED BY <1>1, <1>7, <2>3
<1>8. ASSUME NEW r \in Requests
      PROVE  (\E p \in Places : r \in g[p]) <=> r \notin f[z] /\ \E p \in Places : r \in f[p]
  <2>1. ASSUME NEW p \in Places, r \in g[p]
        PROVE  r \notin f[z] /\ \E q \in Places : r \in f[q]
    <3>1. p # z /\ ((p = b /\ r = m) \/ (r \in f[p] /\ r # m))  BY <1>6, <2>1
    <3>2. CASE r = m  BY <1>1, <1>2, <3>2
    <3>3. CASE r \in f[p]  BY <1>1, <3>1, <3>3
    <3> QED BY <3>1, <3>2, <3>3
  <2>2. ASSUME NEW p \in Places, r \in f[p], r \notin f[z] PROVE \E q \in Places : r \in g[q]
    <3>1. CASE r = m  BY <1>2, <3>1
    <3>2. CASE r # m
      <4>1. p # z  BY <2>2
      <4>2. CASE p = a  BY <1>2, <2>2, <3>2, <4>2
      <4>3. CASE p = b  BY <1>2, <2>2, <4>3
      <4>4. CASE p \notin {a, b, z}  BY <1>2, <2>2, <4>4
      <4> QED BY <4>1, <4>2, <4>3, <4>4
    <3> QED BY <3>1, <3>2
  <2> QED BY <2>1, <2>2
<1> QED BY <1>3, <1>7, <1>8

\* The connection is gone: the first of the channel is kept for the next one.
LEMMA OutboundIsKept ==
  ASSUME IInv, SendOutbound, ~Linked
  PROVE  IInv'
<1> DEFINE m == Head(outbound)
           a == <<"outbound", 0>>
           b == <<"backlog", 0>>
<1>1. /\ BridgeTypes /\ ClientTypes /\ ClientInv /\ BridgeInv /\ PlaceInv /\ QueueInv
  BY DEF IInv, Types
<1>2. /\ client.pc = "serving" /\ outbound # <<>> /\ outbound' = Tail(outbound)
      /\ LeaveServing /\ Abandon /\ backlog' = Append(backlog, m)
      /\ UNCHANGED <<asked, awaiting, told, inbound, lifeVars, daemonVars>>
  BY DEF SendOutbound, At
<1>3. PICK c \in Conns : c = client.conn  BY <1>2, TheConnection
<1> DEFINE z == <<"down", c>>
<1>4. outbound \in Seq(Requests) /\ backlog = <<>>
  BY <1>1, <1>2 DEF BridgeTypes, ClientInv, At
<1>5. /\ m \in Requests /\ Tail(outbound) \in Seq(Requests)
      /\ ToSet(outbound) = {m} \cup ToSet(Tail(outbound))
      /\ Once(Tail(outbound)) /\ m \notin ToSet(Tail(outbound))
  BY <1>1, <1>2, <1>4, HeadIsTaken DEF BridgeInv
<1> HIDE DEF m
<1>6. /\ backlog' = <<m>> /\ backlog' \in Seq(Requests) /\ Len(backlog') = 1
      /\ ToSet(backlog') = {m} /\ Once(backlog') /\ ToSet(backlog) = {}
  BY <1>2, <1>4, <1>5 DEF ToSet, Once
<1>7. /\ ClientTypes' /\ client'.pc = "connecting" /\ client'.conn = client.conn
      /\ client'.attempt < MaxRetries
  BY <1>1, <1>2, ServingIsLeft DEF At
<1>8. ClientInv'  BY <1>7 DEF ClientInv, At
<1>9. UNCHANGED <<awaiting, answer, inbound, daemonVars>>
  BY <1>2 DEF daemonVars, storeVars
<1>10. /\ ConnTypes' /\ ConnInv' /\ LostTypes' /\ OnlyAliveAreLost /\ UNCHANGED Sent
       /\ In(<<"down", c>>)' = {}
       /\ \A r \in Requests : Alive(r)' <=> Alive(r) /\ r \notin In(<<"down", c>>)
       /\ \A p \in Places :
            /\ p # <<"down", c>>
            /\ p = <<"outbound", 0>> => UNCHANGED outbound
            /\ p = <<"backlog", 0>> => UNCHANGED backlog
            /\ UNCHANGED <<inbound, daemonVars>>
            => In(p)' = In(p)
  BY <1>2, <1>3, <1>7, <1>9, Abandoned
<1>11. PlaceInv'
  <2>1. /\ a \in Places /\ b \in Places /\ z \in Places /\ a # b /\ b # z /\ z # a
        /\ In(a) = ToSet(outbound) /\ In(a)' = ToSet(Tail(outbound))
        /\ In(b) = ToSet(backlog) /\ In(b)' = ToSet(backlog')
    BY <1>2, ThePlaces, WhatPlacesHold, WhatPlacesHoldThen
  <2>2. ASSUME NEW p \in Places, p \notin {a, b, z} PROVE In(p)' = In(p)
    BY <1>9, <1>10, <2>2
  <2>3. /\ In(z)' = {} /\ \A r \in Requests : Alive(r)' <=> Alive(r) /\ r \notin In(z)
    BY <1>10
  <2> HIDE DEF a, b, z
  <2>4. m \in In(a) /\ In(a)' = In(a) \ {m} /\ In(b)' = In(b) \cup {m}  BY <1>5, <1>6, <2>1
  <2> QED BY <1>1, <2>1, <2>2, <2>3, <2>4, MovedAndGivenUp
<1>12. QueueInv'
  <2>1. Queue' = <<Sent, backlog', outbound'>>  BY <1>10 DEF Queue
  <2>2. MovesOn(3, Queue, Queue', 3, 2)
    BY <1>2, <2>1 DEF MovesOn, Queue, m
  <2> QED BY <2>2, QueueMoves
<1>13. BridgeTypes' /\ BridgeInv'
  <2>1. Len(backlog') <= BackoffCap  BY <1>6, RelayAssumption
  <2>2. answer[m] = "none"  BY <1>1, <1>5 DEF BridgeInv, Unanswered
  <2> QED BY <1>1, <1>2, <1>5, <1>6, <1>9, <2>1, <2>2
         DEF BridgeTypes, BridgeInv, Unanswered
<1>14. ~At("ended")  BY <1>2 DEF At
<1> QED BY <1>2, <1>7, <1>8, <1>10, <1>11, <1>12, <1>13, <1>14, TheClientWorks

\* The client sends what Claude asks.
LEMMA SendOutboundPreserves ==
  ASSUME IInv, SendOutbound
  PROVE  IInv'
BY OutboundIsSent, OutboundIsKept

\* The client hands a verdict to the MCP loop.
LEMMA ReceivePreserves ==
  ASSUME IInv, Receive
  PROVE  IInv'
<1>1. client.pc = "serving"  BY DEF Receive, At
<1>2. PICK c \in Conns : c = client.conn  BY <1>1, TheConnection
<1> DEFINE k == [conn[c] EXCEPT !.down = Tail(conn[c].down)]
           v == Head(conn[c].down)
           a == <<"down", c>>
           b == <<"inbound", 0>>
<1>3. /\ ConnTypes /\ conn[c] \in Connections
      /\ Sound(client, answer, c, conn[c]) /\ Greeting(client, c, conn[c])
  BY AConnection
<1>4. BridgeTypes /\ ClientTypes /\ ClientInv /\ ConnInv /\ BridgeInv /\ PlaceInv /\ QueueInv
  BY DEF IInv, Types
<1>5. /\ conn[c].down # <<>> /\ inbound' = Append(inbound, v)
      /\ conn' = [conn EXCEPT ![c] = k]
      /\ UNCHANGED <<asked, awaiting, told, outbound, clientVars, lifeVars, daemonVars, lost>>
  BY <1>2, <1>3 DEF Receive, ConnTypes
<1>6. conn[c].down \in Seq(Verdicts) /\ OnceById(conn[c].down) /\ Agree(answer, conn[c].down)
  BY <1>3 DEF Connections, Sound
<1>7. /\ v \in Verdicts /\ Tail(conn[c].down) \in Seq(Verdicts)
      /\ Ids(conn[c].down) = {v.id} \cup Ids(Tail(conn[c].down))
      /\ OnceById(Tail(conn[c].down)) /\ v.id \notin Ids(Tail(conn[c].down))
      /\ Agree(answer, Tail(conn[c].down)) /\ answer[v.id] = v.behavior
  BY <1>5, <1>6, VerdictIsTaken
<1> HIDE DEF v
<1>8. /\ k \in Connections /\ k.handler = conn[c].handler /\ k.link = conn[c].link
      /\ k.up = conn[c].up /\ k.hands = conn[c].hands /\ k.out = conn[c].out
      /\ k.down = Tail(conn[c].down)
  BY <1>3, <1>7 DEF Connections
<1> HIDE DEF k
<1>9. OnlyConn(c, k)  BY <1>3, <1>5, <1>8, ConnIsChanged
<1>10. ~ c > client.conn  BY <1>2 DEF Conns
<1>11. UNCHANGED <<client, backlog, answer>>  BY <1>5 DEF clientVars, daemonVars, storeVars
<1>12. Sound(client', answer, c, k)
  <2>1. Greeting(client, c, k)  BY <1>3, <1>8 DEF Greeting
  <2>2. Sound(client, answer, c, k)  BY <1>3, <1>7, <1>8, <1>10, <2>1 DEF Sound
  <2> QED BY <1>11, <2>2
<1>13. ClientTypes'  BY <1>4, <1>11 DEF ClientTypes
<1>14. ConnTypes' /\ ConnInv'  BY <1>4, <1>9, <1>11, <1>12, <1>13, OneConnection
<1>15. /\ a \in Places /\ b \in Places /\ a # b /\ In(a) = Ids(conn[c].down)
       /\ In(b) = Ids(inbound) /\ In(b)' = Ids(Append(inbound, v))
       /\ In(a)' = Ids(Tail(conn[c].down))
       /\ In(<<"up", c>>)' = In(<<"up", c>>) /\ In(<<"hands", c>>)' = In(<<"hands", c>>)
       /\ In(<<"out", c>>)' = In(<<"out", c>>)
  <2>1. /\ In(<<"up", c>>)' = ToSet(k.up) \ {Hello} /\ In(<<"hands", c>>)' = Ids(k.hands)
        /\ In(<<"out", c>>)' = Ids(k.out) /\ In(<<"down", c>>)' = Ids(k.down)
    BY <1>9, PlacesOfOne
  <2> QED BY <1>5, <1>8, <2>1, ThePlaces, WhatPlacesHold, WhatPlacesHoldThen
<1>16. v.id \notin Ids(inbound)  BY <1>4, <1>7, <1>15 DEF PlaceInv
<1>17. /\ Append(inbound, v) \in Seq(Verdicts)
       /\ Ids(Append(inbound, v)) = Ids(inbound) \cup {v.id}
       /\ OnceById(Append(inbound, v)) /\ Agree(answer, Append(inbound, v))
  BY <1>4, <1>7, <1>16, VerdictIsPut DEF BridgeTypes, BridgeInv
<1>18. BridgeTypes' /\ BridgeInv'
  BY <1>4, <1>5, <1>11, <1>17 DEF BridgeTypes, BridgeInv
<1>19. LostTypes' /\ OnlyAliveAreLost /\ \A r \in Requests : Alive(r)' <=> Alive(r)
  BY <1>5, NothingIsLost
<1>20. ASSUME NEW p \in Places, p # a, p # b PROVE In(p)' = In(p)
  <2>1. CASE p \in {<<"up", c>>, <<"hands", c>>, <<"out", c>>}  BY <1>15, <2>1
  <2>2. CASE p \notin {<<"up", c>>, <<"hands", c>>, <<"out", c>>}
    BY <1>5, <1>9, <1>11, <1>20, <2>2, PlacesOfOthers DEF daemonVars, storeVars
  <2> QED BY <2>1, <2>2
<1> HIDE DEF a, b
<1>21. PlaceInv'
  <2>1. Exchange(a, b, {})  BY <1>7, <1>15, <1>17, <1>19, <1>20 DEF Exchange
  <2> QED BY <1>4, <1>15, <2>1, Exchanged
<1>22. QueueInv'
  <2>1. Shortened(conn[c].up, k.up)  BY <1>8 DEF Shortened
  <2>2. LeftOf(Sent, Sent') \/ UNCHANGED Sent
    BY <1>3, <1>4, <1>9, <1>11, <2>1, SentChanges
  <2> QED BY <1>4, <1>5, <1>11, <2>2, QueueShrinks
<1>23. ClientInv'  BY <1>4, <1>11 DEF ClientInv, At
<1>24. ~At("ended")  BY <1>1 DEF At
<1> QED BY <1>5, <1>13, <1>14, <1>18, <1>19, <1>21, <1>22, <1>23, <1>24, TheClientWorks

----------------------------------------------------------------------------
(* The MCP loop of the bridge.                                             *)

\* Claude does not wait yet for what it asks next, and nothing holds it.
LEMMA TheNextRequest ==
  ASSUME IInv, asked < MaxRequests, NEW r, r = asked + 1
  PROVE  /\ r \in Requests /\ r \notin awaiting /\ told[r] = <<>> /\ answer[r] = "none"
         /\ lost[r] = "no" /\ r \in 0..MaxRequests
         /\ \A p \in Places : r \notin In(p)
         /\ \A p \in Places : \A x \in Requests : x \in In(p) => x < r
<1>1. /\ asked \in Nat /\ MaxRequests \in Nat /\ PlaceInv /\ AskedInv
      /\ awaiting \subseteq Requests
  BY RelayAssumption DEF IInv, Types, BridgeTypes
<1>2. r \in Requests /\ r > asked /\ r \in 0..MaxRequests  BY <1>1 DEF Requests
<1>3. r \notin awaiting /\ told[r] = <<>> /\ answer[r] = "none" /\ lost[r] = "no"
  BY <1>1, <1>2 DEF AskedInv
<1>4. ASSUME NEW p \in Places, NEW x \in Requests, x \in In(p) PROVE x # r /\ x < r
  <2>1. x \in awaiting  BY <1>1, <1>4, HeldIsAlive DEF Alive
  <2>2. ~ x > asked  BY <1>1, <2>1 DEF AskedInv
  <2>3. x \in Int  BY DEF Requests
  <2> QED BY <1>1, <2>2, <2>3
<1> QED BY <1>2, <1>3, <1>4

\* What Claude asks next comes behind all that is on its way.
LEMMA TheQueueGrows ==
  ASSUME IInv, NEW r \in Requests, \A p \in Places : \A x \in Requests : x \in In(p) => x < r,
         outbound' = Append(outbound, r), UNCHANGED <<client, conn, backlog>>
  PROVE  QueueInv'
<1>1. InLine(3, Queue) /\ Numbers(3, Queue)
      /\ outbound \in Seq(Requests) /\ backlog \in Seq(Requests)
  BY QueueNumbers
<1>2. ASSUME NEW y \in Contents(outbound) PROVE y < r
  <2>1. y \in ToSet(outbound) /\ y \in Requests  BY <1>1 DEF Contents, ToSet
  <2>2. <<"outbound", 0>> \in Places /\ y \in In(<<"outbound", 0>>)
    BY <2>1, ThePlaces, WhatPlacesHold
  <2> QED BY <2>1, <2>2
<1>3. ASSUME NEW y \in Contents(backlog) PROVE y < r
  <2>1. y \in ToSet(backlog) /\ y \in Requests  BY <1>1 DEF Contents, ToSet
  <2>2. <<"backlog", 0>> \in Places /\ y \in In(<<"backlog", 0>>)
    BY <2>1, ThePlaces, WhatPlacesHold
  <2> QED BY <2>1, <2>2
<1>4. ASSUME NEW y \in Contents(Sent) PROVE y < r
  <2>1. client.conn # 0  BY <1>4, EmptySequence DEF Sent
  <2>2. PICK c \in Conns : c = client.conn
    <3>1. client.conn \in 0..MaxConns  BY DEF IInv, Types, ClientTypes
    <3>2. client.conn \in Conns  BY <2>1, <3>1, RelayAssumption DEF Conns
    <3> QED BY <3>2
  <2>3. conn[c].up \in Seq(Requests \cup {Hello})  BY AConnection DEF Connections
  <2>4. y \in ToSet(conn[c].up) /\ y # 0 /\ y \in Requests
    BY <1>4, <2>1, <2>2, <2>3 DEF Contents, ToSet, Sent, Hello
  <2>5. <<"up", c>> \in Places /\ y \in In(<<"up", c>>)
    BY <2>4, ThePlaces, WhatPlacesHold DEF Hello
  <2> QED BY <2>4, <2>5
<1>5. GrowsBy(3, Queue, Queue', r)
  <2>1. \A a \in 1..3 : \A y \in Contents(Queue[a]) : y < r
    <3>1. ASSUME NEW a \in 1..3 PROVE Queue[a] \in {Sent, backlog, outbound}  BY DEF Queue
    <3> QED BY <1>2, <1>3, <1>4, <3>1
  <2>2. UNCHANGED Sent  BY DEF Sent
  <2>3. /\ Queue'[3] = Append(Queue[3], r) /\ \A a \in 1..3 : a # 3 => Queue'[a] = Queue[a]
    BY <2>2 DEF Queue
  <2> QED BY <2>1, <2>3 DEF GrowsBy
<1>6. InLine(3, Queue')
  <2>1. 3 \in Nat \ {0} /\ r \in Nat  BY DEF Requests
  <2> QED BY <1>1, <1>5, <2>1, LineGrows
<1> QED BY <1>6 DEF QueueInv

\* Claude asks, and its request is on its way.
LEMMA AskQueues ==
  ASSUME IInv, Ask, client.pc # "ended"
  PROVE  IInv'
<1> DEFINE a == <<"outbound", 0>>
<1>1. PICK r \in Requests : r = asked + 1
  <2>1. asked < MaxRequests /\ asked + 1 = asked + 1  BY DEF Ask
  <2> QED BY <2>1, TheNextRequest
<1>2. /\ asked < MaxRequests /\ asked' = r /\ awaiting' = awaiting \cup {r}
      /\ outbound' = Append(outbound, r)
      /\ UNCHANGED <<told, inbound, clientVars, conn, lifeVars, daemonVars, lost>>
  BY <1>1 DEF Ask
<1>3. /\ r \notin awaiting /\ told[r] = <<>> /\ answer[r] = "none"
      /\ lost[r] = "no" /\ r \in 0..MaxRequests
      /\ \A p \in Places : r \notin In(p)
      /\ \A p \in Places : \A x \in Requests : x \in In(p) => x < r
  BY <1>1, <1>2, TheNextRequest
<1>4. Types /\ ClientInv /\ ConnInv /\ BridgeInv /\ StoreInv /\ PlaceInv /\ AskedInv
      /\ ToldWhatTheUserSaid /\ outbound \in Seq(Requests) /\ asked \in Nat
  BY RelayAssumption DEF IInv, Types, BridgeTypes
<1>5. UNCHANGED <<client, backlog, running, restarts, attached, stored, aged, answer, verdicts,
                  command>>
  BY <1>2 DEF clientVars, lifeVars, daemonVars, storeVars
<1>6. a \in Places /\ In(a) = ToSet(outbound) /\ In(a)' = ToSet(Append(outbound, r))
  BY <1>2, ThePlaces, WhatPlacesHold, WhatPlacesHoldThen
<1>7. r \notin ToSet(outbound)  BY <1>3, <1>6
<1>8. /\ Append(outbound, r) \in Seq(Requests) /\ Once(Append(outbound, r))
      /\ ToSet(Append(outbound, r)) = ToSet(outbound) \cup {r}
  BY <1>4, <1>7, LastIsPut DEF BridgeInv
<1>9. Types'
  <2>1. BridgeTypes'
    BY <1>2, <1>3, <1>4, <1>5, <1>8 DEF Types, BridgeTypes
  <2>2. ClientTypes' /\ ConnTypes' /\ LostTypes' /\ DaemonTypes' /\ CommandTypes'
    BY <1>2, <1>4, <1>5
       DEF Types, ClientTypes, ConnTypes, LostTypes, DaemonTypes, CommandTypes, Idle
  <2> QED BY <2>1, <2>2 DEF Types
<1>10. ClientInv' /\ ConnInv'  BY <1>2, <1>4, <1>5 DEF ClientInv, At, ConnInv
<1>11. BridgeInv'  BY <1>2, <1>3, <1>4, <1>5, <1>8 DEF BridgeInv, Unanswered
<1>12. StoreInv'  BY <1>4, <1>5 DEF StoreInv, Idle
<1>13. PlaceInv'
  <2>1. ASSUME NEW p \in Places, p # a PROVE In(p)' = In(p)
    <3>1. UNCHANGED <<daemonVars, conn, backlog, inbound>>  BY <1>2, <1>5
    <3> QED BY <2>1, <3>1, PlacesOfTheDaemon
  <2>2. In(a)' = In(a) \cup {r}  BY <1>6, <1>8
  <2>3. \A x \in Requests : Alive(x)' <=> Alive(x) \/ x = r  BY <1>2, <1>3 DEF Alive
  <2> HIDE DEF a
  <2>4. \A p, q \in Places : p # q => In(p)' \cap In(q)' = {}
    <3>1. ASSUME NEW p \in Places, NEW q \in Places, p # q, NEW x, x \in In(p)', x \in In(q)'
          PROVE  FALSE
      <4>1. In(p) \cap In(q) = {}  BY <1>4, <3>1 DEF PlaceInv
      <4>2. CASE p = a  BY <1>3, <2>1, <2>2, <3>1, <4>1, <4>2
      <4>3. CASE q = a  BY <1>3, <2>1, <2>2, <3>1, <4>1, <4>3
      <4>4. CASE p # a /\ q # a  BY <2>1, <3>1, <4>1, <4>4
      <4> QED BY <4>2, <4>3, <4>4
    <3> QED BY <3>1
  <2>5. \A x \in Requests : Alive(x)' <=> \E p \in Places : x \in In(p)'
    <3>1. ASSUME NEW x \in Requests PROVE Alive(x)' <=> \E p \in Places : x \in In(p)'
      <4>1. Alive(x) <=> \E p \in Places : x \in In(p)  BY <1>4 DEF PlaceInv
      <4>2. (\E p \in Places : x \in In(p)') <=> (\E p \in Places : x \in In(p)) \/ x = r
        BY <1>6, <2>1, <2>2
      <4> QED BY <2>3, <4>1, <4>2
    <3> QED BY <3>1
  <2> QED BY <2>4, <2>5 DEF PlaceInv
<1>14. AskedInv'
  <2>1. ASSUME NEW x \in Requests, x > r PROVE x > asked /\ x # r
    <3>1. x \in Int  BY DEF Requests
    <3> QED BY <1>1, <1>4, <2>1, <3>1
  <2>2. ~ r > r  BY DEF Requests
  <2> QED BY <1>2, <1>3, <1>4, <1>5, <2>1, <2>2 DEF AskedInv
<1>15. ToldWhatTheUserSaid'  BY <1>2, <1>4, <1>5 DEF ToldWhatTheUserSaid
<1>16. QueueInv'  BY <1>2, <1>3, <1>5, TheQueueGrows
<1> QED BY <1>9, <1>10, <1>11, <1>12, <1>13, <1>14, <1>15, <1>16 DEF IInv

\* Claude asks when the bridge has given up.
LEMMA AskIsDenied ==
  ASSUME IInv, Ask, client.pc = "ended"
  PROVE  IInv'
<1>1. PICK r \in Requests : r = asked + 1
  <2>1. asked < MaxRequests /\ asked + 1 = asked + 1  BY DEF Ask
  <2> QED BY <2>1, TheNextRequest
<1>2. /\ asked < MaxRequests /\ asked' = r
      /\ told' = [told EXCEPT ![r] = Append(told[r], "deny")]
      /\ UNCHANGED <<awaiting, outbound, inbound, clientVars, conn, lifeVars, daemonVars, lost>>
  BY <1>1 DEF Ask
<1>3. /\ r \notin awaiting /\ told[r] = <<>> /\ answer[r] = "none" /\ r \in 0..MaxRequests
  BY <1>1, <1>2, TheNextRequest
<1>4. /\ Types /\ ClientInv /\ ConnInv /\ BridgeInv /\ StoreInv /\ PlaceInv /\ AskedInv
      /\ ToldWhatTheUserSaid /\ QueueInv /\ asked \in Nat
      /\ told \in [Requests -> Seq(Behaviors)]
  BY RelayAssumption DEF IInv, Types, BridgeTypes
<1>5. UNCHANGED <<client, backlog, running, restarts, attached, stored, aged, answer, verdicts,
                  command>>
  BY <1>2 DEF clientVars, lifeVars, daemonVars, storeVars
<1>6. /\ <<"deny">> \in Seq(Behaviors) /\ told' = [told EXCEPT ![r] = <<"deny">>]
      /\ told' \in [Requests -> Seq(Behaviors)] /\ told'[r] = <<"deny">>
      /\ \A x \in Requests : x # r => told'[x] = told[x]
  <2>1. "deny" \in Behaviors  BY DEF Behaviors
  <2>2. <<"deny">> \in Seq(Behaviors)  BY <2>1
  <2>3. told' = [told EXCEPT ![r] = <<"deny">>]  BY <1>2, <1>3
  <2> QED BY <1>4, <2>2, <2>3
<1>7. Types'
  <2>1. BridgeTypes'
    BY <1>2, <1>3, <1>4, <1>5, <1>6 DEF Types, BridgeTypes
  <2>2. ClientTypes' /\ ConnTypes' /\ LostTypes' /\ DaemonTypes' /\ CommandTypes'
    BY <1>2, <1>4, <1>5
       DEF Types, ClientTypes, ConnTypes, LostTypes, DaemonTypes, CommandTypes, Idle
  <2> QED BY <2>1, <2>2 DEF Types
<1>8. ClientInv' /\ ConnInv'  BY <1>2, <1>4, <1>5 DEF ClientInv, At, ConnInv
<1>9. BridgeInv' /\ StoreInv'  BY <1>2, <1>4, <1>5 DEF BridgeInv, StoreInv, Idle
<1>10. PlaceInv'
  <2>1. \A p \in Places : In(p)' = In(p)
    BY <1>2, <1>5, PlacesOfTheDaemon
  <2> QED BY <1>2, <1>4, <2>1, NothingMoves
<1>11. AskedInv'
  <2>1. ASSUME NEW x \in Requests, x > r PROVE x > asked /\ x # r
    <3>1. x \in Int  BY DEF Requests
    <3> QED BY <1>1, <1>4, <2>1, <3>1
  <2> QED BY <1>2, <1>3, <1>4, <1>5, <1>6, <2>1 DEF AskedInv
<1>12. ToldWhatTheUserSaid'
  BY <1>2, <1>3, <1>4, <1>5, <1>6 DEF ToldWhatTheUserSaid
<1>13. QueueInv'
  <2>1. UNCHANGED <<Sent, backlog, outbound>>  BY <1>2, <1>5 DEF Sent
  <2> QED BY <1>4, <2>1, QueueShrinks
<1> QED BY <1>4, <1>7, <1>8, <1>9, <1>10, <1>11, <1>12, <1>13 DEF IInv

\* Claude asks.
LEMMA AskPreserves ==
  ASSUME IInv, Ask
  PROVE  IInv'
BY AskQueues, AskIsDenied

\* Claude is told what the user answered.
LEMMA TakeInboundPreserves ==
  ASSUME IInv, TakeInbound
  PROVE  IInv'
<1> DEFINE v == Head(inbound)
           a == <<"inbound", 0>>
<1>1. /\ Types /\ ClientInv /\ ConnInv /\ BridgeInv /\ StoreInv /\ PlaceInv /\ AskedInv
      /\ ToldWhatTheUserSaid /\ QueueInv
      /\ told \in [Requests -> Seq(Behaviors)] /\ inbound \in Seq(Verdicts)
      /\ awaiting \subseteq Requests
  BY DEF IInv, Types, BridgeTypes
<1>2. /\ inbound # <<>> /\ inbound' = Tail(inbound) /\ Notify(v)
      /\ UNCHANGED <<outbound, clientVars, conn, lifeVars, daemonVars>> /\ CutLine
  BY DEF TakeInbound
<1>3. /\ v \in Verdicts /\ Tail(inbound) \in Seq(Verdicts)
      /\ Ids(inbound) = {v.id} \cup Ids(Tail(inbound))
      /\ OnceById(Tail(inbound)) /\ v.id \notin Ids(Tail(inbound))
      /\ Agree(answer, Tail(inbound)) /\ answer[v.id] = v.behavior
  BY <1>1, <1>2, VerdictIsTaken DEF BridgeInv
<1> HIDE DEF v
<1>4. /\ a \in Places /\ In(a) = Ids(inbound) /\ In(a)' = Ids(Tail(inbound))
  BY <1>2, ThePlaces, WhatPlacesHold, WhatPlacesHoldThen
<1>5. PICK r \in Requests : r = v.id  BY <1>3 DEF Verdicts
<1>6. r \in awaiting /\ told[r] = <<>>
  <2>1. Alive(r)  BY <1>1, <1>3, <1>4, <1>5, HeldIsAlive
  <2> QED BY <1>1, <2>1 DEF Alive, AskedInv
<1>7. /\ awaiting' = awaiting \ {r}
      /\ told' = [told EXCEPT ![r] = Append(told[r], v.behavior)]
  BY <1>2, <1>5, <1>6 DEF Notify
<1>8. /\ told' \in [Requests -> Seq(Behaviors)] /\ told'[r] = <<answer[r]>>
      /\ \A x \in Requests : x # r => told'[x] = told[x]
  <2>1. v.behavior \in Behaviors  BY <1>3 DEF Verdicts
  <2>2. <<v.behavior>> \in Seq(Behaviors)  BY <2>1
  <2>3. told' = [told EXCEPT ![r] = <<v.behavior>>]  BY <1>6, <1>7
  <2> QED BY <1>1, <1>3, <1>5, <2>2, <2>3
<1>9. UNCHANGED <<client, backlog, running, restarts, attached, stored, aged, answer, verdicts,
                  command>>
  BY <1>2 DEF clientVars, lifeVars, daemonVars, storeVars
<1>10. /\ asked' \in 0..MaxRequests /\ lost' \in [Requests -> Causes \cup {"no"}]
       /\ \A x \in Requests : x > asked' => x > asked /\ lost'[x] = lost[x]
       /\ \A x \in Requests : Alive(x) => lost'[x] = lost[x]
       /\ \A x \in Requests : lost'[x] = "no" => lost[x] = "no"
  <2>1. /\ asked \in Nat /\ MaxRequests \in Nat /\ asked <= MaxRequests
        /\ lost \in [Requests -> Causes \cup {"no"}]
        /\ \A x \in Requests : x \in Int /\ (Alive(x) => ~ x > asked)
    BY <1>1, RelayAssumption DEF Types, BridgeTypes, LostTypes, Requests, Alive, AskedInv
  <2>2. CASE UNCHANGED <<asked, lost>>  BY <2>1, <2>2
  <2>3. CASE asked < MaxRequests /\ asked' = asked + 1 /\ Lose({asked'}, "cut")
    <3>1. lost' = [x \in Requests |-> IF x = asked + 1 THEN "cut" ELSE lost[x]]
      BY <2>3 DEF Lose
    <3>2. /\ asked' \in 0..MaxRequests /\ lost' \in [Requests -> Causes \cup {"no"}]
      BY <2>1, <2>3, <3>1 DEF Causes
    <3>3. ASSUME NEW x \in Requests, x > asked' PROVE x > asked /\ lost'[x] = lost[x]
      BY <2>1, <2>3, <3>1, <3>3
    <3>4. ASSUME NEW x \in Requests, Alive(x) PROVE lost'[x] = lost[x]
      BY <2>1, <3>1, <3>4
    <3>5. ASSUME NEW x \in Requests, lost'[x] = "no" PROVE lost[x] = "no"
      BY <3>1, <3>5
    <3> QED BY <3>2, <3>3, <3>4, <3>5
  <2> QED BY <1>2, <2>2, <2>3 DEF CutLine
<1>11. Types'
  <2>1. BridgeTypes'
    BY <1>10, <1>1, <1>2, <1>3, <1>7, <1>8, <1>9 DEF Types, BridgeTypes
  <2>2. ClientTypes' /\ ConnTypes' /\ LostTypes' /\ DaemonTypes' /\ CommandTypes'
    BY <1>1, <1>2, <1>9, <1>10
       DEF Types, ClientTypes, ConnTypes, LostTypes, DaemonTypes, CommandTypes, Idle
  <2> QED BY <2>1, <2>2 DEF Types
<1>12. ClientInv' /\ ConnInv'  BY <1>1, <1>2, <1>9 DEF ClientInv, At, ConnInv
<1>13. BridgeInv' /\ StoreInv'
  BY <1>1, <1>2, <1>3, <1>9 DEF BridgeInv, StoreInv, Idle
<1>14. PlaceInv'
  <2>1. ASSUME NEW p \in Places, p # a PROVE In(p)' = In(p)
    BY <1>2, <1>9, <2>1, PlacesOfTheDaemon
  <2>2. \A x \in Requests : Alive(x)' <=> Alive(x) /\ x \notin {r}
    BY <1>7, <1>10 DEF Alive
  <2>3. {r} \subseteq In(a) /\ In(a)' = In(a) \ {r}  BY <1>3, <1>4, <1>5
  <2> HIDE DEF a
  <2> QED BY <1>1, <1>4, <2>1, <2>2, <2>3, PlaceLoses
<1>15. AskedInv'
  <2>1. ASSUME NEW x \in Requests, x > asked' PROVE x > asked /\ x # r /\ lost'[x] = lost[x]
    BY <1>1, <1>6, <1>10, <2>1 DEF AskedInv
  <2> QED BY <1>1, <1>6, <1>7, <1>8, <1>9, <2>1 DEF AskedInv
<1>16. ToldWhatTheUserSaid'  BY <1>1, <1>2, <1>8, <1>9 DEF ToldWhatTheUserSaid
<1>17. QueueInv'
  <2>1. UNCHANGED <<Sent, backlog, outbound>>  BY <1>2, <1>9 DEF Sent
  <2> QED BY <1>1, <2>1, QueueShrinks
<1> QED BY <1>11, <1>12, <1>13, <1>14, <1>15, <1>16, <1>17 DEF IInv

----------------------------------------------------------------------------
(* The theorems.                                                           *)

\* The invariant holds at first.
LEMMA InitIsSound ==
  ASSUME Init
  PROVE  IInv
<1> DEFINE k == Conn("none", FALSE)
<1>1. /\ asked = 0 /\ awaiting = {} /\ told = [r \in Requests |-> <<>>]
      /\ outbound = <<>> /\ inbound = <<>> /\ backlog = <<>>
      /\ client = [pc |-> "connecting", conn |-> 0, attempt |-> 0]
      /\ conn = [c \in Conns |-> k]
      /\ running \in BOOLEAN /\ restarts = 0
      /\ attached = None /\ stored = {} /\ aged = {} /\ verdicts = <<>> /\ command = Idle
      /\ answer = [r \in Requests |-> "none"]
      /\ lost = [r \in Requests |-> "no"]
  BY DEF Init
<1>2. /\ MaxRequests \in Nat /\ MaxConns \in Nat \ {0} /\ MaxRestarts \in Nat
      /\ MaxRetries \in Nat \ {0} /\ BackoffCap \in Nat \ {0} /\ VerdictMax \in Nat
  BY RelayAssumption
<1>3. /\ <<>> \in Seq(Verdicts) /\ <<>> \in Seq(Requests) /\ <<>> \in Seq(Behaviors)
      /\ <<>> \in Seq(Requests \cup {Hello}) /\ Len(<<>>) = 0
  OBVIOUS
<1>4. /\ Ids(<<>>) = {} /\ ToSet(<<>>) = {} /\ OnceById(<<>>) /\ Once(<<>>)
      /\ \A a : Agree(a, <<>>)
  BY NoVerdicts DEF ToSet, Once
<1>5. /\ k.handler = "none" /\ k.link = FALSE /\ k.sender = FALSE /\ k.up = <<>>
      /\ k.down = <<>> /\ k.out = <<>> /\ k.hands = <<>> /\ k \in Connections
  BY <1>3 DEF Conn, Connections
<1> HIDE DEF k
<1>6. Types
  <2>1. BridgeTypes  BY <1>1, <1>2, <1>3 DEF BridgeTypes
  <2>2. ClientTypes  BY <1>1, <1>2 DEF ClientTypes
  <2>3. ConnTypes  BY <1>1, <1>5 DEF ConnTypes
  <2>4. DaemonTypes  BY <1>1, <1>2, <1>3 DEF DaemonTypes
  <2>5. CommandTypes /\ LostTypes  BY <1>1 DEF CommandTypes, LostTypes
  <2> QED BY <2>1, <2>2, <2>3, <2>4, <2>5 DEF Types
<1>7. ClientInv  BY <1>1, <1>2 DEF ClientInv, At
<1>8. ConnInv
  <2>1. ASSUME NEW c \in Conns PROVE Sound(client, answer, c, k)
    <3>1. Greeting(client, c, k)  BY <1>1, <1>5 DEF Greeting
    <3>2. c > client.conn  BY <1>1 DEF Conns
    <3> QED BY <1>4, <1>5, <3>1, <3>2 DEF Sound, Unanswered, k
  <2> QED BY <1>1, <2>1 DEF ConnInv
<1>9. BridgeInv /\ StoreInv
  BY <1>1, <1>4 DEF BridgeInv, StoreInv, Unanswered
<1>10. PlaceInv
  <2>1. ASSUME NEW p \in Places PROVE In(p) = {}
    <3>1. CASE p \in {<<"outbound", 0>>, <<"backlog", 0>>, <<"stored", 0>>, <<"command", 0>>,
                      <<"verdicts", 0>>, <<"inbound", 0>>}
      BY <1>1, <1>4, <3>1, WhatPlacesHold DEF Answered
    <3>2. ASSUME NEW c \in Conns, p \in {<<"up", c>>, <<"hands", c>>, <<"out", c>>, <<"down", c>>}
          PROVE  In(p) = {}
      <4>1. conn[c] = k  BY <1>1
      <4> QED BY <1>4, <1>5, <3>2, <4>1, WhatPlacesHold
    <3> QED BY <3>1, <3>2, ThePlaces
  <2>2. \A r \in Requests : ~Alive(r)  BY <1>1 DEF Alive
  <2> QED BY <2>1, <2>2 DEF PlaceInv
<1>11. AskedInv /\ ToldWhatTheUserSaid  BY <1>1 DEF AskedInv, ToldWhatTheUserSaid
<1>12. QueueInv
  <2>1. \A a \in 1..3 : Queue[a] = <<>>  BY <1>1 DEF Queue, Sent
  <2> QED BY <2>1, EmptySequence DEF QueueInv, InLine, Before
<1> QED BY <1>6, <1>7, <1>8, <1>9, <1>10, <1>11, <1>12 DEF IInv

\* A step that changes nothing.
LEMMA StutteringPreserves ==
  ASSUME IInv, UNCHANGED vars
  PROVE  IInv'
<1>1. /\ UNCHANGED <<asked, awaiting, told, outbound, inbound, client, backlog, conn, running,
                     restarts, attached, stored, aged, answer, verdicts, command, lost>>
  BY DEF vars, bridgeVars, clientVars, lifeVars, daemonVars, storeVars
<1>2. /\ Types /\ ClientInv /\ ConnInv /\ BridgeInv /\ StoreInv /\ PlaceInv /\ AskedInv
      /\ ToldWhatTheUserSaid /\ QueueInv
  BY DEF IInv
<1>3. Types'
  BY <1>1, <1>2
     DEF Types, BridgeTypes, ClientTypes, ConnTypes, DaemonTypes, CommandTypes, LostTypes, Idle
<1>4. ClientInv' /\ ConnInv' /\ BridgeInv' /\ StoreInv'
  BY <1>1, <1>2 DEF ClientInv, At, ConnInv, BridgeInv, StoreInv, Idle
<1>5. AskedInv' /\ ToldWhatTheUserSaid'  BY <1>1, <1>2 DEF AskedInv, ToldWhatTheUserSaid
<1>6. PlaceInv'
  <2>1. \A p \in Places : In(p)' = In(p)
    BY <1>1, PlacesOfTheDaemon DEF daemonVars, storeVars
  <2> QED BY <1>1, <1>2, <2>1, NothingMoves
<1>7. QueueInv'
  <2>1. UNCHANGED <<Sent, backlog, outbound>>  BY <1>1 DEF Sent
  <2> QED BY <1>2, <2>1, QueueShrinks
<1> QED BY <1>3, <1>4, <1>5, <1>6, <1>7 DEF IInv

\* Every step keeps the invariant.
LEMMA NextPreserves ==
  ASSUME IInv, [Next]_vars
  PROVE  IInv'
<1>1. CASE Ask  BY <1>1, AskPreserves
<1>2. CASE TakeInbound  BY <1>2, TakeInboundPreserves
<1>3. CASE ClientStep
  <2>1. CASE Connect  BY <2>1, ConnectPreserves
  <2>2. CASE ConnectFails  BY <2>2, ConnectFailsPreserves
  <2>3. CASE BufferDuringBackoff  BY <2>3, BufferDuringBackoffPreserves
  <2>4. CASE BackoffOver  BY <2>4, BackoffOverPreserves
  <2>5. CASE Greet  BY <2>5, GreetPreserves
  <2>6. CASE ReplayBacklog  BY <2>6, ReplayBacklogPreserves
  <2>7. CASE ReplayDone  BY <2>7, ReplayDonePreserves
  <2>8. CASE SendOutbound  BY <2>8, SendOutboundPreserves
  <2>9. CASE Receive  BY <2>9, ReceivePreserves
  <2>10. CASE SeeEnd  BY <2>10, SeeEndPreserves
  <2> QED BY <1>3, <2>1, <2>2, <2>3, <2>4, <2>5, <2>6, <2>7, <2>8, <2>9, <2>10 DEF ClientStep
<1>4. ASSUME NEW c \in Conns, HandlerStep(c) PROVE IInv'
  <2>1. CASE AcceptHello(c)  BY <2>1, AcceptHelloPreserves
  <2>2. CASE RejectHello(c)  BY <2>2, RejectHelloPreserves
  <2>3. CASE ReplayVerdict(c)  BY <2>3, ReplayVerdictPreserves
  <2>4. CASE ReplayEnds(c)  BY <2>4, ReplayEndsPreserves
  <2>5. CASE StoreRequest(c)  BY <2>5, StoreRequestPreserves
  <2>6. CASE HandlerEnds(c)  BY <2>6, HandlerEndsPreserves
  <2> QED BY <1>4, <2>1, <2>2, <2>3, <2>4, <2>5, <2>6 DEF HandlerStep
<1>5. ASSUME NEW c \in Conns, Forward(c) PROVE IInv'  BY <1>5, ForwardPreserves
<1>6. ASSUME NEW c \in Conns, BreakLink(c) PROVE IInv'  BY <1>6, BreakLinkPreserves
<1>7. ASSUME NEW r \in Requests, NEW b \in Behaviors, Resolve(r, b) PROVE IInv'
  BY <1>7, ResolvePreserves
<1>8. CASE CommandStep
  <2>1. CASE DeliverToSdk  BY <2>1, DeliverToSdkPreserves
  <2>2. CASE LookUp  BY <2>2, LookUpPreserves
  <2>3. CASE Send  BY <2>3, SendPreserves
  <2>4. CASE BufferUndelivered  BY <2>4, BufferUndeliveredPreserves
  <2> QED BY <1>8, <2>1, <2>2, <2>3, <2>4 DEF CommandStep
<1>9. CASE ForceDisconnect  BY <1>9, ForceDisconnectPreserves
<1>10. ASSUME NEW r \in Requests, Age(r) PROVE IInv'  BY <1>10, AgePreserves
<1>11. CASE Exit  BY <1>11, ExitPreserves
<1>12. CASE Start  BY <1>12, StartPreserves
<1>13. CASE UNCHANGED vars  BY <1>13, StutteringPreserves
<1> QED BY <1>1, <1>2, <1>3, <1>4, <1>5, <1>6, <1>7, <1>8, <1>9, <1>10, <1>11, <1>12, <1>13
       DEF Next

\* The invariant the theorems below follow from: it is inductive.
THEOREM RelayIsSound == Spec => []IInv
<1>1. Init => IInv  BY InitIsSound
<1>2. IInv /\ [Next]_vars => IInv'  BY NextPreserves
<1> QED BY <1>1, <1>2, PTL DEF Spec

\* The room in the channels of the bridge, with what waits for it.
RoomInv == Len(outbound) <= OutCap + 1 /\ Len(inbound) <= InCap + 1

\* A channel gets longer only when nothing waits for room in it.
LEMMA RoomIsKept ==
  ASSUME Types, RoomInv, [Next]_vars
  PROVE  RoomInv'
<1> DEFINE Same == UNCHANGED <<outbound, inbound>>
<1>1. /\ outbound \in Seq(Requests) /\ inbound \in Seq(Verdicts)
      /\ Len(outbound) \in Nat /\ Len(inbound) \in Nat /\ OutCap \in Nat /\ InCap \in Nat
  BY RelayAssumption DEF Types, BridgeTypes
<1>2. CASE Same  BY <1>2 DEF RoomInv
<1>3. CASE Ask
  <2>1. /\ outbound' = outbound \/ outbound' = Append(outbound, asked + 1)
        /\ inbound' = inbound /\ ~ Len(outbound) > OutCap
    BY <1>3 DEF Ask, Asking
  <2>2. Len(Append(outbound, asked + 1)) = Len(outbound) + 1  BY <1>1
  <2> QED BY <1>1, <2>1, <2>2 DEF RoomInv
<1>4. CASE TakeInbound
  <2>1. inbound # <<>> /\ inbound' = Tail(inbound) /\ outbound' = outbound
    BY <1>4 DEF TakeInbound
  <2>2. Len(Tail(inbound)) = Len(inbound) - 1  BY <1>1, <2>1, HeadIsTaken
  <2> QED BY <1>1, <2>1, <2>2 DEF RoomInv
<1>5. CASE ConnectFails
  <2>1. (outbound' = outbound \/ outbound' = <<>>) /\ inbound' = inbound
    BY <1>5 DEF ConnectFails, GiveUp, BackOff
  <2>2. Len(<<>>) = 0  OBVIOUS
  <2> QED BY <1>1, <2>1, <2>2 DEF RoomInv
<1>6. CASE BufferDuringBackoff \/ SendOutbound
  <2>1. outbound # <<>> /\ outbound' = Tail(outbound) /\ inbound' = inbound
    BY <1>6 DEF BufferDuringBackoff, SendOutbound
  <2>2. Len(Tail(outbound)) = Len(outbound) - 1  BY <1>1, <2>1, HeadIsTaken
  <2> QED BY <1>1, <2>1, <2>2 DEF RoomInv
<1>7. CASE Receive
  <2>1. /\ inbound' = Append(inbound, Head(conn[client.conn].down))
        /\ outbound' = outbound /\ ~ Len(inbound) > InCap
    BY <1>7 DEF Receive, Pushing
  <2>2. Len(Append(inbound, Head(conn[client.conn].down))) = Len(inbound) + 1  BY <1>1
  <2> QED BY <1>1, <2>1, <2>2 DEF RoomInv
<1>8. CASE Connect \/ BackoffOver \/ Greet \/ ReplayBacklog \/ ReplayDone \/ SeeEnd
  <2>1. Same
    BY <1>8 DEF Connect, BackoffOver, Greet, ReplayBacklog, ReplayDone, SeeEnd, bridgeVars
  <2> QED BY <1>2, <2>1
<1>9. ASSUME NEW c \in Conns, HandlerStep(c) \/ Forward(c) \/ BreakLink(c) PROVE RoomInv'
  <2>1. Same
    BY <1>9 DEF HandlerStep, AcceptHello, RejectHello, ReplayVerdict, ReplayEnds, StoreRequest,
           HandlerEnds, Forward, BreakLink, bridgeVars
  <2> QED BY <1>2, <2>1
<1>10. ASSUME NEW r \in Requests, NEW b \in Behaviors, Resolve(r, b) PROVE RoomInv'
  BY <1>2, <1>10 DEF Resolve, bridgeVars
<1>11. ASSUME NEW r \in Requests, Age(r) PROVE RoomInv'
  BY <1>2, <1>11 DEF Age, bridgeVars
<1>12. CASE CommandStep \/ ForceDisconnect \/ Exit \/ Start \/ UNCHANGED vars
  <2>1. Same
    BY <1>12 DEF CommandStep, DeliverToSdk, LookUp, Send, BufferUndelivered, ForceDisconnect,
           Exit, Start, vars, bridgeVars
  <2> QED BY <1>2, <2>1
<1> QED BY <1>3, <1>4, <1>5, <1>6, <1>7, <1>8, <1>9, <1>10, <1>11, <1>12 DEF Next, ClientStep

\* The variables of the relay stay within their types, and the buffers of the bridge and of
\* the daemon within their limits, however many requests, connections and restarts there are.
THEOREM TypeCorrect == Spec => []TypeOK
<1>1. IInv /\ RoomInv => TypeOK
  <2> SUFFICES ASSUME IInv, RoomInv PROVE TypeOK  OBVIOUS
  <2>1. /\ BridgeTypes /\ ClientTypes /\ ConnTypes /\ DaemonTypes /\ CommandTypes /\ LostTypes
    BY DEF IInv, Types
  <2>2. command \in [pc: {"idle", "sdk", "send", "buffer"}, verdict: Verdicts \cup {None},
                     to: Conns \cup {None}]
    BY <2>1 DEF CommandTypes, Idle
  <2> QED BY <2>1, <2>2
         DEF TypeOK, BridgeTypes, ClientTypes, ConnTypes, Connections, DaemonTypes, LostTypes,
             RoomInv
<1>2. Init => RoomInv
  <2> SUFFICES ASSUME Init PROVE RoomInv  OBVIOUS
  <2>1. Len(<<>>) = 0  OBVIOUS
  <2> QED BY <2>1, RelayAssumption DEF Init, RoomInv
<1>3. IInv /\ RoomInv /\ [Next]_vars => RoomInv'  BY RoomIsKept DEF IInv
<1> QED BY <1>1, <1>2, <1>3, RelayIsSound, PTL DEF Spec

\* A request Claude waits for, or the verdict for it, is in exactly one place between the
\* bridge and the user until it is given up, through every broken connection, replay, drain,
\* expiry and restart; when Claude does not wait, no copy is left.
THEOREM EachIsInOnePlace == Spec => []OnePlace
<1>1. IInv => OnePlace
  <2> SUFFICES ASSUME IInv PROVE OnePlace  OBVIOUS
  <2>1. ConnInv /\ BridgeInv /\ StoreInv /\ PlaceInv  BY DEF IInv
  <2>2. NoRepeats  BY <2>1 DEF NoRepeats, ConnInv, Sound, BridgeInv, StoreInv
  <2>3. \A r \in Requests :
          (r \in awaiting /\ lost[r] = "no") <=> \E p \in Places : r \in In(p)
    BY <2>1 DEF PlaceInv, Alive
  <2>4. \A p, q \in Places : p # q => In(p) \cap In(q) = {}  BY <2>1 DEF PlaceInv
  <2> QED BY <2>2, <2>3, <2>4 DEF OnePlace
<1> QED BY <1>1, RelayIsSound, PTL

\* Claude is told at most one verdict on a request, and it is the one the user gave, or a
\* denial by the bridge of what was never put before the user.
THEOREM ClaudeIsToldTheAnswer == Spec => []ToldWhatTheUserSaid
<1>1. IInv => ToldWhatTheUserSaid  BY DEF IInv
<1> QED BY <1>1, RelayIsSound, PTL

\* The greeting comes first, and requests follow it in the order Claude made them.
LEMMA TheQueueIsInOrder ==
  ASSUME IInv
  PROVE  OrderIsKept
<1> DEFINE q == Sent \o backlog \o outbound
           l == Len(Sent)
           m == Len(backlog)
           n == Len(outbound)
<1>1. /\ InLine(3, Queue) /\ Numbers(3, Queue)
      /\ outbound \in Seq(Requests) /\ backlog \in Seq(Requests)
  BY QueueNumbers
<1>2. Sent \in Seq(Nat) /\ outbound \in Seq(Nat) /\ backlog \in Seq(Nat)
  <2>1. Queue[1] \in Seq(Nat)  BY <1>1 DEF Numbers
  <2> QED BY <1>1, <2>1, RequestsAreNumbers, QueueParts
<1>3. /\ l \in Nat /\ m \in Nat /\ n \in Nat /\ DOMAIN q = 1..(l + m + n)
      /\ DOMAIN Sent = 1..l /\ DOMAIN backlog = 1..m /\ DOMAIN outbound = 1..n
      /\ \A i \in 1..(l + m + n) :
           \/ i <= l /\ q[i] = Sent[i]
           \/ i > l /\ i <= l + m /\ q[i] = backlog[i - l]
           \/ i > l + m /\ q[i] = outbound[i - (l + m)]
  BY <1>2
<1>4. /\ \A i \in DOMAIN backlog : backlog[i] \in Contents(backlog) /\ backlog[i] > 0
      /\ \A i \in DOMAIN outbound : outbound[i] \in Contents(outbound) /\ outbound[i] > 0
  <2>1. \A r \in Requests : r > 0 /\ r # 0  BY DEF Requests
  <2>2. /\ \A i \in DOMAIN backlog : backlog[i] \in Requests
        /\ \A i \in DOMAIN outbound : outbound[i] \in Requests
    BY <1>1
  <2> QED BY <2>1, <2>2 DEF Contents
<1>5. /\ \A i \in DOMAIN Sent : Sent[i] \in Nat /\ (Sent[i] = 0 => i = 1)
      /\ \A i \in DOMAIN Sent : Sent[i] # 0 => Sent[i] \in Contents(Sent)
  <2>1. ASSUME NEW i \in DOMAIN Sent PROVE Sent[i] = 0 => i = 1
    <3>1. client.conn # 0  BY DEF Sent
    <3>2. PICK c \in Conns : c = client.conn
      <4>1. client.conn \in 0..MaxConns  BY DEF IInv, Types, ClientTypes
      <4>2. client.conn \in Conns  BY <3>1, <4>1, RelayAssumption DEF Conns
      <4> QED BY <4>2
    <3>3. Sent = conn[c].up /\ Greeting(client, c, conn[c])
      BY <3>1, <3>2, AConnection DEF Sent
    <3> QED BY <3>3 DEF Greeting, Hello
  <2> QED BY <1>2, <2>1 DEF Contents
<1>6. /\ InOrder(Sent) /\ InOrder(backlog) /\ InOrder(outbound)
      /\ Before(Contents(Sent), Contents(backlog))
      /\ Before(Contents(Sent), Contents(outbound))
      /\ Before(Contents(backlog), Contents(outbound))
  BY <1>1, QueueParts DEF InLine
<1> HIDE DEF q, l, m, n
<1>7. ASSUME NEW i \in DOMAIN q, NEW j \in DOMAIN q, i < j PROVE q[i] < q[j]
  <2>1. i \in Nat /\ j \in Nat /\ i # 0 /\ j # 0  BY <1>3
  <2>2. CASE i <= l /\ q[i] = Sent[i]
    <3>1. i \in DOMAIN Sent  BY <1>3, <2>1, <2>2
    <3>2. CASE j <= l /\ q[j] = Sent[j]
      <4>1. j \in DOMAIN Sent /\ j # 1  BY <1>3, <1>7, <2>1, <3>2
      <4>2. Sent[j] # 0 /\ Sent[j] \in Nat /\ Sent[i] \in Nat  BY <1>5, <3>1, <4>1
      <4>3. CASE Sent[i] = 0  BY <2>2, <3>2, <4>2, <4>3
      <4>4. CASE Sent[i] # 0  BY <1>6, <1>7, <2>2, <3>1, <3>2, <4>1, <4>2, <4>4 DEF InOrder
      <4> QED BY <4>3, <4>4
    <3>3. CASE j > l /\ j <= l + m /\ q[j] = backlog[j - l]
      <4>1. j - l \in DOMAIN backlog  BY <1>3, <2>1, <3>3
      <4>2. CASE Sent[i] = 0  BY <1>4, <2>2, <3>3, <4>1, <4>2
      <4>3. CASE Sent[i] # 0  BY <1>4, <1>5, <1>6, <2>2, <3>1, <3>3, <4>1, <4>3 DEF Before
      <4> QED BY <4>2, <4>3
    <3>4. CASE j > l + m /\ q[j] = outbound[j - (l + m)]
      <4>1. j - (l + m) \in DOMAIN outbound  BY <1>3, <2>1, <3>4
      <4>2. CASE Sent[i] = 0  BY <1>4, <2>2, <3>4, <4>1, <4>2
      <4>3. CASE Sent[i] # 0  BY <1>4, <1>5, <1>6, <2>2, <3>1, <3>4, <4>1, <4>3 DEF Before
      <4> QED BY <4>2, <4>3
    <3> QED BY <1>3, <3>2, <3>3, <3>4
  <2>3. CASE i > l /\ i <= l + m /\ q[i] = backlog[i - l]
    <3>1. i - l \in DOMAIN backlog  BY <1>3, <2>1, <2>3
    <3>2. ~ j <= l  BY <1>3, <1>7, <2>1, <2>3
    <3>3. CASE j > l /\ j <= l + m /\ q[j] = backlog[j - l]
      <4>1. j - l \in DOMAIN backlog /\ i - l < j - l  BY <1>3, <1>7, <2>1, <3>3
      <4>2. backlog[i - l] # 0 /\ backlog[j - l] # 0  BY <1>4, <3>1, <4>1
      <4> QED BY <1>6, <2>3, <3>1, <3>3, <4>1, <4>2 DEF InOrder
    <3>4. CASE j > l + m /\ q[j] = outbound[j - (l + m)]
      <4>1. j - (l + m) \in DOMAIN outbound  BY <1>3, <2>1, <3>4
      <4> QED BY <1>4, <1>6, <2>3, <3>1, <3>4, <4>1 DEF Before
    <3> QED BY <1>3, <3>2, <3>3, <3>4
  <2>4. CASE i > l + m /\ q[i] = outbound[i - (l + m)]
    <3>1. i - (l + m) \in DOMAIN outbound  BY <1>3, <2>1, <2>4
    <3>2. j > l + m /\ ~ j <= l /\ ~ j <= l + m  BY <1>3, <1>7, <2>1, <2>4
    <3>3. q[j] = outbound[j - (l + m)]  BY <1>3, <3>2
    <3>4. j - (l + m) \in DOMAIN outbound /\ i - (l + m) < j - (l + m)
      BY <1>3, <1>7, <2>1, <3>2
    <3>5. outbound[i - (l + m)] # 0 /\ outbound[j - (l + m)] # 0  BY <1>4, <3>1, <3>4
    <3> QED BY <1>6, <2>4, <3>1, <3>3, <3>4, <3>5 DEF InOrder
  <2> QED BY <1>3, <2>2, <2>3, <2>4
<1> QED BY <1>7 DEF OrderIsKept, Sent, q

\* What Claude asked leaves the bridge in the order it was asked in, behind the greeting of
\* the connection, through every failed send, back-off and replay.
THEOREM AskedInOrder == Spec => []OrderIsKept
<1>1. IInv => OrderIsKept  BY TheQueueIsInOrder
<1> QED BY <1>1, RelayIsSound, PTL
=============================================================================
