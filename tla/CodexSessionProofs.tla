------------------------- MODULE CodexSessionProofs -------------------------
(***************************************************************************)
(* Theorems about a Codex session, for every number of inputs, connections *)
(* and changes of status, and every capacity of its channels.              *)
(*                                                                         *)
(* An input becomes a request, a turn at the app-server and the events of  *)
(* that turn.  The proofs put all of them on one line, from the channel    *)
(* the task reads back through the pump, the socket and the app-server to  *)
(* the inject channel, and give each a number: 10 m for input m and its    *)
(* request, and up to nine more for the events of its turn.  Along the    *)
(* line the numbers increase, whatever breaks; all else follows from that. *)
(***************************************************************************)
EXTENDS CodexSession, Lines, FiniteSetTheorems, TLAPS

----------------------------------------------------------------------------
(* The inductive invariant.                                                *)

LaunchTypes ==
  /\ launch \in {"waiting", "ready", "up", "failed", "stopping", "stopped"}
  /\ registered \in BOOLEAN /\ alive \in BOOLEAN
  /\ task \in [pc: {"connect", "select", "send", "probe", "sleep", "resume", "ending", "over"},
               send: Requests \cup {None}]
  /\ attempts \in 0..MaxAttempts /\ conns \in 0..MaxConns

ChannelTypes ==
  /\ link \in BOOLEAN /\ pump \in [on: BOOLEAN, hold: Events \cup {None}]
  /\ wire \in Seq(Events) /\ inn \in Seq(Events) /\ Len(inn) <= InCap
  /\ out \in Seq(Requests) /\ Len(out) <= OutCap

ServerTypes ==
  /\ asked \in Seq(Inputs)
  /\ server \in [turn: Inputs \cup {None}, todo: Seq(TurnKinds), waits: BOOLEAN]
  /\ thread \in Threads /\ changes \in 0..MaxChanges

TrackerTypes ==
  /\ pending \subseteq Inputs /\ routable \subseteq Inputs
  /\ raw \in [parts: Seq(TurnEvents), truncated: BOOLEAN]
  /\ preview \in [turn: Inputs \cup {None}, json: BOOLEAN]
  /\ preview.json => preview.turn # None
  /\ status \in Statuses /\ outcome \in [Inputs -> Outcomes \cup {None}]

InputTypes ==
  /\ inject \in Seq(Inputs) /\ Len(inject) <= InjectCap
  /\ accepted \subseteq Inputs /\ run \subseteq Inputs /\ lost \subseteq Inputs
  /\ finished \subseteq Inputs /\ crossed \subseteq Inputs
  /\ intact \in BOOLEAN /\ early \in BOOLEAN

Types == LaunchTypes /\ ChannelTypes /\ ServerTypes /\ TrackerTypes /\ InputTypes

\* The task holds a request while it sends one.  The pump lives as long as the task's event
\* loop, and the link no longer than the pump, which takes the channels with it.
PositionInv ==
  /\ At("send") <=> task.send # None
  /\ pump.on => At("select") \/ At("send")
  /\ link => pump.on
  /\ ~pump.on => wire = <<>> /\ out = <<>> /\ pump.hold = None
  /\ launch = "waiting" => At("connect")
  /\ At("connect") => launch = "waiting" /\ conns = 0
  /\ conns = 0 => changes = 0

\* The app-server has something to say while it is at a turn.
ServerInv ==
  /\ server.turn = None <=> server.todo = <<>>
  /\ server.turn = None => server = Free

\* All events of all turns, and the request for a turn before them, in one order.
Rank ==
  [k \in TurnKinds |->
     CASE k = "response" -> 1 [] k = "started" -> 2 [] k = "note" -> 3 [] k = "part1" -> 4
       [] k = "tool" -> 5 [] k = "part2" -> 6 [] k = "part3" -> 7 [] k = "item" -> 8
       [] k = "ended" -> 9]

Mark(k, m) == 10 * m + Rank[k]

EventMark   == [e \in Events |-> IF e.kind = "status" THEN 0 ELSE Mark(e.kind, e.turn)]
RequestMark == [r \in Requests |-> IF r.kind = "start" THEN 10 * r.turn ELSE 0]
InputMark   == [m \in Inputs |-> 10 * m]
TurnMark(m) == [k \in TurnKinds |-> Mark(k, m)]

One(x) == IF x = None THEN <<>> ELSE <<x>>

Inn     == Numbered(EventMark, inn)
Hold    == Numbered(EventMark, One(pump.hold))
Wire    == Numbered(EventMark, wire)
Todo    == IF server.turn = None THEN <<>> ELSE Numbered(TurnMark(server.turn), server.todo)
Asked   == Numbered(InputMark, asked)
Out     == Numbered(RequestMark, out)
Sending == Numbered(RequestMark, One(task.send))
Inject  == Numbered(InputMark, inject)

\* The way of an input to the app-server and of the events of its turn back.
Line == <<Inn, Hold, Wire, Todo, Asked, Out, Sending, Inject>>

OnLine == UNION {Contents(Line[a]) : a \in 1..8}

\* Whatever is on the line is of an input that was accepted and whose turn has not ended.
LineInv ==
  /\ InLine(8, Line)
  /\ \A m \in Inputs, i \in 0..9 : 10 * m + i \in OnLine => m \in accepted /\ m \notin finished
  /\ finished \subseteq accepted
  /\ \A m \in accepted : \A n \in 1..(m - 1) : n \in accepted

\* An accepted input is in one place: held, taken up or lost.
HandedInv ==
  /\ accepted = Held \cup run \cup lost
  /\ Held \cap run = {} /\ Held \cap lost = {} /\ run \cap lost = {}

\* What the task will see of the turns, if the connection lasts.
Coming == Contents(Inn) \cup Contents(Hold) \cup Contents(Wire)
            \cup (IF link THEN Contents(Todo) ELSE {})

\* What every turn has.
Due == {"response", "started", "part1"}

\* An event does not come without those due before it, unless the turn is the first to come
\* and they have come.
Unbroken(X) ==
  \A m \in Inputs, k, l \in TurnKinds :
    k \in Due /\ Rank[k] < Rank[l] /\ Mark(l, m) \in X =>
      \/ Mark(k, m) \in X
      \/ \A x \in X : Mark(k, m) < x

\* The requests for turns.
Asking == Contents(Asked) \cup Contents(Out) \cup Contents(Sending)

\* A turn that no broken connection has crossed is under way on a link that is up, and the
\* tracker knows the request for it.
UnderWay(m) ==
  /\ \A k \in TurnKinds : Mark(k, m) \in Contents(Todo) => link
  /\ 10 * m \in Contents(Asked) => link
  /\ 10 * m \in Asking => m \in pending

WayInv == Unbroken(Contents(Todo)) /\ \A m \in Inputs : m \notin crossed => UnderWay(m)

\* The buffer begins as the message of a turn does.
Opened == raw.parts # <<>> /\ Head(raw.parts).kind = "part1"

\* What the tracker and the preview know of such a turn is what its next events need.
Followed(m) ==
  /\ \A k \in {"note", "item"} : Mark(k, m) \in Coming =>
       m \in routable \/ (m \in pending /\ Mark("response", m) \in Coming)
  /\ Mark("part1", m) \in Coming =>
       \/ Mark("started", m) \in Coming \/ Mark("note", m) \in Coming
       \/ raw = Empty \/ outcome[m] # None
  /\ \A k \in {"part2", "part3"} : Mark(k, m) \in Coming =>
       Mark("part1", m) \in Coming \/ raw.truncated \/ Opened \/ outcome[m] # None

\* The buffer is longer than its cap only when it holds a message that is complete.
RawInv == Len(raw.parts) > RawCap => outcome[Last(raw.parts).turn] # None

ComingInv ==
  Unbroken(Coming) /\ RawInv /\ \A m \in Inputs : m \notin crossed => Followed(m)

\* The last report of the status in a sequence of events says t.
Tells(s, t) ==
  \E i \in DOMAIN s :
    /\ s[i].kind = "status" /\ s[i].thread = t
    /\ \A j \in DOMAIN s : j > i => s[j].kind # "status"

Silent(s) == \A i \in DOMAIN s : s[i].kind # "status"

\* While no report has been lost the last one on its way says what the thread's status is,
\* and when none is on its way the session has it.
StatusInv ==
  changes > 0 /\ intact =>
    /\ link
    /\ \/ Tells(wire, thread)
       \/ Silent(wire) /\ Tells(One(pump.hold), thread)
       \/ Silent(wire) /\ Silent(One(pump.hold)) /\ Tells(inn, thread)
       \/ /\ Silent(wire) /\ Silent(One(pump.hold)) /\ Silent(inn)
          /\ status = StatusOf(thread) /\ launch # "ready"

IInv ==
  /\ Types /\ PositionInv /\ ServerInv /\ LineInv /\ HandedInv /\ WayInv
  /\ ComingInv /\ StatusInv /\ TargetIsHonoured /\ PreviewShowsTheMessage

----------------------------------------------------------------------------
(* The marks.                                                              *)

\* The events of a turn are numbered from 1 to 9.
LEMMA Ranks ==
  /\ Rank \in [TurnKinds -> 1..9]
  /\ Rank["response"] = 1 /\ Rank["started"] = 2 /\ Rank["note"] = 3 /\ Rank["part1"] = 4
  /\ Rank["tool"] = 5 /\ Rank["part2"] = 6 /\ Rank["part3"] = 7 /\ Rank["item"] = 8
  /\ Rank["ended"] = 9
<1>1. TurnKinds = {"response", "started", "note", "part1", "tool", "part2", "part3", "item",
                   "ended"}
  BY DEF TurnKinds
<1>2. /\ Rank["response"] = 1 /\ Rank["started"] = 2 /\ Rank["note"] = 3 /\ Rank["part1"] = 4
      /\ Rank["tool"] = 5 /\ Rank["part2"] = 6 /\ Rank["part3"] = 7 /\ Rank["item"] = 8
      /\ Rank["ended"] = 9
  BY <1>1 DEF Rank
<1>3. \A k \in TurnKinds : Rank[k] \in 1..9
  BY <1>1, <1>2
<1>4. Rank \in [TurnKinds -> 1..9]
  BY <1>3 DEF Rank
<1> QED BY <1>2, <1>4

\* The marks of a turn come after its request and before the requests of later turns.
LEMMA Marks ==
  ASSUME NEW k \in TurnKinds, NEW m \in Inputs
  PROVE  /\ m \in Nat \ {0} /\ Mark(k, m) \in Nat \ {0}
         /\ 10 * m < Mark(k, m) /\ Mark(k, m) <= 10 * m + 9
<1>1. m \in Nat \ {0}  BY CodexAssumption DEF Inputs
<1>2. Rank[k] \in 1..9  BY Ranks
<1> QED BY <1>1, <1>2 DEF Mark

\* A mark is of one event of one turn.
LEMMA OneMark ==
  ASSUME NEW k \in TurnKinds, NEW l \in TurnKinds, NEW m \in Inputs, NEW n \in Inputs,
         Mark(k, m) = Mark(l, n)
  PROVE  k = l /\ m = n
<1>1. m \in Nat /\ n \in Nat  BY CodexAssumption DEF Inputs
<1>2. Rank[k] \in 1..9 /\ Rank[l] \in 1..9  BY Ranks
<1>3. m = n /\ Rank[k] = Rank[l]  BY <1>1, <1>2 DEF Mark
<1>4. k = l
  <2>1. k \in {"response", "started", "note", "part1", "tool", "part2", "part3", "item",
              "ended"}
    BY DEF TurnKinds
  <2>2. l \in {"response", "started", "note", "part1", "tool", "part2", "part3", "item",
              "ended"}
    BY DEF TurnKinds
  <2> QED BY <1>3, <2>1, <2>2, Ranks
<1> QED BY <1>3, <1>4

\* The marks are numbers.
LEMMA MarkTypes ==
  /\ EventMark \in [Events -> Nat] /\ RequestMark \in [Requests -> Nat]
  /\ InputMark \in [Inputs -> Nat]
  /\ \A m \in Inputs : TurnMark(m) \in [TurnKinds -> Nat]
<1>1. ASSUME NEW e \in Events PROVE EventMark[e] \in Nat
  <2>1. CASE e \in TurnEvents
    <3>1. e.kind \in TurnKinds /\ e.turn \in Inputs  BY <2>1 DEF TurnEvents
    <3>2. Mark(e.kind, e.turn) \in Nat  BY <3>1, Marks
    <3> QED BY <3>2 DEF EventMark
  <2>2. CASE e \in StatusEvents
    <3>1. e.kind = "status"  BY <2>2 DEF StatusEvents
    <3> QED BY <3>1 DEF EventMark
  <2> QED BY <2>1, <2>2 DEF Events
<1>2. ASSUME NEW r \in Requests PROVE RequestMark[r] \in Nat
  <2>1. CASE r \in [kind: {"start"}, turn: Inputs]
    <3>1. r.turn \in Nat  BY <2>1, CodexAssumption DEF Inputs
    <3> QED BY <3>1 DEF RequestMark
  <2>2. CASE r = [kind |-> "answer"]
    <3>1. r.kind # "start"  BY <2>2
    <3> QED BY <3>1 DEF RequestMark
  <2> QED BY <2>1, <2>2 DEF Requests
<1>3. ASSUME NEW m \in Inputs PROVE InputMark[m] \in Nat
  BY CodexAssumption DEF Inputs, InputMark
<1>4. ASSUME NEW m \in Inputs, NEW k \in TurnKinds PROVE TurnMark(m)[k] \in Nat
  <2>1. Mark(k, m) \in Nat  BY Marks
  <2> QED BY <2>1 DEF TurnMark
<1>5. EventMark \in [Events -> Nat]  BY <1>1 DEF EventMark
<1>6. RequestMark \in [Requests -> Nat]  BY <1>2 DEF RequestMark
<1>7. InputMark \in [Inputs -> Nat]  BY <1>3 DEF InputMark
<1>8. ASSUME NEW m \in Inputs PROVE TurnMark(m) \in [TurnKinds -> Nat]
  BY <1>4 DEF TurnMark
<1> QED BY <1>5, <1>6, <1>7, <1>8

\* An event of a turn, and a report of the status.
LEMMA AnEvent ==
  ASSUME NEW e \in Events
  PROVE  /\ e.kind # "status" => /\ e.kind \in TurnKinds /\ e.turn \in Inputs
                                 /\ e = Say(e.kind, e.turn)
                                 /\ EventMark[e] = Mark(e.kind, e.turn)
         /\ e.kind = "status" => EventMark[e] = 0 /\ e.thread \in Threads
         /\ EventMark[e] \in Nat
<1>1. CASE e \in TurnEvents
  <2>1. e.kind \in TurnKinds /\ e.turn \in Inputs /\ e = Say(e.kind, e.turn)
    BY <1>1 DEF TurnEvents, Say
  <2>2. e.kind # "status"  BY <2>1 DEF TurnKinds
  <2>3. EventMark[e] = Mark(e.kind, e.turn)  BY <2>2 DEF EventMark
  <2> QED BY <2>1, <2>2, <2>3, Marks
<1>2. CASE e \in StatusEvents
  <2>1. e.kind = "status" /\ e.thread \in Threads  BY <1>2 DEF StatusEvents
  <2>2. EventMark[e] = 0  BY <2>1 DEF EventMark
  <2> QED BY <2>1, <2>2
<1> QED BY <1>1, <1>2 DEF Events

\* What the app-server says.
LEMMA SaidEvent ==
  ASSUME NEW k \in TurnKinds, NEW m \in Inputs
  PROVE  /\ Say(k, m) \in Events /\ Say(k, m) \in TurnEvents
         /\ Say(k, m).kind = k /\ Say(k, m).turn = m
         /\ k # "status" /\ EventMark[Say(k, m)] = Mark(k, m)
<1>1. Say(k, m) \in TurnEvents /\ Say(k, m).kind = k /\ Say(k, m).turn = m
  BY DEF TurnEvents, Say
<1>2. k # "status"  BY DEF TurnKinds
<1>3. Say(k, m) \in Events  BY <1>1 DEF Events
<1>4. EventMark[Say(k, m)] = Mark(k, m)  BY <1>1, <1>2, <1>3, AnEvent
<1> QED BY <1>1, <1>2, <1>3, <1>4

\* A request is for a turn or an answer.
LEMMA ARequest ==
  ASSUME NEW r \in Requests
  PROVE  \/ /\ r.kind = "start" /\ r.turn \in Inputs /\ r = Start(r.turn) /\ r # Answer
            /\ RequestMark[r] = 10 * r.turn
         \/ r = Answer /\ r.kind = "answer" /\ RequestMark[r] = 0
<1>1. CASE r \in [kind: {"start"}, turn: Inputs]
  <2>1. r.kind = "start" /\ r.turn \in Inputs /\ r = Start(r.turn)  BY <1>1 DEF Start
  <2>2. RequestMark[r] = 10 * r.turn  BY <2>1 DEF RequestMark
  <2>3. r # Answer  BY <2>1 DEF Answer
  <2> QED BY <2>1, <2>2, <2>3
<1>2. CASE r = [kind |-> "answer"]
  <2>1. r = Answer /\ r.kind = "answer"  BY <1>2 DEF Answer
  <2>2. RequestMark[r] = 0  BY <2>1 DEF RequestMark
  <2> QED BY <2>1, <2>2
<1> QED BY <1>1, <1>2 DEF Requests

\* Requests, and their marks.
LEMMA Requested ==
  /\ Answer \in Requests /\ Answer # None /\ RequestMark[Answer] = 0
  /\ \A m \in Inputs : /\ Start(m) \in Requests /\ Start(m).turn = m /\ Start(m) # Answer
                       /\ Start(m) # None /\ RequestMark[Start(m)] = 10 * m
<1>1. Answer \in Requests /\ Answer.kind = "answer"  BY DEF Answer, Requests
<1>2. RequestMark[Answer] = 0  BY <1>1 DEF RequestMark
<1>3. ASSUME NEW m \in Inputs
      PROVE  /\ Start(m) \in Requests /\ Start(m).turn = m /\ Start(m).kind = "start"
             /\ Start(m) # Answer
  <2>1. /\ Start(m) \in [kind: {"start"}, turn: Inputs] /\ Start(m).turn = m
        /\ Start(m).kind = "start"
    BY DEF Start
  <2> QED BY <1>1, <2>1 DEF Requests
<1>4. ASSUME NEW m \in Inputs PROVE RequestMark[Start(m)] = 10 * m
  BY <1>3 DEF RequestMark
<1> QED BY <1>1, <1>2, <1>3, <1>4, CodexAssumption

----------------------------------------------------------------------------
(* Sequences and their marks.                                              *)

\* The numbers of the things in a sequence.
LEMMA NumbersOf ==
  ASSUME NEW S, NEW f \in [S -> Nat], NEW s \in Seq(S)
  PROVE  /\ Numbered(f, s) \in Seq(Nat) /\ Len(Numbered(f, s)) = Len(s)
         /\ Numbered(f, s) = <<>> <=> s = <<>>
         /\ \A x : x \in Contents(Numbered(f, s)) <=>
                    x # 0 /\ \E i \in DOMAIN s : x = f[s[i]]
<1> DEFINE t == Numbered(f, s)
<1>1. t \in Seq(Nat) /\ Len(t) = Len(s) /\ DOMAIN t = DOMAIN s
      /\ \A i \in DOMAIN s : t[i] = f[s[i]]
  BY DEF Numbered
<1> HIDE DEF t
<1>2. t = <<>> <=> s = <<>>  BY <1>1
<1>3. \A x : x \in Contents(t) <=> x # 0 /\ \E i \in DOMAIN s : x = f[s[i]]
  BY <1>1 DEF Contents
<1> QED BY <1>1, <1>2, <1>3 DEF t

\* The inputs in a sequence.
LEMMA InputsIn ==
  ASSUME NEW s \in Seq(Inputs)
  PROVE  /\ ToSet(s) \subseteq Inputs
         /\ \A m \in Inputs : m \in ToSet(s) <=> 10 * m \in Contents(Numbered(InputMark, s))
<1>1. \A x : x \in Contents(Numbered(InputMark, s)) <=>
              x # 0 /\ \E i \in DOMAIN s : x = InputMark[s[i]]
  <2>1. InputMark \in [Inputs -> Nat]  BY MarkTypes
  <2> QED BY <2>1, NumbersOf
<1>2. \A i \in DOMAIN s : s[i] \in Inputs  OBVIOUS
<1>3. \A m \in Inputs : InputMark[m] = 10 * m /\ m \in Nat \ {0}
  BY CodexAssumption DEF InputMark, Inputs
<1>4. ToSet(s) \subseteq Inputs  BY <1>2 DEF ToSet
<1>5. ASSUME NEW m \in Inputs, m \in ToSet(s)
      PROVE  10 * m \in Contents(Numbered(InputMark, s))
  <2>1. PICK i \in DOMAIN s : s[i] = m  BY <1>5 DEF ToSet
  <2>2. InputMark[s[i]] = 10 * m /\ 10 * m # 0  BY <1>3, <2>1
  <2> QED BY <1>1, <2>2
<1>6. ASSUME NEW m \in Inputs, 10 * m \in Contents(Numbered(InputMark, s))
      PROVE  m \in ToSet(s)
  <2>1. PICK i \in DOMAIN s : InputMark[s[i]] = 10 * m  BY <1>1, <1>6
  <2>2. s[i] = m  BY <1>2, <1>3, <2>1
  <2> QED BY <2>2 DEF ToSet
<1> QED BY <1>4, <1>5, <1>6

\* The inputs that the requests in a sequence start.
LEMMA InputsAsked ==
  ASSUME NEW s \in Seq(Requests)
  PROVE  /\ Started(ToSet(s)) \subseteq Inputs
         /\ \A m \in Inputs : m \in Started(ToSet(s)) <=>
                                10 * m \in Contents(Numbered(RequestMark, s))
<1>1. \A x : x \in Contents(Numbered(RequestMark, s)) <=>
              x # 0 /\ \E i \in DOMAIN s : x = RequestMark[s[i]]
  <2>1. RequestMark \in [Requests -> Nat]  BY MarkTypes
  <2> QED BY <2>1, NumbersOf
<1>2. \A i \in DOMAIN s : s[i] \in Requests  OBVIOUS
<1>3. \A m \in Inputs : m \in Nat \ {0}  BY CodexAssumption DEF Inputs
<1>4. ASSUME NEW i \in DOMAIN s, s[i].kind = "start"
      PROVE  s[i].turn \in Inputs /\ RequestMark[s[i]] = 10 * s[i].turn
  <2>1. s[i] \in Requests  BY <1>2
  <2>2. s[i] # Answer  BY <1>4 DEF Answer
  <2> QED BY <2>1, <2>2, ARequest
<1>5. ASSUME NEW m \in Started(ToSet(s))
      PROVE  m \in Inputs /\ 10 * m \in Contents(Numbered(RequestMark, s))
  <2>1. PICK i \in DOMAIN s : s[i].kind = "start" /\ s[i].turn = m
    BY DEF Started, ToSet
  <2>2. m \in Inputs /\ RequestMark[s[i]] = 10 * m  BY <1>4, <2>1
  <2>3. 10 * m # 0  BY <1>3, <2>2
  <2> QED BY <1>1, <2>2, <2>3
<1>6. ASSUME NEW m \in Inputs, 10 * m \in Contents(Numbered(RequestMark, s))
      PROVE  m \in Started(ToSet(s))
  <2>1. PICK i \in DOMAIN s : RequestMark[s[i]] = 10 * m /\ 10 * m # 0  BY <1>1, <1>6
  <2>2. s[i] \in Requests  BY <1>2
  <2>3. s[i].kind = "start" /\ s[i].turn \in Inputs /\ RequestMark[s[i]] = 10 * s[i].turn
    BY <2>1, <2>2, ARequest
  <2>4. s[i].turn = m  BY <1>3, <2>1, <2>3
  <2> QED BY <2>3, <2>4 DEF Started, ToSet
<1> QED BY <1>5, <1>6

\* At most one thing.
LEMMA OneOrNone ==
  ASSUME NEW S, NEW x \in S \cup {None}, None \notin S
  PROVE  /\ One(x) \in Seq(S) /\ ToSet(One(x)) = {x} \ {None}
         /\ One(x) = <<>> <=> x = None
         /\ x # None => One(x) = <<x>> /\ x \in S
<1>1. CASE x = None
  <2>1. One(x) = <<>>  BY <1>1 DEF One
  <2>2. <<>> \in Seq(S)  OBVIOUS
  <2>3. ToSet(<<>>) = {}  BY DEF ToSet
  <2> QED BY <1>1, <2>1, <2>2, <2>3
<1>2. CASE x # None
  <2>1. One(x) = <<x>> /\ x \in S  BY <1>2 DEF One
  <2>2. <<x>> \in Seq(S) /\ <<x>> # <<>> /\ ToSet(<<x>>) = {x}  BY <2>1 DEF ToSet
  <2> QED BY <1>2, <2>1, <2>2
<1> QED BY <1>1, <1>2

----------------------------------------------------------------------------
(* The line.                                                               *)

\* The line is made of sequences of numbers.
LEMMA LineTypes ==
  ASSUME ChannelTypes, ServerTypes, LaunchTypes, InputTypes
  PROVE  /\ Inn \in Seq(Nat) /\ Hold \in Seq(Nat) /\ Wire \in Seq(Nat) /\ Todo \in Seq(Nat)
         /\ Asked \in Seq(Nat) /\ Out \in Seq(Nat) /\ Sending \in Seq(Nat)
         /\ Inject \in Seq(Nat)
<1>1. Inn \in Seq(Nat)
  <2>1. inn \in Seq(Events)  BY DEF ChannelTypes
  <2> QED BY <2>1, MarkTypes, NumbersOf DEF Inn
<1>2. Wire \in Seq(Nat)
  <2>1. wire \in Seq(Events)  BY DEF ChannelTypes
  <2> QED BY <2>1, MarkTypes, NumbersOf DEF Wire
<1>3. Hold \in Seq(Nat)
  <2>1. pump.hold \in Events \cup {None}  BY DEF ChannelTypes
  <2>2. One(pump.hold) \in Seq(Events)  BY <2>1, OneOrNone, CodexAssumption
  <2> QED BY <2>2, MarkTypes, NumbersOf DEF Hold
<1>4. Todo \in Seq(Nat)
  <2>1. server.turn \in Inputs \cup {None} /\ server.todo \in Seq(TurnKinds)
    BY DEF ServerTypes
  <2>2. CASE server.turn = None
    <3>1. Todo = <<>>  BY <2>2 DEF Todo
    <3> QED BY <3>1
  <2>3. CASE server.turn # None
    <3>1. TurnMark(server.turn) \in [TurnKinds -> Nat]  BY <2>1, <2>3, MarkTypes
    <3>2. Numbered(TurnMark(server.turn), server.todo) \in Seq(Nat)
      BY <2>1, <3>1, NumbersOf
    <3> QED BY <2>3, <3>2 DEF Todo
  <2> QED BY <2>2, <2>3
<1>5. Asked \in Seq(Nat) /\ Inject \in Seq(Nat)
  <2>1. asked \in Seq(Inputs) /\ inject \in Seq(Inputs)  BY DEF ServerTypes, InputTypes
  <2>2. Asked \in Seq(Nat)  BY <2>1, MarkTypes, NumbersOf DEF Asked
  <2>3. Inject \in Seq(Nat)  BY <2>1, MarkTypes, NumbersOf DEF Inject
  <2> QED BY <2>2, <2>3
<1>6. Out \in Seq(Nat)
  <2>1. out \in Seq(Requests)  BY DEF ChannelTypes
  <2> QED BY <2>1, MarkTypes, NumbersOf DEF Out
<1>7. Sending \in Seq(Nat)
  <2>1. task.send \in Requests \cup {None}  BY DEF LaunchTypes
  <2>2. One(task.send) \in Seq(Requests)  BY <2>1, OneOrNone, CodexAssumption
  <2> QED BY <2>2, MarkTypes, NumbersOf DEF Sending
<1> QED BY <1>1, <1>2, <1>3, <1>4, <1>5, <1>6, <1>7

\* The sequences of the line, before and after a step.
LEMMA LineFields ==
  /\ Line[1] = Inn /\ Line[2] = Hold /\ Line[3] = Wire /\ Line[4] = Todo
  /\ Line[5] = Asked /\ Line[6] = Out /\ Line[7] = Sending /\ Line[8] = Inject
  /\ Line'[1] = Inn' /\ Line'[2] = Hold' /\ Line'[3] = Wire' /\ Line'[4] = Todo'
  /\ Line'[5] = Asked' /\ Line'[6] = Out' /\ Line'[7] = Sending' /\ Line'[8] = Inject'
BY DEF Line

\* What is on the line, sequence by sequence, before a step and after.
LEMMA OnLineIs ==
  /\ OnLine = Contents(Inn) \cup Contents(Hold) \cup Contents(Wire) \cup Contents(Todo)
                \cup Contents(Asked) \cup Contents(Out) \cup Contents(Sending)
                \cup Contents(Inject)
  /\ OnLine' = Contents(Inn)' \cup Contents(Hold)' \cup Contents(Wire)' \cup Contents(Todo)'
                \cup Contents(Asked)' \cup Contents(Out)' \cup Contents(Sending)'
                \cup Contents(Inject)'
<1>1. ASSUME NEW line, NEW S,
             S = UNION {Contents(line[a]) : a \in 1..8}
      PROVE  S = Contents(line[1]) \cup Contents(line[2]) \cup Contents(line[3])
                   \cup Contents(line[4]) \cup Contents(line[5]) \cup Contents(line[6])
                   \cup Contents(line[7]) \cup Contents(line[8])
  <2>1. \A a : a \in 1..8 <=> a = 1 \/ a = 2 \/ a = 3 \/ a = 4 \/ a = 5 \/ a = 6 \/ a = 7
                                \/ a = 8
    OBVIOUS
  <2>2. \A x : x \in S <=> \E a \in 1..8 : x \in Contents(line[a])  BY <1>1
  <2> DEFINE C(a) == Contents(line[a])
  <2>3. \A x : x \in S <=> \E a \in 1..8 : x \in C(a)  BY <2>2
  <2> HIDE DEF C
  <2>4. \A x : x \in S <=> \/ x \in C(1) \/ x \in C(2) \/ x \in C(3) \/ x \in C(4)
                         \/ x \in C(5) \/ x \in C(6) \/ x \in C(7) \/ x \in C(8)
    BY <2>1, <2>3
  <2>5. S = C(1) \cup C(2) \cup C(3) \cup C(4) \cup C(5) \cup C(6) \cup C(7) \cup C(8)
    BY <2>4
  <2> QED BY <2>5 DEF C
<1>2. OnLine = UNION {Contents(Line[a]) : a \in 1..8}  BY DEF OnLine
<1>3. OnLine' = UNION {Contents(Line'[a]) : a \in 1..8}  BY DEF OnLine
<1>4. OnLine = Contents(Line[1]) \cup Contents(Line[2]) \cup Contents(Line[3])
                   \cup Contents(Line[4]) \cup Contents(Line[5]) \cup Contents(Line[6])
                   \cup Contents(Line[7]) \cup Contents(Line[8])
  BY <1>1, <1>2
<1>5. OnLine' = Contents(Line'[1]) \cup Contents(Line'[2]) \cup Contents(Line'[3])
                   \cup Contents(Line'[4]) \cup Contents(Line'[5]) \cup Contents(Line'[6])
                   \cup Contents(Line'[7]) \cup Contents(Line'[8])
  BY <1>1, <1>3
<1> QED BY <1>4, <1>5, LineFields

\* Nothing is added to any sequence of the line.
Shrinks ==
  /\ LeftOf(Inn, Inn') /\ LeftOf(Hold, Hold') /\ LeftOf(Wire, Wire') /\ LeftOf(Todo, Todo')
  /\ LeftOf(Asked, Asked') /\ LeftOf(Out, Out') /\ LeftOf(Sending, Sending')
  /\ LeftOf(Inject, Inject')

\* A line of which only something is taken out keeps its order.
LEMMA LineIsLeft ==
  ASSUME InLine(8, Line), Shrinks
  PROVE  InLine(8, Line)' /\ OnLine' \subseteq OnLine
<1>1. \A a \in 1..8 : LeftOf(Line[a], Line'[a])
  <2>1. \A a \in 1..8 : a = 1 \/ a = 2 \/ a = 3 \/ a = 4 \/ a = 5 \/ a = 6 \/ a = 7 \/ a = 8
    OBVIOUS
  <2> QED BY <2>1, LineFields DEF Shrinks
<1>2. InLine(8, Line') /\ Within(8, Line', Line)
  <2> DEFINE old == Line
             new == Line'
  <2>1. InLine(8, old) /\ \A a \in 1..8 : LeftOf(old[a], new[a])  BY <1>1
  <2> HIDE DEF old, new
  <2>2. InLine(8, new) /\ Within(8, new, old)  BY <2>1, LineShrinks
  <2> QED BY <2>2 DEF old, new
<1>3. OnLine' \subseteq OnLine  BY <1>2 DEF Within, OnLine
<1> QED BY <1>2, <1>3 DEF InLine

\* The first of the a-th sequence becomes the last of the b-th.
LEMMA LineIsMoved ==
  ASSUME InLine(8, Line), Numbers(8, Line), NEW a \in 1..8, NEW b \in 1..8,
         MovesOn(8, Line, Line', a, b)
  PROVE  InLine(8, Line)' /\ OnLine' \subseteq OnLine
<1>1. InLine(8, Line') /\ Within(8, Line', Line)
  <2> DEFINE old == Line
             new == Line'
  <2>1. InLine(8, old) /\ Numbers(8, old) /\ MovesOn(8, old, new, a, b)  OBVIOUS
  <2> HIDE DEF old, new
  <2>2. InLine(8, new) /\ Within(8, new, old)  BY <2>1, LineMoves
  <2> QED BY <2>2 DEF old, new
<1>2. OnLine' \subseteq OnLine  BY <1>1 DEF Within, OnLine
<1> QED BY <1>1, <1>2 DEF InLine

\* The order within and between the sequences of the line.
LEMMA Orders ==
  ASSUME InLine(8, Line)
  PROVE  /\ InOrder(Inn) /\ InOrder(Hold) /\ InOrder(Wire) /\ InOrder(Todo)
         /\ InOrder(Asked) /\ InOrder(Out) /\ InOrder(Sending) /\ InOrder(Inject)
         /\ LeftOf(Inn, Inn) /\ LeftOf(Hold, Hold) /\ LeftOf(Wire, Wire) /\ LeftOf(Todo, Todo)
         /\ LeftOf(Asked, Asked) /\ LeftOf(Out, Out) /\ LeftOf(Sending, Sending)
         /\ LeftOf(Inject, Inject)
BY LineFields DEF InLine, LeftOf

\* What is of two parts of the line is in the order of the parts.
LEMMA PartsInOrder ==
  ASSUME InLine(8, Line)
  PROVE  /\ Before(Contents(Inn), Contents(Hold) \cup Contents(Wire) \cup Contents(Todo)
                     \cup Contents(Asked) \cup Contents(Out) \cup Contents(Sending)
                     \cup Contents(Inject))
         /\ Before(Contents(Hold), Contents(Wire) \cup Contents(Todo))
         /\ Before(Contents(Wire), Contents(Todo))
         /\ Before(Contents(Inn) \cup Contents(Hold) \cup Contents(Wire) \cup Contents(Todo),
                   Contents(Asked) \cup Contents(Out) \cup Contents(Sending)
                     \cup Contents(Inject))
         /\ Before(Contents(Asked), Contents(Out) \cup Contents(Sending) \cup Contents(Inject))
         /\ Before(Contents(Out), Contents(Sending) \cup Contents(Inject))
         /\ Before(Contents(Sending), Contents(Inject))
<1>1. \A a, b \in 1..8 : a < b => Before(Contents(Line[a]), Contents(Line[b]))
  BY DEF InLine
<1>2. /\ Before(Contents(Inn), Contents(Hold)) /\ Before(Contents(Inn), Contents(Wire))
      /\ Before(Contents(Inn), Contents(Todo)) /\ Before(Contents(Inn), Contents(Asked))
      /\ Before(Contents(Inn), Contents(Out)) /\ Before(Contents(Inn), Contents(Sending))
      /\ Before(Contents(Inn), Contents(Inject))
  BY <1>1, LineFields
<1>3. /\ Before(Contents(Hold), Contents(Wire)) /\ Before(Contents(Hold), Contents(Todo))
      /\ Before(Contents(Hold), Contents(Asked)) /\ Before(Contents(Hold), Contents(Out))
      /\ Before(Contents(Hold), Contents(Sending)) /\ Before(Contents(Hold), Contents(Inject))
  BY <1>1, LineFields
<1>4. /\ Before(Contents(Wire), Contents(Todo)) /\ Before(Contents(Wire), Contents(Asked))
      /\ Before(Contents(Wire), Contents(Out)) /\ Before(Contents(Wire), Contents(Sending))
      /\ Before(Contents(Wire), Contents(Inject))
  BY <1>1, LineFields
<1>5. /\ Before(Contents(Todo), Contents(Asked)) /\ Before(Contents(Todo), Contents(Out))
      /\ Before(Contents(Todo), Contents(Sending)) /\ Before(Contents(Todo), Contents(Inject))
  BY <1>1, LineFields
<1>6. /\ Before(Contents(Asked), Contents(Out)) /\ Before(Contents(Asked), Contents(Sending))
      /\ Before(Contents(Asked), Contents(Inject)) /\ Before(Contents(Out), Contents(Sending))
      /\ Before(Contents(Out), Contents(Inject)) /\ Before(Contents(Sending), Contents(Inject))
  BY <1>1, LineFields
<1>7. ASSUME NEW X, NEW Y, NEW Z PROVE Before(X, Y) /\ Before(X, Z) => Before(X, Y \cup Z)
  BY DEF Before
<1>8. ASSUME NEW X, NEW Y, NEW Z PROVE Before(X, Z) /\ Before(Y, Z) => Before(X \cup Y, Z)
  BY DEF Before
<1>9. /\ Before(Contents(Inn), Contents(Hold) \cup Contents(Wire) \cup Contents(Todo)
                     \cup Contents(Asked) \cup Contents(Out) \cup Contents(Sending)
                     \cup Contents(Inject))
      /\ Before(Contents(Hold), Contents(Wire) \cup Contents(Todo))
      /\ Before(Contents(Asked), Contents(Out) \cup Contents(Sending) \cup Contents(Inject))
      /\ Before(Contents(Out), Contents(Sending) \cup Contents(Inject))
  BY <1>2, <1>3, <1>6, <1>7
<1>10. Before(Contents(Inn) \cup Contents(Hold) \cup Contents(Wire) \cup Contents(Todo),
                   Contents(Asked) \cup Contents(Out) \cup Contents(Sending)
                     \cup Contents(Inject))
  <2> DEFINE R == Contents(Asked) \cup Contents(Out) \cup Contents(Sending)
                     \cup Contents(Inject)
  <2>1. Before(Contents(Inn), R)  BY <1>2, <1>7
  <2>2. Before(Contents(Hold), R)  BY <1>3, <1>7
  <2>3. Before(Contents(Wire), R)  BY <1>4, <1>7
  <2>4. Before(Contents(Todo), R)  BY <1>5, <1>7
  <2> HIDE DEF R
  <2>5. Before(Contents(Inn) \cup Contents(Hold) \cup Contents(Wire) \cup Contents(Todo), R)
    BY <1>8, <2>1, <2>2, <2>3, <2>4
  <2> QED BY <2>5 DEF R
<1> QED BY <1>4, <1>6, <1>9, <1>10

\* Where nothing new comes onto the line, its invariant is kept.
LEMMA LineIsKept ==
  ASSUME LineInv, InLine(8, Line)', OnLine' \subseteq OnLine,
         accepted' = accepted, finished' = finished
  PROVE  LineInv'
BY DEF LineInv

\* Whatever is on the line is a number.
LEMMA LineHasNumbers ==
  ASSUME Types
  PROVE  Numbers(8, Line)
<1>1. /\ Inn \in Seq(Nat) /\ Hold \in Seq(Nat) /\ Wire \in Seq(Nat) /\ Todo \in Seq(Nat)
      /\ Asked \in Seq(Nat) /\ Out \in Seq(Nat) /\ Sending \in Seq(Nat)
      /\ Inject \in Seq(Nat)
  BY LineTypes DEF Types
<1>2. \A a \in 1..8 : a = 1 \/ a = 2 \/ a = 3 \/ a = 4 \/ a = 5 \/ a = 6 \/ a = 7 \/ a = 8
  OBVIOUS
<1> QED BY <1>1, <1>2, LineFields DEF Numbers

----------------------------------------------------------------------------
(* Which actions change what.                                              *)

\* The launch and the task are changed by the steps of the launch and of the task.
LEMMA OthersLeaveTask ==
  ASSUME Next
  PROVE  \/ Attach \/ MonitorCancels \/ Unregister \/ Stop
         \/ ConnectStep
         \/ OnToolCall \/ OnClosed \/ TakeInput \/ SendRequest \/ SendFails
         \/ Exit
         \/ UNCHANGED <<launch, registered, alive, task, attempts, conns>>
<1> USE DEF vars, launchVars, linkVars, channelVars, serverVars, trackerVars, shownVars,
            inputVars, historyVars, eventFrame
<1> QED
  BY DEF Next, LaunchStep, TaskStep, ConnectStep, LoopStep, EventStep, PumpStep, ServerStep,
         Attach, MonitorCancels, Stop, Unregister, Cancel, Connect, ConnectFails, Probe,
         SleepOver, Resume, ResumeFails, End, Connected, OnResponse, OnTurnStarted, OnDelta,
         OnItemCompleted, OnToolCall, OnTurnCompleted, OnStatus, OnClosed, TakeInput, SendRequest,
         SendFails, PumpReads, PumpPuts, PumpSends, PumpExits, TakeUp, Report, ChangeThread,
         Route, Break, Exit, Broken, Emit, Take, Goto

\* The link and its channels.
LEMMA OthersLeaveChannels ==
  ASSUME Next
  PROVE  \/ MonitorCancels \/ Stop \/ Connect \/ Resume \/ End
         \/ EventStep
         \/ SendRequest
         \/ PumpStep
         \/ Report \/ \E t \in Changes : ChangeThread(t)
         \/ Break \/ Exit
         \/ UNCHANGED <<link, pump, wire, inn, out>>
<1> USE DEF vars, launchVars, linkVars, channelVars, serverVars, trackerVars, shownVars,
            inputVars, historyVars, eventFrame
<1> QED
  BY DEF Next, LaunchStep, TaskStep, ConnectStep, LoopStep, EventStep, PumpStep, ServerStep,
         Attach, MonitorCancels, Stop, Unregister, Cancel, Connect, ConnectFails, Probe,
         SleepOver, Resume, ResumeFails, End, Connected, OnResponse, OnTurnStarted, OnDelta,
         OnItemCompleted, OnToolCall, OnTurnCompleted, OnStatus, OnClosed, TakeInput, SendRequest,
         SendFails, PumpReads, PumpPuts, PumpSends, PumpExits, TakeUp, Report, ChangeThread,
         Route, Break, Exit, Broken, Emit, Take, Goto

\* The app-server.
LEMMA OthersLeaveServer ==
  ASSUME Next
  PROVE  \/ MonitorCancels \/ Stop
         \/ PumpSends
         \/ ServerStep
         \/ Break \/ Exit
         \/ UNCHANGED <<asked, server, thread, changes>>
<1> USE DEF vars, launchVars, linkVars, channelVars, serverVars, trackerVars, shownVars,
            inputVars, historyVars, eventFrame
<1> QED
  BY DEF Next, LaunchStep, TaskStep, ConnectStep, LoopStep, EventStep, PumpStep, ServerStep,
         Attach, MonitorCancels, Stop, Unregister, Cancel, Connect, ConnectFails, Probe,
         SleepOver, Resume, ResumeFails, End, Connected, OnResponse, OnTurnStarted, OnDelta,
         OnItemCompleted, OnToolCall, OnTurnCompleted, OnStatus, OnClosed, TakeInput, SendRequest,
         SendFails, PumpReads, PumpPuts, PumpSends, PumpExits, TakeUp, Report, ChangeThread,
         Route, Break, Exit, Broken, Emit, Take, Goto

\* The turn tracker and what is shown.
LEMMA OthersLeaveTracker ==
  ASSUME Next
  PROVE  \/ Attach \/ MonitorCancels \/ Stop \/ Connect \/ Resume \/ End
         \/ EventStep
         \/ TakeInput
         \/ UNCHANGED <<pending, routable, raw, preview, status, outcome>>
<1> USE DEF vars, launchVars, linkVars, channelVars, serverVars, trackerVars, shownVars,
            inputVars, historyVars, eventFrame
<1> QED
  BY DEF Next, LaunchStep, TaskStep, ConnectStep, LoopStep, EventStep, PumpStep, ServerStep,
         Attach, MonitorCancels, Stop, Unregister, Cancel, Connect, ConnectFails, Probe,
         SleepOver, Resume, ResumeFails, End, Connected, OnResponse, OnTurnStarted, OnDelta,
         OnItemCompleted, OnToolCall, OnTurnCompleted, OnStatus, OnClosed, TakeInput, SendRequest,
         SendFails, PumpReads, PumpPuts, PumpSends, PumpExits, TakeUp, Report, ChangeThread,
         Route, Break, Exit, Broken, Emit, Take, Goto

\* The inputs, and the histories.
LEMMA OthersLeaveInputs ==
  ASSUME Next
  PROVE  \/ Attach \/ MonitorCancels \/ Stop \/ End
         \/ OnTurnCompleted \/ OnStatus \/ TakeInput \/ SendFails
         \/ PumpExits
         \/ TakeUp \/ \E t \in Changes : ChangeThread(t)
         \/ \E m \in Inputs : Route(m)
         \/ Break \/ Exit
         \/ UNCHANGED <<inject, accepted, run, lost, finished, crossed, intact, early>>
<1> USE DEF vars, launchVars, linkVars, channelVars, serverVars, trackerVars, shownVars,
            inputVars, historyVars, eventFrame
<1> QED
  BY DEF Next, LaunchStep, TaskStep, ConnectStep, LoopStep, EventStep, PumpStep, ServerStep,
         Attach, MonitorCancels, Stop, Unregister, Cancel, Connect, ConnectFails, Probe,
         SleepOver, Resume, ResumeFails, End, Connected, OnResponse, OnTurnStarted, OnDelta,
         OnItemCompleted, OnToolCall, OnTurnCompleted, OnStatus, OnClosed, TakeInput, SendRequest,
         SendFails, PumpReads, PumpPuts, PumpSends, PumpExits, TakeUp, Report, ChangeThread,
         Route, Break, Exit, Broken, Emit, Take, Goto

----------------------------------------------------------------------------
(* Types and positions.                                                    *)

\* The event that the task takes.
LEMMA FirstEvent ==
  ASSUME Types, inn # <<>>
  PROVE  /\ Head(inn) \in Events /\ Tail(inn) \in Seq(Events) /\ Len(Tail(inn)) <= InCap
         /\ Head(inn).kind # "status" => /\ Turn \in Inputs /\ Head(inn) \in TurnEvents
                                         /\ Head(inn) = Say(Head(inn).kind, Turn)
         /\ Head(inn).kind = "status" => Head(inn).thread \in Threads
<1>1. Head(inn) \in Events /\ Tail(inn) \in Seq(Events) /\ Len(Tail(inn)) <= InCap
  BY CodexAssumption DEF Types, ChannelTypes
<1> DEFINE e == Head(inn)
<1>2. e \in Events  BY <1>1
<1> HIDE DEF e
<1>3. /\ e.kind # "status" => /\ e.kind \in TurnKinds /\ e.turn \in Inputs
                              /\ e = Say(e.kind, e.turn)
      /\ e.kind = "status" => e.thread \in Threads
  BY <1>2, AnEvent
<1>4. e.kind # "status" => e \in TurnEvents  BY <1>3, SaidEvent
<1> QED BY <1>1, <1>3, <1>4 DEF e, Turn

\* Task, pump and link.
LEMMA PositionPreserved ==
  ASSUME Types, PositionInv, Next
  PROVE  PositionInv'
<1> USE DEF vars, launchVars, linkVars, channelVars, serverVars, trackerVars, shownVars,
            inputVars, historyVars, eventFrame
<1> USE CodexAssumption DEF PositionInv, At, Types, LaunchTypes, ChannelTypes
<1>1. CASE Attach \/ MonitorCancels \/ Unregister \/ Stop
  BY <1>1 DEF Attach, MonitorCancels, Unregister, Stop, Cancel, Goto, Off
<1>2. CASE ConnectStep
  BY <1>2 DEF ConnectStep, Connect, ConnectFails, Probe, SleepOver, Resume, ResumeFails, End,
              Connected, Goto, On
<1>3. CASE EventStep
  BY <1>3, Requested DEF EventStep, OnResponse, OnTurnStarted, OnDelta, OnItemCompleted,
                         OnToolCall, OnTurnCompleted, OnStatus, Received, Take
<1>4. CASE OnClosed
  BY <1>4 DEF OnClosed, Goto
<1>5. CASE TakeInput
  <2>1. Head(inject) \in Inputs  BY <1>5 DEF TakeInput, InputTypes
  <2>2. task' = [pc |-> "send", send |-> Start(Head(inject))]  BY <1>5 DEF TakeInput
  <2>3. At("send")' /\ task'.send # None  BY <2>1, <2>2, Requested
  <2> QED BY <1>5, <2>3 DEF TakeInput
<1>6. CASE SendRequest \/ SendFails
  BY <1>6 DEF SendRequest, SendFails, Goto
<1>7. CASE PumpStep
  BY <1>7 DEF PumpStep, PumpReads, PumpPuts, PumpSends, PumpExits, On, Off
<1>8. CASE ServerStep
  <2>1. CASE TakeUp  BY <1>8, <2>1 DEF TakeUp
  <2>2. CASE Report  BY <1>8, <2>2 DEF Report, Emit
  <2>3. CASE \E t \in Changes : ChangeThread(t)
    BY <1>8, <2>3 DEF ChangeThread, Emit
  <2> QED BY <1>8, <2>1, <2>2, <2>3 DEF ServerStep
<1>9. CASE (\E m \in Inputs : Route(m)) \/ Break \/ Exit
  BY <1>9 DEF Route, Break, Exit, Broken
<1>10. CASE UNCHANGED vars
  BY <1>10
<1> QED BY <1>1, <1>2, <1>3, <1>4, <1>5, <1>6, <1>7, <1>8, <1>9
        DEF Next, LaunchStep, TaskStep, LoopStep

\* The types of the launch and of the task after a step.
LEMMA LaunchTyped ==
  ASSUME Types, PositionInv, Next
  PROVE  LaunchTypes'
<1> USE DEF vars, launchVars, linkVars, channelVars, serverVars, trackerVars, shownVars,
            inputVars, historyVars, eventFrame
<1> USE CodexAssumption DEF Types, LaunchTypes, At
<1>1. CASE Attach \/ MonitorCancels \/ Unregister \/ Stop
  <2>1. /\ launch' \in {"up", "stopping", "stopped"}
        /\ registered' \in BOOLEAN /\ alive' \in BOOLEAN
        /\ task' = task \/ task' = [pc |-> "over", send |-> None]
        /\ attempts' = attempts /\ conns' = conns
    BY <1>1 DEF Attach, MonitorCancels, Unregister, Stop, Cancel, Goto
  <2> QED BY <2>1
<1>2. CASE ConnectStep
  <2>1. /\ launch' \in {launch, "ready", "failed"}
        /\ registered' \in BOOLEAN /\ alive' \in BOOLEAN
        /\ \E pc \in {"select", "sleep", "ending", "resume", "over"} :
             task' = [pc |-> pc, send |-> None]
        /\ attempts' \in 0..MaxAttempts /\ conns' \in 0..MaxConns
    <3>1. CASE Connect  BY <3>1 DEF Connect, Connected, Goto
    <3>2. CASE Resume  BY <3>2 DEF Resume, Connected, Goto
    <3>3. CASE Probe  BY <3>3 DEF Probe, Goto
    <3>4. CASE ConnectFails \/ SleepOver \/ ResumeFails \/ End
      BY <3>4 DEF ConnectFails, SleepOver, ResumeFails, End, Goto
    <3> QED BY <1>2, <3>1, <3>2, <3>3, <3>4 DEF ConnectStep
  <2> QED BY <2>1
<1>3. CASE OnToolCall \/ OnClosed \/ SendRequest \/ SendFails
  BY <1>3, Requested DEF OnToolCall, OnClosed, SendRequest, SendFails, Goto
<1>4. CASE TakeInput
  <2>1. Head(inject) \in Inputs  BY <1>4 DEF TakeInput, InputTypes
  <2>2. task' = [pc |-> "send", send |-> Start(Head(inject))]  BY <1>4 DEF TakeInput
  <2>3. Start(Head(inject)) \in Requests  BY <2>1, Requested
  <2> QED BY <1>4, <2>2, <2>3 DEF TakeInput
<1>5. CASE Exit
  BY <1>5 DEF Exit
<1>6. CASE UNCHANGED <<launch, registered, alive, task, attempts, conns>>
  BY <1>6
<1> QED BY <1>1, <1>2, <1>3, <1>4, <1>5, <1>6, OthersLeaveTask

\* The types of the channels after a step, and their capacities.
LEMMA ChannelsTyped ==
  ASSUME Types, PositionInv, ServerInv, Next
  PROVE  ChannelTypes'
<1> USE DEF vars, launchVars, linkVars, channelVars, serverVars, trackerVars, shownVars,
            inputVars, historyVars, eventFrame
<1>1. ChannelTypes  BY DEF Types
<1>2. <<>> \in Seq(Events) /\ <<>> \in Seq(Requests) /\ Len(<<>>) = 0  OBVIOUS
<1> USE CodexAssumption DEF ChannelTypes
<1>3. CASE MonitorCancels \/ Stop \/ Connect \/ Resume \/ End
  <2>1. /\ link' \in BOOLEAN /\ pump' \in {pump, On, Off}
        /\ wire' \in {wire, <<>>} /\ inn' = <<>> /\ out' \in {out, <<>>}
    BY <1>1, <1>3 DEF MonitorCancels, Stop, Cancel, Connect, Resume, Connected, End
  <2>2. On \in [on: BOOLEAN, hold: Events \cup {None}]  BY DEF On
  <2>3. Off \in [on: BOOLEAN, hold: Events \cup {None}]  BY DEF Off
  <2>4. pump' \in [on: BOOLEAN, hold: Events \cup {None}]  BY <1>1, <2>1, <2>2, <2>3, Zenon
  <2>5. wire' \in Seq(Events) /\ inn' \in Seq(Events) /\ Len(inn') <= InCap
    <3>1. (wire' = wire \/ wire' = <<>>) /\ inn' = <<>> /\ Len(<<>>) <= InCap
      BY <1>2, <2>1
    <3> QED BY <1>1, <1>2, <3>1
  <2>6. out' \in Seq(Requests) /\ Len(out') <= OutCap
    <3>1. (out' = out \/ out' = <<>>) /\ Len(<<>>) <= OutCap  BY <1>2, <2>1
    <3> QED BY <1>1, <1>2, <3>1
  <2> QED BY <2>1, <2>4, <2>5, <2>6
<1>4. CASE EventStep
  <2>1. inn # <<>> /\ inn' = Tail(inn) /\ UNCHANGED <<link, pump, wire, out>>
    BY <1>4 DEF EventStep, OnResponse, OnTurnStarted, OnDelta, OnItemCompleted, OnToolCall,
                OnTurnCompleted, OnStatus, Received, Take
  <2>2. Tail(inn) \in Seq(Events) /\ Len(Tail(inn)) <= InCap  BY <2>1, FirstEvent
  <2> QED BY <1>1, <2>1, <2>2
<1>5. CASE SendRequest
  <2>1. /\ At("send") /\ Len(out) < OutCap /\ out' = Append(out, task.send)
        /\ UNCHANGED <<link, pump, wire, inn>>
    BY <1>5 DEF SendRequest
  <2>2. task.send \in Requests  BY <2>1 DEF Types, LaunchTypes, PositionInv
  <2>3. out' \in Seq(Requests) /\ Len(out') = Len(out) + 1  BY <1>1, <2>1, <2>2
  <2> QED BY <1>1, <2>1, <2>3
<1>6. CASE PumpReads
  <2>1. /\ wire # <<>> /\ pump' = [pump EXCEPT !.hold = Head(wire)] /\ wire' = Tail(wire)
        /\ UNCHANGED <<link, inn, out>>
    BY <1>6 DEF PumpReads
  <2>2. Head(wire) \in Events /\ Tail(wire) \in Seq(Events)  BY <1>1, <2>1
  <2> QED BY <1>1, <2>1, <2>2
<1>7. CASE PumpPuts \/ PumpSends \/ PumpExits
  <2>1. CASE PumpPuts
    <3>1. /\ pump.hold \in Events /\ inn' = Append(inn, pump.hold) /\ Len(inn) < InCap
          /\ pump' = On /\ UNCHANGED <<link, wire, out>>
      BY <1>1, <2>1 DEF PumpPuts
    <3>2. inn' \in Seq(Events) /\ Len(inn') = Len(inn) + 1  BY <1>1, <3>1
    <3> QED BY <1>1, <3>1, <3>2 DEF On
  <2>2. CASE PumpSends
    <3>1. out # <<>> /\ out' = Tail(out) /\ UNCHANGED <<link, pump, wire, inn>>
      BY <2>2 DEF PumpSends
    <3>2. out' \in Seq(Requests) /\ Len(out') = Len(out) - 1  BY <1>1, <3>1
    <3> QED BY <1>1, <3>1, <3>2
  <2>3. CASE PumpExits
    <3>1. out' = <<>> /\ wire' = <<>> /\ pump' = Off /\ UNCHANGED <<link, inn>>
      BY <2>3 DEF PumpExits
    <3> QED BY <1>1, <1>2, <3>1 DEF Off
  <2> QED BY <1>7, <2>1, <2>2, <2>3
<1>8. CASE Report
  <2>1. /\ server # Free /\ UNCHANGED <<link, pump, inn, out>>
        /\ Emit(Say(Head(server.todo), server.turn))
    BY <1>8 DEF Report
  <2>2. server.turn \in Inputs /\ server.todo \in Seq(TurnKinds) /\ server.todo # <<>>
    BY <2>1 DEF Types, ServerTypes, ServerInv
  <2>3. Say(Head(server.todo), server.turn) \in Events
    <3>1. Head(server.todo) \in TurnKinds  BY <2>2
    <3> QED BY <2>2, <3>1, SaidEvent
  <2>4. wire' \in Seq(Events)  BY <1>1, <2>1, <2>3 DEF Emit
  <2> QED BY <1>1, <2>1, <2>4
<1>9. ASSUME NEW t \in Changes, ChangeThread(t) PROVE ChannelTypes'
  <2>1. /\ UNCHANGED <<link, pump, inn, out>> /\ Emit([kind |-> "status", thread |-> t])
    BY <1>9 DEF ChangeThread
  <2>2. [kind |-> "status", thread |-> t] \in Events  BY DEF Events, StatusEvents
  <2>3. wire' \in Seq(Events)  BY <1>1, <2>1, <2>2 DEF Emit
  <2> QED BY <1>1, <2>1, <2>3
<1>10. CASE Break \/ Exit
  <2>1. link' = FALSE /\ UNCHANGED <<pump, inn, out>>
    BY <1>10 DEF Break, Exit, Broken
  <2>2. PICK n \in 0..Len(wire) : wire' = SubSeq(wire, 1, n)
    BY <1>10 DEF Break, Exit, Broken
  <2>3. SubSeq(wire, 1, n) \in Seq(Events)  BY <1>1
  <2> QED BY <1>1, <2>1, <2>2, <2>3
<1>11. CASE UNCHANGED <<link, pump, wire, inn, out>>
  BY <1>1, <1>11
<1> QED BY <1>3, <1>4, <1>5, <1>6, <1>7, <1>8, <1>9, <1>10, <1>11, OthersLeaveChannels
        DEF PumpStep

\* The script of a turn has the events of a turn in their order, and those that are due.
LEMMA ScriptInOrder ==
  ASSUME NEW script \in Scripts
  PROVE  /\ script \in Seq(TurnKinds) /\ script # <<>>
         /\ \A i, j \in DOMAIN script : i < j => Rank[script[i]] < Rank[script[j]]
         /\ \A k \in Due : \E i \in DOMAIN script : script[i] = k
<1>1. \/ script = <<"response", "started", "part1", "tool", "part2", "part3", "item", "ended">>
      \/ script = <<"response", "started", "note", "part1", "ended">>
  BY DEF Scripts
<1>2. CASE script = <<"response", "started", "part1", "tool", "part2", "part3", "item", "ended">>
  <2> DEFINE s == <<"response", "started", "part1", "tool", "part2", "part3", "item", "ended">>
  <2>1. script = s  BY <1>2
  <2>2. DOMAIN s = 1..8 /\ s \in Seq(TurnKinds) /\ s # <<>>  BY DEF TurnKinds
  <2>3. /\ s[1] = "response" /\ s[2] = "started" /\ s[3] = "part1" /\ s[4] = "tool"
        /\ s[5] = "part2" /\ s[6] = "part3" /\ s[7] = "item" /\ s[8] = "ended"
    OBVIOUS
  <2> HIDE DEF s
  <2>4. \A i \in 1..8 : Rank[s[i]] = IF i < 3 THEN i ELSE i + 1
    <3>1. \A i \in 1..8 : \/ i = 1 \/ i = 2 \/ i = 3 \/ i = 4 \/ i = 5 \/ i = 6 \/ i = 7
                          \/ i = 8
      OBVIOUS
    <3> QED BY <2>3, <3>1, Ranks
  <2>5. \A i, j \in DOMAIN s : i < j => Rank[s[i]] < Rank[s[j]]  BY <2>2, <2>4
  <2>6. \A k \in Due : \E i \in DOMAIN s : s[i] = k
    <3>1. 1 \in DOMAIN s /\ 2 \in DOMAIN s /\ 3 \in DOMAIN s  BY <2>2
    <3> QED BY <2>3, <3>1 DEF Due
  <2> QED BY <2>1, <2>2, <2>5, <2>6
<1>3. CASE script = <<"response", "started", "note", "part1", "ended">>
  <2> DEFINE s == <<"response", "started", "note", "part1", "ended">>
  <2>1. script = s  BY <1>3
  <2>2. DOMAIN s = 1..5 /\ s \in Seq(TurnKinds) /\ s # <<>>  BY DEF TurnKinds
  <2>3. /\ s[1] = "response" /\ s[2] = "started" /\ s[3] = "note" /\ s[4] = "part1"
        /\ s[5] = "ended"
    OBVIOUS
  <2> HIDE DEF s
  <2>4. \A i \in 1..5 : Rank[s[i]] = IF i < 5 THEN i ELSE 9
    <3>1. \A i \in 1..5 : i = 1 \/ i = 2 \/ i = 3 \/ i = 4 \/ i = 5  OBVIOUS
    <3> QED BY <2>3, <3>1, Ranks
  <2>5. \A i, j \in DOMAIN s : i < j => Rank[s[i]] < Rank[s[j]]  BY <2>2, <2>4
  <2>6. \A k \in Due : \E i \in DOMAIN s : s[i] = k
    <3>1. 1 \in DOMAIN s /\ 2 \in DOMAIN s /\ 4 \in DOMAIN s  BY <2>2
    <3> QED BY <2>3, <3>1 DEF Due
  <2> QED BY <2>1, <2>2, <2>5, <2>6
<1> QED BY <1>1, <1>2, <1>3

\* The buffer when a part of a message has been appended to it.
LEMMA IngestedIs ==
  ASSUME Types, NEW p \in TurnEvents
  PROVE  /\ Ingested(p) \in [parts: Seq(TurnEvents), truncated: BOOLEAN]
         /\ Len(Ingested(p).parts) <= RawCap
         /\ ~Ingested(p).truncated =>
              ~raw.truncated /\ Ingested(p).parts = Append(raw.parts, p)
<1>1. raw.parts \in Seq(TurnEvents) /\ raw.truncated \in BOOLEAN
      /\ raw = [parts |-> raw.parts, truncated |-> raw.truncated]
  BY DEF Types, TrackerTypes
<1> DEFINE parts == Append(raw.parts, p)
           over == Len(parts) - RawCap
<1>2. parts \in Seq(TurnEvents) /\ Len(parts) \in Nat  BY <1>1
<1>3. RawCap \in Nat \ {0}  BY CodexAssumption
<1>4. \/ /\ over > 0
         /\ Ingested(p) = [parts |-> SubSeq(parts, over + 1, Len(parts)), truncated |-> TRUE]
      \/ /\ ~(over > 0)
         /\ Ingested(p) = [parts |-> parts, truncated |-> raw.truncated]
  <2>1. [raw EXCEPT !.parts = parts] = [parts |-> parts, truncated |-> raw.truncated]
    BY <1>1
  <2> QED BY <2>1 DEF Ingested
<1>5. over \in Int /\ over + RawCap = Len(parts)  BY <1>2, <1>3
<1> HIDE DEF over
<1>6. CASE over > 0
  <2> DEFINE rest == SubSeq(parts, over + 1, Len(parts))
  <2>1. Ingested(p) = [parts |-> rest, truncated |-> TRUE]  BY <1>4, <1>6
  <2>2. over + 1 \in 1..Len(parts) /\ over \in Nat  BY <1>2, <1>3, <1>5, <1>6
  <2> HIDE DEF parts
  <2>3. rest \in Seq(TurnEvents) /\ Len(rest) = Len(parts) - over
    BY <1>2, <2>2
  <2> HIDE DEF rest
  <2>4. Len(rest) = RawCap  BY <1>2, <1>3, <1>5, <2>3
  <2> QED BY <1>3, <2>1, <2>3, <2>4
<1>7. CASE ~(over > 0)
  <2>1. Ingested(p) = [parts |-> parts, truncated |-> raw.truncated]  BY <1>4, <1>7
  <2>2. Len(parts) <= RawCap  BY <1>2, <1>3, <1>5, <1>7
  <2> QED BY <1>1, <1>2, <2>1, <2>2
<1> QED BY <1>6, <1>7

\* The text of a complete message.
LEMMA TextIs ==
  ASSUME NEW kind, NEW content, NEW m \in Inputs, NEW text \in Texts(kind, content, m)
  PROVE  text \in Seq(TurnEvents) /\ text # <<>> /\ Last(text).turn = m
<1>1. /\ Say("part1", m) \in TurnEvents /\ Say("part2", m) \in TurnEvents
      /\ Say("part3", m) \in TurnEvents /\ Say("note", m) \in TurnEvents
  BY DEF Say, TurnEvents, TurnKinds
<1>2. text = Whole(m) \/ text = <<Say("note", m)>>  BY DEF Texts
<1>3. CASE text = Whole(m)
  <2>1. text = <<Say("part1", m), Say("part2", m), Say("part3", m)>>  BY <1>3 DEF Whole
  <2>2. Last(text) = Say("part3", m)  BY <2>1 DEF Last
  <2> QED BY <1>1, <2>1, <2>2 DEF Say
<1>4. CASE text = <<Say("note", m)>>
  <2>1. Last(text) = Say("note", m)  BY <1>4 DEF Last
  <2> QED BY <1>1, <1>4, <2>1 DEF Say
<1> QED BY <1>2, <1>3, <1>4

\* The types of the app-server after a step; it has something to say while at a turn.
LEMMA ServerTyped ==
  ASSUME Types, ServerInv, Next
  PROVE  ServerTypes' /\ ServerInv'
<1> USE DEF vars, launchVars, linkVars, channelVars, serverVars, trackerVars, shownVars,
            inputVars, historyVars, eventFrame
<1>1. ServerTypes /\ ChannelTypes  BY DEF Types
<1>2. <<>> \in Seq(Inputs) /\ <<>> \in Seq(TurnKinds)  OBVIOUS
<1>3. Free.turn = None /\ Free.todo = <<>> /\ Free.waits = FALSE  BY DEF Free
<1>4. Free \in [turn: Inputs \cup {None}, todo: Seq(TurnKinds), waits: BOOLEAN]
  BY <1>2 DEF Free
<1> USE CodexAssumption DEF ServerTypes, ServerInv
<1>5. CASE MonitorCancels \/ Stop
  BY <1>1, <1>2, <1>3, <1>4, <1>5 DEF MonitorCancels, Stop, Cancel
<1>6. CASE PumpSends
  <2>1. /\ out # <<>> /\ UNCHANGED <<thread, changes>>
        /\ asked' = IF Head(out).kind = "start" THEN Append(asked, Head(out).turn) ELSE asked
        /\ server' = IF Head(out).kind = "answer" THEN [server EXCEPT !.waits = FALSE]
                     ELSE server
    <3>1. PumpSends  BY <1>6
    <3> QED BY <3>1 DEF PumpSends
  <2>2. Head(out) \in Requests  BY <1>1, <2>1 DEF ChannelTypes
  <2>3. asked' \in Seq(Inputs)
    <3>1. Head(out).kind = "start" => Head(out).turn \in Inputs
      BY <2>2, ARequest DEF Answer
    <3>2. asked \in Seq(Inputs)  BY <1>1
    <3> QED BY <2>1, <3>1, <3>2
  <2>4. /\ server'.turn = server.turn /\ server'.todo = server.todo
        /\ server' \in [turn: Inputs \cup {None}, todo: Seq(TurnKinds), waits: BOOLEAN]
        /\ server = Free => server' = Free
    <3>1. CASE Head(out).kind = "answer"
      <4>1. server' = [server EXCEPT !.waits = FALSE]  BY <2>1, <3>1
      <4>2. /\ server'.turn = server.turn /\ server'.todo = server.todo
            /\ server'.waits = FALSE
            /\ server' \in [turn: Inputs \cup {None}, todo: Seq(TurnKinds), waits: BOOLEAN]
        BY <1>1, <4>1
      <4>3. server = Free => server' = Free  BY <1>3, <1>4, <4>2
      <4> QED BY <4>2, <4>3
    <3>2. CASE Head(out).kind # "answer"  BY <1>1, <2>1, <3>2
    <3> QED BY <3>1, <3>2
  <2> QED BY <1>1, <2>1, <2>3, <2>4
<1>7. CASE TakeUp
  <2>1. asked # <<>> /\ asked' = Tail(asked) /\ UNCHANGED <<thread, changes>>
    BY <1>7 DEF TakeUp
  <2>2. PICK script \in Scripts :
          server' = [turn |-> Head(asked), todo |-> script, waits |-> FALSE]
    BY <1>7 DEF TakeUp
  <2>3. Head(asked) \in Inputs /\ Tail(asked) \in Seq(Inputs)  BY <1>1, <2>1
  <2>4. script \in Seq(TurnKinds) /\ script # <<>>  BY ScriptInOrder
  <2> QED BY <1>1, <2>1, <2>2, <2>3, <2>4
<1>8. CASE Report
  <2>1. /\ server # Free /\ UNCHANGED <<asked, thread, changes>>
        /\ server' = IF Tail(server.todo) = <<>> THEN Free
                     ELSE [server EXCEPT !.todo = Tail(server.todo),
                                         !.waits = Head(server.todo) = "tool" /\ link]
    BY <1>8 DEF Report
  <2>2. server.todo # <<>> /\ Tail(server.todo) \in Seq(TurnKinds)  BY <1>1, <2>1
  <2>3. CASE Tail(server.todo) = <<>>  BY <1>1, <1>3, <1>4, <2>1, <2>3
  <2>4. CASE Tail(server.todo) # <<>>
    <3>1. (Head(server.todo) = "tool" /\ link) \in BOOLEAN  OBVIOUS
    <3>2. /\ server'.turn = server.turn /\ server'.todo = Tail(server.todo)
          /\ server' \in [turn: Inputs \cup {None}, todo: Seq(TurnKinds), waits: BOOLEAN]
      BY <1>1, <2>1, <2>2, <2>4, <3>1
    <3> QED BY <1>1, <2>1, <2>2, <2>4, <3>2
  <2> QED BY <2>3, <2>4
<1>9. ASSUME NEW t \in Changes, ChangeThread(t) PROVE ServerTypes' /\ ServerInv'
  BY <1>1, <1>9 DEF ChangeThread
<1>10. CASE Break \/ Exit
  <2>1. UNCHANGED <<thread, changes>> /\ (asked' = asked \/ asked' = <<>>)
        /\ (server' = [server EXCEPT !.waits = FALSE] \/ server' = Free)
    BY <1>10 DEF Break, Exit
  <2>2. /\ server'.turn = None <=> server'.todo = <<>>
        /\ server' \in [turn: Inputs \cup {None}, todo: Seq(TurnKinds), waits: BOOLEAN]
        /\ server'.turn = None => server' = Free
    BY <1>1, <1>3, <1>4, <2>1 DEF Free
  <2> QED BY <1>1, <1>2, <2>1, <2>2
<1>11. CASE UNCHANGED <<asked, server, thread, changes>>
  BY <1>1, <1>11
<1> QED BY <1>5, <1>6, <1>7, <1>8, <1>9, <1>10, <1>11, OthersLeaveServer DEF ServerStep

\* The types of the tracker, the preview and the outcomes after a step.
LEMMA TrackerTyped ==
  ASSUME Types, Next
  PROVE  TrackerTypes'
<1> USE DEF vars, launchVars, linkVars, channelVars, serverVars, trackerVars, shownVars,
            inputVars, historyVars, eventFrame
<1>1. TrackerTypes  BY DEF Types
<1>2. <<>> \in Seq(TurnEvents)  OBVIOUS
<1> USE DEF TrackerTypes
<1>3. CASE Attach \/ MonitorCancels \/ Stop \/ Connect \/ Resume \/ End
  <2>1. /\ pending' \in {pending, {}} /\ routable' \in {routable, {}} /\ raw' \in {raw, Empty}
        /\ preview' = preview /\ status' \in {status, "Active"} /\ outcome' = outcome
    BY <1>3 DEF Attach, MonitorCancels, Stop, Cancel, Connect, Resume, Connected, End
  <2>2. Empty \in [parts: Seq(TurnEvents), truncated: BOOLEAN]  BY <1>2 DEF Empty
  <2> QED BY <1>1, <2>1, <2>2 DEF Statuses
<1>4. CASE TakeInput
  <2>1. Head(inject) \in Inputs  BY <1>4 DEF TakeInput, Types, InputTypes
  <2> QED BY <1>1, <1>4, <2>1 DEF TakeInput
<1>5. CASE OnResponse \/ OnTurnStarted \/ OnTurnCompleted \/ OnToolCall
  <2>1. Turn \in Inputs
    BY <1>5, FirstEvent DEF OnResponse, OnTurnStarted, OnTurnCompleted, OnToolCall, Received
  <2>2. /\ pending' \in {pending, pending \ {Turn}}
        /\ routable' \in {routable, routable \cup {Turn}, routable \ {Turn}}
        /\ raw' \in {raw, Empty} /\ preview' \in {preview, Hidden}
        /\ status' = status /\ outcome' = outcome
    BY <1>5 DEF OnResponse, OnTurnStarted, OnTurnCompleted, OnToolCall
  <2>3. /\ Empty \in [parts: Seq(TurnEvents), truncated: BOOLEAN]
        /\ Hidden \in [turn: Inputs \cup {None}, json: BOOLEAN] /\ ~Hidden.json
    BY <1>2 DEF Empty, Hidden
  <2> QED BY <1>1, <2>1, <2>2, <2>3
<1>6. ASSUME NEW part \in Parts, OnDelta(part) PROVE TrackerTypes'
  <2>1. /\ raw' = Ingested(Head(inn))
        /\ preview' = IF raw'.truncated THEN preview ELSE PreviewOf(raw', Turn)
        /\ UNCHANGED <<pending, routable, status, outcome>>
        /\ inn # <<>> /\ Head(inn).kind = part
    BY <1>6 DEF OnDelta, Received
  <2>2. Turn \in Inputs /\ Head(inn) \in TurnEvents  BY <2>1, FirstEvent DEF Parts
  <2>4. raw' \in [parts: Seq(TurnEvents), truncated: BOOLEAN]
    BY <1>1, <2>1, <2>2, IngestedIs
  <2>5. preview' \in [turn: Inputs \cup {None}, json: BOOLEAN]
    <3>1. ShowsJson(raw'.parts) \in BOOLEAN  BY DEF ShowsJson
    <3> QED BY <1>1, <2>1, <2>2, <3>1 DEF PreviewOf
  <2>6. preview'.turn # None \/ preview' = preview
    <3>1. Turn # None  BY <2>2, CodexAssumption
    <3> QED BY <2>1, <3>1 DEF PreviewOf
  <2> QED BY <1>1, <2>1, <2>4, <2>5, <2>6
<1>7. ASSUME NEW kind \in {"note", "item"}, OnItemCompleted(kind) PROVE TrackerTypes'
  <2>1. inn # <<>> /\ Head(inn).kind = kind /\ UNCHANGED <<pending, routable, status>>
    BY <1>7 DEF OnItemCompleted, Received
  <2>2. PICK content \in Messages :
          /\ outcome' = [outcome EXCEPT ![Turn] = OutcomeOf(content, Turn \in routable)]
          /\ preview' = preview \/ preview' = Hidden
          /\ \/ raw' = raw
             \/ \E text \in Texts(kind, content, Turn) : raw' = [raw EXCEPT !.parts = text]
    BY <1>7 DEF OnItemCompleted
  <2>3. Turn \in Inputs  BY <2>1, FirstEvent
  <2>4. OutcomeOf(content, Turn \in routable) \in Outcomes
    BY DEF OutcomeOf, Outcomes
  <2>5. Texts(kind, content, Turn) \subseteq Seq(TurnEvents)  BY <2>3, TextIs
  <2>6. raw' \in [parts: Seq(TurnEvents), truncated: BOOLEAN]  BY <1>1, <2>2, <2>5
  <2>7. Hidden \in [turn: Inputs \cup {None}, json: BOOLEAN] /\ ~Hidden.json  BY DEF Hidden
  <2> QED BY <1>1, <2>1, <2>2, <2>3, <2>4, <2>6, <2>7
<1>8. CASE OnStatus
  <2>1. /\ inn # <<>> /\ Head(inn).kind = "status"
        /\ status' = status \/ status' = StatusOf(Head(inn).thread)
        /\ UNCHANGED <<pending, routable, raw, preview, outcome>>
    BY <1>8 DEF OnStatus, Received
  <2>2. StatusOf(Head(inn).thread) \in Statuses
    BY <2>1, FirstEvent DEF StatusOf, Threads, Statuses
  <2> QED BY <1>1, <2>1, <2>2
<1>9. CASE UNCHANGED <<pending, routable, raw, preview, status, outcome>>
  BY <1>1, <1>9
<1> QED BY <1>3, <1>4, <1>5, <1>6, <1>7, <1>8, <1>9, OthersLeaveTracker DEF EventStep

\* The types of the sets of inputs after a step.
LEMMA InputsTyped ==
  ASSUME Types, PositionInv, Next
  PROVE  InputTypes'
<1> USE DEF vars, launchVars, linkVars, channelVars, serverVars, trackerVars, shownVars,
            inputVars, historyVars, eventFrame
<1>1. InputTypes  BY DEF Types
<1>2. <<>> \in Seq(Inputs) /\ Len(<<>>) = 0  OBVIOUS
<1> USE CodexAssumption DEF InputTypes
<1>3. CASE Attach \/ MonitorCancels \/ Stop \/ End
  <2>1. ToSet(inject) \subseteq Inputs  BY <1>1, InputsIn
  <2>2. /\ inject' \in {inject, <<>>} /\ accepted' = accepted /\ run' = run
        /\ lost' \in {lost, lost \cup (accepted \ run), lost \cup ToSet(inject)}
        /\ finished' = finished
        /\ crossed' \in {crossed, crossed \cup (accepted \ finished)}
        /\ intact' \in BOOLEAN /\ early' \in BOOLEAN
    BY <1>1, <1>3 DEF Attach, MonitorCancels, Stop, Cancel, End, At
  <2>3. inject' \in Seq(Inputs) /\ Len(inject') <= InjectCap
    <3>1. inject' = inject \/ inject' = <<>>  BY <2>2
    <3>2. Len(<<>>) <= InjectCap  BY <1>2
    <3> QED BY <1>1, <1>2, <3>1, <3>2
  <2>4. lost' \subseteq Inputs /\ crossed' \subseteq Inputs  BY <1>1, <2>1, <2>2
  <2> QED BY <1>1, <2>2, <2>3, <2>4
<1>4. CASE OnTurnCompleted
  <2>1. Turn \in Inputs  BY <1>4, FirstEvent DEF OnTurnCompleted, Received
  <2> QED BY <1>1, <1>4, <2>1 DEF OnTurnCompleted
<1>5. CASE OnStatus \/ TakeInput
  <2>1. CASE OnStatus  BY <1>1, <2>1 DEF OnStatus
  <2>2. CASE TakeInput
    <3>1. inject # <<>> /\ inject' = Tail(inject)
          /\ UNCHANGED <<accepted, run, lost, finished, crossed, intact, early>>
      BY <2>2 DEF TakeInput
    <3>2. inject' \in Seq(Inputs) /\ Len(inject') = Len(inject) - 1  BY <1>1, <3>1
    <3> QED BY <1>1, <3>1, <3>2
  <2> QED BY <1>5, <2>1, <2>2
<1>6. CASE SendFails
  <2>1. At("send") /\ task.send \in Requests
    BY <1>6 DEF SendFails, Types, LaunchTypes, PositionInv
  <2>2. task.send # Answer => task.send.turn \in Inputs  BY <2>1, ARequest
  <2> QED BY <1>1, <1>6, <2>2 DEF SendFails
<1>7. CASE PumpExits
  <2>1. Started(ToSet(out)) \subseteq Inputs  BY InputsAsked DEF Types, ChannelTypes
  <2> QED BY <1>1, <1>7, <2>1 DEF PumpExits
<1>8. CASE TakeUp
  <2>1. Head(asked) \in Inputs  BY <1>8 DEF TakeUp, Types, ServerTypes
  <2> QED BY <1>1, <1>8, <2>1 DEF TakeUp
<1>9. CASE \E t \in Changes : ChangeThread(t)
  BY <1>1, <1>9 DEF ChangeThread, Types, ChannelTypes
<1>10. ASSUME NEW m \in Inputs, Route(m) PROVE InputTypes'
  BY <1>1, <1>10 DEF Route
<1>11. CASE Break \/ Exit
  <2>1. ToSet(asked) \subseteq Inputs  BY InputsIn DEF Types, ServerTypes
  <2> QED BY <1>1, <1>11, <2>1 DEF Break, Exit, Broken
<1>12. CASE UNCHANGED <<inject, accepted, run, lost, finished, crossed, intact, early>>
  BY <1>1, <1>12
<1> QED BY <1>3, <1>4, <1>5, <1>6, <1>7, <1>8, <1>9, <1>10, <1>11, <1>12, OthersLeaveInputs

----------------------------------------------------------------------------
(* What the steps do to the line.                                          *)

\* The numbers of at most one thing.
LEMMA NumberOfOne ==
  ASSUME NEW S, NEW f \in [S -> Nat], NEW x \in S \cup {None}, None \notin S
  PROVE  Numbered(f, One(x)) = IF x = None THEN <<>> ELSE <<f[x]>>
<1>1. Numbered(f, <<>>) = <<>>
  <2>1. <<>> \in Seq(S)  OBVIOUS
  <2> QED BY <2>1, NumbersOf
<1>2. CASE x = None  BY <1>1, <1>2 DEF One
<1>3. CASE x # None
  <2> DEFINE s == <<>>
  <2>1. x \in S /\ One(x) = Append(s, x) /\ s \in Seq(S)  BY <1>3 DEF One
  <2> HIDE DEF s
  <2>2. Numbered(f, Append(s, x)) = Append(Numbered(f, s), f[x])  BY <2>1, NumberedLast
  <2>3. Append(<<>>, f[x]) = <<f[x]>>  OBVIOUS
  <2> QED BY <1>1, <1>3, <2>1, <2>2, <2>3 DEF s
<1> QED BY <1>2, <1>3

\* What is in a sequence of one number.
LEMMA ContentsOfOne ==
  ASSUME NEW x \in Nat
  PROVE  Contents(<<x>>) = {x} \ {0} /\ InOrder(<<x>>) /\ <<x>> \in Seq(Nat)
<1>1. Append(<<>>, x) = <<x>> /\ <<>> \in Seq(Nat)  OBVIOUS
<1>2. Contents(<<>>) = {} /\ InOrder(<<>>)  BY EmptySequence
<1>3. Before(Contents(<<>>), {x} \ {0})  BY <1>2 DEF Before
<1>4. InOrder(Append(<<>>, x)) /\ Contents(Append(<<>>, x)) = Contents(<<>>) \cup ({x} \ {0})
  BY <1>1, <1>2, <1>3, PutLast
<1> QED BY <1>1, <1>2, <1>4

\* What the pump holds and what the task is sending.
LEMMA HoldAndSending ==
  ASSUME ChannelTypes, LaunchTypes
  PROVE  /\ Hold = IF pump.hold = None THEN <<>> ELSE <<EventMark[pump.hold]>>
         /\ Sending = IF task.send = None THEN <<>> ELSE <<RequestMark[task.send]>>
<1>1. /\ EventMark \in [Events -> Nat] /\ pump.hold \in Events \cup {None} /\ None \notin Events
  BY MarkTypes, CodexAssumption DEF ChannelTypes
<1>2. /\ RequestMark \in [Requests -> Nat] /\ task.send \in Requests \cup {None}
      /\ None \notin Requests
  BY MarkTypes, CodexAssumption DEF LaunchTypes
<1>3. Hold = IF pump.hold = None THEN <<>> ELSE <<EventMark[pump.hold]>>
  BY <1>1, NumberOfOne DEF Hold
<1>4. Sending = IF task.send = None THEN <<>> ELSE <<RequestMark[task.send]>>
  BY <1>2, NumberOfOne DEF Sending
<1> QED BY <1>3, <1>4

\* The same after a step.
LEMMA HoldAndSendingNext ==
  ASSUME ChannelTypes', LaunchTypes'
  PROVE  /\ Hold' = IF pump'.hold = None THEN <<>> ELSE <<EventMark[pump'.hold]>>
         /\ Sending' = IF task'.send = None THEN <<>> ELSE <<RequestMark[task'.send]>>
<1>1. /\ EventMark \in [Events -> Nat] /\ pump'.hold \in Events \cup {None} /\ None \notin Events
  BY MarkTypes, CodexAssumption DEF ChannelTypes
<1>2. /\ RequestMark \in [Requests -> Nat] /\ task'.send \in Requests \cup {None}
      /\ None \notin Requests
  BY MarkTypes, CodexAssumption DEF LaunchTypes
<1>3. Hold' = IF pump'.hold = None THEN <<>> ELSE <<EventMark[pump'.hold]>>
  BY <1>1, NumberOfOne DEF Hold
<1>4. Sending' = IF task'.send = None THEN <<>> ELSE <<RequestMark[task'.send]>>
  BY <1>2, NumberOfOne DEF Sending
<1> QED BY <1>3, <1>4

\* A sequence without numbers.
LEMMA NothingInOrder ==
  /\ Contents(<<>>) = {} /\ InOrder(<<>>) /\ \A s : LeftOf(s, <<>>)
BY EmptySequence DEF LeftOf

\* The first of a sequence of things, and of their numbers.
LEMMA NumbersTaken ==
  ASSUME NEW S, NEW f \in [S -> Nat], NEW s \in Seq(S), s # <<>>, InOrder(Numbered(f, s))
  PROVE  /\ Head(s) \in S /\ Tail(s) \in Seq(S) /\ f[Head(s)] \in Nat
         /\ Numbered(f, s) # <<>> /\ Numbered(f, s) \in Seq(Nat)
         /\ Head(Numbered(f, s)) = f[Head(s)]
         /\ Numbered(f, Tail(s)) = Tail(Numbered(f, s))
         /\ LeftOf(Numbered(f, s), Numbered(f, Tail(s)))
         /\ \A x : x \in Contents(Numbered(f, s)) <=>
                    (x = f[Head(s)] /\ x # 0) \/ x \in Contents(Numbered(f, Tail(s)))
         /\ f[Head(s)] # 0 => Before({f[Head(s)]}, Contents(Numbered(f, Tail(s))))
<1>1. Head(s) \in S /\ Tail(s) \in Seq(S)  OBVIOUS
<1>2. f[Head(s)] \in Nat  BY <1>1
<1> DEFINE t == Numbered(f, s)
<1>3. t \in Seq(Nat) /\ t # <<>>  BY NumbersOf
<1>4. /\ Head(t) = f[Head(s)] /\ Numbered(f, Tail(s)) = Tail(t)  BY NumberedFirst
<1>5. InOrder(t)  OBVIOUS
<1> HIDE DEF t
<1>6. /\ InOrder(Tail(t)) /\ Contents(Tail(t)) \subseteq Contents(t)
      /\ Head(t) # 0 => Before({Head(t)}, Contents(Tail(t)))
  BY <1>3, <1>5, TakeFirst
<1>7. Contents(t) = ({Head(t)} \ {0}) \cup Contents(Tail(t))  BY <1>3, HeadAndTail
<1>8. LeftOf(t, Tail(t))  BY <1>6 DEF LeftOf
<1> QED BY <1>1, <1>2, <1>3, <1>4, <1>6, <1>7, <1>8 DEF t

\* The inputs that are held, and their marks.
Waiting == Contents(Asked) \cup Contents(Out) \cup Contents(Sending) \cup Contents(Inject)

\* The input of the request that is being sent.
LEMMA InputSent ==
  ASSUME NEW r \in Requests \cup {None}
  PROVE  /\ Started({r} \ {None}) \subseteq Inputs
         /\ \A m \in Inputs : m \in Started({r} \ {None}) <=>
              10 * m \in Contents(Numbered(RequestMark, One(r)))
<1> DEFINE s == One(r)
<1>1. s \in Seq(Requests) /\ ToSet(s) = {r} \ {None}  BY OneOrNone, CodexAssumption
<1> HIDE DEF s
<1>2. /\ Started(ToSet(s)) \subseteq Inputs
      /\ \A m \in Inputs : m \in Started(ToSet(s)) <=>
           10 * m \in Contents(Numbered(RequestMark, s))
  BY <1>1, InputsAsked
<1> QED BY <1>1, <1>2 DEF s

\* The inputs that are held are those that wait on the line.
LEMMA HeldAre ==
  ASSUME Types
  PROVE  Held \subseteq Inputs /\ \A m \in Inputs : m \in Held <=> 10 * m \in Waiting
<1>1. /\ inject \in Seq(Inputs) /\ task.send \in Requests \cup {None}
      /\ out \in Seq(Requests) /\ asked \in Seq(Inputs)
  BY DEF Types, InputTypes, LaunchTypes, ChannelTypes, ServerTypes
<1>2. /\ ToSet(inject) \subseteq Inputs
      /\ \A m \in Inputs : m \in ToSet(inject) <=> 10 * m \in Contents(Inject)
  BY <1>1, InputsIn DEF Inject
<1>3. /\ Started({task.send} \ {None}) \subseteq Inputs
      /\ \A m \in Inputs :
           m \in Started({task.send} \ {None}) <=> 10 * m \in Contents(Sending)
  BY <1>1, InputSent DEF Sending
<1>4. /\ Started(ToSet(out)) \subseteq Inputs
      /\ \A m \in Inputs : m \in Started(ToSet(out)) <=> 10 * m \in Contents(Out)
  BY <1>1, InputsAsked DEF Out
<1>5. /\ ToSet(asked) \subseteq Inputs
      /\ \A m \in Inputs : m \in ToSet(asked) <=> 10 * m \in Contents(Asked)
  BY <1>1, InputsIn DEF Asked
<1> QED BY <1>2, <1>3, <1>4, <1>5 DEF Held, Waiting

\* The same after a step.
LEMMA HeldAreNext ==
  ASSUME Types'
  PROVE  Held' \subseteq Inputs /\ \A m \in Inputs : m \in Held' <=> 10 * m \in Waiting'
<1>1. /\ inject' \in Seq(Inputs) /\ task'.send \in Requests \cup {None}
      /\ out' \in Seq(Requests) /\ asked' \in Seq(Inputs)
  BY DEF Types, InputTypes, LaunchTypes, ChannelTypes, ServerTypes
<1>2. /\ ToSet(inject') \subseteq Inputs
      /\ \A m \in Inputs : m \in ToSet(inject') <=> 10 * m \in Contents(Inject')
  BY <1>1, InputsIn DEF Inject
<1>3. /\ Started({task'.send} \ {None}) \subseteq Inputs
      /\ \A m \in Inputs :
           m \in Started({task'.send} \ {None}) <=> 10 * m \in Contents(Sending')
  BY <1>1, InputSent DEF Sending
<1>4. /\ Started(ToSet(out')) \subseteq Inputs
      /\ \A m \in Inputs : m \in Started(ToSet(out')) <=> 10 * m \in Contents(Out')
  BY <1>1, InputsAsked DEF Out
<1>5. /\ ToSet(asked') \subseteq Inputs
      /\ \A m \in Inputs : m \in ToSet(asked') <=> 10 * m \in Contents(Asked')
  BY <1>1, InputsIn DEF Asked
<1> QED BY <1>2, <1>3, <1>4, <1>5 DEF Held, Waiting

\* What was taken up stays so and what is lost stays lost, and only what was held comes to it.
HandedStep ==
  /\ accepted \subseteq accepted' /\ run \subseteq run' /\ lost \subseteq lost'
  /\ run' \cup lost' \subseteq run \cup lost \cup Held

\* The inputs D are no longer held.
LEMMA HeldAreHanded ==
  ASSUME Types, Types', HandedInv, accepted' = accepted, NEW D \in SUBSET Inputs,
         \A m \in Inputs : 10 * m \in Waiting <=> 10 * m \in Waiting' \/ m \in D,
         \A m \in D : 10 * m \notin Waiting',
         \/ run' = run \cup D /\ lost' = lost
         \/ run' = run /\ lost' = lost \cup D
  PROVE  HandedInv' /\ HandedStep
<1>1. /\ Held \subseteq Inputs /\ Held' \subseteq Inputs
      /\ \A m \in Inputs : m \in Held <=> m \in Held' \/ m \in D
      /\ \A m \in D : m \notin Held'
  BY HeldAre, HeldAreNext
<1>2. Held = Held' \cup D /\ Held' \cap D = {}  BY <1>1
<1> HIDE DEF Held
<1>3. HandedInv'  BY <1>2 DEF HandedInv
<1>4. HandedStep  BY <1>2 DEF HandedStep
<1> QED BY <1>3, <1>4

\* What comes before other things is not among them.
LEMMA Apart ==
  ASSUME NEW X \in SUBSET Nat, NEW Y, Before(X, Y), NEW x \in Y
  PROVE  x \notin X
<1>1. x \in X => x < x /\ x \in Nat  BY DEF Before
<1> QED BY <1>1

\* The state before a step.
Base == Types /\ PositionInv /\ ServerInv /\ LineInv /\ HandedInv

\* What every step keeps of the line and of the inputs.
LineStep == LineInv' /\ HandedInv' /\ HandedStep

\* A step that moves nothing.
Quiet ==
  /\ UNCHANGED <<link, pump, wire, inn, out, asked, server, inject, accepted, run, lost, finished>>
  /\ task'.send = task.send

\* A step that moves nothing keeps the line.
LEMMA QuietKeepsLine ==
  ASSUME Base, Quiet
  PROVE  /\ LineStep
         /\ Inn' = Inn /\ Hold' = Hold /\ Wire' = Wire /\ Todo' = Todo /\ Asked' = Asked
         /\ Out' = Out /\ Sending' = Sending /\ Inject' = Inject
<1>1. /\ Inn' = Inn /\ Hold' = Hold /\ Wire' = Wire /\ Todo' = Todo /\ Asked' = Asked
      /\ Out' = Out /\ Sending' = Sending /\ Inject' = Inject
  BY DEF Quiet, Inn, Hold, Wire, Todo, Asked, Out, Sending, Inject
<1>2. Line' = Line  BY <1>1 DEF Line
<1>3. LineInv'  BY <1>2 DEF Base, LineInv, InLine, OnLine, Quiet
<1>4. Held' = Held  BY DEF Held, Quiet
<1>5. HandedInv' /\ HandedStep  BY <1>4 DEF Base, HandedInv, HandedStep, Quiet
<1> QED BY <1>1, <1>3, <1>5 DEF LineStep

\* What is held stays held, and nothing new comes onto the line.
LEMMA HeldStay ==
  ASSUME Base, Types', InLine(8, Line)', OnLine' \subseteq OnLine, Waiting' = Waiting,
         UNCHANGED <<accepted, run, lost, finished>>
  PROVE  LineStep
<1>1. LineInv'  BY LineIsKept DEF Base
<1>2. HandedInv' /\ HandedStep
  <2>1. /\ run' = run \cup {} /\ lost' = lost /\ accepted' = accepted
        /\ {} \in SUBSET Inputs /\ Types /\ HandedInv
    BY DEF Base
  <2> QED BY <2>1, HeldAreHanded
<1> QED BY <1>1, <1>2 DEF LineStep

\* The token is cancelled.
LEMMA CancelEmptiesLine ==
  ASSUME Base, Types', Cancel
  PROVE  /\ LineStep
         /\ Inn' = <<>> /\ Hold' = <<>> /\ Wire' = <<>> /\ Todo' = <<>> /\ Asked' = <<>>
         /\ Out' = <<>> /\ Sending' = <<>> /\ Inject' = <<>>
<1>1. /\ inn' = <<>> /\ pump' = Off /\ wire' = <<>> /\ server' = Free /\ asked' = <<>>
      /\ out' = <<>> /\ task'.send = None /\ inject' = <<>>
      /\ accepted' = accepted /\ run' = run /\ lost' = lost \cup (accepted \ run)
      /\ finished' = finished
  BY DEF Cancel, Goto
<1>2. /\ Inn' = <<>> /\ Wire' = <<>> /\ Asked' = <<>> /\ Out' = <<>> /\ Inject' = <<>>
  <2>1. \A f : Numbered(f, <<>>) = <<>>  BY DEF Numbered
  <2> QED BY <1>1, <2>1 DEF Inn, Wire, Asked, Out, Inject
<1>3. Hold' = <<>> /\ Sending' = <<>>
  BY <1>1, HoldAndSendingNext DEF Types, Off
<1>4. Todo' = <<>>  BY <1>1 DEF Todo, Free
<1>5. Shrinks  BY <1>2, <1>3, <1>4, NothingInOrder DEF Shrinks
<1>6. InLine(8, Line)' /\ OnLine' \subseteq OnLine  BY <1>5, LineIsLeft DEF Base, LineInv
<1>7. LineInv'  BY <1>1, <1>6, LineIsKept DEF Base
<1>8. Waiting' = {}  BY <1>2, <1>3, NothingInOrder DEF Waiting
<1>9. HandedInv' /\ HandedStep
  <2>1. Held' = {}  BY <1>8, HeldAreNext
  <2>2. HandedInv  BY DEF Base
  <2> HIDE DEF Held
  <2> QED BY <1>1, <2>1, <2>2 DEF HandedInv, HandedStep
<1> QED BY <1>2, <1>3, <1>4, <1>7, <1>9 DEF LineStep

\* A connection begins: its channels are empty, and those of the last one were.
LEMMA ConnectedLine ==
  ASSUME Base, Types', Connected, ~pump.on, ~At("send"),
         UNCHANGED <<asked, server, inject, accepted, run, lost, finished>>
  PROVE  /\ LineStep
         /\ Contents(Inn)' = {} /\ Contents(Hold)' = {} /\ Contents(Wire)' = {}
         /\ Todo' = Todo /\ Asked' = Asked /\ Out' = Out /\ Sending' = Sending
<1>1. /\ inn' = <<>> /\ pump' = On /\ wire' = <<>> /\ out' = <<>> /\ task'.send = None
  BY DEF Connected, Goto
<1>2. out = <<>> /\ task.send = None  BY DEF Base, PositionInv
<1>3. Inn' = <<>> /\ Wire' = <<>> /\ Out' = <<>> /\ Out = <<>>
  <2>1. \A f : Numbered(f, <<>>) = <<>>  BY DEF Numbered
  <2> QED BY <1>1, <1>2, <2>1 DEF Inn, Wire, Out
<1>4. Hold' = <<>> /\ Sending' = <<>> /\ Sending = <<>>
  BY <1>1, <1>2, HoldAndSendingNext, HoldAndSending DEF Base, Types, On
<1>5. Todo' = Todo /\ Asked' = Asked /\ Inject' = Inject
  BY DEF Todo, Asked, Inject
<1>6. InLine(8, Line)  BY DEF Base, LineInv
<1>7. Shrinks  BY <1>3, <1>4, <1>5, <1>6, NothingInOrder, Orders DEF Shrinks
<1>8. InLine(8, Line)' /\ OnLine' \subseteq OnLine  BY <1>6, <1>7, LineIsLeft
<1>9. Waiting' = Waiting  BY <1>3, <1>4, <1>5 DEF Waiting
<1>10. LineStep  BY <1>8, <1>9, HeldStay
<1> QED BY <1>3, <1>4, <1>5, <1>10, NothingInOrder

\* The session ends.
LEMMA EndsLine ==
  ASSUME Base, Types', End
  PROVE  /\ LineStep
         /\ Inn' = <<>> /\ Hold' = <<>> /\ Wire' = <<>>
         /\ Todo' = Todo /\ Asked' = Asked /\ Out' = Out /\ Sending' = Sending
<1>1. /\ ~pump.on /\ wire = <<>> /\ pump.hold = None /\ task.send = None
      /\ inn' = <<>> /\ pump' = pump /\ wire' = wire /\ server' = server /\ asked' = asked
      /\ out' = out /\ task'.send = None /\ inject' = <<>>
      /\ accepted' = accepted /\ run' = run /\ lost' = lost \cup ToSet(inject)
      /\ finished' = finished
  BY DEF End, Goto, At, Base, PositionInv, serverVars, historyVars
<1>2. Inn' = <<>> /\ Wire' = <<>> /\ Inject' = <<>> /\ Wire = <<>>
  <2>1. \A f : Numbered(f, <<>>) = <<>>  BY DEF Numbered
  <2> QED BY <1>1, <2>1 DEF Inn, Wire, Inject
<1>3. Hold' = <<>> /\ Sending' = <<>> /\ Hold = <<>> /\ Sending = <<>>
  BY <1>1, HoldAndSendingNext, HoldAndSending DEF Base, Types
<1>4. Todo' = Todo /\ Asked' = Asked /\ Out' = Out
  BY <1>1 DEF Todo, Asked, Out
<1>5. InLine(8, Line)  BY DEF Base, LineInv
<1>6. Shrinks  BY <1>2, <1>3, <1>4, <1>5, NothingInOrder, Orders DEF Shrinks
<1>7. InLine(8, Line)' /\ OnLine' \subseteq OnLine  BY <1>5, <1>6, LineIsLeft
<1>8. LineInv'  BY <1>1, <1>7, LineIsKept DEF Base
<1>9. HandedInv' /\ HandedStep
  <2> DEFINE D == ToSet(inject)
  <2>1. /\ D \subseteq Inputs /\ \A m \in Inputs : m \in D <=> 10 * m \in Contents(Inject)
    BY InputsIn DEF Base, Types, InputTypes, Inject
  <2>2. Waiting = Waiting' \cup Contents(Inject)
    BY <1>2, <1>3, <1>4, NothingInOrder DEF Waiting
  <2>3. \A x \in Contents(Inject) : x \notin Waiting'
    <3>1. Waiting' = Contents(Asked) \cup Contents(Out)
      BY <1>2, <1>3, <1>4, NothingInOrder DEF Waiting
    <3>2. /\ Before(Contents(Asked), Contents(Inject)) /\ Before(Contents(Out), Contents(Inject))
      BY <1>5, PartsInOrder DEF Before
    <3>4. Contents(Asked) \subseteq Nat /\ Contents(Out) \subseteq Nat
      BY LineTypes DEF Base, Types, Contents
    <3> QED BY <3>1, <3>2, <3>4, Apart
  <2> HIDE DEF D
  <2>4. /\ \A m \in Inputs : 10 * m \in Waiting <=> 10 * m \in Waiting' \/ m \in D
        /\ \A m \in D : 10 * m \notin Waiting'
    BY <2>1, <2>2, <2>3
  <2>5. lost' = lost \cup D /\ run' = run /\ accepted' = accepted  BY <1>1 DEF D
  <2>6. Types /\ HandedInv /\ D \in SUBSET Inputs  BY <2>1 DEF Base
  <2> QED BY <2>4, <2>5, <2>6, HeldAreHanded
<1> QED BY <1>2, <1>3, <1>4, <1>8, <1>9 DEF LineStep

\* An event is taken from the channel.
Taken ==
  /\ At("select") /\ inn # <<>> /\ inn' = Tail(inn)
  /\ UNCHANGED <<link, pump, wire, out, server, asked, inject, accepted, run, lost, crossed>>
  /\ task'.send \in {None, Answer}
  /\ \/ finished' = finished
     \/ Head(inn).kind = "ended" /\ finished' = finished \cup {Turn}

\* An event the task handles is taken from the line, and no more.
LEMMA EventsAreTaken ==
  ASSUME EventStep, Base
  PROVE  Taken
<1>1. /\ At("select") /\ inn # <<>> /\ inn' = Tail(inn)
      /\ UNCHANGED <<link, pump, wire, out, server, asked, inject, accepted, run, lost, crossed>>
  BY DEF EventStep, OnResponse, OnTurnStarted, OnDelta, OnItemCompleted, OnToolCall,
         OnTurnCompleted, OnStatus, Received, Take, eventFrame, serverVars, inputVars
<1>2. task.send = None  BY <1>1 DEF Base, PositionInv, At
<1>3. task'.send = None \/ task'.send = Answer
  BY <1>2 DEF EventStep, OnResponse, OnTurnStarted, OnDelta, OnItemCompleted, OnToolCall,
         OnTurnCompleted, OnStatus, Received, Take, eventFrame
<1>4. \/ finished' = finished
      \/ Head(inn).kind = "ended" /\ finished' = finished \cup {Turn}
  BY DEF EventStep, OnResponse, OnTurnStarted, OnDelta, OnItemCompleted, OnToolCall,
         OnTurnCompleted, OnStatus, Received, Take, eventFrame
<1> QED BY <1>1, <1>3, <1>4 DEF Taken

\* The mark of the event that is taken is the least on the line.
LEMMA TakenLine ==
  ASSUME Base, Types', Taken
  PROVE  /\ LineStep
         /\ EventMark[Head(inn)] \in Nat
         /\ \A x : x \in Contents(Inn) <=>
                    \/ x = EventMark[Head(inn)] /\ x # 0
                    \/ x \in Contents(Inn)'
         /\ Hold' = Hold /\ Wire' = Wire /\ Todo' = Todo /\ Asked' = Asked /\ Out' = Out
         /\ Contents(Sending) = {} /\ Contents(Sending)' = {}
         /\ EventMark[Head(inn)] # 0 =>
              /\ EventMark[Head(inn)] \in OnLine
              /\ \A x \in OnLine' : EventMark[Head(inn)] < x
<1> DEFINE h == EventMark[Head(inn)]
<1>1. task.send = None  BY DEF Taken, Base, PositionInv, At
<1>2. InLine(8, Line)  BY DEF Base, LineInv
<1>3. /\ h \in Nat
      /\ LeftOf(Inn, Numbered(EventMark, Tail(inn)))
      /\ \A x : x \in Contents(Inn) <=>
                 \/ x = h /\ x # 0
                 \/ x \in Contents(Numbered(EventMark, Tail(inn)))
      /\ h # 0 => Before({h}, Contents(Numbered(EventMark, Tail(inn))))
  <2>1. inn \in Seq(Events) /\ EventMark \in [Events -> Nat]
    BY MarkTypes DEF Base, Types, ChannelTypes
  <2>2. InOrder(Numbered(EventMark, inn))  BY <1>2, Orders DEF Inn
  <2>3. inn # <<>>  BY DEF Taken
  <2>4. EventMark[Head(inn)] \in Nat  BY <2>1, <2>3
  <2>5. LeftOf(Numbered(EventMark, inn), Numbered(EventMark, Tail(inn)))
    BY <2>1, <2>2, <2>3, NumbersTaken
  <2>6. \A x : x \in Contents(Numbered(EventMark, inn)) <=>
                 \/ x = EventMark[Head(inn)] /\ x # 0
                 \/ x \in Contents(Numbered(EventMark, Tail(inn)))
    BY <2>1, <2>2, <2>3, NumbersTaken
  <2>7. EventMark[Head(inn)] # 0 =>
          Before({EventMark[Head(inn)]}, Contents(Numbered(EventMark, Tail(inn))))
    BY <2>1, <2>2, <2>3, NumbersTaken
  <2> QED BY <2>4, <2>5, <2>6, <2>7 DEF Inn
<1>4. Inn' = Numbered(EventMark, Tail(inn))  BY DEF Inn, Taken
<1>5. /\ Hold' = Hold /\ Wire' = Wire /\ Todo' = Todo /\ Asked' = Asked /\ Out' = Out
      /\ Inject' = Inject
  BY DEF Taken, Hold, Wire, Todo, Asked, Out, Inject
<1>6. Sending = <<>> /\ Contents(Sending)' = {} /\ InOrder(Sending)'
  <2>1. Sending = <<>>  BY <1>1, HoldAndSending DEF Base, Types
  <2>2. CASE task'.send = None
    <3>1. Sending' = <<>>  BY <2>2, HoldAndSendingNext DEF Types
    <3> QED BY <2>1, <3>1, NothingInOrder
  <2>3. CASE task'.send = Answer
    <3>1. Sending' = <<0>>  BY <2>3, Requested, HoldAndSendingNext DEF Types
    <3>2. Contents(<<0>>) = {} /\ InOrder(<<0>>)  BY ContentsOfOne
    <3> QED BY <2>1, <3>1, <3>2
  <2> QED BY <2>2, <2>3 DEF Taken
<1> HIDE DEF h
<1>7. Shrinks
  <2>1. LeftOf(Sending, Sending')  BY <1>6 DEF LeftOf
  <2> QED BY <1>2, <1>3, <1>4, <1>5, <2>1, Orders DEF Shrinks
<1>8. InLine(8, Line)' /\ OnLine' \subseteq OnLine  BY <1>2, <1>7, LineIsLeft
<1>9. ASSUME h # 0 PROVE h \in OnLine /\ \A x \in OnLine' : h < x
  <2>1. h \in Contents(Inn)  BY <1>3, <1>9
  <2>2. h \in OnLine  BY <2>1, OnLineIs
  <2>3. ASSUME NEW x \in OnLine' PROVE h < x
    <3>1. \/ x \in Contents(Inn)'
          \/ x \in Contents(Hold) \cup Contents(Wire) \cup Contents(Todo) \cup Contents(Asked)
                     \cup Contents(Out) \cup Contents(Sending) \cup Contents(Inject)
      BY <1>5, <1>6, <2>3, OnLineIs
    <3>2. CASE x \in Contents(Inn)'  BY <1>3, <1>4, <1>9, <3>2 DEF Before
    <3>3. CASE x \notin Contents(Inn)'  BY <1>2, <2>1, <3>1, <3>3, PartsInOrder DEF Before
    <3> QED BY <3>2, <3>3
  <2> QED BY <2>2, <2>3
<1>10. Waiting' = Waiting  BY <1>5, <1>6, NothingInOrder DEF Waiting
<1>11. LineStep
  <2>1. CASE finished' = finished  BY <1>8, <1>10, <2>1, HeldStay DEF Taken
  <2>2. CASE Head(inn).kind = "ended" /\ finished' = finished \cup {Turn}
    <3>1. Turn \in Inputs /\ h = Mark("ended", Turn)
      <4>1. Head(inn) \in Events  BY FirstEvent DEF Base, Taken
      <4> QED BY <2>2, <4>1, AnEvent DEF Turn, h
    <3>2. h = 10 * Turn + 9 /\ Turn \in Nat \ {0}
      BY <3>1, Ranks, CodexAssumption DEF Mark, Inputs
    <3>3. LineInv'
      <4>1. Turn \in accepted  BY <1>9, <3>1, <3>2 DEF Base, LineInv
      <4>2. \A m \in Inputs, i \in 0..9 : 10 * m + i \in OnLine' => m # Turn
        <5>1. \A m \in Inputs : m \in Nat  BY CodexAssumption DEF Inputs
        <5> QED BY <1>9, <3>2, <5>1
      <4> HIDE DEF Turn
      <4>3. accepted' = accepted /\ LineInv  BY DEF Taken, Base
      <4>4. \A m \in Inputs, i \in 0..9 :
              10 * m + i \in OnLine' => m \in accepted' /\ m \notin finished'
        BY <1>8, <2>2, <4>2, <4>3 DEF LineInv
      <4>5. finished' \subseteq accepted'  BY <2>2, <4>1, <4>3 DEF LineInv
      <4>6. \A m \in accepted' : \A n \in 1..(m - 1) : n \in accepted'  BY <4>3 DEF LineInv
      <4> QED BY <1>8, <4>4, <4>5, <4>6 DEF LineInv
    <3>4. HandedInv' /\ HandedStep
      <4>1. /\ run' = run \cup {} /\ lost' = lost /\ accepted' = accepted
            /\ {} \in SUBSET Inputs /\ Types /\ HandedInv
        BY DEF Base, Taken
      <4> QED BY <1>10, <4>1, HeldAreHanded
    <3> QED BY <3>3, <3>4 DEF LineStep
  <2> QED BY <2>1, <2>2 DEF Taken
<1>12. Contents(Inn)' = Contents(Numbered(EventMark, Tail(inn)))  BY <1>4
<1> QED BY <1>3, <1>5, <1>6, <1>9, <1>11, <1>12, NothingInOrder DEF h

\* The head of one sequence becomes the last of another.
LEMMA HeadMoves ==
  ASSUME NEW s \in Seq(Nat), NEW t \in Seq(Nat), s # <<>>
  PROVE  Contents(Tail(s)) \cup Contents(Append(t, Head(s))) = Contents(s) \cup Contents(t)
<1>1. Head(s) \in Nat  OBVIOUS
<1>2. Contents(s) = ({Head(s)} \ {0}) \cup Contents(Tail(s))  BY HeadAndTail
<1>3. Contents(Append(t, Head(s))) = Contents(t) \cup ({Head(s)} \ {0})
  BY <1>1, ContentsAndLast
<1> QED BY <1>2, <1>3

\* Something moves on, and is held as before.
LEMMA MoveKeepsLine ==
  ASSUME Base, Types', NEW a \in 1..8, NEW b \in 1..8, MovesOn(8, Line, Line', a, b),
         Waiting' = Waiting, UNCHANGED <<accepted, run, lost, finished>>
  PROVE  LineStep
<1>1. InLine(8, Line) /\ Numbers(8, Line)  BY LineHasNumbers DEF Base, LineInv
<1>2. InLine(8, Line)' /\ OnLine' \subseteq OnLine  BY <1>1, LineIsMoved
<1> QED BY <1>2, HeldStay

\* The numbers of a sequence when the first is taken and when one is put behind the last.
LEMMA NumbersMove ==
  ASSUME NEW S, NEW f \in [S -> Nat], NEW s \in Seq(S)
  PROVE  /\ s # <<>> => /\ Numbered(f, s) # <<>> /\ Head(Numbered(f, s)) = f[Head(s)]
                        /\ Numbered(f, Tail(s)) = Tail(Numbered(f, s))
         /\ \A x \in S : Numbered(f, Append(s, x)) = Append(Numbered(f, s), f[x])
BY NumberedFirst, NumberedLast

\* An event goes from the head of one channel to the end of another.
LEMMA EventsMove ==
  ASSUME NEW s \in Seq(Events)
  PROVE  /\ s # <<>> => /\ Numbered(EventMark, s) # <<>>
                        /\ Head(Numbered(EventMark, s)) = EventMark[Head(s)]
                        /\ Numbered(EventMark, Tail(s)) = Tail(Numbered(EventMark, s))
         /\ \A x \in Events : Numbered(EventMark, Append(s, x)) =
                                Append(Numbered(EventMark, s), EventMark[x])
BY NumbersMove, MarkTypes

\* So does a request.
LEMMA RequestsMove ==
  ASSUME NEW s \in Seq(Requests)
  PROVE  /\ s # <<>> => /\ Numbered(RequestMark, s) # <<>>
                        /\ Head(Numbered(RequestMark, s)) = RequestMark[Head(s)]
                        /\ Numbered(RequestMark, Tail(s)) = Tail(Numbered(RequestMark, s))
         /\ \A x \in Requests : Numbered(RequestMark, Append(s, x)) =
                                Append(Numbered(RequestMark, s), RequestMark[x])
BY NumbersMove, MarkTypes

\* So does an input.
LEMMA InputsMove ==
  ASSUME NEW s \in Seq(Inputs)
  PROVE  /\ s # <<>> => /\ Numbered(InputMark, s) # <<>>
                        /\ Head(Numbered(InputMark, s)) = InputMark[Head(s)]
                        /\ Numbered(InputMark, Tail(s)) = Tail(Numbered(InputMark, s))
         /\ \A x \in Inputs : /\ InputMark[x] = 10 * x
                              /\ Numbered(InputMark, Append(s, x)) =
                                   Append(Numbered(InputMark, s), InputMark[x])
<1>1. \A x \in Inputs : InputMark[x] = 10 * x  BY DEF InputMark
<1> QED BY <1>1, NumbersMove, MarkTypes

\* A single thing is the head of its sequence.
LEMMA AloneIs ==
  ASSUME NEW x
  PROVE  <<x>> # <<>> /\ Head(<<x>>) = x /\ Tail(<<x>>) = <<>> /\ Append(<<>>, x) = <<x>>
OBVIOUS

\* The task takes an input from the inject channel.
LEMMA TakeInputLine ==
  ASSUME Base, Types', TakeInput
  PROVE  /\ LineStep
         /\ Inn' = Inn /\ Hold' = Hold /\ Wire' = Wire /\ Todo' = Todo /\ Asked' = Asked
         /\ Out' = Out
         /\ Contents(Sending) = {} /\ Contents(Sending)' = {10 * Head(inject)}
         /\ Head(inject) \in Inputs
<1>1. /\ At("select") /\ inject # <<>> /\ inject' = Tail(inject)
      /\ task'.send = Start(Head(inject))
      /\ UNCHANGED <<pump, wire, inn, out, asked, server, accepted, run, lost, finished>>
  BY DEF TakeInput, linkVars, channelVars, serverVars, historyVars
<1>2. Inn' = Inn /\ Hold' = Hold /\ Wire' = Wire /\ Todo' = Todo /\ Asked' = Asked /\ Out' = Out
  BY <1>1 DEF Inn, Hold, Wire, Todo, Asked, Out
<1>3. inject \in Seq(Inputs) /\ Head(inject) \in Inputs
  BY <1>1 DEF Base, Types, InputTypes
<1>4. /\ Inject # <<>> /\ Inject' = Tail(Inject) /\ Head(Inject) = 10 * Head(inject)
  BY <1>1, <1>3, InputsMove DEF Inject
<1>5. Sending = <<>>
  BY <1>1, HoldAndSending DEF Base, Types, PositionInv, At
<1>6. Sending' = <<10 * Head(inject)>>
  BY <1>1, <1>3, HoldAndSendingNext, Requested DEF Types
<1>7. Sending' = Append(Sending, Head(Inject))  BY <1>4, <1>5, <1>6, AloneIs
<1>8. MovesOn(8, Line, Line', 8, 7)  BY <1>2, <1>4, <1>7, LineFields DEF MovesOn
<1>9. Inject \in Seq(Nat) /\ Sending \in Seq(Nat)  BY LineTypes DEF Base, Types
<1>10. Contents(Inject)' \cup Contents(Sending)' = Contents(Inject) \cup Contents(Sending)
  BY <1>4, <1>7, <1>9, HeadMoves
<1>11. Waiting' = Waiting  BY <1>2, <1>10 DEF Waiting
<1>12. LineStep
  <2>1. 8 \in 1..8 /\ 7 \in 1..8  OBVIOUS
  <2> QED BY <1>1, <1>8, <1>11, <2>1, MoveKeepsLine
<1>13. Contents(Sending) = {} /\ Contents(Sending)' = {10 * Head(inject)}
  <2>1. 10 * Head(inject) \in Nat \ {0}  BY <1>3, CodexAssumption DEF Inputs
  <2>2. Contents(<<10 * Head(inject)>>) = {10 * Head(inject)}  BY <2>1, ContentsOfOne
  <2> QED BY <1>5, <1>6, <2>2, NothingInOrder
<1> QED BY <1>2, <1>3, <1>12, <1>13

\* The request is put into the channel to the pump.
LEMMA SendRequestLine ==
  ASSUME Base, Types', SendRequest
  PROVE  /\ LineStep
         /\ Inn' = Inn /\ Hold' = Hold /\ Wire' = Wire /\ Todo' = Todo /\ Asked' = Asked
         /\ Asking' = Asking
<1>1. /\ At("send") /\ task.send # None /\ out' = Append(out, task.send) /\ task'.send = None
      /\ UNCHANGED <<pump, wire, inn, asked, server, inject, accepted, run, lost, finished>>
  BY DEF SendRequest, Goto, Base, PositionInv, serverVars, inputVars, historyVars
<1>2. /\ Inn' = Inn /\ Hold' = Hold /\ Wire' = Wire /\ Todo' = Todo /\ Asked' = Asked
      /\ Inject' = Inject
  BY <1>1 DEF Inn, Hold, Wire, Todo, Asked, Inject
<1>3. out \in Seq(Requests) /\ task.send \in Requests
  BY <1>1 DEF Base, Types, ChannelTypes, LaunchTypes
<1>4. Sending = <<RequestMark[task.send]>>  BY <1>1, HoldAndSending DEF Base, Types
<1>5. Sending' = <<>>  BY <1>1, HoldAndSendingNext DEF Types
<1>6. Out' = Append(Out, RequestMark[task.send])  BY <1>1, <1>3, RequestsMove DEF Out
<1>7. /\ Sending # <<>> /\ Sending' = Tail(Sending) /\ Out' = Append(Out, Head(Sending))
  BY <1>4, <1>5, <1>6, AloneIs
<1>8. MovesOn(8, Line, Line', 7, 6)  BY <1>2, <1>7, LineFields DEF MovesOn
<1>9. Out \in Seq(Nat) /\ Sending \in Seq(Nat)  BY LineTypes DEF Base, Types
<1>10. Contents(Sending)' \cup Contents(Out)' = Contents(Sending) \cup Contents(Out)
  BY <1>7, <1>9, HeadMoves
<1>11. Waiting' = Waiting /\ Asking' = Asking  BY <1>2, <1>10 DEF Waiting, Asking
<1>12. LineStep
  <2>1. 7 \in 1..8 /\ 6 \in 1..8  OBVIOUS
  <2> QED BY <1>1, <1>8, <1>11, <2>1, MoveKeepsLine
<1> QED BY <1>2, <1>11, <1>12

\* The pump reads an event from the socket.
LEMMA PumpReadsLine ==
  ASSUME Base, Types', PumpReads
  PROVE  /\ LineStep
         /\ Inn' = Inn /\ Todo' = Todo /\ Asked' = Asked /\ Out' = Out /\ Sending' = Sending
         /\ Contents(Wire)' \cup Contents(Hold)' = Contents(Wire) \cup Contents(Hold)
<1>1. /\ pump.hold = None /\ wire # <<>> /\ pump' = [pump EXCEPT !.hold = Head(wire)]
      /\ wire' = Tail(wire)
      /\ UNCHANGED <<task, inn, out, asked, server, inject, accepted, run, lost, finished>>
  BY DEF PumpReads, serverVars, inputVars, historyVars
<1>2. /\ Inn' = Inn /\ Todo' = Todo /\ Asked' = Asked /\ Out' = Out /\ Sending' = Sending
      /\ Inject' = Inject
  BY <1>1 DEF Inn, Todo, Asked, Out, Sending, Inject
<1>3. wire \in Seq(Events) /\ Head(wire) \in Events /\ pump'.hold = Head(wire)
  BY <1>1 DEF Base, Types, ChannelTypes
<1>4. Wire # <<>> /\ Wire' = Tail(Wire) /\ Head(Wire) = EventMark[Head(wire)]
  BY <1>1, <1>3, EventsMove DEF Wire
<1>5. Hold = <<>>  BY <1>1, HoldAndSending DEF Base, Types
<1>6. Hold' = <<EventMark[Head(wire)]>>
  BY <1>3, CodexAssumption, HoldAndSendingNext DEF Types
<1>7. Hold' = Append(Hold, Head(Wire))  BY <1>4, <1>5, <1>6, AloneIs
<1>8. MovesOn(8, Line, Line', 3, 2)  BY <1>2, <1>4, <1>7, LineFields DEF MovesOn
<1>9. Wire \in Seq(Nat) /\ Hold \in Seq(Nat)  BY LineTypes DEF Base, Types
<1>10. Contents(Wire)' \cup Contents(Hold)' = Contents(Wire) \cup Contents(Hold)
  BY <1>4, <1>7, <1>9, HeadMoves
<1>11. Waiting' = Waiting  BY <1>2 DEF Waiting
<1>12. LineStep
  <2>1. 3 \in 1..8 /\ 2 \in 1..8  OBVIOUS
  <2> QED BY <1>1, <1>8, <1>11, <2>1, MoveKeepsLine
<1> QED BY <1>2, <1>10, <1>12

\* The pump puts it into the channel to the task.
LEMMA PumpPutsLine ==
  ASSUME Base, Types', PumpPuts
  PROVE  /\ LineStep
         /\ Wire' = Wire /\ Todo' = Todo /\ Asked' = Asked /\ Out' = Out /\ Sending' = Sending
         /\ Contents(Hold)' \cup Contents(Inn)' = Contents(Hold) \cup Contents(Inn)
<1>1. /\ pump.hold # None /\ inn' = Append(inn, pump.hold) /\ pump' = On
      /\ UNCHANGED <<task, wire, out, asked, server, inject, accepted, run, lost, finished>>
  BY DEF PumpPuts, serverVars, inputVars, historyVars
<1>2. /\ Wire' = Wire /\ Todo' = Todo /\ Asked' = Asked /\ Out' = Out /\ Sending' = Sending
      /\ Inject' = Inject
  BY <1>1 DEF Wire, Todo, Asked, Out, Sending, Inject
<1>3. inn \in Seq(Events) /\ pump.hold \in Events /\ pump'.hold = None
  BY <1>1 DEF Base, Types, ChannelTypes, On
<1>4. Hold = <<EventMark[pump.hold]>>  BY <1>1, HoldAndSending DEF Base, Types
<1>5. Hold' = <<>>  BY <1>3, HoldAndSendingNext DEF Types
<1>6. Inn' = Append(Inn, EventMark[pump.hold])  BY <1>1, <1>3, EventsMove DEF Inn
<1>7. Hold # <<>> /\ Hold' = Tail(Hold) /\ Inn' = Append(Inn, Head(Hold))
  BY <1>4, <1>5, <1>6, AloneIs
<1>8. MovesOn(8, Line, Line', 2, 1)  BY <1>2, <1>7, LineFields DEF MovesOn
<1>9. Inn \in Seq(Nat) /\ Hold \in Seq(Nat)  BY LineTypes DEF Base, Types
<1>10. Contents(Hold)' \cup Contents(Inn)' = Contents(Hold) \cup Contents(Inn)
  BY <1>7, <1>9, HeadMoves
<1>11. Waiting' = Waiting  BY <1>2 DEF Waiting
<1>12. LineStep
  <2>1. 2 \in 1..8 /\ 1 \in 1..8  OBVIOUS
  <2> QED BY <1>1, <1>8, <1>11, <2>1, MoveKeepsLine
<1> QED BY <1>2, <1>10, <1>12

\* What waits for the app-server are requests for turns.
LEMMA WaitingAre ==
  ASSUME Types
  PROVE  \A x \in Waiting : \E m \in Inputs : x = 10 * m
<1>1. /\ inject \in Seq(Inputs) /\ task.send \in Requests \cup {None}
      /\ out \in Seq(Requests) /\ asked \in Seq(Inputs)
  BY DEF Types, InputTypes, LaunchTypes, ChannelTypes, ServerTypes
<1>2. One(task.send) \in Seq(Requests)  BY <1>1, OneOrNone, CodexAssumption
<1>3. ASSUME NEW s \in Seq(Inputs), NEW x \in Contents(Numbered(InputMark, s))
      PROVE  \E m \in Inputs : x = 10 * m
  <2>1. \E i \in DOMAIN s : x = InputMark[s[i]]  BY <1>3, MarkTypes, NumbersOf
  <2>2. \A i \in DOMAIN s : s[i] \in Inputs /\ InputMark[s[i]] = 10 * s[i]
    BY DEF InputMark
  <2> QED BY <2>1, <2>2
<1>4. ASSUME NEW s \in Seq(Requests), NEW x \in Contents(Numbered(RequestMark, s))
      PROVE  \E m \in Inputs : x = 10 * m
  <2>0. RequestMark \in [Requests -> Nat]  BY MarkTypes
  <2>1. x # 0 /\ \E i \in DOMAIN s : x = RequestMark[s[i]]  BY <1>4, <2>0, NumbersOf
  <2>2. \A i \in DOMAIN s : s[i] \in Requests  OBVIOUS
  <2> QED BY <2>1, <2>2, ARequest
<1> QED BY <1>1, <1>2, <1>3, <1>4 DEF Waiting, Asked, Out, Sending, Inject

\* The inputs D cease to be held, and nothing is added to the line.
LEMMA DropKeepsLine ==
  ASSUME Base, Types', Shrinks, NEW D \in SUBSET Inputs,
         \A m \in Inputs : 10 * m \in Waiting <=> 10 * m \in Waiting' \/ m \in D,
         \A m \in D : 10 * m \notin Waiting',
         \/ run' = run \cup D /\ lost' = lost
         \/ run' = run /\ lost' = lost \cup D,
         accepted' = accepted, finished' = finished
  PROVE  LineStep
<1>1. InLine(8, Line)' /\ OnLine' \subseteq OnLine  BY LineIsLeft DEF Base, LineInv
<1>2. LineInv'  BY <1>1, LineIsKept DEF Base
<1>3. HandedInv' /\ HandedStep  BY HeldAreHanded DEF Base
<1> QED BY <1>2, <1>3 DEF LineStep

\* The places of the held inputs are apart.
LEMMA WaitingApart ==
  ASSUME Base
  PROVE  /\ \A x \in Contents(Sending) :
              x \notin Contents(Asked) \cup Contents(Out) \cup Contents(Inject)
         /\ \A x \in Contents(Out) :
              x \notin Contents(Asked) \cup Contents(Sending) \cup Contents(Inject)
         /\ \A x \in Contents(Asked) :
              x \notin Contents(Out) \cup Contents(Sending) \cup Contents(Inject)
<1>1. InLine(8, Line)  BY DEF Base, LineInv
<1>2. /\ Contents(Asked) \subseteq Nat /\ Contents(Out) \subseteq Nat
      /\ Contents(Sending) \subseteq Nat
  BY LineTypes DEF Base, Types, Contents
<1>3. /\ Before(Contents(Asked), Contents(Out)) /\ Before(Contents(Asked), Contents(Sending))
      /\ Before(Contents(Asked), Contents(Inject))
      /\ Before(Contents(Out), Contents(Sending)) /\ Before(Contents(Out), Contents(Inject))
      /\ Before(Contents(Sending), Contents(Inject))
  BY <1>1, PartsInOrder DEF Before
<1>4. ASSUME NEW X \in SUBSET Nat, NEW Y, Before(X, Y)
      PROVE  (\A x \in X : x \notin Y) /\ (\A y \in Y : y \notin X)
  BY <1>4, Apart
<1> QED BY <1>2, <1>3, <1>4

\* The request cannot be sent.
LEMMA SendFailsLine ==
  ASSUME Base, Types', SendFails
  PROVE  /\ LineStep
         /\ Inn' = Inn /\ Hold' = Hold /\ Wire' = Wire /\ Todo' = Todo /\ Asked' = Asked
         /\ Out' = Out /\ Contents(Sending)' = {}
<1>1. /\ At("send") /\ task.send # None /\ task'.send = None
      /\ \/ task.send = Answer /\ lost' = lost
         \/ task.send # Answer /\ lost' = lost \cup {task.send.turn}
      /\ UNCHANGED <<pump, wire, inn, out, asked, server, inject, accepted, run, finished>>
  BY DEF SendFails, Goto, Base, PositionInv, linkVars, channelVars, serverVars, historyVars
<1>2. /\ Inn' = Inn /\ Hold' = Hold /\ Wire' = Wire /\ Todo' = Todo /\ Asked' = Asked
      /\ Out' = Out /\ Inject' = Inject
  BY <1>1 DEF Inn, Hold, Wire, Todo, Asked, Out, Inject
<1>3. Sending' = <<>>  BY <1>1, HoldAndSendingNext DEF Types
<1>4. Contents(Sending)' = {}  BY <1>3, NothingInOrder
<1>5. InLine(8, Line)  BY DEF Base, LineInv
<1>6. Shrinks  BY <1>2, <1>3, <1>5, NothingInOrder, Orders DEF Shrinks
<1>7. Sending = <<RequestMark[task.send]>> /\ task.send \in Requests
  BY <1>1, HoldAndSending DEF Base, Types, LaunchTypes
<1>8. Waiting' = Contents(Asked) \cup Contents(Out) \cup Contents(Inject)
  BY <1>2, <1>4 DEF Waiting
<1>9. LineStep
  <2>1. CASE task.send = Answer
    <3>1. Sending = <<0>>  BY <1>7, <2>1, Requested
    <3>2. Contents(Sending) = {}  BY <3>1, ContentsOfOne
    <3>3. Waiting' = Waiting  BY <1>8, <3>2 DEF Waiting
    <3>4. InLine(8, Line)' /\ OnLine' \subseteq OnLine  BY <1>5, <1>6, LineIsLeft
    <3>5. lost' = lost  BY <1>1, <2>1
    <3> QED BY <1>1, <3>3, <3>4, <3>5, HeldStay
  <2>2. CASE task.send # Answer
    <3> DEFINE m == task.send.turn
    <3>1. m \in Inputs /\ Sending = <<10 * m>>  BY <1>7, <2>2, ARequest
    <3>2. Contents(Sending) = {10 * m}
      <4>1. 10 * m \in Nat \ {0}  BY <3>1, CodexAssumption DEF Inputs
      <4> QED BY <3>1, <4>1, ContentsOfOne
    <3>3. lost' = lost \cup {m}  BY <1>1, <2>2
    <3> HIDE DEF m
    <3>4. 10 * m \notin Waiting' /\ Waiting = Waiting' \cup {10 * m}
      BY <1>8, <3>2, WaitingApart DEF Waiting
    <3>5. \A n \in Inputs : 10 * n = 10 * m <=> n = m
      BY <3>1, CodexAssumption DEF Inputs
    <3> DEFINE D == {m}
    <3>6. /\ \A n \in Inputs : 10 * n \in Waiting <=> 10 * n \in Waiting' \/ n \in D
          /\ \A n \in D : 10 * n \notin Waiting'
          /\ run' = run /\ lost' = lost \cup D /\ D \in SUBSET Inputs
      BY <1>1, <3>1, <3>3, <3>4, <3>5
    <3> HIDE DEF D
    <3> QED BY <1>1, <1>6, <3>6, DropKeepsLine
  <2> QED BY <2>1, <2>2
<1> QED BY <1>2, <1>4, <1>9

\* The pump sends a request to the app-server.
LEMMA PumpSendsLine ==
  ASSUME Base, Types', PumpSends
  PROVE  /\ LineStep
         /\ Inn' = Inn /\ Hold' = Hold /\ Wire' = Wire /\ Todo' = Todo
         /\ Asking' = Asking /\ link
<1> DEFINE r == Head(out)
<1>1. /\ link /\ out # <<>> /\ out' = Tail(out)
      /\ asked' = IF r.kind = "start" THEN Append(asked, r.turn) ELSE asked
      /\ server' = IF r.kind = "answer" THEN [server EXCEPT !.waits = FALSE] ELSE server
      /\ UNCHANGED <<pump, wire, inn, task, inject, accepted, run, lost, finished>>
  BY DEF PumpSends, inputVars, historyVars
<1>2. out \in Seq(Requests) /\ r \in Requests /\ asked \in Seq(Inputs)
  BY <1>1 DEF Base, Types, ChannelTypes, ServerTypes
<1>3. server'.turn = server.turn /\ server'.todo = server.todo
  BY <1>1 DEF Base, Types, ServerTypes
<1>4. /\ Inn' = Inn /\ Hold' = Hold /\ Wire' = Wire /\ Todo' = Todo /\ Sending' = Sending
      /\ Inject' = Inject
  BY <1>1, <1>3 DEF Inn, Hold, Wire, Todo, Sending, Inject
<1>5. Out # <<>> /\ Out' = Tail(Out) /\ Head(Out) = RequestMark[r]
  BY <1>1, <1>2, RequestsMove DEF Out
<1>6. Out \in Seq(Nat) /\ Asked \in Seq(Nat)  BY LineTypes DEF Base, Types
<1> HIDE DEF r
<1>7. CASE r = Answer
  <2>1. asked' = asked  BY <1>1, <1>7 DEF Answer
  <2>2. Asked' = Asked  BY <2>1 DEF Asked
  <2>3. InLine(8, Line)  BY DEF Base, LineInv
  <2>4. Head(Out) = 0  BY <1>5, <1>7, Requested
  <2>5. Contents(Out) = Contents(Out)'  BY <1>5, <1>6, <2>4, HeadAndTail
  <2>6. InOrder(Out)'  BY <1>5, <1>6, <2>3, Orders, TakeFirst
  <2>7. LeftOf(Out, Out')  BY <2>5, <2>6 DEF LeftOf
  <2>8. Shrinks  BY <1>4, <2>2, <2>3, <2>7, Orders DEF Shrinks
  <2>9. Waiting' = Waiting /\ Asking' = Asking  BY <1>4, <2>2, <2>5 DEF Waiting, Asking
  <2>10. InLine(8, Line)' /\ OnLine' \subseteq OnLine  BY <2>3, <2>8, LineIsLeft
  <2>11. LineStep  BY <1>1, <2>9, <2>10, HeldStay
  <2> QED BY <1>1, <1>4, <2>9, <2>11
<1>8. CASE r # Answer
  <2>1. r.kind = "start" /\ r.turn \in Inputs /\ RequestMark[r] = 10 * r.turn
    BY <1>2, <1>8, ARequest
  <2>2. Asked' = Append(Asked, Head(Out))
    BY <1>1, <1>2, <1>5, <2>1, InputsMove DEF Asked
  <2>3. MovesOn(8, Line, Line', 6, 5)  BY <1>4, <1>5, <2>2, LineFields DEF MovesOn
  <2>4. Contents(Out)' \cup Contents(Asked)' = Contents(Out) \cup Contents(Asked)
    BY <1>5, <1>6, <2>2, HeadMoves
  <2>5. Waiting' = Waiting /\ Asking' = Asking  BY <1>4, <2>4 DEF Waiting, Asking
  <2>6. 6 \in 1..8 /\ 5 \in 1..8  OBVIOUS
  <2>7. LineStep  BY <1>1, <2>3, <2>5, <2>6, MoveKeepsLine
  <2> QED BY <1>1, <1>4, <2>5, <2>7
<1> QED BY <1>7, <1>8

\* The pump exits, and its channels with it.
LEMMA PumpExitsLine ==
  ASSUME Base, Types', PumpExits
  PROVE  /\ LineStep
         /\ Inn' = Inn /\ Todo' = Todo /\ Asked' = Asked /\ Sending' = Sending
         /\ Contents(Hold)' = {} /\ Contents(Wire)' = {} /\ Contents(Out)' = {}
<1>1. /\ pump' = Off /\ wire' = <<>> /\ out' = <<>> /\ lost' = lost \cup Started(ToSet(out))
      /\ UNCHANGED <<inn, task, asked, server, inject, accepted, run, finished>>
  BY DEF PumpExits, serverVars, historyVars
<1>2. Inn' = Inn /\ Todo' = Todo /\ Asked' = Asked /\ Sending' = Sending /\ Inject' = Inject
  BY <1>1 DEF Inn, Todo, Asked, Sending, Inject
<1>3. Wire' = <<>> /\ Out' = <<>>
  <2>1. \A f : Numbered(f, <<>>) = <<>>  BY DEF Numbered
  <2> QED BY <1>1, <2>1 DEF Wire, Out
<1>4. Hold' = <<>>  BY <1>1, HoldAndSendingNext DEF Types, Off
<1>5. InLine(8, Line)  BY DEF Base, LineInv
<1>6. Shrinks  BY <1>2, <1>3, <1>4, <1>5, NothingInOrder, Orders DEF Shrinks
<1>7. Contents(Hold)' = {} /\ Contents(Wire)' = {} /\ Contents(Out)' = {}
  BY <1>3, <1>4, NothingInOrder
<1>8. LineStep
  <2> DEFINE D == Started(ToSet(out))
  <2>1. /\ D \subseteq Inputs /\ \A m \in Inputs : m \in D <=> 10 * m \in Contents(Out)
    BY InputsAsked DEF Base, Types, ChannelTypes, Out
  <2>2. lost' = lost \cup D /\ run' = run  BY <1>1
  <2> HIDE DEF D
  <2>3. /\ Waiting' = Contents(Asked) \cup Contents(Sending) \cup Contents(Inject)
        /\ Waiting = Waiting' \cup Contents(Out)
    BY <1>2, <1>7 DEF Waiting
  <2>4. \A x \in Contents(Out) : x \notin Waiting'  BY <2>3, WaitingApart
  <2>5. /\ \A m \in Inputs : 10 * m \in Waiting <=> 10 * m \in Waiting' \/ m \in D
        /\ \A m \in D : 10 * m \notin Waiting'
    BY <2>1, <2>3, <2>4
  <2> QED BY <1>1, <1>6, <2>1, <2>2, <2>5, DropKeepsLine
<1> QED BY <1>2, <1>7, <1>8

\* The app-server reports the next event of its turn.
LEMMA ReportLine ==
  ASSUME Base, Types', Report
  PROVE  /\ LineStep
         /\ Inn' = Inn /\ Hold' = Hold /\ Asked' = Asked /\ Out' = Out /\ Sending' = Sending
         /\ Todo # <<>> /\ Todo' = Tail(Todo) /\ link' = link
         /\ link => Contents(Todo)' \cup Contents(Wire)' = Contents(Todo) \cup Contents(Wire)
         /\ ~link => Wire' = Wire
<1> DEFINE k == Head(server.todo)
           rest == Tail(server.todo)
           t == server.turn
           f == TurnMark(t)
<1>1. /\ server # Free /\ link' = link
      /\ wire' = IF link THEN Append(wire, Say(k, t)) ELSE wire
      /\ server' = IF rest = <<>> THEN Free
                   ELSE [server EXCEPT !.todo = rest, !.waits = k = "tool" /\ link]
      /\ UNCHANGED <<pump, inn, out, task, asked, inject, accepted, run, lost, finished>>
  BY DEF Report, Emit, inputVars, historyVars
<1>2. t \in Inputs /\ server.todo \in Seq(TurnKinds) /\ server.todo # <<>> /\ t # None
  BY <1>1, CodexAssumption DEF Base, Types, ServerTypes, ServerInv
<1>3. k \in TurnKinds /\ rest \in Seq(TurnKinds)  BY <1>2
<1>4. \/ rest = <<>> /\ server' = Free
      \/ rest # <<>> /\ server'.turn = t /\ server'.todo = rest
  BY <1>1 DEF Base, Types, ServerTypes
<1>5. wire \in Seq(Events)  BY DEF Base, Types, ChannelTypes
<1>6. f \in [TurnKinds -> Nat] /\ f[k] = Mark(k, t)
  BY <1>2, <1>3, MarkTypes DEF TurnMark
<1>7. Say(k, t) \in Events /\ EventMark[Say(k, t)] = Mark(k, t)
  BY <1>2, <1>3, SaidEvent
<1>8. Todo = Numbered(f, server.todo)  BY <1>2 DEF Todo
<1>9. link => Wire' = Append(Wire, Mark(k, t))  BY <1>1, <1>5, <1>7, EventsMove DEF Wire
<1>10. ~link => Wire' = Wire  BY <1>1 DEF Wire
<1>11. Todo' = IF rest = <<>> THEN <<>> ELSE Numbered(f, rest)
  <2>1. CASE rest = <<>>  BY <1>4, <2>1 DEF Todo, Free
  <2>2. CASE rest # <<>>  BY <1>2, <1>4, <2>2 DEF Todo
  <2> QED BY <2>1, <2>2
<1> HIDE DEF f
<1>12. Numbered(f, <<>>) = <<>>  BY DEF Numbered
<1>13. Todo # <<>> /\ Head(Todo) = Mark(k, t) /\ Tail(Todo) = Numbered(f, rest)
  BY <1>2, <1>6, <1>8, NumbersMove
<1>14. Todo' = Tail(Todo)  BY <1>11, <1>12, <1>13
<1> HIDE DEF k, rest, t
<1>15. /\ Inn' = Inn /\ Hold' = Hold /\ Asked' = Asked /\ Out' = Out /\ Sending' = Sending
       /\ Inject' = Inject
  BY <1>1 DEF Inn, Hold, Asked, Out, Sending, Inject
<1>16. Waiting' = Waiting  BY <1>15 DEF Waiting
<1>17. Todo \in Seq(Nat) /\ Wire \in Seq(Nat)  BY LineTypes DEF Base, Types
<1>18. InLine(8, Line)  BY DEF Base, LineInv
<1>19. CASE link
  <2>1. Wire' = Append(Wire, Head(Todo))  BY <1>9, <1>13, <1>19
  <2>2. MovesOn(8, Line, Line', 4, 3)  BY <1>13, <1>14, <1>15, <2>1, LineFields DEF MovesOn
  <2>3. Contents(Todo)' \cup Contents(Wire)' = Contents(Todo) \cup Contents(Wire)
    BY <1>13, <1>14, <1>17, <2>1, HeadMoves
  <2>4. 4 \in 1..8 /\ 3 \in 1..8  OBVIOUS
  <2>5. LineStep  BY <1>1, <1>16, <2>2, <2>4, MoveKeepsLine
  <2> QED BY <1>1, <1>13, <1>14, <1>15, <1>19, <2>3, <2>5
<1>20. CASE ~link
  <2>1. LeftOf(Todo, Todo')
    BY <1>13, <1>14, <1>17, <1>18, Orders, TakeFirst DEF LeftOf
  <2>2. Shrinks  BY <1>10, <1>15, <1>18, <1>20, <2>1, Orders DEF Shrinks
  <2>3. InLine(8, Line)' /\ OnLine' \subseteq OnLine  BY <1>18, <2>2, LineIsLeft
  <2>4. LineStep  BY <1>1, <1>16, <2>3, HeldStay
  <2> QED BY <1>1, <1>10, <1>13, <1>14, <1>15, <1>20, <2>4
<1> QED BY <1>19, <1>20

\* A change of the status is reported, which is no event of a turn.
LEMMA ChangeThreadLine ==
  ASSUME Base, Types', NEW s \in Threads, ChangeThread(s)
  PROVE  /\ LineStep
         /\ Inn' = Inn /\ Hold' = Hold /\ Contents(Wire)' = Contents(Wire) /\ Todo' = Todo
         /\ Asked' = Asked /\ Out' = Out /\ Sending' = Sending
<1> DEFINE e == [kind |-> "status", thread |-> s]
<1>1. /\ wire' = IF link THEN Append(wire, e) ELSE wire
      /\ UNCHANGED <<pump, inn, out, task, asked, server, inject, accepted, run, lost, finished>>
  BY DEF ChangeThread, Emit, inputVars
<1>2. e \in Events /\ EventMark[e] = 0
  <2>1. e \in StatusEvents /\ e.kind = "status"  BY DEF StatusEvents
  <2> HIDE DEF e
  <2>2. e \in Events  BY <2>1 DEF Events
  <2> QED BY <2>1, <2>2, AnEvent
<1> HIDE DEF e
<1>3. /\ Inn' = Inn /\ Hold' = Hold /\ Todo' = Todo /\ Asked' = Asked /\ Out' = Out
      /\ Sending' = Sending /\ Inject' = Inject
  BY <1>1 DEF Inn, Hold, Todo, Asked, Out, Sending, Inject
<1>4. wire \in Seq(Events) /\ Wire \in Seq(Nat)
  BY LineTypes DEF Base, Types, ChannelTypes
<1>5. Wire' = Append(Wire, 0) \/ Wire' = Wire  BY <1>1, <1>2, <1>4, EventsMove DEF Wire
<1>6. InLine(8, Line)  BY DEF Base, LineInv
<1>7. InOrder(Wire)' /\ Contents(Wire)' = Contents(Wire)
  <2>1. CASE Wire' = Wire  BY <1>6, <2>1, Orders
  <2>2. CASE Wire' = Append(Wire, 0)
    <3>1. InOrder(Wire) /\ Before(Contents(Wire), {0} \ {0})
      BY <1>6, Orders DEF Before
    <3>2. InOrder(Append(Wire, 0)) /\ Contents(Append(Wire, 0)) = Contents(Wire) \cup ({0} \ {0})
      BY <1>4, <3>1, PutLast
    <3> QED BY <2>2, <3>2
  <2> QED BY <1>5, <2>1, <2>2
<1>8. LeftOf(Wire, Wire')  BY <1>7 DEF LeftOf
<1>9. Shrinks  BY <1>3, <1>6, <1>8, Orders DEF Shrinks
<1>10. InLine(8, Line)' /\ OnLine' \subseteq OnLine  BY <1>6, <1>9, LineIsLeft
<1>11. Waiting' = Waiting  BY <1>3 DEF Waiting
<1>12. LineStep  BY <1>1, <1>10, <1>11, HeldStay
<1> QED BY <1>3, <1>7, <1>12

\* What comes before something of a prefix is of the prefix.
LEMMA PrefixIsClosed ==
  ASSUME NEW s \in Seq(Nat), InOrder(s), NEW n \in 0..Len(s)
  PROVE  \A x \in Contents(SubSeq(s, 1, n)), y \in Contents(s) :
           y < x => y \in Contents(SubSeq(s, 1, n))
<1>1. /\ Len(SubSeq(s, 1, n)) = n /\ DOMAIN SubSeq(s, 1, n) = 1..n
      /\ \A i \in 1..n : SubSeq(s, 1, n)[i] = s[i]
  OBVIOUS
<1>2. ASSUME NEW x \in Contents(SubSeq(s, 1, n)), NEW y \in Contents(s), y < x
      PROVE  y \in Contents(SubSeq(s, 1, n))
  <2>1. PICK i \in 1..n : x = s[i] /\ x # 0  BY <1>1, <1>2 DEF Contents
  <2>2. PICK j \in DOMAIN s : y = s[j] /\ y # 0  BY <1>2 DEF Contents
  <2>3. i \in DOMAIN s /\ x \in Nat /\ y \in Nat  BY <2>1, <2>2
  <2>4. ~(i < j)  BY <1>2, <2>1, <2>2, <2>3 DEF InOrder
  <2>5. j \in 1..n  BY <2>1, <2>2, <2>3, <2>4
  <2> QED BY <1>1, <2>2, <2>5 DEF Contents
<1> QED BY <1>2

\* A connection breaks, and a prefix of what was on its way has arrived.
LEMMA BrokenWire ==
  ASSUME Base, Types', Broken
  PROVE  /\ LeftOf(Wire, Wire')
         /\ \A x \in Contents(Wire)', y \in Contents(Wire) : y < x => y \in Contents(Wire)'
<1>1. PICK n \in 0..Len(wire) : wire' = SubSeq(wire, 1, n)  BY DEF Broken
<1>2. wire \in Seq(Events) /\ Wire \in Seq(Nat)
  BY LineTypes DEF Base, Types, ChannelTypes
<1>3. Len(Wire) = Len(wire)  BY <1>2, MarkTypes, NumbersOf DEF Wire
<1>4. Wire' = SubSeq(Wire, 1, n)
  <2>1. Numbered(EventMark, SubSeq(wire, 1, n)) = SubSeq(Numbered(EventMark, wire), 1, n)
    BY <1>2, MarkTypes, NumberedPrefix
  <2> QED BY <1>1, <2>1 DEF Wire
<1>5. InOrder(Wire)  BY Orders DEF Base, LineInv
<1>6. LeftOf(Wire, Wire')  BY <1>2, <1>3, <1>4, <1>5, KeepPrefix DEF LeftOf
<1>7. \A x \in Contents(Wire)', y \in Contents(Wire) : y < x => y \in Contents(Wire)'
  <2>1. n \in 0..Len(Wire)  BY <1>3
  <2> DEFINE w == Wire
  <2>2. w \in Seq(Nat) /\ InOrder(w) /\ n \in 0..Len(w)  BY <1>2, <1>5, <2>1
  <2>3. Wire' = SubSeq(w, 1, n)  BY <1>4
  <2> HIDE DEF w
  <2>4. \A x \in Contents(SubSeq(w, 1, n)), y \in Contents(w) :
          y < x => y \in Contents(SubSeq(w, 1, n))
    BY <2>2, PrefixIsClosed
  <2>5. Contents(Wire)' = Contents(SubSeq(w, 1, n))  BY <2>3
  <2>6. Contents(Wire) = Contents(w)  BY DEF w
  <2> QED BY <2>4, <2>5, <2>6
<1> QED BY <1>6, <1>7

\* When the connection breaks what had not arrived is gone.
LEMMA BreakLine ==
  ASSUME Base, Types', Break
  PROVE  /\ LineStep
         /\ Inn' = Inn /\ Hold' = Hold /\ Todo' = Todo /\ Asked' = Asked /\ Out' = Out
         /\ Sending' = Sending
<1>1. /\ server' = [server EXCEPT !.waits = FALSE] /\ Broken
      /\ UNCHANGED <<pump, inn, out, task, asked, inject, accepted, run, lost, finished>>
  BY DEF Break, inputVars
<1>2. server'.turn = server.turn /\ server'.todo = server.todo
  BY <1>1 DEF Base, Types, ServerTypes
<1>3. /\ Inn' = Inn /\ Hold' = Hold /\ Todo' = Todo /\ Asked' = Asked /\ Out' = Out
      /\ Sending' = Sending /\ Inject' = Inject
  BY <1>1, <1>2 DEF Inn, Hold, Todo, Asked, Out, Sending, Inject
<1>4. LeftOf(Wire, Wire')  BY <1>1, BrokenWire
<1>5. InLine(8, Line)  BY DEF Base, LineInv
<1>6. Shrinks  BY <1>3, <1>4, <1>5, Orders DEF Shrinks
<1>7. InLine(8, Line)' /\ OnLine' \subseteq OnLine  BY <1>5, <1>6, LineIsLeft
<1>8. Waiting' = Waiting  BY <1>3 DEF Waiting
<1>9. LineStep  BY <1>1, <1>7, <1>8, HeldStay
<1> QED BY <1>3, <1>9

\* The app-server exits, and the requests it had are lost.
LEMMA ExitLine ==
  ASSUME Base, Types', Exit
  PROVE  /\ LineStep
         /\ Inn' = Inn /\ Hold' = Hold /\ Contents(Todo)' = {} /\ Contents(Asked)' = {}
         /\ Out' = Out /\ Sending' = Sending
<1>1. /\ server' = Free /\ Broken /\ asked' = <<>> /\ lost' = lost \cup ToSet(asked)
      /\ UNCHANGED <<pump, inn, out, task, inject, accepted, run, finished>>
  BY DEF Exit
<1>2. Inn' = Inn /\ Hold' = Hold /\ Out' = Out /\ Sending' = Sending /\ Inject' = Inject
  BY <1>1 DEF Inn, Hold, Out, Sending, Inject
<1>3. Todo' = <<>> /\ Asked' = <<>>
  <2>1. \A f : Numbered(f, <<>>) = <<>>  BY DEF Numbered
  <2> QED BY <1>1, <2>1 DEF Todo, Asked, Free
<1>4. LeftOf(Wire, Wire')  BY <1>1, BrokenWire
<1>5. InLine(8, Line)  BY DEF Base, LineInv
<1>6. Shrinks  BY <1>2, <1>3, <1>4, <1>5, NothingInOrder, Orders DEF Shrinks
<1>7. Contents(Todo)' = {} /\ Contents(Asked)' = {}  BY <1>3, NothingInOrder
<1>8. LineStep
  <2> DEFINE D == ToSet(asked)
  <2>1. /\ D \subseteq Inputs /\ \A m \in Inputs : m \in D <=> 10 * m \in Contents(Asked)
    BY InputsIn DEF Base, Types, ServerTypes, Asked
  <2>2. lost' = lost \cup D /\ run' = run  BY <1>1
  <2> HIDE DEF D
  <2>3. /\ Waiting' = Contents(Out) \cup Contents(Sending) \cup Contents(Inject)
        /\ Waiting = Waiting' \cup Contents(Asked)
    BY <1>2, <1>7 DEF Waiting
  <2>4. \A x \in Contents(Asked) : x \notin Waiting'  BY <2>3, WaitingApart
  <2>5. /\ \A m \in Inputs : 10 * m \in Waiting <=> 10 * m \in Waiting' \/ m \in D
        /\ \A m \in D : 10 * m \notin Waiting'
    BY <2>1, <2>3, <2>4
  <2> QED BY <1>1, <1>6, <2>1, <2>2, <2>5, DropKeepsLine
<1> QED BY <1>2, <1>7, <1>8

\* Whatever is on the line is a request or an event of an input.
LEMMA OnLineAre ==
  ASSUME Types
  PROVE  \A x \in OnLine : \E m \in Inputs, i \in 0..9 : x = 10 * m + i
<1>1. ASSUME NEW x \in Waiting PROVE \E m \in Inputs, i \in 0..9 : x = 10 * m + i
  <2>1. PICK m \in Inputs : x = 10 * m  BY WaitingAre
  <2>2. x = 10 * m + 0 /\ 0 \in 0..9  BY <2>1, CodexAssumption DEF Inputs
  <2> QED BY <2>2
<1>2. ASSUME NEW k \in TurnKinds, NEW m \in Inputs
      PROVE  \E i \in 0..9 : Mark(k, m) = 10 * m + i
  <2>1. Rank[k] \in 0..9  BY Ranks
  <2> QED BY <2>1 DEF Mark
<1>3. ASSUME NEW s \in Seq(Events), NEW x \in Contents(Numbered(EventMark, s))
      PROVE  \E m \in Inputs, i \in 0..9 : x = 10 * m + i
  <2>1. x # 0 /\ \E i \in DOMAIN s : x = EventMark[s[i]]  BY <1>3, MarkTypes, NumbersOf
  <2>2. PICK e \in Events : x = EventMark[e]  BY <2>1
  <2>3. e.kind \in TurnKinds /\ e.turn \in Inputs /\ x = Mark(e.kind, e.turn)
    BY <2>1, <2>2, AnEvent
  <2> QED BY <1>2, <2>3
<1>4. ASSUME NEW x \in Contents(Inn) \cup Contents(Hold) \cup Contents(Wire)
      PROVE  \E m \in Inputs, i \in 0..9 : x = 10 * m + i
  <2>1. /\ inn \in Seq(Events) /\ wire \in Seq(Events) /\ pump.hold \in Events \cup {None}
    BY DEF Types, ChannelTypes
  <2>2. One(pump.hold) \in Seq(Events)  BY <2>1, OneOrNone, CodexAssumption
  <2> QED BY <1>3, <1>4, <2>1, <2>2 DEF Inn, Hold, Wire
<1>5. ASSUME NEW x \in Contents(Todo) PROVE \E m \in Inputs, i \in 0..9 : x = 10 * m + i
  <2>1. server.turn # None
    <3>1. server.turn = None => Todo = <<>>  BY DEF Todo
    <3> QED BY <1>5, <3>1, NothingInOrder
  <2>2. server.turn \in Inputs /\ server.todo \in Seq(TurnKinds)
    BY <2>1 DEF Types, ServerTypes
  <2> DEFINE f == TurnMark(server.turn)
  <2>3. f \in [TurnKinds -> Nat] /\ \A k \in TurnKinds : f[k] = Mark(k, server.turn)
    BY <2>2, MarkTypes DEF TurnMark
  <2>4. x \in Contents(Numbered(f, server.todo))  BY <1>5, <2>1 DEF Todo
  <2> HIDE DEF f
  <2>5. \E i \in DOMAIN server.todo : x = f[server.todo[i]]
    BY <2>2, <2>3, <2>4, NumbersOf
  <2>6. PICK k \in TurnKinds : x = Mark(k, server.turn)  BY <2>2, <2>3, <2>5
  <2> QED BY <1>2, <2>2, <2>6
<1>6. ASSUME NEW x \in OnLine
      PROVE  \/ x \in Waiting \/ x \in Contents(Todo)
             \/ x \in Contents(Inn) \cup Contents(Hold) \cup Contents(Wire)
  BY OnLineIs DEF Waiting
<1> QED BY <1>1, <1>4, <1>5, <1>6

\* An input that has not been accepted comes after all that is on the line.
LEMMA NewIsLast ==
  ASSUME Base, NEW m \in Inputs, m \notin accepted
  PROVE  \A x \in OnLine : x < 10 * m
<1>1. ASSUME NEW x \in OnLine PROVE x < 10 * m
  <2>1. PICK n \in Inputs, i \in 0..9 : x = 10 * n + i  BY OnLineAre DEF Base
  <2>2. n \in accepted  BY <1>1, <2>1 DEF Base, LineInv
  <2>3. m \in Nat \ {0} /\ n \in Nat \ {0}  BY CodexAssumption DEF Inputs
  <2>4. m \notin 1..(n - 1)  BY <2>2 DEF Base, LineInv
  <2>5. n < m  BY <2>2, <2>3, <2>4
  <2> QED BY <2>1, <2>3, <2>5
<1> QED BY <1>1

\* An input is accepted.
LEMMA RouteLine ==
  ASSUME Base, Types', NEW m \in Inputs, Route(m)
  PROVE  /\ LineStep
         /\ Inn' = Inn /\ Hold' = Hold /\ Wire' = Wire /\ Todo' = Todo /\ Asked' = Asked
         /\ Out' = Out /\ Sending' = Sending
<1>1. /\ m \notin accepted /\ \A n \in 1..(m - 1) : n \in accepted
      /\ inject' = Append(inject, m) /\ accepted' = accepted \cup {m}
      /\ UNCHANGED <<pump, wire, inn, out, task, asked, server, run, lost, finished>>
  BY DEF Route, linkVars, channelVars, serverVars, historyVars
<1>2. /\ Inn' = Inn /\ Hold' = Hold /\ Wire' = Wire /\ Todo' = Todo /\ Asked' = Asked
      /\ Out' = Out /\ Sending' = Sending
  BY <1>1 DEF Inn, Hold, Wire, Todo, Asked, Out, Sending
<1>3. inject \in Seq(Inputs)  BY DEF Base, Types, InputTypes
<1>4. Inject' = Append(Inject, 10 * m)  BY <1>1, <1>3, InputsMove DEF Inject
<1>5. 10 * m \in Nat \ {0}  BY CodexAssumption DEF Inputs
<1>6. InLine(8, Line) /\ Numbers(8, Line)  BY LineHasNumbers DEF Base, LineInv
<1>7. GrowsBy(8, Line, Line', 10 * m)
  <2>1. \A a \in 1..8 : \A y \in Contents(Line[a]) : y < 10 * m
    <3>1. \A a \in 1..8 : Contents(Line[a]) \subseteq OnLine  BY DEF OnLine
    <3> QED BY <1>1, <3>1, NewIsLast
  <2>2. Line'[8] = Append(Line[8], 10 * m)  BY <1>4, LineFields
  <2>3. \A a \in 1..8 : a # 8 => Line'[a] = Line[a]
    <3>1. \A a \in 1..8 : a = 1 \/ a = 2 \/ a = 3 \/ a = 4 \/ a = 5 \/ a = 6 \/ a = 7 \/ a = 8
      OBVIOUS
    <3> QED BY <1>2, <3>1, LineFields
  <2> QED BY <2>1, <2>2, <2>3 DEF GrowsBy
<1>8. InLine(8, Line)'
  <2> DEFINE old == Line
             new == Line'
             x == 10 * m
  <2>1. InLine(8, old) /\ Numbers(8, old) /\ GrowsBy(8, old, new, x) /\ x \in Nat /\ 8 \in Nat \ {0}
    BY <1>5, <1>6, <1>7
  <2> HIDE DEF old, new, x
  <2>2. InLine(8, new)  BY <2>1, LineGrows
  <2>3. InLine(8, Line')  BY <2>2 DEF new
  <2> QED BY <2>3 DEF InLine
<1>9. Contents(Inject)' = Contents(Inject) \cup {10 * m}
  <2>1. Inject \in Seq(Nat)  BY LineTypes DEF Base, Types
  <2>2. Contents(Append(Inject, 10 * m)) = Contents(Inject) \cup ({10 * m} \ {0})
    BY <1>5, <2>1, ContentsAndLast
  <2> QED BY <1>4, <1>5, <2>2
<1>10. OnLine' = OnLine \cup {10 * m} /\ Waiting' = Waiting \cup {10 * m}
  BY <1>2, <1>9, OnLineIs DEF Waiting
<1>11. LineInv'
  <2>1. LineInv  BY DEF Base
  <2>2. ASSUME NEW n \in Inputs, NEW i \in 0..9, 10 * n + i \in OnLine'
        PROVE  n \in accepted' /\ n \notin finished'
    <3>1. CASE 10 * n + i \in OnLine  BY <1>1, <2>1, <3>1 DEF LineInv
    <3>2. CASE 10 * n + i = 10 * m
      <4>1. n = m  BY <3>2, CodexAssumption DEF Inputs
      <4>2. m \notin finished  BY <1>1, <2>1 DEF LineInv
      <4> QED BY <1>1, <4>1, <4>2
    <3> QED BY <1>10, <2>2, <3>1, <3>2
  <2>3. finished' \subseteq accepted'  BY <1>1, <2>1 DEF LineInv
  <2>4. \A k \in accepted' : \A n \in 1..(k - 1) : n \in accepted'
    BY <1>1, <2>1 DEF LineInv
  <2> QED BY <1>8, <2>2, <2>3, <2>4 DEF LineInv
<1>12. HandedInv' /\ HandedStep
  <2>1. /\ Held \subseteq Inputs /\ Held' \subseteq Inputs
        /\ \A n \in Inputs : n \in Held <=> 10 * n \in Waiting
        /\ \A n \in Inputs : n \in Held' <=> 10 * n \in Waiting'
    BY HeldAre, HeldAreNext DEF Base
  <2>2. \A n \in Inputs : 10 * n = 10 * m <=> n = m  BY CodexAssumption DEF Inputs
  <2>3. Held' = Held \cup {m}  BY <1>10, <2>1, <2>2
  <2>4. HandedInv  BY DEF Base
  <2> HIDE DEF Held
  <2> QED BY <1>1, <2>3, <2>4 DEF HandedInv, HandedStep
<1> QED BY <1>2, <1>11, <1>12 DEF LineStep

\* The numbers of a script.
LEMMA ScriptMarks ==
  ASSUME NEW script \in Scripts, NEW m \in Inputs,
         NEW t, t = Numbered(TurnMark(m), script)
  PROVE  /\ InOrder(t)
         /\ \A x \in Contents(t) : \E k \in TurnKinds : x = Mark(k, m)
         /\ \A k \in TurnKinds : k \in Due => Mark(k, m) \in Contents(t)
<1> DEFINE f == TurnMark(m)
           s == script
<1>1. f \in [TurnKinds -> Nat] /\ \A k \in TurnKinds : f[k] = Mark(k, m)
  BY MarkTypes DEF TurnMark
<1>2. /\ s \in Seq(TurnKinds) /\ \A i, j \in DOMAIN s : i < j => Rank[s[i]] < Rank[s[j]]
      /\ \A k \in TurnKinds : k \in Due => \E i \in DOMAIN s : s[i] = k
  BY ScriptInOrder
<1>3. t = Numbered(f, s)  OBVIOUS
<1> HIDE DEF f, s
<1>4. DOMAIN t = DOMAIN s /\ \A i \in DOMAIN s : s[i] \in TurnKinds /\ t[i] = f[s[i]]
  BY <1>2, <1>3 DEF Numbered
<1>5. \A x : x \in Contents(t) <=> x # 0 /\ \E i \in DOMAIN s : x = f[s[i]]
  BY <1>1, <1>2, <1>3, NumbersOf
<1>6. ASSUME NEW i \in DOMAIN t, NEW j \in DOMAIN t, i < j PROVE t[i] < t[j]
  <2>1. t[i] = Mark(s[i], m) /\ t[j] = Mark(s[j], m)  BY <1>1, <1>4
  <2>2. Rank[s[i]] < Rank[s[j]] /\ Rank[s[i]] \in Nat /\ Rank[s[j]] \in Nat
    <3>1. s[i] \in TurnKinds /\ s[j] \in TurnKinds  BY <1>4
    <3>2. Rank[s[i]] \in 1..9 /\ Rank[s[j]] \in 1..9  BY <3>1, Ranks
    <3> QED BY <1>2, <1>4, <1>6, <3>2
  <2>3. m \in Nat  BY CodexAssumption DEF Inputs
  <2> QED BY <2>1, <2>2, <2>3 DEF Mark
<1>7. InOrder(t)  BY <1>6 DEF InOrder
<1>8. \A x \in Contents(t) : \E k \in TurnKinds : x = Mark(k, m)
  BY <1>1, <1>4, <1>5
<1>9. ASSUME NEW k \in TurnKinds, k \in Due PROVE Mark(k, m) \in Contents(t)
  <2>1. PICK i \in DOMAIN s : s[i] = k  BY <1>2, <1>9
  <2>2. f[s[i]] = Mark(k, m) /\ Mark(k, m) # 0  BY <1>1, <2>1, Marks
  <2> QED BY <1>5, <2>2
<1> QED BY <1>7, <1>8, <1>9

\* The app-server takes up a turn: its events take the place of the request.
LEMMA TakeUpLine ==
  ASSUME Base, Types', TakeUp
  PROVE  /\ LineStep
         /\ Inn' = Inn /\ Hold' = Hold /\ Wire' = Wire /\ Out' = Out /\ Sending' = Sending
         /\ Head(asked) \in Inputs /\ 10 * Head(asked) \in Contents(Asked)
         /\ Contents(Asked)' \subseteq Contents(Asked)
         /\ Contents(Todo) = {}
         /\ \A x \in Contents(Todo)' : \E k \in TurnKinds : x = Mark(k, Head(asked))
         /\ \A k \in TurnKinds : k \in Due => Mark(k, Head(asked)) \in Contents(Todo)'
         /\ \A x \in Contents(Inn) \cup Contents(Hold) \cup Contents(Wire) : x < 10 * Head(asked)
<1> DEFINE m == Head(asked)
<1>1. /\ server = Free /\ asked # <<>> /\ asked' = Tail(asked) /\ run' = run \cup {m}
      /\ \E script \in Scripts : server' = [turn |-> m, todo |-> script, waits |-> FALSE]
      /\ UNCHANGED <<pump, wire, inn, out, task, inject, accepted, lost, finished>>
  BY DEF TakeUp, linkVars, channelVars, historyVars
<1>2. asked \in Seq(Inputs) /\ m \in Inputs /\ m # None
  BY <1>1, CodexAssumption DEF Base, Types, ServerTypes
<1>3. PICK script \in Scripts : server' = [turn |-> m, todo |-> script, waits |-> FALSE]
  BY <1>1
<1>4. Todo' = Numbered(TurnMark(m), script)
  <2>1. server'.turn = m /\ server'.todo = script  BY <1>3
  <2> QED BY <1>2, <2>1 DEF Todo
<1> HIDE DEF m
<1>5. /\ InOrder(Todo)'
      /\ \A x \in Contents(Todo)' : \E k \in TurnKinds : x = Mark(k, m)
      /\ \A k \in TurnKinds : k \in Due => Mark(k, m) \in Contents(Todo)'
  <2> DEFINE t == Numbered(TurnMark(m), script)
  <2>1. t = Numbered(TurnMark(m), script)  OBVIOUS
  <2>2. Todo' = t  BY <1>4
  <2> HIDE DEF t
  <2>3. /\ InOrder(t)
        /\ \A x \in Contents(t) : \E k \in TurnKinds : x = Mark(k, m)
        /\ \A k \in TurnKinds : k \in Due => Mark(k, m) \in Contents(t)
    BY <1>2, <2>1, ScriptMarks
  <2> QED BY <2>2, <2>3
<1>6. /\ Inn' = Inn /\ Hold' = Hold /\ Wire' = Wire /\ Out' = Out /\ Sending' = Sending
      /\ Inject' = Inject
  BY <1>1 DEF Inn, Hold, Wire, Out, Sending, Inject
<1>7. Todo = <<>> /\ Contents(Todo) = {}
  <2>1. Todo = <<>>  BY <1>1 DEF Todo, Free
  <2> QED BY <2>1, NothingInOrder
<1>8. InLine(8, Line)  BY DEF Base, LineInv
<1>9. 10 * m \in Nat \ {0} /\ m \in Nat  BY <1>2, CodexAssumption DEF Inputs
<1>10. Asked # <<>> /\ Asked' = Tail(Asked) /\ Head(Asked) = 10 * m /\ Asked \in Seq(Nat)
  BY <1>1, <1>2, InputsMove, LineTypes DEF Asked, Base, Types, m
<1>11. /\ InOrder(Asked)' /\ Contents(Asked)' \subseteq Contents(Asked)
       /\ 10 * m \in Contents(Asked) /\ Before({10 * m}, Contents(Asked)')
  BY <1>8, <1>9, <1>10, Orders, TakeFirst
<1>12. Contents(Asked) = {10 * m} \cup Contents(Asked)'
  <2>1. Contents(Asked) = ({Head(Asked)} \ {0}) \cup Contents(Tail(Asked))
    BY <1>10, HeadAndTail
  <2> QED BY <1>9, <1>10, <2>1
<1>13. /\ Before(Contents(Asked), Contents(Out) \cup Contents(Sending) \cup Contents(Inject))
       /\ Before(Contents(Inn), Contents(Asked)) /\ Before(Contents(Hold), Contents(Asked))
       /\ Before(Contents(Wire), Contents(Asked))
  BY <1>8, PartsInOrder DEF Before
<1>14. Waiting' = Contents(Asked)' \cup Contents(Out) \cup Contents(Sending) \cup Contents(Inject)
  BY <1>6 DEF Waiting
<1>15. ASSUME NEW x \in Waiting' PROVE 10 * m + 10 <= x /\ x \in Waiting
  <2>1. 10 * m < x  BY <1>11, <1>13, <1>14, <1>15 DEF Before
  <2>2. x \in Waiting  BY <1>11, <1>14, <1>15 DEF Waiting
  <2>3. PICK n \in Inputs : x = 10 * n  BY <2>2, WaitingAre DEF Base
  <2>4. n \in Nat  BY CodexAssumption DEF Inputs
  <2> QED BY <1>9, <2>1, <2>2, <2>3, <2>4
<1>16. \A x \in Contents(Inn) \cup Contents(Hold) \cup Contents(Wire) : x < 10 * m
  BY <1>11, <1>13 DEF Before
<1>17. ASSUME NEW x \in Contents(Todo)'
       PROVE  x \in Nat /\ 10 * m < x /\ x <= 10 * m + 9
  <2>1. PICK k \in TurnKinds : x = Mark(k, m)  BY <1>5, <1>17
  <2> QED BY <1>2, <2>1, Marks
<1>18. InLine(8, Line)'
  <2>1. \A a \in 1..8 : a = 1 \/ a = 2 \/ a = 3 \/ a = 4 \/ a = 5 \/ a = 6 \/ a = 7 \/ a = 8
    OBVIOUS
  <2>2. \A a \in 1..8 : InOrder(Line'[a])
    BY <1>5, <1>6, <1>8, <1>11, <2>1, LineFields, Orders
  <2>3. \A a \in 1..8 : a # 4 => Contents(Line'[a]) \subseteq Contents(Line[a])
    BY <1>6, <1>11, <2>1, LineFields
  <2>4. ASSUME NEW a \in 1..8, NEW b \in 1..8, a < b
        PROVE  Before(Contents(Line'[a]), Contents(Line'[b]))
    <3>1. CASE b = 4
      <4>1. a = 1 \/ a = 2 \/ a = 3  BY <2>4, <3>1
      <4>2. Contents(Line'[a]) \subseteq Contents(Inn) \cup Contents(Hold) \cup Contents(Wire)
        BY <1>6, <4>1, LineFields
      <4>3. Line'[b] = Todo'  BY <3>1, LineFields
      <4>4. \A x \in Contents(Line'[a]) : x \in Nat
        <5>1. /\ Contents(Inn) \subseteq Nat /\ Contents(Hold) \subseteq Nat
              /\ Contents(Wire) \subseteq Nat
          <6>1. Inn \in Seq(Nat) /\ Hold \in Seq(Nat) /\ Wire \in Seq(Nat)
            BY LineTypes DEF Base, Types
          <6> QED BY <6>1 DEF Contents
        <5> QED BY <4>2, <5>1
      <4>5. ASSUME NEW x \in Contents(Line'[a]), NEW y \in Contents(Todo)' PROVE x < y
        <5>1. x < 10 * m /\ x \in Nat  BY <1>16, <4>2, <4>4
        <5> QED BY <1>9, <1>17, <5>1
      <4> QED BY <4>3, <4>5 DEF Before
    <3>2. CASE a = 4
      <4>1. b = 5 \/ b = 6 \/ b = 7 \/ b = 8  BY <2>4, <3>2
      <4>2. Contents(Line'[b]) \subseteq Waiting'  BY <1>6, <1>14, <4>1, LineFields
      <4>3. Line'[a] = Todo'  BY <3>2, LineFields
      <4>4. ASSUME NEW x \in Contents(Todo)', NEW y \in Waiting' PROVE x < y
        <5>1. y \in Nat
          <6>1. PICK n \in Inputs : y = 10 * n  BY <1>15, WaitingAre DEF Base
          <6> QED BY <6>1, CodexAssumption DEF Inputs
        <5>2. 10 * m + 10 <= y  BY <1>15
        <5>3. x \in Nat /\ x <= 10 * m + 9  BY <1>17
        <5> QED BY <1>9, <5>1, <5>2, <5>3
      <4> QED BY <4>2, <4>3, <4>4 DEF Before
    <3>3. CASE a # 4 /\ b # 4
      <4>1. Before(Contents(Line[a]), Contents(Line[b]))  BY <1>8, <2>4 DEF InLine
      <4> QED BY <2>3, <3>3, <4>1 DEF Before
    <3> QED BY <3>1, <3>2, <3>3
  <2> QED BY <2>2, <2>4 DEF InLine
<1>19. \A n \in Inputs : 10 * n = 10 * m <=> n = m  BY <1>2, CodexAssumption DEF Inputs
<1>20. LineInv'
  <2>1. LineInv  BY DEF Base
  <2>2. OnLine' = Contents(Inn) \cup Contents(Hold) \cup Contents(Wire) \cup Contents(Todo)'
                    \cup Waiting'
    BY <1>6, <1>14, OnLineIs
  <2>3. Waiting \subseteq OnLine
        /\ Contents(Inn) \cup Contents(Hold) \cup Contents(Wire) \subseteq OnLine
    BY OnLineIs DEF Waiting
  <2>4. m \in accepted /\ m \notin finished
    <3>1. 10 * m + 0 \in OnLine  BY <1>9, <1>11, OnLineIs
    <3>2. 0 \in 0..9  OBVIOUS
    <3> QED BY <1>2, <2>1, <3>1, <3>2 DEF LineInv
  <2>5. ASSUME NEW n \in Inputs, NEW i \in 0..9, 10 * n + i \in OnLine'
        PROVE  n \in accepted' /\ n \notin finished'
    <3>1. CASE 10 * n + i \in OnLine  BY <1>1, <2>1, <3>1 DEF LineInv
    <3>2. CASE 10 * n + i \in Contents(Todo)'
      <4>1. 10 * m < 10 * n + i /\ 10 * n + i <= 10 * m + 9  BY <1>17, <3>2
      <4>2. n \in Nat  BY CodexAssumption DEF Inputs
      <4>3. n = m  BY <1>9, <4>1, <4>2
      <4> QED BY <1>1, <2>4, <4>3
    <3> QED BY <1>15, <2>2, <2>3, <2>5, <3>1, <3>2
  <2>6. finished' \subseteq accepted' /\ \A k \in accepted' : \A n \in 1..(k - 1) : n \in accepted'
    BY <1>1, <2>1 DEF LineInv
  <2> QED BY <1>18, <2>5, <2>6 DEF LineInv
<1>21. HandedInv' /\ HandedStep
  <2> DEFINE D == {m}
  <2>1. Waiting = Waiting' \cup {10 * m}  BY <1>12, <1>14 DEF Waiting
  <2>2. 10 * m \notin Waiting'  BY <1>9, <1>15
  <2>3. /\ \A n \in Inputs : 10 * n \in Waiting <=> 10 * n \in Waiting' \/ n \in D
        /\ \A n \in D : 10 * n \notin Waiting'
        /\ run' = run \cup D /\ lost' = lost /\ D \in SUBSET Inputs
    BY <1>1, <1>2, <1>19, <2>1, <2>2
  <2> HIDE DEF D
  <2> QED BY <1>1, <2>3, HeldAreHanded DEF Base
<1>22. LineStep  BY <1>20, <1>21 DEF LineStep
<1> QED BY <1>2, <1>5, <1>6, <1>7, <1>11, <1>16, <1>22 DEF m

\* The steps that move nothing.
QuietStep ==
  \/ Attach \/ Unregister \/ ConnectFails \/ Probe \/ SleepOver \/ ResumeFails \/ OnClosed

\* The quiet steps move nothing.
LEMMA QuietSteps ==
  ASSUME Base, QuietStep
  PROVE  /\ Quiet
         /\ UNCHANGED <<pending, routable, raw, preview, outcome, crossed, intact, thread, changes>>
<1>1. /\ UNCHANGED <<link, pump, wire, inn, out, asked, server, inject, accepted, run, lost,
                     finished>>
      /\ UNCHANGED <<pending, routable, raw, preview, outcome, crossed, intact, thread, changes>>
  BY DEF QuietStep, Attach, Unregister, ConnectFails, Probe, SleepOver, ResumeFails, OnClosed,
         launchVars, linkVars, channelVars, serverVars, trackerVars, shownVars, inputVars,
         historyVars
<1>2. task'.send = task.send
  <2>1. CASE Attach \/ Unregister  BY <2>1 DEF Attach, Unregister
  <2>2. CASE ConnectFails \/ Probe \/ SleepOver \/ ResumeFails \/ OnClosed
    <3>1. ~At("send") /\ task'.send = None
      BY <2>2 DEF ConnectFails, Probe, SleepOver, ResumeFails, OnClosed, Goto, At
    <3> QED BY <3>1 DEF Base, PositionInv
  <2> QED BY <2>1, <2>2 DEF QuietStep
<1> QED BY <1>1, <1>2 DEF Quiet

\* A connection is opened.
LEMMA Connecting ==
  ASSUME Base, Connect \/ Resume
  PROVE  /\ Connected /\ ~pump.on /\ ~link /\ ~At("send") /\ out = <<>> /\ task.send = None
         /\ UNCHANGED <<asked, server, inject, accepted, run, lost, finished, crossed, preview,
                        status, outcome, intact, thread, changes>>
<1>1. /\ Connected /\ (At("connect") \/ At("resume"))
      /\ UNCHANGED <<asked, server, inject, accepted, run, lost, finished, crossed, preview,
                        status, outcome, intact, thread, changes>>
  BY DEF Connect, Resume, serverVars, shownVars, inputVars, historyVars
<1> QED BY <1>1 DEF Base, PositionInv, At

\* The kinds of steps.
LEMMA AllSteps ==
  ASSUME Next
  PROVE  \/ QuietStep \/ Cancel \/ Connect \/ Resume \/ End \/ EventStep
         \/ TakeInput \/ SendRequest \/ SendFails
         \/ PumpReads \/ PumpPuts \/ PumpSends \/ PumpExits
         \/ TakeUp \/ Report \/ (\E t \in Threads : ChangeThread(t))
         \/ (\E m \in Inputs : Route(m)) \/ Break \/ Exit
<1>1. \/ LaunchStep \/ TaskStep \/ PumpStep \/ ServerStep
      \/ \E m \in Inputs : Route(m)
      \/ Stop \/ Break \/ Exit
  BY DEF Next
<1>2. LaunchStep => QuietStep \/ Cancel  BY DEF LaunchStep, QuietStep, MonitorCancels
<1>3. Stop => Cancel  BY DEF Stop
<1>4. TaskStep => \/ QuietStep \/ Connect \/ Resume \/ End \/ EventStep
                  \/ TakeInput \/ SendRequest \/ SendFails
  BY DEF TaskStep, ConnectStep, LoopStep, QuietStep
<1>5. ServerStep => TakeUp \/ Report \/ \E t \in Threads : ChangeThread(t)
  BY CodexAssumption DEF ServerStep
<1> QED BY <1>1, <1>2, <1>3, <1>4, <1>5 DEF PumpStep

\* Every step keeps the order of the line and hands the inputs over one at a time.
LEMMA LinePreserved ==
  ASSUME Base, Types', Next
  PROVE  LineStep
<1>1. CASE QuietStep  BY <1>1, QuietSteps, QuietKeepsLine
<1>2. CASE Cancel  BY <1>2, CancelEmptiesLine
<1>3. CASE Connect \/ Resume  BY <1>3, Connecting, ConnectedLine
<1>4. CASE End  BY <1>4, EndsLine
<1>5. CASE EventStep  BY <1>5, EventsAreTaken, TakenLine
<1>6. CASE TakeInput \/ SendRequest \/ SendFails
  BY <1>6, TakeInputLine, SendRequestLine, SendFailsLine
<1>7. CASE PumpReads \/ PumpPuts \/ PumpSends \/ PumpExits
  BY <1>7, PumpReadsLine, PumpPutsLine, PumpSendsLine, PumpExitsLine
<1>8. CASE TakeUp \/ Report \/ \E t \in Threads : ChangeThread(t)
  BY <1>8, TakeUpLine, ReportLine, ChangeThreadLine
<1>9. CASE Break \/ Exit \/ \E m \in Inputs : Route(m)
  BY <1>9, BreakLine, ExitLine, RouteLine
<1> QED BY <1>1, <1>2, <1>3, <1>4, <1>5, <1>6, <1>7, <1>8, <1>9, AllSteps

----------------------------------------------------------------------------
(* The turns that no broken connection has crossed.                        *)

\* What is on the line when a connection breaks is of a turn it crosses.
LEMMA BreakCrosses ==
  ASSUME LineInv, crossed' = crossed \cup (accepted \ finished), NEW m \in Inputs,
         m \notin crossed'
  PROVE  \A i \in 0..9 : 10 * m + i \notin OnLine
BY DEF LineInv

\* Without its first event what is to come is as unbroken as before.
LEMMA UnbrokenRest ==
  ASSUME NEW X, NEW Y, NEW h, Unbroken(X), \A x : x \in X <=> x = h \/ x \in Y,
         \A y \in Y : h < y
  PROVE  Unbroken(Y)
<1>1. ASSUME NEW m \in Inputs, NEW k \in TurnKinds, NEW l \in TurnKinds, k \in Due,
             Rank[k] < Rank[l], Mark(l, m) \in Y
      PROVE  Mark(k, m) \in Y \/ \A y \in Y : Mark(k, m) < y
  <2>1. Mark(k, m) \in X \/ \A x \in X : Mark(k, m) < x  BY <1>1 DEF Unbroken
  <2> QED BY <2>1
<1> QED BY <1>1 DEF Unbroken

\* What is left of something unbroken when a later part is cut off.
LEMMA UnbrokenCut ==
  ASSUME NEW X, NEW Y, Unbroken(X), Y \subseteq X, Y \subseteq Nat,
         \A x \in Y, y \in X : y < x => y \in Y
  PROVE  Unbroken(Y)
<1>1. ASSUME NEW m \in Inputs, NEW k \in TurnKinds, NEW l \in TurnKinds, k \in Due,
             Rank[k] < Rank[l], Mark(l, m) \in Y
      PROVE  Mark(k, m) \in Y \/ \A y \in Y : Mark(k, m) < y
  <2>1. Mark(k, m) \in X \/ \A x \in X : Mark(k, m) < x  BY <1>1 DEF Unbroken
  <2>2. Mark(k, m) < Mark(l, m)
    <3>1. Rank[k] \in 1..9 /\ Rank[l] \in 1..9 /\ m \in Nat
      BY Ranks, CodexAssumption DEF Inputs
    <3> QED BY <1>1, <3>1 DEF Mark
  <2> QED BY <1>1, <2>1, <2>2
<1> QED BY <1>1 DEF Unbroken

\* A turn that is taken up comes whole.
LEMMA UnbrokenWhole ==
  ASSUME NEW X, NEW Y, NEW Z, NEW m \in Inputs, Unbroken(X),
         \A x \in X : x < 10 * m /\ x \in Nat,
         \A x \in Y : \E k \in TurnKinds : x = Mark(k, m),
         \A k \in TurnKinds : k \in Due => Mark(k, m) \in Y,
         \A x : x \in Z <=> x \in X \/ x \in Y
  PROVE  Unbroken(Z)
<1>1. ASSUME NEW n \in Inputs, NEW k \in TurnKinds, NEW l \in TurnKinds, k \in Due,
             Rank[k] < Rank[l], Mark(l, n) \in Z
      PROVE  Mark(k, n) \in Z \/ \A z \in Z : Mark(k, n) < z
  <2>1. m \in Nat /\ n \in Nat  BY CodexAssumption DEF Inputs
  <2>2. CASE Mark(l, n) \in Y
    <3>1. PICK j \in TurnKinds : Mark(l, n) = Mark(j, m)  BY <2>2
    <3>2. n = m  BY <3>1, OneMark
    <3> QED BY <1>1, <3>2
  <2>3. CASE Mark(l, n) \in X
    <3>1. Mark(k, n) \in X \/ \A x \in X : Mark(k, n) < x  BY <1>1, <2>3 DEF Unbroken
    <3>2. Mark(k, n) < 10 * m
      <4>1. Rank[k] \in 1..9 /\ Rank[l] \in 1..9  BY Ranks
      <4>2. Mark(k, n) < Mark(l, n)  BY <1>1, <2>1, <4>1 DEF Mark
      <4>3. Mark(k, n) \in Nat /\ Mark(l, n) \in Nat  BY Marks
      <4> QED BY <2>1, <2>3, <4>2, <4>3
    <3>3. ASSUME NEW y \in Y PROVE Mark(k, n) < y
      <4>1. PICK j \in TurnKinds : y = Mark(j, m)  BY <3>3
      <4>2. 10 * m < y /\ y \in Nat  BY <4>1, Marks
      <4>3. Mark(k, n) \in Nat  BY Marks
      <4> QED BY <2>1, <3>2, <4>2, <4>3
    <3> QED BY <3>1, <3>3
  <2> QED BY <1>1, <2>2, <2>3
<1> QED BY <1>1 DEF Unbroken

\* Turns stay under way when no more is asked and the tracker forgets nothing.
LEMMA WayStays ==
  ASSUME WayInv, Contents(Todo)' = Contents(Todo), Asking' \subseteq Asking,
         link \/ Contents(Asked)' \subseteq Contents(Asked),
         pending \subseteq pending', link' = link, crossed \subseteq crossed'
  PROVE  WayInv'
<1>1. Unbroken(Contents(Todo))'  BY DEF WayInv, Unbroken
<1>2. ASSUME NEW m \in Inputs, m \notin crossed' PROVE UnderWay(m)'
  <2>1. UnderWay(m)  BY <1>2 DEF WayInv
  <2> QED BY <2>1 DEF UnderWay
<1> QED BY <1>1, <1>2 DEF WayInv

\* Where nothing of an uncrossed turn is on the line any more.
LEMMA WayCrossed ==
  ASSUME LineInv, OnLine' \subseteq OnLine, crossed' = crossed \cup (accepted \ finished),
         Unbroken(Contents(Todo))'
  PROVE  WayInv'
<1>1. ASSUME NEW m \in Inputs, m \notin crossed' PROVE UnderWay(m)'
  <2>1. \A i \in 0..9 : 10 * m + i \notin OnLine'  BY <1>1, BreakCrosses
  <2>2. ASSUME NEW k \in TurnKinds PROVE Mark(k, m) \notin OnLine'
    <3>1. Rank[k] \in 0..9  BY Ranks
    <3> QED BY <2>1, <3>1 DEF Mark
  <2>3. 10 * m \notin OnLine'
    <3>1. 10 * m + 0 = 10 * m /\ 0 \in 0..9  BY CodexAssumption DEF Inputs
    <3> QED BY <2>1, <3>1
  <2>4. /\ Contents(Todo)' \subseteq OnLine' /\ Contents(Asked)' \subseteq OnLine'
        /\ Asking' \subseteq OnLine'
    BY OnLineIs DEF Asking
  <2> QED BY <2>2, <2>3, <2>4 DEF UnderWay
<1> QED BY <1>1 DEF WayInv

\* A connection that begins forgets nothing: no uncrossed turn is under way without one.
LEMMA NoneUnderWay ==
  ASSUME Base, WayInv, ~pump.on, task.send = None, NEW m \in Inputs, m \notin crossed
  PROVE  10 * m \notin Asking /\ \A k \in TurnKinds : Mark(k, m) \notin Contents(Todo)
<1>1. ~link /\ out = <<>>  BY DEF Base, PositionInv
<1>2. Sending = <<>>  BY HoldAndSending DEF Base, Types
<1>3. Out = <<>>
  <2>1. \A f : Numbered(f, <<>>) = <<>>  BY DEF Numbered
  <2> QED BY <1>1, <2>1 DEF Out
<1>4. Asking = Contents(Asked)  BY <1>2, <1>3, NothingInOrder DEF Asking
<1> QED BY <1>1, <1>4 DEF WayInv, UnderWay

\* Between connections turns stay under way when nothing new is asked.
LEMMA WayEmptied ==
  ASSUME Base, WayInv, ~pump.on, task.send = None,
         Contents(Todo)' = Contents(Todo), Asking' \subseteq Asking,
         Contents(Asked)' \subseteq Contents(Asked), crossed' = crossed
  PROVE  WayInv'
<1>1. Unbroken(Contents(Todo))'  BY DEF WayInv, Unbroken
<1>2. ASSUME NEW m \in Inputs, m \notin crossed' PROVE UnderWay(m)'
  <2>1. 10 * m \notin Asking /\ \A k \in TurnKinds : Mark(k, m) \notin Contents(Todo)
    BY <1>2, NoneUnderWay
  <2>2. 10 * m \notin Contents(Asked)  BY <2>1 DEF Asking
  <2> QED BY <2>1, <2>2 DEF UnderWay
<1> QED BY <1>1, <1>2 DEF WayInv

\* Turns stay under way when the task handles an event.
LEMMA WayOfEvents ==
  ASSUME Base, Types', WayInv, EventStep
  PROVE  WayInv'
<1>1. Taken  BY EventsAreTaken
<1>2. /\ Todo' = Todo /\ Asked' = Asked /\ Out' = Out /\ Contents(Sending)' = {}
      /\ EventMark[Head(inn)] # 0 => \A x \in OnLine' : EventMark[Head(inn)] < x
  BY <1>1, TakenLine
<1>3. /\ Contents(Todo)' = Contents(Todo) /\ Contents(Asked)' = Contents(Asked)
      /\ Asking' \subseteq Asking
  BY <1>2 DEF Asking
<1>4. link' = link /\ crossed' = crossed  BY <1>1 DEF Taken
<1>5. \/ pending' = pending
      \/ Head(inn).kind = "response" /\ pending' = pending \ {Turn}
  BY DEF EventStep, OnResponse, OnTurnStarted, OnDelta, OnItemCompleted, OnToolCall,
         OnTurnCompleted, OnStatus, Received, Take, eventFrame, trackerVars
<1>6. CASE pending' = pending  BY <1>3, <1>4, <1>6, WayStays
<1>7. CASE Head(inn).kind = "response" /\ pending' = pending \ {Turn}
  <2>1. Turn \in Inputs /\ EventMark[Head(inn)] = Mark("response", Turn)
    <3>1. Head(inn) \in Events  BY <1>1, FirstEvent DEF Base, Taken
    <3> QED BY <1>7, <3>1, AnEvent DEF Turn
  <2>2. 10 * Turn < EventMark[Head(inn)] /\ EventMark[Head(inn)] \in Nat \ {0}
    BY <2>1, Marks DEF TurnKinds
  <2> HIDE DEF Turn
  <2>3. 10 * Turn \notin Asking'
    <3>1. Asking' \subseteq OnLine'  BY OnLineIs DEF Asking
    <3>2. 10 * Turn \in Nat  BY <2>1, CodexAssumption DEF Inputs
    <3> QED BY <1>2, <2>2, <3>1, <3>2
  <2>4. ASSUME NEW m \in Inputs, m \notin crossed' PROVE UnderWay(m)'
    <3>1. UnderWay(m)  BY <1>4, <2>4 DEF WayInv
    <3>2. 10 * m \in Asking' => m \in pending'
      BY <1>3, <1>7, <2>3, <3>1 DEF UnderWay
    <3> QED BY <1>3, <1>4, <3>1, <3>2 DEF UnderWay
  <2>5. Unbroken(Contents(Todo))'  BY <1>3 DEF WayInv, Unbroken
  <2> QED BY <2>4, <2>5 DEF WayInv
<1> QED BY <1>5, <1>6, <1>7

\* Every step keeps turns under way.
LEMMA WayPreserved ==
  ASSUME Base, Types', WayInv, Next
  PROVE  WayInv'
<1>1. CASE QuietStep
  <2>1. /\ Todo' = Todo /\ Asked' = Asked /\ Out' = Out /\ Sending' = Sending
        /\ link' = link /\ pending' = pending /\ crossed' = crossed
    BY <1>1, QuietSteps, QuietKeepsLine DEF Quiet
  <2>2. Asking' = Asking  BY <2>1 DEF Asking
  <2> QED BY <2>1, <2>2, WayStays
<1>2. CASE Cancel
  <2>1. Contents(Todo)' = {} /\ Contents(Asked)' = {} /\ Asking' = {}
    BY <1>2, CancelEmptiesLine, NothingInOrder DEF Asking
  <2> QED BY <2>1 DEF WayInv, UnderWay, Unbroken
<1>3. CASE Connect \/ Resume
  <2>1. /\ Connected /\ ~pump.on /\ task.send = None /\ ~At("send")
        /\ UNCHANGED <<asked, server, inject, accepted, run, lost, finished, crossed>>
    BY <1>3, Connecting
  <2>2. Todo' = Todo /\ Asked' = Asked /\ Out' = Out /\ Sending' = Sending
    BY <2>1, ConnectedLine
  <2>3. Asking' = Asking  BY <2>2 DEF Asking
  <2> QED BY <2>1, <2>2, <2>3, WayEmptied
<1>4. CASE End
  <2>1. Todo' = Todo /\ Asked' = Asked /\ Out' = Out /\ Sending' = Sending
    BY <1>4, EndsLine
  <2>2. ~pump.on /\ task.send = None /\ crossed' = crossed
    BY <1>4 DEF Base, PositionInv, End, At, historyVars
  <2>3. Asking' = Asking  BY <2>1 DEF Asking
  <2> QED BY <2>1, <2>2, <2>3, WayEmptied
<1>5. CASE EventStep  BY <1>5, WayOfEvents
<1>6. CASE TakeInput
  <2>1. /\ Todo' = Todo /\ Asked' = Asked /\ Out' = Out /\ Head(inject) \in Inputs
        /\ Contents(Sending) = {} /\ Contents(Sending)' = {10 * Head(inject)}
    BY <1>6, TakeInputLine
  <2>2. link' = link /\ crossed' = crossed /\ pending' = pending \cup {Head(inject)}
    BY <1>6 DEF TakeInput, linkVars, historyVars
  <2>3. Asking' = Asking \cup {10 * Head(inject)}  BY <2>1 DEF Asking
  <2>4. ASSUME NEW m \in Inputs, m \notin crossed' PROVE UnderWay(m)'
    <3>1. UnderWay(m)  BY <2>2, <2>4 DEF WayInv
    <3>2. 10 * m = 10 * Head(inject) => m = Head(inject)
      BY <2>1, CodexAssumption DEF Inputs
    <3>3. 10 * m \in Asking' => m \in pending'  BY <2>2, <2>3, <3>1, <3>2 DEF UnderWay
    <3>4. Contents(Todo)' = Contents(Todo) /\ Contents(Asked)' = Contents(Asked)  BY <2>1
    <3> QED BY <2>2, <3>1, <3>3, <3>4 DEF UnderWay
  <2>5. Unbroken(Contents(Todo))'  BY <2>1 DEF WayInv, Unbroken
  <2> QED BY <2>4, <2>5 DEF WayInv
<1>7. CASE SendRequest
  <2>1. Todo' = Todo /\ Asked' = Asked /\ Asking' = Asking  BY <1>7, SendRequestLine
  <2>2. link' = link /\ pending' = pending /\ crossed' = crossed
    BY <1>7 DEF SendRequest, trackerVars, historyVars
  <2> QED BY <2>1, <2>2, WayStays
<1>8. CASE SendFails
  <2>1. Todo' = Todo /\ Asked' = Asked /\ Out' = Out /\ Contents(Sending)' = {}
    BY <1>8, SendFailsLine
  <2>2. link' = link /\ pending' = pending /\ crossed' = crossed
    BY <1>8 DEF SendFails, linkVars, trackerVars, historyVars
  <2>3. Asking' \subseteq Asking  BY <2>1 DEF Asking
  <2> QED BY <2>1, <2>2, <2>3, WayStays
<1>9. CASE PumpReads \/ PumpPuts
  <2>1. Todo' = Todo /\ Asked' = Asked /\ Out' = Out /\ Sending' = Sending
    BY <1>9, PumpReadsLine, PumpPutsLine
  <2>2. link' = link /\ pending' = pending /\ crossed' = crossed
    BY <1>9 DEF PumpReads, PumpPuts, trackerVars, historyVars
  <2>3. Asking' = Asking  BY <2>1 DEF Asking
  <2> QED BY <2>1, <2>2, <2>3, WayStays
<1>10. CASE PumpSends
  <2>1. Todo' = Todo /\ Asking' = Asking /\ link  BY <1>10, PumpSendsLine
  <2>2. link' = link /\ pending' = pending /\ crossed' = crossed
    BY <1>10 DEF PumpSends, trackerVars, historyVars
  <2> QED BY <2>1, <2>2, WayStays
<1>11. CASE PumpExits
  <2>1. Todo' = Todo /\ Asked' = Asked /\ Contents(Out)' = {} /\ Sending' = Sending
    BY <1>11, PumpExitsLine
  <2>2. link' = link /\ pending' = pending /\ crossed' = crossed
    BY <1>11 DEF PumpExits, trackerVars, historyVars
  <2>3. Asking' \subseteq Asking  BY <2>1 DEF Asking
  <2> QED BY <2>1, <2>2, <2>3, WayStays
<1>12. CASE TakeUp
  <2> DEFINE n == Head(asked)
  <2>1. /\ Out' = Out /\ Sending' = Sending /\ Contents(Asked)' \subseteq Contents(Asked)
        /\ n \in Inputs /\ 10 * n \in Contents(Asked)
        /\ \A x \in Contents(Todo)' : \E k \in TurnKinds : x = Mark(k, n)
        /\ \A k \in TurnKinds : k \in Due => Mark(k, n) \in Contents(Todo)'
    BY <1>12, TakeUpLine
  <2>2. link' = link /\ pending' = pending /\ crossed' = crossed
    BY <1>12 DEF TakeUp, linkVars, trackerVars, historyVars
  <2> HIDE DEF n
  <2>3. Asking' \subseteq Asking  BY <2>1 DEF Asking
  <2>4. ASSUME NEW m \in Inputs, m \notin crossed' PROVE UnderWay(m)'
    <3>1. UnderWay(m)  BY <2>2, <2>4 DEF WayInv
    <3>2. ASSUME NEW k \in TurnKinds, Mark(k, m) \in Contents(Todo)' PROVE link'
      <4>1. PICK l \in TurnKinds : Mark(k, m) = Mark(l, n)  BY <2>1, <3>2
      <4>2. m = n  BY <2>1, <4>1, OneMark
      <4> QED BY <2>1, <2>2, <3>1, <4>2 DEF UnderWay
    <3> QED BY <2>1, <2>2, <2>3, <3>1, <3>2 DEF UnderWay
  <2>5. Unbroken(Contents(Todo))'
    <3>1. ASSUME NEW m \in Inputs, NEW k \in TurnKinds, NEW l \in TurnKinds, k \in Due,
                 Mark(l, m) \in Contents(Todo)'
          PROVE  Mark(k, m) \in Contents(Todo)'
      <4>1. PICK j \in TurnKinds : Mark(l, m) = Mark(j, n)  BY <2>1, <3>1
      <4>2. m = n  BY <2>1, <4>1, OneMark
      <4> QED BY <2>1, <3>1, <4>2
    <3> QED BY <3>1 DEF Unbroken
  <2> QED BY <2>4, <2>5 DEF WayInv
<1>13. CASE Report
  <2>1. /\ Asked' = Asked /\ Out' = Out /\ Sending' = Sending
        /\ Todo # <<>> /\ Todo' = Tail(Todo) /\ link' = link
    BY <1>13, ReportLine
  <2>2. pending' = pending /\ crossed' = crossed
    BY <1>13 DEF Report, trackerVars, historyVars
  <2>3. Asking' = Asking  BY <2>1 DEF Asking
  <2>4. Todo \in Seq(Nat) /\ InOrder(Todo)
    BY LineTypes, Orders DEF Base, Types, LineInv
  <2>5. /\ Contents(Todo) = ({Head(Todo)} \ {0}) \cup Contents(Todo)'
        /\ Head(Todo) # 0 => Before({Head(Todo)}, Contents(Todo)')
    BY <2>1, <2>4, HeadAndTail, TakeFirst
  <2>6. Unbroken(Contents(Todo)')
    <3> DEFINE h == Head(Todo)
               S == Contents(Todo)
               T == Contents(Todo)'
    <3>1. S = ({h} \ {0}) \cup T /\ (h # 0 => Before({h}, T)) /\ Unbroken(S)
      BY <2>5 DEF WayInv
    <3> HIDE DEF h, S, T
    <3>2. CASE h = 0
      <4>1. T = S  BY <3>1, <3>2
      <4> QED BY <3>1, <4>1 DEF T
    <3>3. CASE h # 0
      <4>1. (\A x : x \in S <=> x = h \/ x \in T) /\ \A y \in T : h < y
        BY <3>1, <3>3 DEF Before
      <4>2. Unbroken(T)  BY <3>1, <4>1, UnbrokenRest
      <4> QED BY <4>2 DEF T
    <3> QED BY <3>2, <3>3
  <2>7. Unbroken(Contents(Todo))'  BY <2>6 DEF Unbroken
  <2>8. ASSUME NEW m \in Inputs, m \notin crossed' PROVE UnderWay(m)'
    <3>1. UnderWay(m)  BY <2>2, <2>8 DEF WayInv
    <3>2. Contents(Asked)' = Contents(Asked) /\ Contents(Todo)' \subseteq Contents(Todo)
      BY <2>1, <2>5
    <3> QED BY <2>1, <2>2, <2>3, <3>1, <3>2 DEF UnderWay
  <2> QED BY <2>7, <2>8 DEF WayInv
<1>14. CASE \E t \in Threads : ChangeThread(t)
  <2>1. Todo' = Todo /\ Asked' = Asked /\ Out' = Out /\ Sending' = Sending
    BY <1>14, ChangeThreadLine
  <2>2. link' = link /\ pending' = pending /\ crossed' = crossed
    BY <1>14 DEF ChangeThread, trackerVars
  <2>3. Asking' = Asking  BY <2>1 DEF Asking
  <2> QED BY <2>1, <2>2, <2>3, WayStays
<1>15. CASE \E m \in Inputs : Route(m)
  <2>1. Todo' = Todo /\ Asked' = Asked /\ Out' = Out /\ Sending' = Sending
    BY <1>15, RouteLine
  <2>2. link' = link /\ pending' = pending /\ crossed' = crossed
    BY <1>15 DEF Route, linkVars, trackerVars, historyVars
  <2>3. Asking' = Asking  BY <2>1 DEF Asking
  <2> QED BY <2>1, <2>2, <2>3, WayStays
<1>16. CASE Break \/ Exit
  <2>1. crossed' = crossed \cup (accepted \ finished)  BY <1>16 DEF Break, Exit, Broken
  <2>2. /\ Inn' = Inn /\ Hold' = Hold /\ Out' = Out /\ Sending' = Sending
        /\ (Todo' = Todo \/ Contents(Todo)' = {}) /\ (Asked' = Asked \/ Contents(Asked)' = {})
    BY <1>16, BreakLine, ExitLine
  <2>3. Broken  BY <1>16 DEF Break, Exit
  <2>4. Contents(Wire)' \subseteq Contents(Wire)  BY <2>3, BrokenWire DEF LeftOf
  <2>5. Inject' = Inject  BY <1>16 DEF Break, Exit, Inject, inputVars
  <2>6. OnLine' \subseteq OnLine  BY <2>2, <2>4, <2>5, OnLineIs
  <2>7. Unbroken(Contents(Todo))'  BY <2>2 DEF WayInv, Unbroken
  <2> QED BY <2>1, <2>6, <2>7, WayCrossed DEF Base
<1> QED BY <1>1, <1>2, <1>3, <1>4, <1>5, <1>6, <1>7, <1>8, <1>9, <1>10, <1>11, <1>12, <1>13,
           <1>14, <1>15, <1>16, AllSteps

----------------------------------------------------------------------------
(* What the task will see, and what it knows for it.                       *)

\* What is to come is on the line, and is numbers.
LEMMA ComingAre ==
  ASSUME Types
  PROVE  Coming \subseteq Nat /\ Coming \subseteq OnLine
<1>1. Inn \in Seq(Nat) /\ Hold \in Seq(Nat) /\ Wire \in Seq(Nat) /\ Todo \in Seq(Nat)
  BY LineTypes DEF Types
<1>2. ASSUME NEW s \in Seq(Nat) PROVE Contents(s) \subseteq Nat  BY DEF Contents
<1>3. Coming \subseteq Nat  BY <1>1, <1>2 DEF Coming
<1>4. Coming \subseteq OnLine  BY OnLineIs DEF Coming
<1> QED BY <1>3, <1>4

\* The marks the invariant is about, in their order.
LEMMA MarkOrder ==
  ASSUME NEW m \in Inputs
  PROVE  /\ Mark("response", m) = 10 * m + 1 /\ Mark("started", m) = 10 * m + 2
         /\ Mark("note", m) = 10 * m + 3 /\ Mark("part1", m) = 10 * m + 4
         /\ Mark("part2", m) = 10 * m + 6 /\ Mark("part3", m) = 10 * m + 7
         /\ Mark("item", m) = 10 * m + 8 /\ m \in Nat
<1>1. m \in Nat  BY CodexAssumption DEF Inputs
<1> QED BY <1>1, Ranks DEF Mark

\* The kinds of events the invariant is about.
LEMMA Kinds ==
  /\ "response" \in TurnKinds /\ "started" \in TurnKinds /\ "note" \in TurnKinds
  /\ "part1" \in TurnKinds /\ "tool" \in TurnKinds /\ "part2" \in TurnKinds
  /\ "part3" \in TurnKinds /\ "item" \in TurnKinds /\ "ended" \in TurnKinds
  /\ Due \subseteq TurnKinds /\ "response" \in Due /\ "started" \in Due /\ "part1" \in Due
BY DEF TurnKinds, Due

\* Of what is to come the later part is lost, or nothing is.
LEMMA ComingCut ==
  ASSUME Types, ComingInv, Coming' \subseteq Coming,
         \A x \in Coming', y \in Coming : y < x => y \in Coming',
         pending \subseteq pending', UNCHANGED <<routable, raw, outcome>>,
         crossed \subseteq crossed'
  PROVE  ComingInv'
<1>1. Unbroken(Coming)'
  <2> DEFINE X == Coming
             Y == Coming'
  <2>1. Unbroken(X) /\ Y \subseteq X /\ Y \subseteq Nat /\ \A x \in Y, y \in X : y < x => y \in Y
    BY ComingAre DEF ComingInv
  <2> HIDE DEF X, Y
  <2>2. Unbroken(Y)  BY <2>1, UnbrokenCut
  <2> QED BY <2>2 DEF Y, Unbroken
<1>2. ASSUME NEW m \in Inputs
      PROVE  /\ \A k \in {"note", "item"} :
                  Mark(k, m) \in Coming' /\ Mark("response", m) \in Coming =>
                    Mark("response", m) \in Coming'
             /\ \A k \in {"started", "note"} :
                  Mark("part1", m) \in Coming' /\ Mark(k, m) \in Coming =>
                    Mark(k, m) \in Coming'
             /\ \A k \in {"part2", "part3"} :
                  Mark(k, m) \in Coming' /\ Mark("part1", m) \in Coming =>
                    Mark("part1", m) \in Coming'
  <2>1. /\ Mark("response", m) < Mark("note", m) /\ Mark("response", m) < Mark("item", m)
        /\ Mark("started", m) < Mark("part1", m) /\ Mark("note", m) < Mark("part1", m)
        /\ Mark("part1", m) < Mark("part2", m) /\ Mark("part1", m) < Mark("part3", m)
    BY MarkOrder
  <2> QED BY <2>1
<1>3. ASSUME NEW m \in Inputs, m \notin crossed' PROVE Followed(m)'
  <2>1. Followed(m)  BY <1>3 DEF ComingInv
  <2>2. \A k \in TurnKinds : Mark(k, m) \in Coming' => Mark(k, m) \in Coming  OBVIOUS
  <2>3. Opened' = Opened  BY DEF Opened
  <2> QED BY <1>2, <2>1, <2>2, <2>3, Kinds DEF Followed
<1>4. RawInv'
  <2>1. RawInv  BY DEF ComingInv
  <2> QED BY <2>1 DEF RawInv
<1> QED BY <1>1, <1>3, <1>4 DEF ComingInv

\* What is to come stays followed when it and what the tracker knows stay.
LEMMA ComingStays ==
  ASSUME Types, ComingInv, Coming' = Coming, pending \subseteq pending',
         UNCHANGED <<routable, raw, outcome>>, crossed \subseteq crossed'
  PROVE  ComingInv'
BY ComingCut

\* An empty buffer is within its cap.
LEMMA NoRaw ==
  ASSUME raw' = Empty
  PROVE  RawInv'
<1>1. Len(raw'.parts) = 0  BY DEF Empty
<1>2. ~(Len(raw'.parts) > RawCap)  BY <1>1, CodexAssumption
<1> QED BY <1>2 DEF RawInv

\* Nothing of an uncrossed turn is to come.
LEMMA ComingForgotten ==
  ASSUME raw' = Empty, Unbroken(Coming)',
         \A m \in Inputs : m \notin crossed' => \A k \in TurnKinds : Mark(k, m) \notin Coming'
  PROVE  ComingInv'
<1>1. RawInv'  BY NoRaw
<1>2. ASSUME NEW m \in Inputs, m \notin crossed' PROVE Followed(m)'
  <2> QED BY <1>2, Kinds DEF Followed
<1> QED BY <1>1, <1>2 DEF ComingInv

\* With nothing to come and an empty buffer nothing needs to be known.
LEMMA NothingComes ==
  ASSUME raw' = Empty, Coming' = {}
  PROVE  ComingInv'
<1>1. Unbroken(Coming)'  BY DEF Unbroken
<1> QED BY <1>1, ComingForgotten

\* A connection begins.
LEMMA ComingConnected ==
  ASSUME Base, Types', WayInv, Connect \/ Resume
  PROVE  ComingInv'
<1>1. /\ Connected /\ ~pump.on /\ ~link /\ ~At("send") /\ task.send = None
      /\ UNCHANGED <<asked, server, inject, accepted, run, lost, finished, crossed>>
  BY Connecting
<1>2. /\ Contents(Inn)' = {} /\ Contents(Hold)' = {} /\ Contents(Wire)' = {} /\ Todo' = Todo
  BY <1>1, ConnectedLine
<1>3. link' = TRUE /\ raw' = Empty  BY <1>1 DEF Connected
<1>4. Coming' = Contents(Todo)  BY <1>2, <1>3 DEF Coming
<1>5. Unbroken(Coming)'  BY <1>4 DEF WayInv, Unbroken
<1>6. \A m \in Inputs : m \notin crossed' => \A k \in TurnKinds : Mark(k, m) \notin Coming'
  BY <1>1, <1>4, NoneUnderWay
<1> QED BY <1>3, <1>5, <1>6, ComingForgotten

\* The app-server takes up a turn.
LEMMA ComingTakenUp ==
  ASSUME Base, Types', WayInv, ComingInv, TakeUp
  PROVE  ComingInv'
<1> DEFINE n == Head(asked)
           S == Contents(Todo)'
<1>1. /\ Inn' = Inn /\ Hold' = Hold /\ Wire' = Wire
      /\ n \in Inputs /\ 10 * n \in Contents(Asked) /\ Contents(Todo) = {}
      /\ \A x \in S : \E k \in TurnKinds : x = Mark(k, n)
      /\ \A k \in TurnKinds : k \in Due => Mark(k, n) \in S
      /\ \A x \in Contents(Inn) \cup Contents(Hold) \cup Contents(Wire) : x < 10 * n
  BY TakeUpLine
<1>2. link' = link /\ UNCHANGED <<pending, routable, raw, outcome, crossed>>
  BY DEF TakeUp, linkVars, trackerVars, shownVars, historyVars
<1>3. Coming = Contents(Inn) \cup Contents(Hold) \cup Contents(Wire)  BY <1>1 DEF Coming
<1>4. Coming' = Coming \cup (IF link THEN S ELSE {})  BY <1>1, <1>2, <1>3 DEF Coming
<1> HIDE DEF n, S
<1>5. CASE ~link
  <2>1. Coming' = Coming  BY <1>4, <1>5
  <2> QED BY <1>2, <2>1, ComingStays DEF Base
<1>6. CASE link
  <2>1. \A x : x \in Coming' <=> x \in Coming \/ x \in S  BY <1>4, <1>6
  <2>2. Unbroken(Coming)'
    <3> DEFINE X == Coming
               Z == Coming'
    <3>1. /\ Unbroken(X) /\ \A x \in X : x < 10 * n /\ x \in Nat
          /\ \A x : x \in Z <=> x \in X \/ x \in S
      BY <1>1, <1>3, <2>1, ComingAre DEF ComingInv, Base
    <3> HIDE DEF X, Z
    <3>2. Unbroken(Z)  BY <1>1, <3>1, UnbrokenWhole
    <3> QED BY <3>2 DEF Z, Unbroken
  <2>3. ASSUME NEW m \in Inputs, NEW k \in TurnKinds, m # n
        PROVE  Mark(k, m) \in Coming' <=> Mark(k, m) \in Coming
    <3>1. Mark(k, m) \notin S  BY <1>1, <2>3, OneMark
    <3> QED BY <2>1, <3>1
  <2>4. /\ Mark("response", n) \in Coming' /\ Mark("started", n) \in Coming'
        /\ Mark("part1", n) \in Coming'
    BY <1>1, <2>1, Kinds
  <2>5. ASSUME NEW m \in Inputs, m \notin crossed' PROVE Followed(m)'
    <3>1. Followed(m) /\ UnderWay(m)  BY <1>2, <2>5 DEF ComingInv, WayInv
    <3>2. CASE m = n
      <4>1. m \in pending  BY <1>1, <3>1, <3>2 DEF UnderWay, Asking
      <4> QED BY <1>2, <2>4, <3>2, <4>1 DEF Followed
    <3>3. CASE m # n
      <4>1. Opened' = Opened  BY <1>2 DEF Opened
      <4> QED BY <1>2, <2>3, <3>1, <3>3, <4>1, Kinds DEF Followed
    <3> QED BY <3>2, <3>3
  <2>6. RawInv'  BY <1>2 DEF ComingInv, RawInv
  <2> QED BY <2>2, <2>5, <2>6 DEF ComingInv
<1> QED BY <1>5, <1>6

\* The connection breaks, or the app-server exits.
LEMMA ComingBroken ==
  ASSUME Base, Types', ComingInv, Break \/ Exit
  PROVE  ComingInv'
<1>1. Broken /\ link' = FALSE /\ UNCHANGED <<pending, routable, raw, outcome>>
      /\ crossed \subseteq crossed'
  BY DEF Break, Exit, Broken, trackerVars, shownVars
<1>2. Inn' = Inn /\ Hold' = Hold  BY BreakLine, ExitLine
<1>3. /\ Contents(Wire)' \subseteq Contents(Wire)
      /\ \A x \in Contents(Wire)', y \in Contents(Wire) : y < x => y \in Contents(Wire)'
  BY <1>1, BrokenWire DEF LeftOf
<1>4. Coming' = Contents(Inn) \cup Contents(Hold) \cup Contents(Wire)'
  BY <1>1, <1>2 DEF Coming
<1>5. Coming' \subseteq Coming  BY <1>3, <1>4 DEF Coming
<1>6. ASSUME NEW x \in Coming', NEW y \in Coming, y < x PROVE y \in Coming'
  <2>1. x \in Nat /\ y \in Nat  BY <1>5, ComingAre DEF Base
  <2>2. /\ Before(Contents(Inn), Contents(Wire) \cup Contents(Todo))
        /\ Before(Contents(Hold), Contents(Wire) \cup Contents(Todo))
        /\ Before(Contents(Wire), Contents(Todo))
    BY PartsInOrder DEF Base, LineInv, Before
  <2>3. y \in Contents(Inn) \cup Contents(Hold) \cup Contents(Wire) \cup Contents(Todo)
    BY DEF Coming
  <2>4. CASE y \in Contents(Wire)
    <3>1. ~(x < y)  BY <1>6, <2>1
    <3>2. x \in Contents(Wire)'  BY <1>4, <2>2, <2>4, <3>1 DEF Before
    <3> QED BY <1>3, <1>4, <1>6, <2>4, <3>2
  <2>5. CASE y \in Contents(Todo)
    <3>1. ~(x < y)  BY <1>6, <2>1
    <3> QED BY <1>3, <1>4, <2>2, <2>5, <3>1 DEF Before
  <2> QED BY <1>4, <2>3, <2>4, <2>5
<1> QED BY <1>1, <1>5, <1>6, ComingCut DEF Base

\* The pump exits when the link is gone.
LEMMA ComingPumped ==
  ASSUME Base, Types', ComingInv, PumpExits
  PROVE  ComingInv'
<1>1. link' = link /\ UNCHANGED <<pending, routable, raw, outcome, crossed>>
  BY DEF PumpExits, trackerVars, shownVars, historyVars
<1>2. ~link  BY DEF PumpExits, Base, PositionInv, At
<1>3. Inn' = Inn /\ Contents(Hold)' = {} /\ Contents(Wire)' = {}  BY PumpExitsLine
<1>4. Coming' = Contents(Inn) /\ Coming = Contents(Inn) \cup Contents(Hold) \cup Contents(Wire)
  BY <1>1, <1>2, <1>3 DEF Coming
<1>5. ASSUME NEW x \in Coming', NEW y \in Coming, y < x PROVE y \in Coming'
  <2>1. x \in Nat /\ y \in Nat  BY <1>4, ComingAre DEF Base
  <2>2. Before(Contents(Inn), Contents(Hold) \cup Contents(Wire))
    BY PartsInOrder DEF Base, LineInv, Before
  <2>3. ~(x < y)  BY <1>5, <2>1
  <2> QED BY <1>4, <2>2, <2>3 DEF Before
<1> QED BY <1>1, <1>4, <1>5, ComingCut DEF Base

\* An event of a turn is taken: nothing of the turns comes before it.
FirstToCome(k, m) ==
  /\ k \in TurnKinds /\ m \in Inputs
  /\ \A x : x \in Coming <=> x = Mark(k, m) \/ x \in Coming'
  /\ \A x \in Coming' : Mark(k, m) < x

\* The event at the head of the channel is the first to come.
LEMMA EventIsFirst ==
  ASSUME Base, Types', Taken
  PROVE  /\ Head(inn).kind = "status" => Coming' = Coming
         /\ Head(inn).kind # "status" => FirstToCome(Head(inn).kind, Turn)
<1> DEFINE h == EventMark[Head(inn)]
<1>1. /\ \A x : x \in Contents(Inn) <=> (x = h /\ x # 0) \/ x \in Contents(Inn)'
      /\ Hold' = Hold /\ Wire' = Wire /\ Todo' = Todo
      /\ h # 0 => \A x \in OnLine' : h < x
  BY TakenLine
<1>2. link' = link  BY DEF Taken
<1>3. Head(inn) \in Events  BY FirstEvent DEF Base, Taken
<1>4. Head(inn).kind = "status" => h = 0  BY <1>3, AnEvent
<1>5. Head(inn).kind # "status" =>
        /\ Head(inn).kind \in TurnKinds /\ Turn \in Inputs
        /\ h = Mark(Head(inn).kind, Turn) /\ h # 0
  BY <1>3, AnEvent, Marks DEF Turn
<1>6. Coming' \subseteq OnLine'  BY OnLineIs DEF Coming
<1> HIDE DEF h
<1>7. \A x : x \in Coming <=> (x = h /\ x # 0) \/ x \in Coming'
  <2> DEFINE R == Contents(Hold) \cup Contents(Wire) \cup (IF link THEN Contents(Todo) ELSE {})
  <2>1. Coming = Contents(Inn) \cup R  BY DEF Coming
  <2>2. Coming' = Contents(Inn)' \cup R  BY <1>1, <1>2 DEF Coming
  <2> HIDE DEF R
  <2> QED BY <1>1, <2>1, <2>2
<1>8. Head(inn).kind = "status" => Coming' = Coming  BY <1>4, <1>7
<1> QED BY <1>1, <1>5, <1>6, <1>7, <1>8 DEF FirstToCome

\* When the first event is taken no other has lost those before it.
LEMMA RestIsUnbroken ==
  ASSUME Unbroken(Coming), NEW e, NEW t, FirstToCome(e, t)
  PROVE  Unbroken(Coming)'
<1> DEFINE X == Coming
           Y == Coming'
           h == Mark(e, t)
<1>1. Unbroken(X) /\ (\A x : x \in X <=> x = h \/ x \in Y) /\ \A y \in Y : h < y
  BY DEF FirstToCome
<1> HIDE DEF X, Y, h
<1>2. Unbroken(Y)  BY <1>1, UnbrokenRest
<1> QED BY <1>2 DEF Y, Unbroken

\* An event comes with those before it that have not come.
LEMMA StillToCome ==
  ASSUME Unbroken(Coming), NEW e, NEW t, FirstToCome(e, t),
         NEW k \in TurnKinds, NEW l \in TurnKinds, NEW m \in Inputs,
         k \in Due, Rank[k] < Rank[l], Mark(l, m) \in Coming'
  PROVE  /\ Mark(k, m) \in Coming' \/ (m = t /\ Rank[k] <= Rank[e])
         /\ m = t => Rank[e] < Rank[l]
<1>1. /\ e \in TurnKinds /\ t \in Inputs /\ m \in Nat /\ t \in Nat
      /\ Rank[e] \in 1..9 /\ Rank[k] \in 1..9 /\ Rank[l] \in 1..9
  BY Ranks, CodexAssumption DEF FirstToCome, Inputs
<1>2. Mark(e, t) < Mark(l, m)  BY DEF FirstToCome
<1>3. m = t => Rank[e] < Rank[l]  BY <1>1, <1>2 DEF Mark
<1>4. Mark(k, m) \in Coming \/ \A x \in Coming : Mark(k, m) < x
  BY DEF Unbroken, FirstToCome
<1>5. CASE \A x \in Coming : Mark(k, m) < x
  <2>1. Mark(k, m) < Mark(e, t)  BY <1>5 DEF FirstToCome
  <2>2. m = t /\ Rank[k] <= Rank[e]  BY <1>1, <1>2, <2>1 DEF Mark
  <2> QED BY <1>3, <2>2
<1>6. CASE Mark(k, m) \in Coming
  <2>1. CASE Mark(k, m) = Mark(e, t)
    <3>1. k = e /\ m = t  BY <1>1, <2>1, OneMark
    <3> QED BY <1>1, <1>3, <3>1
  <2>2. CASE Mark(k, m) \in Coming'  BY <1>3, <2>2
  <2> QED BY <1>6, <2>1, <2>2 DEF FirstToCome
<1> QED BY <1>4, <1>5, <1>6

\* Events of other kinds do not go with it.
LEMMA OthersStay ==
  ASSUME NEW e, NEW t, FirstToCome(e, t), NEW k \in TurnKinds, NEW m \in Inputs
  PROVE  /\ Mark(k, m) \in Coming' => Mark(k, m) \in Coming
         /\ Mark(k, m) \in Coming => Mark(k, m) \in Coming' \/ (k = e /\ m = t)
         /\ m = t /\ Mark(k, m) \in Coming => Rank[e] <= Rank[k]
         /\ Mark(e, t) \in Coming
<1>1. e \in TurnKinds /\ t \in Inputs /\ t \in Nat /\ m \in Nat
      /\ Rank[e] \in 1..9 /\ Rank[k] \in 1..9
  BY Ranks, CodexAssumption DEF FirstToCome, Inputs
<1>2. ASSUME m = t, Mark(k, m) \in Coming PROVE Rank[e] <= Rank[k]
  <2>1. Mark(k, m) = Mark(e, t) \/ Mark(e, t) < Mark(k, m)  BY <1>2 DEF FirstToCome
  <2> QED BY <1>1, <1>2, <2>1 DEF Mark
<1>3. Mark(k, m) = Mark(e, t) => k = e /\ m = t  BY <1>1, OneMark
<1> QED BY <1>2, <1>3 DEF FirstToCome

\* What comes of the other turns while the turn t is at the event e.
LEMMA OtherTurns ==
  ASSUME ComingInv, NEW e, NEW t, FirstToCome(e, t), NEW m \in Inputs
  PROVE  /\ Mark("part1", m) \in Coming' =>
              Mark("started", m) \in Coming' \/ (m = t /\ e \in {"started", "note"})
         /\ \A k \in {"part2", "part3"} : Mark(k, m) \in Coming' =>
              Mark("part1", m) \in Coming' \/ (m = t /\ e \in {"part1", "tool", "part2"})
<1>1. Unbroken(Coming)  BY DEF ComingInv
<1>2. e \in TurnKinds  BY DEF FirstToCome
<1>3. /\ Rank["response"] = 1 /\ Rank["started"] = 2 /\ Rank["note"] = 3 /\ Rank["part1"] = 4
      /\ Rank["tool"] = 5 /\ Rank["part2"] = 6 /\ Rank["part3"] = 7 /\ Rank["item"] = 8
      /\ Rank["ended"] = 9
  BY Ranks
<1>4. \/ e = "response" \/ e = "started" \/ e = "note" \/ e = "part1" \/ e = "tool"
      \/ e = "part2" \/ e = "part3" \/ e = "item" \/ e = "ended"
  BY <1>2 DEF TurnKinds
<1>5. ASSUME Mark("part1", m) \in Coming'
      PROVE  Mark("started", m) \in Coming' \/ (m = t /\ e \in {"started", "note"})
  <2>1. /\ Mark("started", m) \in Coming' \/ (m = t /\ Rank["started"] <= Rank[e])
        /\ m = t => Rank[e] < Rank["part1"]
    BY <1>1, <1>3, <1>5, Kinds, StillToCome
  <2> QED BY <1>3, <1>4, <2>1
<1>6. ASSUME NEW k \in {"part2", "part3"}, Mark(k, m) \in Coming'
      PROVE  Mark("part1", m) \in Coming' \/ (m = t /\ e \in {"part1", "tool", "part2"})
  <2>1. k \in TurnKinds /\ Rank[k] <= 7 /\ Rank["part1"] < Rank[k]  BY <1>3, Kinds
  <2>2. /\ Mark("part1", m) \in Coming' \/ (m = t /\ Rank["part1"] <= Rank[e])
        /\ m = t => Rank[e] < Rank[k]
    BY <1>1, <1>6, <2>1, Kinds, StillToCome
  <2>3. Rank[k] \in Nat  BY <2>1, Ranks
  <2>4. m = t => Rank[e] < 7  BY <1>3, <1>4, <2>1, <2>2, <2>3
  <2> QED BY <1>3, <1>4, <2>2, <2>4
<1> QED BY <1>5, <1>6

\* An event that does not answer a request leaves its turn known.
LEMMA ItemStays ==
  ASSUME NEW e, NEW t, FirstToCome(e, t), e # "response", NEW m \in Inputs, Followed(m),
         pending' = pending,
         \/ routable' = routable
         \/ e = "ended" /\ routable' = routable \ {t}
  PROVE  \A k \in {"note", "item"} : Mark(k, m) \in Coming' =>
           m \in routable' \/ (m \in pending' /\ Mark("response", m) \in Coming')
<1> SUFFICES ASSUME NEW k \in {"note", "item"}, Mark(k, m) \in Coming'
             PROVE  m \in routable' \/ (m \in pending' /\ Mark("response", m) \in Coming')
  OBVIOUS
<1>1. k \in TurnKinds  BY Kinds
<1>2. Mark(k, m) \in Coming  BY <1>1, OthersStay
<1>3. CASE m \in routable
  <2>1. ~(e = "ended" /\ m = t)
    <3>1. m = t => Rank[e] <= Rank[k]  BY <1>1, <1>2, OthersStay
    <3>2. Rank["ended"] = 9 /\ (Rank[k] = 3 \/ Rank[k] = 8)  BY Ranks
    <3> QED BY <3>1, <3>2
  <2> QED BY <1>3, <2>1
<1>4. CASE m \in pending /\ Mark("response", m) \in Coming
  <2>1. Mark("response", m) \in Coming'  BY <1>4, Kinds, OthersStay
  <2> QED BY <1>4, <2>1
<1> QED BY <1>2, <1>3, <1>4 DEF Followed

\* The session learns that its request is at work.
LEMMA ComingOfResponse ==
  ASSUME Base, ComingInv, NEW t, FirstToCome("response", t),
         pending' = pending \ {t},
         routable' = IF t \in pending THEN routable \cup {t} ELSE routable,
         UNCHANGED <<raw, outcome, crossed>>
  PROVE  ComingInv'
<1>1. Unbroken(Coming)'  BY RestIsUnbroken DEF ComingInv
<1>2. \A m \in Inputs :
        /\ Mark("part1", m) \in Coming' => Mark("started", m) \in Coming'
        /\ \A k \in {"part2", "part3"} : Mark(k, m) \in Coming' => Mark("part1", m) \in Coming'
  BY OtherTurns
<1>3. RawInv'  BY DEF ComingInv, RawInv
<1>4. ASSUME NEW m \in Inputs, m \notin crossed' PROVE Followed(m)'
  <2>1. Followed(m)  BY <1>4 DEF ComingInv
  <2>2. ASSUME NEW k \in {"note", "item"}, Mark(k, m) \in Coming'
        PROVE  m \in routable' \/ (m \in pending' /\ Mark("response", m) \in Coming')
    <3>1. Mark(k, m) \in Coming  BY <2>2, Kinds, OthersStay
    <3>2. CASE m \in routable  BY <3>2
    <3>3. CASE m \in pending /\ Mark("response", m) \in Coming
      <4>1. Mark("response", m) \in Coming' \/ m = t  BY <3>3, Kinds, OthersStay
      <4> QED BY <3>3, <4>1
    <3> QED BY <2>1, <3>1, <3>2, <3>3 DEF Followed
  <2> QED BY <1>2, <1>4, <2>2 DEF Followed
<1> QED BY <1>1, <1>3, <1>4 DEF ComingInv

\* A turn starts or ends, and the buffer is emptied.
LEMMA ComingOfStart ==
  ASSUME Base, ComingInv, NEW e, NEW t, FirstToCome(e, t), raw' = Empty,
         UNCHANGED <<pending, crossed>>,
         \/ e = "started" /\ routable' = routable
         \/ e = "ended" /\ routable' = routable \ {t}
  PROVE  ComingInv'
<1>1. Unbroken(Coming)'  BY RestIsUnbroken DEF ComingInv
<1>2. RawInv'  BY NoRaw
<1>3. ASSUME NEW m \in Inputs, m \notin crossed' PROVE Followed(m)'
  <2>1. Followed(m)  BY <1>3 DEF ComingInv
  <2>2. \A k \in {"note", "item"} : Mark(k, m) \in Coming' =>
          m \in routable' \/ (m \in pending' /\ Mark("response", m) \in Coming')
    BY <2>1, ItemStays
  <2>3. \A k \in {"part2", "part3"} : Mark(k, m) \in Coming' => Mark("part1", m) \in Coming'
    BY OtherTurns
  <2> QED BY <2>2, <2>3 DEF Followed
<1> QED BY <1>1, <1>2, <1>3 DEF ComingInv

\* The task calls a tool.
LEMMA ComingOfTool ==
  ASSUME Base, ComingInv, NEW t, FirstToCome("tool", t),
         UNCHANGED <<pending, routable, raw, outcome, crossed>>
  PROVE  ComingInv'
<1>1. Unbroken(Coming)'  BY RestIsUnbroken DEF ComingInv
<1>2. \A m \in Inputs :
        /\ Mark("part1", m) \in Coming' => Mark("started", m) \in Coming'
        /\ \A k \in {"part2", "part3"} :
             Mark(k, m) \in Coming' => m = t \/ Mark("part1", m) \in Coming'
  BY OtherTurns
<1>3. t \in Inputs /\ Mark("part1", t) \notin Coming
  <2>1. t \in Inputs  BY DEF FirstToCome
  <2> QED BY <2>1, Ranks, Kinds, OthersStay
<1>4. RawInv'  BY DEF ComingInv, RawInv
<1>5. ASSUME NEW m \in Inputs, m \notin crossed' PROVE Followed(m)'
  <2>1. Followed(m)  BY <1>5 DEF ComingInv
  <2>2. \A k \in {"note", "item"} : Mark(k, m) \in Coming' =>
          m \in routable' \/ (m \in pending' /\ Mark("response", m) \in Coming')
    BY <2>1, ItemStays
  <2>3. ASSUME NEW k \in {"part2", "part3"}, Mark(k, m) \in Coming'
        PROVE  Mark("part1", m) \in Coming' \/ raw'.truncated \/ Opened' \/ outcome'[m] # None
    <3>1. Mark(k, m) \in Coming  BY <2>3, Kinds, OthersStay
    <3>2. Opened' = Opened  BY DEF Opened
    <3> QED BY <1>2, <1>3, <2>1, <2>3, <3>1, <3>2 DEF Followed
  <2> QED BY <1>2, <2>2, <2>3 DEF Followed
<1> QED BY <1>1, <1>4, <1>5 DEF ComingInv

\* The buffer after a delta of a turn that has been followed and has no message before.
LEMMA DeltaOpens ==
  ASSUME Types, NEW e \in Parts, NEW t, FirstToCome(e, t), Followed(t), outcome[t] = None,
         ~Ingested(Say(e, t)).truncated
  PROVE  /\ Ingested(Say(e, t)).parts # <<>>
         /\ Head(Ingested(Say(e, t)).parts).kind = "part1"
<1>1. t \in Inputs /\ e \in TurnKinds  BY DEF FirstToCome
<1>2. Say(e, t) \in TurnEvents /\ Say(e, t).kind = e  BY <1>1, SaidEvent
<1>3. ~raw.truncated /\ Ingested(Say(e, t)).parts = Append(raw.parts, Say(e, t))
  BY <1>2, IngestedIs
<1>4. raw.parts \in Seq(TurnEvents)  BY DEF Types, TrackerTypes
<1>5. Mark(e, t) \in Coming  BY <1>1, OthersStay
<1>6. \A k \in TurnKinds : Mark(k, t) \in Coming => Rank[e] <= Rank[k]  BY <1>1, OthersStay
<1>7. CASE e = "part1"
  <2>1. Mark("started", t) \notin Coming /\ Mark("note", t) \notin Coming
    BY <1>6, <1>7, Ranks, Kinds
  <2>2. raw = Empty  BY <1>5, <1>7, <2>1 DEF Followed
  <2>3. raw.parts = <<>>  BY <2>2 DEF Empty
  <2>4. Ingested(Say(e, t)).parts = <<Say(e, t)>>  BY <1>3, <2>3
  <2> QED BY <1>2, <1>7, <2>4
<1>8. CASE e \in {"part2", "part3"}
  <2>1. Mark("part1", t) \notin Coming  BY <1>6, <1>8, Ranks, Kinds
  <2>2. Opened  BY <1>3, <1>5, <1>8, <2>1 DEF Followed
  <2>3. Head(Append(raw.parts, Say(e, t))) = Head(raw.parts)
        /\ Append(raw.parts, Say(e, t)) # <<>>
    BY <1>4, <2>2 DEF Opened
  <2> QED BY <1>3, <2>2, <2>3 DEF Opened
<1> QED BY <1>7, <1>8 DEF Parts

\* A delta comes.
LEMMA ComingOfDelta ==
  ASSUME Base, ComingInv, NEW e \in Parts, NEW t, FirstToCome(e, t),
         raw' = Ingested(Say(e, t)),
         UNCHANGED <<pending, routable, outcome, crossed>>
  PROVE  ComingInv'
<1>1. Unbroken(Coming)'  BY RestIsUnbroken DEF ComingInv
<1>2. \A m \in Inputs :
        /\ Mark("part1", m) \in Coming' => Mark("started", m) \in Coming'
        /\ \A k \in {"part2", "part3"} :
             Mark(k, m) \in Coming' => m = t \/ Mark("part1", m) \in Coming'
  BY OtherTurns DEF Parts
<1>3. t \in Inputs /\ e \in TurnKinds /\ e # "response"  BY DEF FirstToCome, Parts
<1>4. Say(e, t) \in TurnEvents  BY <1>3, SaidEvent
<1>5. RawInv'
  <2>1. Len(raw'.parts) <= RawCap /\ raw'.parts \in Seq(TurnEvents)
    BY <1>4, IngestedIs DEF Base
  <2>2. ~(Len(raw'.parts) > RawCap)
    <3>1. RawCap \in Nat /\ Len(raw'.parts) \in Nat  BY <2>1, CodexAssumption
    <3> QED BY <2>1, <3>1
  <2> QED BY <2>2 DEF RawInv
<1>6. ASSUME NEW m \in Inputs, m \notin crossed' PROVE Followed(m)'
  <2>1. Followed(m)  BY <1>6 DEF ComingInv
  <2>2. \A k \in {"note", "item"} : Mark(k, m) \in Coming' =>
          m \in routable' \/ (m \in pending' /\ Mark("response", m) \in Coming')
    BY <1>3, <2>1, ItemStays
  <2>3. m = t => raw'.truncated \/ Opened' \/ outcome'[m] # None
    BY <2>1, DeltaOpens DEF Base, Opened
  <2> QED BY <1>2, <2>2, <2>3 DEF Followed
<1> QED BY <1>1, <1>5, <1>6 DEF ComingInv

\* A message is complete.
LEMMA ComingOfItem ==
  ASSUME Base, ComingInv, NEW kind \in {"note", "item"}, NEW t, FirstToCome(kind, t),
         NEW o, o # None, outcome' = [outcome EXCEPT ![t] = o], NEW content,
         \/ raw' = raw
         \/ \E text \in Texts(kind, content, t) : raw' = [raw EXCEPT !.parts = text],
         UNCHANGED <<pending, routable, crossed>>
  PROVE  ComingInv'
<1>1. Unbroken(Coming)'  BY RestIsUnbroken DEF ComingInv
<1>2. \A m \in Inputs : m # t =>
        /\ Mark("part1", m) \in Coming' => Mark("started", m) \in Coming'
        /\ \A k \in {"part2", "part3"} : Mark(k, m) \in Coming' => Mark("part1", m) \in Coming'
  BY OtherTurns
<1>3. t \in Inputs /\ outcome'[t] # None /\ \A m \in Inputs : m # t => outcome'[m] = outcome[m]
  BY DEF FirstToCome, Base, Types, TrackerTypes
<1>4. ASSUME Len(raw'.parts) > RawCap PROVE outcome'[Last(raw'.parts).turn] # None
  <2>1. CASE raw' = raw
    <3>1. outcome[Last(raw.parts).turn] # None
      BY <1>4, <2>1 DEF ComingInv, RawInv
    <3>2. Last(raw.parts).turn \in Inputs
      <4>1. raw.parts \in Seq(TurnEvents) /\ RawCap \in Nat
        BY CodexAssumption DEF Base, Types, TrackerTypes
      <4>2. Len(raw.parts) \in DOMAIN raw.parts  BY <1>4, <2>1, <4>1
      <4>3. Last(raw.parts) \in TurnEvents  BY <4>1, <4>2 DEF Last
      <4> QED BY <4>3 DEF TurnEvents
    <3> QED BY <1>3, <2>1, <3>1, <3>2
  <2>2. CASE \E text \in Texts(kind, content, t) : raw' = [raw EXCEPT !.parts = text]
    <3>1. PICK text \in Texts(kind, content, t) : raw' = [raw EXCEPT !.parts = text]
      BY <2>2
    <3>2. raw'.parts = text  BY <3>1 DEF Base, Types, TrackerTypes
    <3>3. Last(raw'.parts).turn = t  BY <1>3, <3>2, TextIs
    <3> QED BY <1>3, <3>3
  <2> QED BY <2>1, <2>2
<1>5. RawInv'  BY <1>4 DEF RawInv
<1>6. ASSUME NEW m \in Inputs, m \notin crossed' PROVE Followed(m)'
  <2>1. Followed(m)  BY <1>6 DEF ComingInv
  <2>2. \A k \in {"note", "item"} : Mark(k, m) \in Coming' =>
          m \in routable' \/ (m \in pending' /\ Mark("response", m) \in Coming')
    BY <2>1, ItemStays
  <2> QED BY <1>2, <1>3, <2>2 DEF Followed
<1> QED BY <1>1, <1>5, <1>6 DEF ComingInv

\* The events, one by one.
LEMMA ComingOfEvents ==
  ASSUME Base, Types', ComingInv, EventStep
  PROVE  ComingInv'
<1>1. Taken /\ crossed' = crossed  BY EventsAreTaken DEF Taken
<1>2. /\ Head(inn).kind = "status" => Coming' = Coming
      /\ Head(inn).kind # "status" => FirstToCome(Head(inn).kind, Turn)
  BY <1>1, EventIsFirst
<1>3. CASE OnResponse
  <2>1. /\ Head(inn).kind = "response" /\ pending' = pending \ {Turn}
        /\ routable' = IF Turn \in pending THEN routable \cup {Turn} ELSE routable
        /\ UNCHANGED <<raw, outcome>>
    BY <1>3 DEF OnResponse, Received, shownVars
  <2>2. FirstToCome("response", Turn)  BY <1>2, <2>1
  <2> HIDE DEF Turn
  <2> QED BY <1>1, <2>1, <2>2, ComingOfResponse
<1>4. CASE OnTurnStarted
  <2>1. Head(inn).kind = "started" /\ raw' = Empty /\ UNCHANGED <<pending, routable>>
    BY <1>4 DEF OnTurnStarted, Received
  <2>2. FirstToCome("started", Turn)  BY <1>2, <2>1
  <2> HIDE DEF Turn
  <2> QED BY <1>1, <2>1, <2>2, ComingOfStart
<1>5. ASSUME NEW e \in Parts, OnDelta(e) PROVE ComingInv'
  <2>1. /\ Head(inn).kind = e /\ raw' = Ingested(Head(inn))
        /\ UNCHANGED <<pending, routable, outcome>>
    BY <1>5 DEF OnDelta, Received
  <2>2. e # "status"  BY DEF Parts
  <2>3. FirstToCome(e, Turn)  BY <1>2, <2>1, <2>2
  <2>4. Head(inn) = Say(e, Turn)  BY <1>1, <2>1, <2>2, FirstEvent DEF Base, Taken
  <2>5. raw' = Ingested(Say(e, Turn))  BY <2>1, <2>4
  <2> HIDE DEF Turn
  <2> QED BY <1>1, <2>1, <2>3, <2>5, ComingOfDelta
<1>6. ASSUME NEW kind \in {"note", "item"}, OnItemCompleted(kind) PROVE ComingInv'
  <2>1. PICK content \in Messages :
          /\ outcome' = [outcome EXCEPT ![Turn] = OutcomeOf(content, Turn \in routable)]
          /\ \/ raw' = raw
             \/ \E text \in Texts(kind, content, Turn) : raw' = [raw EXCEPT !.parts = text]
    BY <1>6 DEF OnItemCompleted
  <2>2. Head(inn).kind = kind /\ UNCHANGED <<pending, routable>>
    BY <1>6 DEF OnItemCompleted, Received
  <2>3. FirstToCome(kind, Turn)  BY <1>2, <2>2
  <2> DEFINE o == OutcomeOf(content, Turn \in routable)
  <2>4. o \in Outcomes /\ o # None
    <3>1. o \in Outcomes  BY DEF OutcomeOf, Outcomes
    <3> QED BY <3>1, CodexAssumption
  <2>5. outcome' = [outcome EXCEPT ![Turn] = o]  BY <2>1
  <2> HIDE DEF o, Turn
  <2> QED BY <1>1, <2>1, <2>2, <2>3, <2>4, <2>5, ComingOfItem
<1>7. CASE OnToolCall
  <2>1. Head(inn).kind = "tool" /\ UNCHANGED <<pending, routable, raw, outcome>>
    BY <1>7 DEF OnToolCall, Received, trackerVars, shownVars
  <2>2. FirstToCome("tool", Turn)  BY <1>2, <2>1
  <2> HIDE DEF Turn
  <2> QED BY <1>1, <2>1, <2>2, ComingOfTool
<1>8. CASE OnTurnCompleted
  <2>1. /\ Head(inn).kind = "ended" /\ raw' = Empty /\ pending' = pending
        /\ routable' = routable \ {Turn}
    BY <1>8 DEF OnTurnCompleted, Received
  <2>2. FirstToCome("ended", Turn)  BY <1>2, <2>1
  <2> HIDE DEF Turn
  <2> QED BY <1>1, <2>1, <2>2, ComingOfStart
<1>9. CASE OnStatus
  <2>1. Head(inn).kind = "status" /\ UNCHANGED <<pending, routable, raw, outcome>>
    BY <1>9 DEF OnStatus, Received, trackerVars
  <2> QED BY <1>1, <1>2, <2>1, ComingStays DEF Base
<1> QED BY <1>3, <1>4, <1>5, <1>6, <1>7, <1>8, <1>9 DEF EventStep

\* Every step keeps known what the next events need.
LEMMA ComingPreserved ==
  ASSUME Base, Types', WayInv, ComingInv, Next
  PROVE  ComingInv'
<1>1. CASE QuietStep
  <2>1. /\ Inn' = Inn /\ Hold' = Hold /\ Wire' = Wire /\ Todo' = Todo /\ link' = link
        /\ UNCHANGED <<pending, routable, raw, outcome, crossed>>
    BY <1>1, QuietSteps, QuietKeepsLine DEF Quiet
  <2>2. Coming' = Coming  BY <2>1 DEF Coming
  <2> QED BY <2>1, <2>2, ComingStays DEF Base
<1>2. CASE Cancel
  <2>1. Coming' = {}  BY <1>2, CancelEmptiesLine, NothingInOrder DEF Coming
  <2>2. raw' = Empty  BY <1>2 DEF Cancel
  <2> QED BY <2>1, <2>2, NothingComes
<1>3. CASE Connect \/ Resume  BY <1>3, ComingConnected
<1>4. CASE End
  <2>1. ~link /\ link' = link /\ raw' = Empty  BY <1>4 DEF End, At, Base, PositionInv
  <2>2. Coming' = {}  BY <1>4, <2>1, EndsLine, NothingInOrder DEF Coming
  <2> QED BY <2>1, <2>2, NothingComes
<1>5. CASE EventStep  BY <1>5, ComingOfEvents
<1>6. CASE TakeInput \/ SendRequest \/ SendFails
  <2>1. Inn' = Inn /\ Hold' = Hold /\ Wire' = Wire /\ Todo' = Todo
    BY <1>6, TakeInputLine, SendRequestLine, SendFailsLine
  <2>2. /\ link' = link /\ pending \subseteq pending'
        /\ UNCHANGED <<routable, raw, outcome, crossed>>
    BY <1>6 DEF TakeInput, SendRequest, SendFails, linkVars, trackerVars, shownVars, historyVars
  <2>3. Coming' = Coming  BY <2>1, <2>2 DEF Coming
  <2> QED BY <2>2, <2>3, ComingStays DEF Base
<1>7. CASE PumpReads \/ PumpPuts \/ PumpSends
  <2>1. Todo' = Todo /\ Contents(Inn)' \cup Contents(Hold)' \cup Contents(Wire)' =
                          Contents(Inn) \cup Contents(Hold) \cup Contents(Wire)
    <3>1. CASE PumpReads
      <4>1. Todo' = Todo /\ Contents(Inn)' = Contents(Inn)
        BY <3>1, PumpReadsLine
      <4>2. Contents(Wire)' \cup Contents(Hold)' = Contents(Wire) \cup Contents(Hold)
        BY <3>1, PumpReadsLine
      <4> QED BY <4>1, <4>2, Zenon
    <3>2. CASE PumpPuts
      <4>1. Todo' = Todo /\ Contents(Wire)' = Contents(Wire)
        BY <3>2, PumpPutsLine
      <4>2. Contents(Hold)' \cup Contents(Inn)' = Contents(Hold) \cup Contents(Inn)
        BY <3>2, PumpPutsLine
      <4> QED BY <4>1, <4>2, Zenon
    <3>3. CASE PumpSends  BY <3>3, PumpSendsLine
    <3> QED BY <1>7, <3>1, <3>2, <3>3
  <2>2. link' = link /\ UNCHANGED <<pending, routable, raw, outcome, crossed>>
    BY <1>7 DEF PumpReads, PumpPuts, PumpSends, trackerVars, shownVars, historyVars
  <2>3. Coming' = Coming  BY <2>1, <2>2 DEF Coming
  <2> QED BY <2>2, <2>3, ComingStays DEF Base
<1>8. CASE PumpExits  BY <1>8, ComingPumped
<1>9. CASE TakeUp  BY <1>9, ComingTakenUp
<1>10. CASE Report
  <2>1. /\ Inn' = Inn /\ Hold' = Hold /\ link' = link
        /\ link => Contents(Todo)' \cup Contents(Wire)' = Contents(Todo) \cup Contents(Wire)
        /\ ~link => Wire' = Wire
    BY <1>10, ReportLine
  <2>2. UNCHANGED <<pending, routable, raw, outcome, crossed>>
    BY <1>10 DEF Report, trackerVars, shownVars, historyVars
  <2>3. Coming' = Coming
    <3>1. Contents(Inn)' = Contents(Inn) /\ Contents(Hold)' = Contents(Hold)  BY <2>1
    <3>2. CASE link
      <4>1. /\ Coming = Contents(Inn) \cup Contents(Hold) \cup Contents(Wire) \cup Contents(Todo)
            /\ Coming' = Contents(Inn)' \cup Contents(Hold)' \cup Contents(Wire)'
                           \cup Contents(Todo)'
        BY <2>1, <3>2 DEF Coming
      <4>2. Contents(Todo)' \cup Contents(Wire)' = Contents(Todo) \cup Contents(Wire)
        BY <2>1, <3>2
      <4> QED BY <3>1, <4>1, <4>2, Zenon
    <3>3. CASE ~link  BY <2>1, <3>3 DEF Coming
    <3> QED BY <3>2, <3>3
  <2> QED BY <2>2, <2>3, ComingStays DEF Base
<1>11. CASE \/ \E t \in Threads : ChangeThread(t)
            \/ \E m \in Inputs : Route(m)
  <2>1. /\ Inn' = Inn /\ Hold' = Hold /\ Contents(Wire)' = Contents(Wire) /\ Todo' = Todo
    BY <1>11, ChangeThreadLine, RouteLine
  <2>2. link' = link /\ UNCHANGED <<pending, routable, raw, outcome, crossed>>
    BY <1>11 DEF ChangeThread, Route, linkVars, trackerVars, shownVars, historyVars
  <2>3. Coming' = Coming  BY <2>1, <2>2 DEF Coming
  <2> QED BY <2>2, <2>3, ComingStays DEF Base
<1>12. CASE Break \/ Exit  BY <1>12, ComingBroken
<1> QED BY <1>1, <1>2, <1>3, <1>4, <1>5, <1>6, <1>7, <1>8, <1>9, <1>10, <1>11, <1>12, AllSteps

----------------------------------------------------------------------------
(* What becomes of the messages, and what the preview shows.               *)

\* A turn that a broken connection has crossed remains crossed.
LEMMA CrossedStay ==
  ASSUME Next
  PROVE  crossed \subseteq crossed'
<1>1. CASE QuietStep \/ Connect \/ Resume \/ End \/ TakeInput \/ SendRequest \/ SendFails
           \/ PumpReads \/ PumpPuts \/ PumpSends \/ PumpExits \/ TakeUp \/ Report
  BY <1>1 DEF QuietStep, Attach, Unregister, ConnectFails, Probe, SleepOver, ResumeFails, OnClosed,
         Connect, Resume, End, TakeInput, SendRequest, SendFails, PumpReads, PumpPuts, PumpSends,
         PumpExits, TakeUp, Report, historyVars
<1>2. CASE EventStep
  BY <1>2 DEF EventStep, OnResponse, OnTurnStarted, OnDelta, OnItemCompleted, OnToolCall,
         OnTurnCompleted, OnStatus, eventFrame
<1>3. CASE Cancel \/ Break \/ Exit  BY <1>3 DEF Cancel, Break, Exit, Broken
<1>4. CASE \/ \E t \in Threads : ChangeThread(t)
           \/ \E m \in Inputs : Route(m)
  BY <1>4 DEF ChangeThread, Route, historyVars
<1> QED BY <1>1, <1>2, <1>3, <1>4, AllSteps

\* Every step honours the target of the message it routes.
LEMMA TargetPreserved ==
  ASSUME Base, Types', ComingInv, TargetIsHonoured, Next
  PROVE  TargetIsHonoured'
<1>1. crossed \subseteq crossed'  BY CrossedStay
<1>2. CASE outcome' = outcome  BY <1>1, <1>2 DEF TargetIsHonoured
<1>3. ASSUME NEW kind \in {"note", "item"}, OnItemCompleted(kind) PROVE TargetIsHonoured'
  <2>1. PICK content \in Messages :
          outcome' = [outcome EXCEPT ![Turn] = OutcomeOf(content, Turn \in routable)]
    BY <1>3 DEF OnItemCompleted
  <2>2. Taken /\ Head(inn).kind = kind
    BY <1>3, EventsAreTaken DEF EventStep, OnItemCompleted, Received
  <2>3. FirstToCome(kind, Turn)  BY <2>2, EventIsFirst
  <2>4. Turn \in Inputs  BY <2>3 DEF FirstToCome
  <2> HIDE DEF Turn
  <2>5. outcome'[Turn] = OutcomeOf(content, Turn \in routable)
        /\ \A m \in Inputs : m # Turn => outcome'[m] = outcome[m]
    BY <2>1, <2>4 DEF Base, Types, TrackerTypes
  <2>6. ASSUME Turn \notin crossed PROVE Turn \in routable
    <3>1. Followed(Turn)  BY <2>4, <2>6 DEF ComingInv
    <3>2. Mark(kind, Turn) \in Coming /\ Mark("response", Turn) \notin Coming
      BY <2>3, <2>4, Ranks, Kinds, OthersStay
    <3> QED BY <3>1, <3>2 DEF Followed
  <2>7. OutcomeOf(content, Turn \in routable) = "diverted" => Turn \notin routable
    BY DEF OutcomeOf
  <2> QED BY <1>1, <2>4, <2>5, <2>6, <2>7 DEF TargetIsHonoured
<1>4. outcome' = outcome \/ OnItemCompleted("note") \/ OnItemCompleted("item")
  <2>1. CASE EventStep
    BY <2>1 DEF EventStep, OnResponse, OnTurnStarted, OnDelta, OnToolCall, OnTurnCompleted,
                OnStatus, shownVars
  <2>2. CASE ~EventStep
    BY <2>2, OthersLeaveTracker DEF Attach, MonitorCancels, Stop, Cancel, Connect, Resume, End,
                                    TakeInput, shownVars
  <2> QED BY <2>1, <2>2
<1> QED BY <1>2, <1>3, <1>4

\* An outcome is not taken back.
LEMMA OutcomesStay ==
  ASSUME Types, Next, NEW m \in Inputs, outcome[m] # None
  PROVE  outcome'[m] # None
<1>1. CASE EventStep
  <2>1. CASE OnItemCompleted("note") \/ OnItemCompleted("item")
    <3>1. PICK content \in Messages :
            outcome' = [outcome EXCEPT ![Turn] = OutcomeOf(content, Turn \in routable)]
      BY <2>1 DEF OnItemCompleted
    <3>2. OutcomeOf(content, Turn \in routable) # None
      <4>1. OutcomeOf(content, Turn \in routable) \in Outcomes  BY DEF OutcomeOf, Outcomes
      <4> QED BY <4>1, CodexAssumption
    <3>3. outcome \in [Inputs -> Outcomes \cup {None}]  BY DEF Types, TrackerTypes
    <3> HIDE DEF Turn
    <3> QED BY <3>1, <3>2, <3>3
  <2>2. CASE ~(OnItemCompleted("note") \/ OnItemCompleted("item"))
    BY <1>1, <2>2 DEF EventStep, OnResponse, OnTurnStarted, OnDelta, OnToolCall,
                      OnTurnCompleted, OnStatus, shownVars
  <2> QED BY <2>1, <2>2
<1>2. CASE ~EventStep
  BY <1>2, OthersLeaveTracker DEF Attach, MonitorCancels, Stop, Cancel, Connect, Resume, End,
                                  TakeInput, shownVars
<1> QED BY <1>1, <1>2

\* No step shows the raw JSON of the first message of a turn that has not been crossed.
LEMMA PreviewPreserved ==
  ASSUME Base, Types', ComingInv, PreviewShowsTheMessage, Next
  PROVE  PreviewShowsTheMessage'
<1>1. crossed \subseteq crossed'  BY CrossedStay
<1>2. ASSUME preview' = preview PROVE PreviewShowsTheMessage'
  <2>1. SUFFICES ASSUME preview.json, preview.turn \notin crossed'
                 PROVE  outcome'[preview.turn] # None
    BY <1>2 DEF PreviewShowsTheMessage
  <2>2. preview.turn \in Inputs  BY <2>1 DEF Base, Types, TrackerTypes
  <2>3. outcome[preview.turn] # None  BY <1>1, <2>1 DEF PreviewShowsTheMessage
  <2> QED BY <2>2, <2>3, OutcomesStay DEF Base
<1>3. CASE preview' = Hidden  BY <1>3 DEF PreviewShowsTheMessage, Hidden
<1>4. ASSUME NEW e \in Parts, OnDelta(e) PROVE PreviewShowsTheMessage'
  <2>1. /\ raw' = Ingested(Head(inn)) /\ Head(inn).kind = e /\ outcome' = outcome
        /\ preview' = IF raw'.truncated THEN preview ELSE PreviewOf(raw', Turn)
    BY <1>4 DEF OnDelta, Received
  <2>2. EventStep  BY <1>4 DEF EventStep
  <2>3. Taken /\ e # "status" /\ e \in TurnKinds  BY <2>2, EventsAreTaken, Kinds DEF Parts
  <2>4. FirstToCome(e, Turn)  BY <2>1, <2>3, EventIsFirst
  <2>5. Head(inn) = Say(e, Turn)  BY <2>1, <2>3, FirstEvent DEF Base, Taken
  <2>6. Turn \in Inputs  BY <2>4 DEF FirstToCome
  <2>7. raw' = Ingested(Say(e, Turn))  BY <2>1, <2>5
  <2> HIDE DEF Turn
  <2>8. CASE raw'.truncated  BY <1>2, <2>1, <2>8
  <2>9. CASE ~raw'.truncated
    <3>1. preview' = [turn |-> Turn, json |-> ShowsJson(raw'.parts)]
      BY <2>1, <2>9 DEF PreviewOf
    <3>2. ASSUME Turn \notin crossed, outcome[Turn] = None PROVE ~ShowsJson(raw'.parts)
      <4>1. Followed(Turn)  BY <2>6, <3>2 DEF ComingInv
      <4>2. Head(raw'.parts).kind = "part1"
        BY <2>4, <2>7, <2>9, <3>2, <4>1, DeltaOpens DEF Base
      <4> QED BY <4>2 DEF ShowsJson
    <3>3. preview'.json <=> ShowsJson(raw'.parts)  BY <3>1
    <3>4. preview'.turn = Turn  BY <3>1
    <3> QED BY <1>1, <2>1, <3>2, <3>3, <3>4 DEF PreviewShowsTheMessage
  <2> QED BY <2>8, <2>9
<1>5. preview' = preview \/ preview' = Hidden \/ \E e \in Parts : OnDelta(e)
  <2>1. CASE EventStep
    BY <2>1 DEF EventStep, OnResponse, OnTurnStarted, OnItemCompleted, OnToolCall,
                OnTurnCompleted, OnStatus, shownVars
  <2>2. CASE ~EventStep
    BY <2>2, OthersLeaveTracker DEF Attach, MonitorCancels, Stop, Cancel, Connect, Resume, End,
                                    TakeInput, shownVars
  <2> QED BY <2>1, <2>2
<1> QED BY <1>2, <1>3, <1>4, <1>5

----------------------------------------------------------------------------
(* The status.                                                             *)

\* The first report, and what those behind it say.
LEMMA TellsTail ==
  ASSUME NEW s \in Seq(Events), s # <<>>, NEW t
  PROVE  /\ Tells(s, t) => \/ Tells(Tail(s), t)
                           \/ Silent(Tail(s)) /\ Head(s).kind = "status" /\ Head(s).thread = t
         /\ Silent(s) => Silent(Tail(s)) /\ Head(s).kind # "status"
<1>1. /\ Tail(s) \in Seq(Events) /\ Len(Tail(s)) = Len(s) - 1 /\ Len(s) \in Nat \ {0}
      /\ \A i \in 1..(Len(s) - 1) : Tail(s)[i] = s[i + 1]
      /\ Head(s) = s[1] /\ 1 \in DOMAIN s
      /\ DOMAIN s = 1..Len(s) /\ DOMAIN Tail(s) = 1..(Len(s) - 1)
  OBVIOUS
<1>2. ASSUME Silent(s) PROVE Silent(Tail(s)) /\ Head(s).kind # "status"
  <2>1. \A i \in 1..(Len(s) - 1) : i + 1 \in DOMAIN s  BY <1>1
  <2> QED BY <1>1, <1>2, <2>1 DEF Silent
<1>3. ASSUME Tells(s, t)
      PROVE  \/ Tells(Tail(s), t)
             \/ Silent(Tail(s)) /\ Head(s).kind = "status" /\ Head(s).thread = t
  <2>1. PICK i \in DOMAIN s :
          /\ s[i].kind = "status" /\ s[i].thread = t
          /\ \A j \in DOMAIN s : j > i => s[j].kind # "status"
    BY <1>3 DEF Tells
  <2>2. CASE i = 1
    <3>1. \A j \in 1..(Len(s) - 1) : j + 1 \in DOMAIN s /\ j + 1 > i  BY <1>1, <2>2
    <3>2. Silent(Tail(s))  BY <1>1, <2>1, <3>1 DEF Silent
    <3> QED BY <1>1, <2>1, <2>2, <3>2
  <2>3. CASE i # 1
    <3>1. i - 1 \in DOMAIN Tail(s) /\ Tail(s)[i - 1] = s[i]  BY <1>1, <2>1, <2>3
    <3>2. \A j \in DOMAIN Tail(s) : j > i - 1 => j + 1 \in DOMAIN s /\ j + 1 > i
                                                 /\ Tail(s)[j] = s[j + 1]
      BY <1>1, <2>1
    <3>3. Tells(Tail(s), t)  BY <2>1, <3>1, <3>2 DEF Tells
    <3> QED BY <3>3
  <2> QED BY <2>2, <2>3
<1> QED BY <1>2, <1>3

\* One more event behind the others.
LEMMA TellsAppend ==
  ASSUME NEW s \in Seq(Events), NEW e \in Events, NEW t
  PROVE  /\ e.kind = "status" /\ e.thread = t => Tells(Append(s, e), t)
         /\ e.kind # "status" /\ Tells(s, t) => Tells(Append(s, e), t)
         /\ e.kind # "status" /\ Silent(s) => Silent(Append(s, e))
<1> DEFINE u == Append(s, e)
           n == Len(s) + 1
<1>1. /\ u \in Seq(Events) /\ Len(s) \in Nat /\ DOMAIN u = 1..n /\ u[n] = e
      /\ DOMAIN s = 1..Len(s) /\ \A i \in 1..Len(s) : u[i] = s[i]
  OBVIOUS
<1> HIDE DEF u
<1>2. \A i \in DOMAIN u : i = n \/ i \in DOMAIN s  BY <1>1
<1>3. n \in DOMAIN u /\ \A i \in DOMAIN s : i \in DOMAIN u /\ i < n  BY <1>1
<1> HIDE DEF n
<1>4. ASSUME e.kind = "status", e.thread = t PROVE Tells(u, t)
  <2>1. \A j \in DOMAIN u : ~(j > n)  BY <1>1 DEF n
  <2> QED BY <1>1, <1>3, <1>4, <2>1 DEF Tells
<1>5. ASSUME e.kind # "status", Tells(s, t) PROVE Tells(u, t)
  <2>1. PICK i \in DOMAIN s :
          /\ s[i].kind = "status" /\ s[i].thread = t
          /\ \A j \in DOMAIN s : j > i => s[j].kind # "status"
    BY <1>5 DEF Tells
  <2>2. \A j \in DOMAIN u : j > i => u[j].kind # "status"  BY <1>1, <1>2, <1>5, <2>1
  <2> QED BY <1>1, <1>3, <2>1, <2>2 DEF Tells
<1>6. ASSUME e.kind # "status", Silent(s) PROVE Silent(u)
  BY <1>1, <1>2, <1>6 DEF Silent
<1> QED BY <1>4, <1>5, <1>6 DEF u

\* At most one event.
LEMMA TellsOne ==
  ASSUME NEW x \in Events \cup {None}, NEW t
  PROVE  /\ Tells(One(x), t) <=> x # None /\ x.kind = "status" /\ x.thread = t
         /\ Silent(One(x)) <=> x = None \/ x.kind # "status"
<1>1. CASE x = None
  <2>1. One(x) = <<>> /\ DOMAIN <<>> = {}  BY <1>1 DEF One
  <2>2. ~Tells(One(x), t) /\ Silent(One(x))  BY <2>1 DEF Tells, Silent
  <2> QED BY <1>1, <2>2
<1>2. CASE x # None
  <2>1. One(x) = <<x>> /\ DOMAIN <<x>> = {1} /\ <<x>>[1] = x  BY <1>2 DEF One
  <2>2. Silent(One(x)) <=> x.kind # "status"  BY <2>1 DEF Silent
  <2>3. Tells(One(x), t) => x.kind = "status" /\ x.thread = t  BY <2>1 DEF Tells
  <2>4. ASSUME x.kind = "status", x.thread = t PROVE Tells(One(x), t)
    <3>1. \A j \in {1} : ~(j > 1)  OBVIOUS
    <3> QED BY <2>1, <2>4, <3>1 DEF Tells
  <2> QED BY <1>2, <2>2, <2>3, <2>4
<1> QED BY <1>1, <1>2

\* Where the reports are, and the session, nothing changes.
LEMMA StatusStays ==
  ASSUME StatusInv, UNCHANGED <<link, wire, pump, inn, thread, changes, intact>>,
         status' = status \/ launch = "ready", launch' = launch \/ launch' # "ready"
  PROVE  StatusInv'
<1>1. SUFFICES ASSUME changes > 0, intact PROVE StatusInv'
  BY DEF StatusInv
<1>2. link  BY <1>1 DEF StatusInv
<1>3. CASE Tells(wire, thread)  BY <1>2, <1>3 DEF StatusInv
<1>4. CASE Silent(wire) /\ Tells(One(pump.hold), thread)  BY <1>2, <1>4 DEF StatusInv
<1>5. CASE Silent(wire) /\ Silent(One(pump.hold)) /\ Tells(inn, thread)
  BY <1>2, <1>5 DEF StatusInv
<1>6. CASE /\ Silent(wire) /\ Silent(One(pump.hold)) /\ Silent(inn)
           /\ status = StatusOf(thread) /\ launch # "ready"
  BY <1>2, <1>6 DEF StatusInv
<1> QED BY <1>1, <1>3, <1>4, <1>5, <1>6 DEF StatusInv

\* With a report lost, or the link down and no new one, there is nothing to claim.
LEMMA StatusForgotten ==
  ASSUME ~intact' \/ (StatusInv /\ ~link /\ UNCHANGED <<changes, intact>>)
  PROVE  StatusInv'
BY DEF StatusInv

\* The status when the task handles an event.
LEMMA StatusOfEvents ==
  ASSUME Base, StatusInv, EventStep
  PROVE  StatusInv'
<1>1. /\ Taken /\ UNCHANGED <<link, wire, pump, thread, changes, launch>>
  <2>1. Taken  BY EventsAreTaken
  <2>2. UNCHANGED <<thread, changes, launch>>
    BY DEF EventStep, OnResponse, OnTurnStarted, OnDelta, OnItemCompleted, OnToolCall,
           OnTurnCompleted, OnStatus, eventFrame, serverVars, launchVars
  <2> QED BY <2>1, <2>2 DEF Taken
<1>2. inn \in Seq(Events) /\ inn # <<>> /\ inn' = Tail(inn)
  BY <1>1 DEF Base, Types, ChannelTypes, Taken
<1>3. SUFFICES ASSUME intact', changes > 0 PROVE StatusInv'
  BY <1>1 DEF StatusInv
<1>4. \/ OnStatus /\ launch # "ready" /\ intact /\ status' = StatusOf(Head(inn).thread)
         /\ Head(inn).kind = "status"
      \/ Head(inn).kind # "status" /\ intact /\ status' = status
  <2>1. CASE OnStatus  BY <1>3, <2>1 DEF OnStatus, Received
  <2>2. CASE ~OnStatus
    <3>1. \A part \in Parts : part # "status"  BY DEF Parts
    <3> QED BY <1>3, <2>2, <3>1 DEF EventStep, OnResponse, OnTurnStarted, OnDelta,
           OnItemCompleted, OnToolCall, OnTurnCompleted, Received, shownVars
  <2> QED BY <2>1, <2>2
<1>5. link  BY <1>3, <1>4 DEF StatusInv
<1>6. CASE Tells(wire, thread) \/ (Silent(wire) /\ Tells(One(pump.hold), thread))
  BY <1>1, <1>5, <1>6 DEF StatusInv
<1>7. CASE Silent(wire) /\ Silent(One(pump.hold)) /\ Tells(inn, thread)
  <2>1. \/ Tells(Tail(inn), thread)
        \/ Silent(Tail(inn)) /\ Head(inn).kind = "status" /\ Head(inn).thread = thread
    BY <1>2, <1>7, TellsTail
  <2>2. CASE Tells(Tail(inn), thread)  BY <1>1, <1>2, <1>5, <1>7, <2>2 DEF StatusInv
  <2>3. CASE Silent(Tail(inn)) /\ Head(inn).kind = "status" /\ Head(inn).thread = thread
    <3>1. launch # "ready" /\ status' = StatusOf(thread)  BY <1>4, <2>3
    <3> QED BY <1>1, <1>2, <1>5, <1>7, <2>3, <3>1 DEF StatusInv
  <2> QED BY <2>1, <2>2, <2>3
<1>8. CASE /\ Silent(wire) /\ Silent(One(pump.hold)) /\ Silent(inn)
           /\ status = StatusOf(thread) /\ launch # "ready"
  <2>1. Silent(Tail(inn)) /\ Head(inn).kind # "status"  BY <1>2, <1>8, TellsTail
  <2>2. status' = status  BY <1>4, <2>1
  <2> QED BY <1>1, <1>2, <1>5, <1>8, <2>1, <2>2 DEF StatusInv
<1> QED BY <1>3, <1>4, <1>6, <1>7, <1>8 DEF StatusInv

\* Every step keeps the last report on its way or its status with the session.
LEMMA StatusPreserved ==
  ASSUME Base, Types', StatusInv, Next
  PROVE  StatusInv'
<1>1. CASE QuietStep
  <2>1. UNCHANGED <<link, wire, pump, inn, thread, changes, intact>>
    BY <1>1, QuietSteps DEF Quiet
  <2>2. /\ status' = status \/ launch = "ready"
        /\ launch' = launch \/ launch' # "ready"
    BY <1>1 DEF QuietStep, Attach, Unregister, ConnectFails, Probe, SleepOver, ResumeFails,
                OnClosed, launchVars, shownVars
  <2> QED BY <2>1, <2>2, StatusStays
<1>2. CASE Cancel \/ Break \/ Exit
  <2>1. ~intact'  BY <1>2 DEF Cancel, Break, Exit, Broken
  <2> QED BY <2>1, StatusForgotten
<1>3. CASE Connect \/ Resume
  <2>1. ~link /\ UNCHANGED <<changes, intact>>  BY <1>3, Connecting
  <2> QED BY <2>1, StatusForgotten
<1>4. CASE End \/ PumpExits
  <2>1. ~link
    BY <1>4 DEF End, PumpExits, At, Base, PositionInv
  <2>2. UNCHANGED <<changes, intact>>  BY <1>4 DEF End, PumpExits, serverVars, historyVars
  <2> QED BY <2>1, <2>2, StatusForgotten
<1>5. CASE EventStep  BY <1>5, StatusOfEvents
<1>6. CASE \/ TakeInput \/ SendRequest \/ SendFails \/ PumpSends \/ TakeUp
           \/ \E m \in Inputs : Route(m)
  <2>1. UNCHANGED <<link, wire, pump, inn, thread, changes, intact, status, launch>>
    BY <1>6 DEF TakeInput, SendRequest, SendFails, PumpSends, TakeUp, Route, launchVars, linkVars,
                channelVars, serverVars, shownVars, historyVars
  <2> QED BY <2>1, StatusStays
<1>7. CASE PumpReads
  <2>1. /\ pump.hold = None /\ wire # <<>> /\ pump' = [pump EXCEPT !.hold = Head(wire)]
        /\ wire' = Tail(wire)
        /\ UNCHANGED <<link, inn, thread, changes, intact, status, launch>>
    BY <1>7 DEF PumpReads, serverVars, historyVars, shownVars, launchVars
  <2>2. wire \in Seq(Events) /\ pump'.hold = Head(wire) /\ Head(wire) \in Events
    BY <2>1 DEF Base, Types, ChannelTypes
  <2>3. SUFFICES ASSUME intact, changes > 0 PROVE StatusInv'
    BY <2>1 DEF StatusInv
  <2>4. link  BY <2>3 DEF StatusInv
  <2>5. ~Tells(One(pump.hold), thread)
    <3>1. pump.hold \in Events \cup {None}  BY <2>1
    <3> QED BY <2>1, <3>1, TellsOne
  <2>6. CASE Tells(wire, thread)
    <3>1. \/ Tells(Tail(wire), thread)
          \/ Silent(Tail(wire)) /\ Head(wire).kind = "status" /\ Head(wire).thread = thread
      BY <2>1, <2>2, <2>6, TellsTail
    <3>2. Head(wire).kind = "status" /\ Head(wire).thread = thread
            => Tells(One(pump'.hold), thread)
      <4>1. pump'.hold \in Events \cup {None} /\ pump'.hold # None
        BY <2>2, CodexAssumption
      <4> QED BY <2>2, <4>1, TellsOne
    <3> QED BY <2>1, <2>4, <3>1, <3>2 DEF StatusInv
  <2>7. CASE Silent(wire)
    <3>1. Silent(Tail(wire)) /\ Head(wire).kind # "status"  BY <2>1, <2>2, <2>7, TellsTail
    <3>2. Silent(One(pump'.hold))
      <4>1. pump'.hold \in Events \cup {None}  BY <2>2
      <4> QED BY <2>2, <3>1, <4>1, TellsOne
    <3>3. \/ Tells(inn, thread)
          \/ Silent(inn) /\ status = StatusOf(thread) /\ launch # "ready"
      <4>1. ~Tells(wire, thread)  BY <2>7 DEF Tells, Silent
      <4> QED BY <2>3, <2>5, <4>1 DEF StatusInv
    <3> QED BY <2>1, <2>4, <3>1, <3>2, <3>3 DEF StatusInv
  <2> QED BY <2>3, <2>6, <2>7 DEF StatusInv
<1>8. CASE PumpPuts
  <2>1. /\ pump.hold # None /\ inn' = Append(inn, pump.hold) /\ pump' = On
        /\ UNCHANGED <<link, wire, thread, changes, intact, status, launch>>
    BY <1>8 DEF PumpPuts, serverVars, historyVars, shownVars, launchVars
  <2>2. inn \in Seq(Events) /\ pump.hold \in Events /\ pump'.hold = None
    BY <2>1 DEF Base, Types, ChannelTypes, On
  <2>3. SUFFICES ASSUME intact, changes > 0 PROVE StatusInv'
    BY <2>1 DEF StatusInv
  <2>4. link  BY <2>3 DEF StatusInv
  <2>5. Silent(One(pump'.hold))
    <3>1. pump'.hold \in Events \cup {None}  BY <2>2
    <3> QED BY <2>2, <3>1, TellsOne
  <2>6. pump.hold \in Events \cup {None}  BY <2>2
  <2>7. CASE Tells(wire, thread)  BY <2>1, <2>4, <2>7 DEF StatusInv
  <2>8. CASE Silent(wire) /\ Tells(One(pump.hold), thread)
    <3>1. pump.hold.kind = "status" /\ pump.hold.thread = thread  BY <2>6, <2>8, TellsOne
    <3>2. Tells(inn', thread)  BY <2>1, <2>2, <3>1, TellsAppend
    <3> QED BY <2>1, <2>4, <2>5, <2>8, <3>2 DEF StatusInv
  <2>9. CASE Silent(wire) /\ Silent(One(pump.hold)) /\ Tells(inn, thread)
    <3>1. pump.hold.kind # "status"  BY <2>1, <2>6, <2>9, TellsOne
    <3>2. Tells(inn', thread)  BY <2>1, <2>2, <2>9, <3>1, TellsAppend
    <3> QED BY <2>1, <2>4, <2>5, <2>9, <3>2 DEF StatusInv
  <2>10. CASE /\ Silent(wire) /\ Silent(One(pump.hold)) /\ Silent(inn)
              /\ status = StatusOf(thread) /\ launch # "ready"
    <3>1. pump.hold.kind # "status"  BY <2>1, <2>6, <2>10, TellsOne
    <3>2. Silent(inn')  BY <2>1, <2>2, <2>10, <3>1, TellsAppend
    <3> QED BY <2>1, <2>4, <2>5, <2>10, <3>2 DEF StatusInv
  <2> QED BY <2>3, <2>7, <2>8, <2>9, <2>10 DEF StatusInv
<1>9. CASE Report
  <2> DEFINE e == Say(Head(server.todo), server.turn)
  <2>1. /\ server # Free
        /\ wire' = IF link THEN Append(wire, e) ELSE wire
        /\ UNCHANGED <<link, pump, inn, thread, changes, intact, status, launch>>
    BY <1>9 DEF Report, Emit, launchVars, shownVars, historyVars
  <2>2. wire \in Seq(Events) /\ e \in Events /\ e.kind # "status"
    <3>1. server.turn \in Inputs /\ Head(server.todo) \in TurnKinds
      BY <2>1 DEF Base, Types, ServerTypes, ServerInv
    <3>2. wire \in Seq(Events)  BY DEF Base, Types, ChannelTypes
    <3> QED BY <3>1, <3>2, SaidEvent
  <2> HIDE DEF e
  <2>3. SUFFICES ASSUME intact, changes > 0 PROVE StatusInv'
    BY <2>1 DEF StatusInv
  <2>4. link /\ wire' = Append(wire, e)  BY <2>1, <2>3 DEF StatusInv
  <2>5. CASE Tells(wire, thread)
    <3>1. Tells(wire', thread)  BY <2>2, <2>4, <2>5, TellsAppend
    <3> QED BY <2>1, <2>4, <3>1 DEF StatusInv
  <2>6. CASE Silent(wire)
    <3>1. Silent(wire')  BY <2>2, <2>4, <2>6, TellsAppend
    <3>2. ~Tells(wire, thread)  BY <2>6 DEF Tells, Silent
    <3>3. \/ Tells(One(pump.hold), thread)
          \/ Silent(One(pump.hold)) /\ Tells(inn, thread)
          \/ /\ Silent(One(pump.hold)) /\ Silent(inn)
             /\ status = StatusOf(thread) /\ launch # "ready"
      BY <2>3, <3>2 DEF StatusInv
    <3> QED BY <2>1, <2>4, <3>1, <3>3 DEF StatusInv
  <2> QED BY <2>3, <2>5, <2>6 DEF StatusInv
<1>10. ASSUME NEW t \in Threads, ChangeThread(t) PROVE StatusInv'
  <2> DEFINE e == [kind |-> "status", thread |-> t]
  <2>1. /\ wire' = IF link THEN Append(wire, e) ELSE wire
        /\ thread' = t /\ intact' = link /\ link' = link
    BY <1>10 DEF ChangeThread, Emit
  <2>2. wire \in Seq(Events) /\ e \in Events /\ e.kind = "status" /\ e.thread = t
    <3>1. wire \in Seq(Events) /\ e \in StatusEvents /\ e.kind = "status" /\ e.thread = t
      BY DEF Base, Types, ChannelTypes, StatusEvents
    <3> HIDE DEF e
    <3> QED BY <3>1 DEF Events
  <2> HIDE DEF e
  <2>3. CASE link
    <3>1. Tells(wire', t)  BY <2>1, <2>2, <2>3, TellsAppend
    <3> QED BY <2>1, <2>3, <3>1 DEF StatusInv
  <2>4. CASE ~link
    <3>1. ~intact'  BY <2>1, <2>4
    <3> QED BY <3>1, StatusForgotten
  <2> QED BY <2>3, <2>4
<1> QED BY <1>1, <1>2, <1>3, <1>4, <1>5, <1>6, <1>7, <1>8, <1>9, <1>10, AllSteps

----------------------------------------------------------------------------
(* The theorems.                                                           *)

\* Every variable is within its type at first.
LEMMA InitTyped == Init => Types
<1> SUFFICES ASSUME Init PROVE Types
  OBVIOUS
<1>0. /\ \A S : <<>> \in Seq(S) /\ Len(<<>>) = 0
      /\ 0 \in 0..MaxAttempts /\ 0 \in 0..MaxConns /\ 0 \in 0..MaxChanges
      /\ 0 <= InCap /\ 0 <= OutCap /\ 0 <= InjectCap
  BY CodexAssumption
<1>1. LaunchTypes
  <2>1. /\ launch = "waiting" /\ registered = FALSE /\ alive = TRUE
        /\ task = [pc |-> "connect", send |-> None] /\ attempts = 0 /\ conns = 0
    BY DEF Init
  <2> QED BY <1>0, <2>1 DEF LaunchTypes
<1>2. ChannelTypes
  <2>1. /\ link = FALSE /\ pump = [on |-> FALSE, hold |-> None]
        /\ wire = <<>> /\ inn = <<>> /\ out = <<>>
    BY DEF Init, Off
  <2> QED BY <1>0, <2>1 DEF ChannelTypes
<1>3. ServerTypes  BY CodexAssumption DEF Init, ServerTypes, Free, Threads
<1>4. TrackerTypes
  BY CodexAssumption DEF Init, TrackerTypes, Empty, Hidden, Statuses
<1>5. InputTypes
  <2>1. /\ inject = <<>> /\ accepted = {} /\ run = {} /\ lost = {}
        /\ finished = {} /\ crossed = {} /\ intact = TRUE /\ early = FALSE
    BY DEF Init
  <2> QED BY <1>0, <2>1 DEF InputTypes
<1> QED BY <1>1, <1>2, <1>3, <1>4, <1>5 DEF Types

\* Nothing is on the line at first.
LEMMA InitEmpty ==
  ASSUME Init
  PROVE  /\ \A a \in 1..8 : Line[a] = <<>>
         /\ Inn = <<>> /\ Hold = <<>> /\ Wire = <<>> /\ Todo = <<>> /\ Asked = <<>>
         /\ Out = <<>> /\ Sending = <<>> /\ OnLine = {}
<1>1. /\ inn = <<>> /\ pump.hold = None /\ wire = <<>> /\ server.turn = None /\ asked = <<>>
      /\ out = <<>> /\ task.send = None /\ inject = <<>>
  BY DEF Init, Off, Free
<1>2. /\ Inn = <<>> /\ Wire = <<>> /\ Asked = <<>> /\ Out = <<>> /\ Inject = <<>>
  <2>1. \A f : Numbered(f, <<>>) = <<>>  BY DEF Numbered
  <2> QED BY <1>1, <2>1 DEF Inn, Wire, Asked, Out, Inject
<1>3. Hold = <<>> /\ Sending = <<>>  BY <1>1, InitTyped, HoldAndSending DEF Types
<1>4. Todo = <<>>  BY <1>1 DEF Todo
<1>5. \A a \in 1..8 : Line[a] = <<>>  BY <1>2, <1>3, <1>4 DEF Line
<1>6. OnLine = {}  BY <1>5, NothingInOrder DEF OnLine
<1> QED BY <1>2, <1>3, <1>4, <1>5, <1>6

\* The inductive invariant holds at first.
LEMMA InitInv == Init => IInv
<1> SUFFICES ASSUME Init PROVE IInv
  OBVIOUS
<1>1. Types  BY InitTyped
<1>2. PositionInv /\ ServerInv
  BY CodexAssumption DEF Init, PositionInv, ServerInv, At, Off, Free
<1>3. LineInv
  <2>1. InLine(8, Line)  BY InitEmpty, NothingInOrder DEF InLine, Before
  <2>2. accepted = {} /\ finished = {}  BY DEF Init
  <2> QED BY <2>1, <2>2, InitEmpty DEF LineInv
<1>4. HandedInv
  <2>1. Inject = <<>>
    <3>1. inject = <<>> /\ Numbered(InputMark, <<>>) = <<>>  BY DEF Init, Numbered
    <3> QED BY <3>1 DEF Inject
  <2>2. Waiting = {}  BY <2>1, InitEmpty, NothingInOrder DEF Waiting
  <2>3. Held = {}  BY <1>1, <2>2, HeldAre
  <2>4. accepted = {} /\ run = {} /\ lost = {}  BY DEF Init
  <2> HIDE DEF Held
  <2> QED BY <2>3, <2>4 DEF HandedInv
<1>5. Coming = {} /\ Asking = {} /\ Contents(Todo) = {}
  BY InitEmpty, NothingInOrder DEF Coming, Asking
<1>6. WayInv
  <2>1. Contents(Todo) = {} /\ Contents(Asked) = {}  BY InitEmpty, NothingInOrder
  <2> QED BY <1>5, <2>1 DEF WayInv, Unbroken, UnderWay
<1>7. ComingInv
  <2>1. raw.parts = <<>>  BY DEF Init, Empty
  <2>2. RawInv
    <3>1. Len(raw.parts) = 0  BY <2>1
    <3> QED BY <3>1, CodexAssumption DEF RawInv
  <2> QED BY <1>5, <2>2 DEF ComingInv, Unbroken, Followed
<1>8. StatusInv  BY DEF Init, StatusInv
<1>9. TargetIsHonoured
  <2>1. \A m \in Inputs : outcome[m] = None  BY DEF Init
  <2>2. None # "diverted"  BY CodexAssumption DEF Outcomes
  <2> QED BY <2>1, <2>2 DEF TargetIsHonoured
<1>10. PreviewShowsTheMessage  BY DEF Init, Hidden, PreviewShowsTheMessage
<1> QED BY <1>1, <1>2, <1>3, <1>4, <1>6, <1>7, <1>8, <1>9, <1>10 DEF IInv

\* Every step keeps types and positions.
LEMMA TypesPreserved ==
  ASSUME Types, PositionInv, ServerInv, Next
  PROVE  Types' /\ PositionInv' /\ ServerInv'
<1>1. LaunchTypes'  BY LaunchTyped
<1>2. ChannelTypes'  BY ChannelsTyped
<1>3. ServerTypes' /\ ServerInv'  BY ServerTyped
<1>4. TrackerTypes'  BY TrackerTyped
<1>5. InputTypes'  BY InputsTyped
<1>6. PositionInv'  BY PositionPreserved
<1> QED BY <1>1, <1>2, <1>3, <1>4, <1>5, <1>6 DEF Types

\* Every step keeps the inductive invariant.
LEMMA NextInv ==
  ASSUME IInv, Next
  PROVE  IInv' /\ HandedStep
<1>1. Types /\ PositionInv /\ ServerInv /\ Base  BY DEF IInv, Base
<1>2. Types' /\ PositionInv' /\ ServerInv'  BY <1>1, TypesPreserved
<1>3. LineInv' /\ HandedInv' /\ HandedStep  BY <1>1, <1>2, LinePreserved DEF LineStep
<1>4. WayInv /\ ComingInv /\ StatusInv /\ TargetIsHonoured /\ PreviewShowsTheMessage
  BY DEF IInv
<1>5. WayInv'  BY <1>1, <1>2, <1>4, WayPreserved
<1>6. ComingInv'  BY <1>1, <1>2, <1>4, ComingPreserved
<1>7. StatusInv'  BY <1>1, <1>2, <1>4, StatusPreserved
<1>8. TargetIsHonoured'  BY <1>1, <1>2, <1>4, TargetPreserved
<1>9. PreviewShowsTheMessage'  BY <1>1, <1>2, <1>4, PreviewPreserved
<1> QED BY <1>2, <1>3, <1>5, <1>6, <1>7, <1>8, <1>9 DEF IInv

\* What does not change keeps the inductive invariant.
LEMMA StutterInv ==
  ASSUME IInv, UNCHANGED vars
  PROVE  IInv'
<1>1. /\ UNCHANGED <<launch, registered, alive, task, attempts, conns, link, pump, wire, inn, out>>
      /\ UNCHANGED <<asked, server, thread, changes, pending, routable, raw>>
      /\ UNCHANGED <<preview, status, outcome, inject, accepted, run, lost>>
      /\ UNCHANGED <<finished, crossed, intact, early>>
  BY DEF vars, launchVars, linkVars, channelVars, serverVars, trackerVars, shownVars, inputVars,
         historyVars
<1>2. Types' /\ PositionInv' /\ ServerInv'
  BY <1>1 DEF IInv, Types, LaunchTypes, ChannelTypes, ServerTypes, TrackerTypes, InputTypes,
              PositionInv, ServerInv, At
<1>3. Line' = Line
  BY <1>1 DEF Line, Inn, Hold, Wire, Todo, Asked, Out, Sending, Inject
<1>4. LineInv'  BY <1>1, <1>3 DEF IInv, LineInv, InLine, OnLine
<1>5. HandedInv'  BY <1>1 DEF IInv, HandedInv, Held
<1>6. Coming' = Coming /\ Asking' = Asking /\ Todo' = Todo /\ Asked' = Asked
  BY <1>1 DEF Coming, Asking, Inn, Hold, Wire, Todo, Asked, Out, Sending
<1>7. WayInv'  BY <1>1, <1>6 DEF IInv, WayInv, Unbroken, UnderWay
<1>8. ComingInv'  BY <1>1, <1>6 DEF IInv, ComingInv, Unbroken, RawInv, Followed, Opened
<1>9. StatusInv'  BY <1>1 DEF IInv, StatusInv
<1>10. TargetIsHonoured' /\ PreviewShowsTheMessage'
  BY <1>1 DEF IInv, TargetIsHonoured, PreviewShowsTheMessage
<1> QED BY <1>2, <1>4, <1>5, <1>7, <1>8, <1>9, <1>10 DEF IInv

\* The inductive invariant holds of every reachable state: whatever the inputs, the breaks of
\* the connection, the failures and the capacities, the events of all turns and the requests
\* for them are in one order from the task's channel back to the inject channel, and for every
\* turn that no broken connection has crossed the tracker knows what its next event needs.
THEOREM Inductive == Spec => []IInv
<1>1. Init => IInv  BY InitInv
<1>2. IInv /\ [Next]_vars => IInv'  BY NextInv, StutterInv
<1> QED BY <1>1, <1>2, PTL DEF Spec

\* Every variable is within its type and no channel exceeds its capacity; the task holds a
\* request exactly while it sends one, and the buffer of deltas is longer than its cap only
\* when the message it is of is complete.
THEOREM TypeCorrect == Spec => []TypeOK
<1>1. IInv => TypeOK
  <2> SUFFICES ASSUME IInv PROVE TypeOK
    OBVIOUS
  <2>1. Types /\ PositionInv  BY DEF IInv
  <2>2. Len(raw.parts) <= RawCap \/ outcome[Last(raw.parts).turn] # None
    <3>1. raw.parts \in Seq(TurnEvents)  BY <2>1 DEF Types, TrackerTypes
    <3>2. Len(raw.parts) \in Nat /\ RawCap \in Nat  BY <3>1, CodexAssumption
    <3> QED BY <3>2 DEF IInv, ComingInv, RawInv
  <2> QED
    BY <2>1, <2>2 DEF TypeOK, Types, LaunchTypes, ChannelTypes, ServerTypes, TrackerTypes,
                      InputTypes, PositionInv
<1> QED BY <1>1, Inductive, PTL

\* A message addressed to an agent goes to the agent, and to the user only if a connection
\* broke during its turn: the response that makes the turn known as one of ours is handled
\* before the message is, since both are on one line and the request was noted before it was
\* sent.
THEOREM TargetsAreHonoured == Spec => []TargetIsHonoured
<1>1. IInv => TargetIsHonoured  BY DEF IInv
<1> QED BY <1>1, Inductive, PTL

\* The preview never shows the raw JSON of the first message of a turn, unless a connection
\* broke during the turn: the buffer is empty when the first delta of a turn comes, since the
\* start of the turn has come before it, and a later delta finds the first, or the buffer cut.
THEOREM PreviewsShowTheMessage == Spec => []PreviewShowsTheMessage
<1>1. IInv => PreviewShowsTheMessage  BY DEF IInv
<1> QED BY <1>1, Inductive, PTL

\* A sequence without reports tells nothing.
LEMMA SilentTellsNothing ==
  ASSUME NEW s, NEW t, \A e \in ToSet(s) : e.kind # "status"
  PROVE  ~Tells(s, t)
BY DEF Tells, ToSet

\* With no report of the status on its way and none lost the session has the status of its
\* thread.
THEOREM StatusFollows == Spec => []StatusFollowsThread
<1>1. IInv => StatusFollowsThread
  <2> SUFFICES ASSUME IInv, changes > 0, intact,
                      \A e \in ToSet(wire) \cup ToSet(inn) \cup ({pump.hold} \ {None}) :
                         e.kind # "status"
               PROVE  status = StatusOf(thread)
    BY DEF StatusFollowsThread
  <2>1. ~Tells(wire, thread) /\ ~Tells(inn, thread)  BY SilentTellsNothing
  <2>2. ~Tells(One(pump.hold), thread)
    <3>1. \A e \in ToSet(One(pump.hold)) : e \in {pump.hold} \ {None}  BY DEF ToSet, One
    <3> QED BY <3>1, SilentTellsNothing
  <2> QED BY <2>1, <2>2 DEF IInv, StatusInv
<1> QED BY <1>1, Inductive, PTL

\* The stage of an input by where it is, before a step and after.
LEMMA StageIs ==
  ASSUME HandedInv, NEW m
  PROVE  /\ m \notin accepted => Stage(m) = "fresh"
         /\ m \in Held => Stage(m) = "held"
         /\ m \in run => Stage(m) = "delivered"
         /\ m \in lost => Stage(m) = "lost"
<1>1. /\ DOMAIN Where = {"held", "delivered", "lost"}
      /\ Where["held"] = Held /\ Where["delivered"] = run /\ Where["lost"] = lost
  BY DEF Where
<1>2. Stage(m) = LET at == {s \in DOMAIN Where : m \in Where[s]}
                 IN  CASE at = {} -> "fresh"
                       [] Cardinality(at) = 1 -> CHOOSE s \in at : TRUE
                       [] OTHER -> "several"
  BY DEF Stage
<1> HIDE DEF Stage, Where, Held
<1>3. /\ (\A s \in DOMAIN Where : m \notin Where[s]) => Stage(m) = "fresh"
      /\ \A s \in DOMAIN Where : m \in Where[s] => Stage(m) = s
  BY <1>1, <1>2, StageOf DEF HandedInv
<1> QED BY <1>1, <1>3 DEF HandedInv

\* The same after a step.
LEMMA StageIsNext ==
  ASSUME HandedInv', NEW m
  PROVE  /\ m \notin accepted' => Stage(m)' = "fresh"
         /\ m \in Held' => Stage(m)' = "held"
         /\ m \in run' => Stage(m)' = "delivered"
         /\ m \in lost' => Stage(m)' = "lost"
<1> DEFINE w == Where'
           stage == Stage(m)'
           held == Held'
<1>1. /\ DOMAIN w = {"held", "delivered", "lost"}
      /\ w["held"] = held /\ w["delivered"] = run' /\ w["lost"] = lost'
  BY DEF Where
<1>2. stage = LET at == {s \in DOMAIN w : m \in w[s]}
              IN  CASE at = {} -> "fresh"
                    [] Cardinality(at) = 1 -> CHOOSE s \in at : TRUE
                    [] OTHER -> "several"
  BY DEF Stage
<1>3. /\ accepted' = held \cup run' \cup lost'
      /\ held \cap run' = {} /\ held \cap lost' = {} /\ run' \cap lost' = {}
  BY DEF HandedInv
<1> HIDE DEF w, stage, held
<1>4. /\ (\A s \in DOMAIN w : m \notin w[s]) => stage = "fresh"
      /\ \A s \in DOMAIN w : m \in w[s] => stage = s
  BY <1>1, <1>2, <1>3, StageOf
<1>5. /\ m \notin accepted' => stage = "fresh"
      /\ m \in held => stage = "held"
      /\ m \in run' => stage = "delivered"
      /\ m \in lost' => stage = "lost"
  BY <1>1, <1>3, <1>4
<1> USE DEF stage, held
<1> HIDE DEF Stage, Held
<1> QED BY <1>5

\* At first no input has been accepted.
LEMMA InitIsHandedOver == Init => Inputs_!Init
<1> SUFFICES ASSUME Init PROVE Inputs_!Init
  OBVIOUS
<1>1. HandedInv  BY InitInv DEF IInv
<1>2. accepted = {}  BY DEF Init
<1>3. \A m \in Inputs : Stage(m) = "fresh"  BY <1>1, <1>2, StageIs
<1> HIDE DEF Stage
<1> QED BY <1>3 DEF Inputs_!Init

\* A step takes an input to the next place or leaves it.
LEMMA StageSteps ==
  ASSUME IInv, IInv', HandedStep, NEW m \in Inputs
  PROVE  /\ Stage(m)' \in Inputs_!Stages
         /\ Stage(m)' = Stage(m) \/ <<Stage(m), Stage(m)'>> \in Inputs_!Moves
<1> HIDE DEF Held, Stage
<1>1. /\ m \notin accepted => Stage(m) = "fresh"
      /\ m \in Held => Stage(m) = "held"
      /\ m \in run => Stage(m) = "delivered"
      /\ m \in lost => Stage(m) = "lost"
  BY StageIs DEF IInv
<1>2. /\ m \notin accepted' => Stage(m)' = "fresh"
      /\ m \in Held' => Stage(m)' = "held"
      /\ m \in run' => Stage(m)' = "delivered"
      /\ m \in lost' => Stage(m)' = "lost"
  <2>1. HandedInv'  BY DEF IInv
  <2> QED BY <2>1, StageIsNext
<1>3. /\ m \notin accepted \/ m \in Held \/ m \in run \/ m \in lost
      /\ m \notin accepted' \/ m \in Held' \/ m \in run' \/ m \in lost'
  BY DEF IInv, HandedInv
<1>4. /\ m \in accepted => m \in accepted'
      /\ m \in run => m \in run'
      /\ m \in lost => m \in lost'
      /\ m \in run' \/ m \in lost' => m \in run \/ m \in lost \/ m \in Held
  BY DEF HandedStep
<1> QED BY <1>1, <1>2, <1>3, <1>4 DEF Inputs_!Stages, Inputs_!Moves

\* Every step of the session is a step of the handover of its inputs.
LEMMA StepIsHandedOver ==
  ASSUME IInv, Next
  PROVE  Inputs_!Next
<1>1. IInv' /\ HandedStep  BY NextInv
<1> HIDE DEF Stage
<1>2. \A m \in Inputs :
        /\ Stage(m)' \in Inputs_!Stages
        /\ Stage(m)' = Stage(m) \/ <<Stage(m), Stage(m)'>> \in Inputs_!Moves
  BY <1>1, StageSteps
<1> QED BY <1>2 DEF Inputs_!Next

\* The session implements the handover of its inputs: each is fresh, then held by one channel,
\* the task or the app-server's queue, then taken up once or known to be lost, and never
\* returns; the steps of the session are steps of the handover or leave it as it is.
THEOREM InputsHandedOver == Spec => InputsAreHandedOver
<1>1. Init => Inputs_!Init  BY InitIsHandedOver
<1>2. IInv /\ [Next]_vars => [Inputs_!Next]_([m \in Inputs |-> Stage(m)])
  <2>1. ASSUME IInv, Next PROVE Inputs_!Next  BY <2>1, StepIsHandedOver
  <2>2. ASSUME UNCHANGED vars PROVE UNCHANGED [m \in Inputs |-> Stage(m)]
    <3>1. UNCHANGED <<inject, task, out, asked, run, lost>>
      BY <2>2 DEF vars, linkVars, channelVars, serverVars, inputVars
    <3> QED BY <3>1 DEF Stage, Where, Held
  <2> QED BY <2>1, <2>2
<1> QED BY <1>1, <1>2, Inductive, PTL DEF Spec, InputsAreHandedOver, Inputs_!Spec
=============================================================================
