------------------------ MODULE ClaudeSessionProofs ------------------------
(***************************************************************************)
(* What holds of a Claude SDK session for every number of launches,        *)
(* sockets and attempts.  The inductive invariant IInv has the types, the  *)
(* range of the attempt counter and of the launch numbers at each step of  *)
(* spawn_runtime, and how sockets, nonces and the ready channel relate.    *)
(***************************************************************************)
EXTENDS ClaudeSession, TLAPS

\* A task that spawns has a launch attempt, and a monitor counts its attempts.
RecordOK(r) ==
  /\ r \in ActorRecord
  /\ r.pc \in {"spawn", "wait", "abort", "publish"} => r.new \in Procs
  /\ r.pc \notin {"giveup", "done"} => r.attempt \in 0..MaxAttempts

ActorsOK == actor = [x \in Actors |-> actor[x]] /\ \A x \in Actors : RecordOK(actor[x])

SocketsOK == socket \in [Sockets -> SocketRecord]

Attached(w) == socket[w].pc \in {"open", "lost"}

\* Each socket attached has its own generation, none beyond the counter.
GenInv ==
  /\ \A w \in Sockets : Attached(w) => socket[w].gen <= generation
  /\ \A w, v \in Sockets : Attached(w) /\ Attached(v) /\ socket[w].gen = socket[v].gen => w = v

\* The launch that waits to be told is the one whose nonce is expected.
ReadyInv == ready # None => pending = ready /\ active = None

IInv == StateTypeOK /\ ActorsOK /\ SocketsOK /\ GenInv /\ ReadyInv /\ OnlineIsCurrent

USE SessionAssumption DEF Actors, Procs

----------------------------------------------------------------------------
(* The records of tasks and sockets *)

\* A record is typed when its fields are.
LEMMA RecordIsOK ==
  ASSUME NEW pc \in PCs, NEW own \in Procs \cup {None}, NEW ep \in Nat,
         NEW attempt \in 0..MaxAttempts, NEW new \in Procs \cup {None}, NEW begun \in Nat,
         pc \in {"spawn", "wait", "abort", "publish"} => new \in Procs
  PROVE  RecordOK(Actor(pc, own, ep, attempt, new, begun))
BY DEF RecordOK, ActorRecord, Actor

\* A field of a record changes, the others do not.
LEMMA FieldChanges ==
  ASSUME NEW r \in ActorRecord
  PROVE  /\ \A c \in PCs : LET s == [r EXCEPT !.pc = c]
                           IN  s \in ActorRecord /\ s.pc = c /\ s.new = r.new /\ s.attempt = r.attempt
         /\ \A n \in 0..MaxAttempts :
              LET s == [r EXCEPT !.attempt = n]
              IN  s \in ActorRecord /\ s.pc = r.pc /\ s.new = r.new /\ s.attempt = n
         /\ \A p \in Procs :
              LET s == [r EXCEPT !.new = p]
              IN  s \in ActorRecord /\ s.pc = r.pc /\ s.new = p /\ s.attempt = r.attempt
         /\ \A e \in Nat :
              LET s == [r EXCEPT !.begun = e]
              IN  s \in ActorRecord /\ s.pc = r.pc /\ s.new = r.new /\ s.attempt = r.attempt
BY DEF ActorRecord

\* The tasks stay well-formed when one of them takes on a well-formed record.
LEMMA OneActorSteps ==
  ASSUME ActorsOK, NEW x \in Actors, NEW r, RecordOK(r), actor' = [actor EXCEPT ![x] = r]
  PROVE  ActorsOK'
<1>1. /\ DOMAIN actor' = Actors
      /\ \A y \in Actors : actor'[y] = IF y = x THEN r ELSE actor[y]
      /\ actor' = [y \in Actors |-> actor'[y]]
  BY DEF ActorsOK
<1> QED BY <1>1 DEF ActorsOK, RecordOK

\* A task goes to a step that asks no more of its record than the one before.
LEMMA GotoKeepsActors ==
  ASSUME ActorsOK, NEW x \in Actors, NEW pc \in PCs, Goto(x, pc),
         pc \in {"spawn", "wait", "abort", "publish"} =>
           actor[x].pc \in {"spawn", "wait", "abort", "publish"},
         actor[x].pc \in {"giveup", "done"} => pc \in {"giveup", "done"}
  PROVE  ActorsOK'
<1>1. RecordOK([actor[x] EXCEPT !.pc = pc])  BY DEF ActorsOK, RecordOK, ActorRecord
<1>2. actor' = [actor EXCEPT ![x] = [actor[x] EXCEPT !.pc = pc]]  BY DEF Goto
<1> QED BY <1>1, <1>2, OneActorSteps

\* So does a task whose launch has failed.
LEMMA FailedKeepsActors ==
  ASSUME ActorsOK, NEW x \in Actors, Failed(x), actor[x].pc \notin {"giveup", "done"}
  PROVE  ActorsOK'
<1>1. CASE x = Daemon  BY <1>1, GotoKeepsActors DEF Failed, PCs
<1>2. CASE x # Daemon
  <2> DEFINE pc == IF actor[x].attempt < MaxAttempts THEN "sleep" ELSE "giveup"
             r == [actor[x] EXCEPT !.attempt = @ + 1, !.pc = pc]
  <2>1. RecordOK(actor[x]) BY DEF ActorsOK
  <2>2. RecordOK(r)
    <3>1. ASSUME NEW a, RecordOK(a), a.pc \notin {"giveup", "done"},
                 NEW c \in {"sleep", "giveup"}, c = "sleep" => a.attempt < MaxAttempts
          PROVE  RecordOK([a EXCEPT !.attempt = @ + 1, !.pc = c])
      <4> DEFINE b == [a EXCEPT !.attempt = @ + 1]
      <4>1. b \in ActorRecord /\ b.attempt = a.attempt + 1 /\ a.attempt \in 0..MaxAttempts
        BY <3>1 DEF RecordOK, ActorRecord
      <4> HIDE DEF b
      <4>2. RecordOK([b EXCEPT !.pc = c])  BY <3>1, <4>1 DEF RecordOK, ActorRecord, PCs
      <4> QED BY <4>2 DEF b
    <3>2. pc \in {"sleep", "giveup"} /\ (pc = "sleep" => actor[x].attempt < MaxAttempts)
      OBVIOUS
    <3> HIDE DEF pc
    <3> QED BY <2>1, <3>1, <3>2
  <2>3. actor' = [actor EXCEPT ![x] = r] BY <1>2 DEF Failed
  <2> QED BY <2>2, <2>3, OneActorSteps
<1> QED BY <1>1, <1>2

\* A socket takes on a record.
LEMMA OneSocketSteps ==
  ASSUME SocketsOK, NEW w \in Sockets, NEW r \in SocketRecord, socket' = [socket EXCEPT ![w] = r]
  PROVE  SocketsOK'
BY DEF SocketsOK

\* A socket is well-formed when its fields are.
LEMMA SocketIsOK ==
  ASSUME NEW pc \in {"new", "upgrade", "open", "lost", "closed"}, NEW p \in Procs \cup {None},
         NEW ep \in Nat, NEW gen \in Nat
  PROVE  Socket(pc, p, ep, gen) \in SocketRecord
BY DEF Socket, SocketRecord

\* Only its state changes.
LEMMA SocketClosesOK ==
  ASSUME SocketsOK, NEW w \in Sockets, NEW pc \in {"lost", "closed"}
  PROVE  /\ [socket[w] EXCEPT !.pc = pc] \in SocketRecord
         /\ [socket EXCEPT ![w].pc = pc] = [socket EXCEPT ![w] = [socket[w] EXCEPT !.pc = pc]]
<1>1. socket[w] \in SocketRecord BY DEF SocketsOK
<1>2. [socket[w] EXCEPT !.pc = pc] \in SocketRecord BY <1>1 DEF SocketRecord
<1> QED BY <1>2

----------------------------------------------------------------------------
(* The initial state *)

\* The invariant holds before anything was launched.
LEMMA InitIInv == Init => IInv
<1> SUFFICES ASSUME Init PROVE IInv OBVIOUS
<1>1. StateTypeOK BY DEF Init, StateTypeOK
<1>2. SocketsOK BY SocketIsOK DEF Init, SocketsOK
<1>3. ActorsOK
  <2>1. \A pc \in {"idle", "none"} : RecordOK(Actor(pc, None, 0, 0, None, 0))
    BY DEF RecordOK, ActorRecord, Actor, PCs
  <2> QED BY <2>1 DEF Init, ActorsOK
<1>4. GenInv /\ ReadyInv /\ OnlineIsCurrent
  BY DEF Init, GenInv, Attached, ReadyInv, OnlineIsCurrent, Socket
<1> QED BY <1>1, <1>2, <1>3, <1>4 DEF IInv

----------------------------------------------------------------------------
(* Steps that leave the sockets alone *)

\* What the invariant says of sockets and nonces survives an end of the session.
LEMMA InvalidateKeepsLinks ==
  ASSUME IInv, Invalidate \/ UNCHANGED sessionVars, UNCHANGED <<generation, socket>>
  PROVE  GenInv' /\ ReadyInv' /\ OnlineIsCurrent' /\ SocketsOK'
<1>1. GenInv' /\ SocketsOK'  BY DEF IInv, GenInv, Attached, SocketsOK
<1>2. ReadyInv' BY DEF IInv, ReadyInv, Invalidate, sessionVars
<1>3. OnlineIsCurrent'
  BY DEF IInv, OnlineIsCurrent, Clears, Invalidate, sessionVars
<1> QED BY <1>1, <1>2, <1>3

\* The command loop's own steps keep the invariant.
LEMMA DaemonKeepsIInv ==
  ASSUME IInv, (\E then \in {"idle", "begin"} : Stop(then)) \/ Stopped \/ LaunchRefused
  PROVE  IInv'
<1> USE DEF At, IInv
<1>1. ASSUME NEW then \in {"idle", "begin"}, Stop(then) PROVE IInv'
  <2>1. StateTypeOK'  BY <1>1 DEF Stop, Kill, StateTypeOK, sessionVars
  <2>2. ActorsOK'
    <3>1. CASE then = "begin" BY <1>1, <3>1, GotoKeepsActors DEF Stop, PCs
    <3>2. CASE then = "idle" BY <1>1, <3>2, GotoKeepsActors DEF Stop, PCs
    <3> QED BY <3>1, <3>2
  <2> QED BY <1>1, <2>1, <2>2, InvalidateKeepsLinks DEF Stop
<1>2. CASE Stopped
  <2>1. StateTypeOK'  BY <1>2 DEF Stopped, Invalidate, StateTypeOK, taskVars
  <2>2. ActorsOK'
    <3>1. CASE actor[Daemon].pc = "restart"
      BY <1>2, <3>1, GotoKeepsActors DEF Stopped, PCs
    <3>2. CASE actor[Daemon].pc = "stop" BY <1>2, <3>2, GotoKeepsActors DEF Stopped, PCs
    <3> QED BY <1>2, <3>1, <3>2 DEF Stopped
  <2> QED BY <1>2, <2>1, <2>2, InvalidateKeepsLinks DEF Stopped
<1>3. CASE LaunchRefused
  <2>1. StateTypeOK'  BY <1>3 DEF LaunchRefused, StateTypeOK, sessionVars
  <2>2. ActorsOK'  BY <1>3, GotoKeepsActors DEF LaunchRefused, PCs
  <2> QED BY <1>3, <2>1, <2>2, InvalidateKeepsLinks DEF LaunchRefused
<1> QED BY <1>1, <1>2, <1>3

\* So does every step of spawn_runtime.
LEMMA SpawnKeepsIInv ==
  ASSUME IInv, NEW x \in Actors, SpawnStep(x)
  PROVE  IInv'
<1> USE DEF At, IInv
<1>0. RecordOK(actor[x]) BY DEF ActorsOK
<1>1. CASE Begin(x)
  <2> DEFINE p == launched + 1
             a == actor[x]
             r1 == [a EXCEPT !.pc = "spawn"]
             r2 == [r1 EXCEPT !.new = p]
             r3 == [r2 EXCEPT !.begun = epoch + 1]
  <2>1. StateTypeOK'  BY <1>1 DEF Begin, StateTypeOK
  <2>2. p \in Procs /\ epoch + 1 \in Nat  BY <1>1 DEF Begin, StateTypeOK
  <2>3. actor' = [actor EXCEPT ![x] = r3]  BY <1>1 DEF Begin
  <2>4. a \in ActorRecord /\ a.attempt \in 0..MaxAttempts  BY <1>0, <1>1 DEF Begin, RecordOK
  <2> HIDE DEF a, p
  <2>5. r1 \in ActorRecord /\ r1.pc = "spawn" /\ r1.attempt = a.attempt
    <3>1. "spawn" \in PCs  BY DEF PCs
    <3> QED BY <2>4, <3>1, FieldChanges
  <2> HIDE DEF r1
  <2>6. r2 \in ActorRecord /\ r2.pc = "spawn" /\ r2.attempt = a.attempt /\ r2.new = p
    BY <2>2, <2>5, FieldChanges
  <2> HIDE DEF r2
  <2>7. RecordOK(r3)  BY <2>2, <2>4, <2>6, FieldChanges DEF RecordOK
  <2> HIDE DEF r3
  <2>8. ActorsOK' BY <2>3, <2>7, OneActorSteps
  <2>9. GenInv' /\ SocketsOK'  BY <1>1 DEF Begin, GenInv, Attached, SocketsOK
  <2>10. ReadyInv' /\ OnlineIsCurrent'  BY <1>1 DEF Begin, ReadyInv, OnlineIsCurrent
  <2> QED BY <2>1, <2>8, <2>9, <2>10
<1>2. CASE Spawn(x)
  <2>1. StateTypeOK'  BY <1>0, <1>2 DEF Spawn, StateTypeOK, RecordOK, sessionVars
  <2>2. ActorsOK'  BY <1>2, GotoKeepsActors DEF Spawn, PCs
  <2> QED BY <1>2, <2>1, <2>2, InvalidateKeepsLinks DEF Spawn
<1>3. CASE SpawnFails(x)
  <2>1. StateTypeOK'
    BY <1>3 DEF SpawnFails, InvalidateIfCurrent, Invalidate, StateTypeOK, sessionVars, taskVars
  <2>2. ActorsOK'  BY <1>3, FailedKeepsActors DEF SpawnFails
  <2> QED BY <1>3, <2>1, <2>2, InvalidateKeepsLinks DEF SpawnFails, InvalidateIfCurrent
<1>4. CASE SpawnImpossible(x)
  <2>1. StateTypeOK'  BY <1>4 DEF SpawnImpossible, StateTypeOK, taskVars
  <2>2. ActorsOK'  BY <1>4, FailedKeepsActors DEF SpawnImpossible
  <2>3. GenInv' /\ SocketsOK'  BY <1>4 DEF SpawnImpossible, GenInv, Attached, SocketsOK
  <2>4. ReadyInv' /\ OnlineIsCurrent'  BY <1>4 DEF SpawnImpossible, ReadyInv, OnlineIsCurrent
  <2> QED BY <2>1, <2>2, <2>3, <2>4
<1>5. CASE Connected(x)
  <2>1. StateTypeOK'  BY <1>5 DEF Connected, StateTypeOK, sessionVars, taskVars
  <2>2. ActorsOK'  BY <1>5, GotoKeepsActors DEF Connected, PCs
  <2> QED BY <1>5, <2>1, <2>2, InvalidateKeepsLinks DEF Connected
<1>6. CASE NotConnected(x)
  <2>1. StateTypeOK'  BY <1>6 DEF NotConnected, Kill, StateTypeOK, sessionVars
  <2>2. ActorsOK'  BY <1>6, GotoKeepsActors DEF NotConnected, PCs
  <2> QED BY <1>6, <2>1, <2>2, InvalidateKeepsLinks DEF NotConnected
<1>7. CASE Abort(x)
  <2>1. StateTypeOK'
    BY <1>7 DEF Abort, InvalidateIfCurrent, Invalidate, StateTypeOK, sessionVars, taskVars
  <2>2. ActorsOK'  BY <1>7, FailedKeepsActors DEF Abort
  <2> QED BY <1>7, <2>1, <2>2, InvalidateKeepsLinks DEF Abort, InvalidateIfCurrent
<1>8. CASE Publish(x)
  <2> DEFINE p == actor[x].new
             r == Actor("watch", p, actor[x].begun, 0, None, 0)
             i == Actor("idle", None, 0, 0, None, 0)
  <2>1. p \in Procs /\ actor[x].begun \in Nat
    BY <1>0, <1>8 DEF Publish, RecordOK, ActorRecord
  <2>2. StateTypeOK'  BY <1>8, <2>1 DEF Publish, StateTypeOK
  <2>3. RecordOK(r) /\ RecordOK(i)  BY <2>1, RecordIsOK DEF PCs
  <2>4. ActorsOK'
    <3> HIDE DEF p, r, i
    <3>1. CASE x = Daemon
      <4>1. actor' = [actor EXCEPT ![Daemon] = i, ![p] = r]  BY <1>8, <3>1 DEF Publish, p, r, i
      <4>2. \A y \in Actors : actor'[y] \in {actor[y], i, r}  BY <2>1, <4>1 DEF ActorsOK
      <4>3. actor' = [y \in Actors |-> actor'[y]]  BY <4>1 DEF ActorsOK
      <4> QED BY <2>3, <4>2, <4>3 DEF ActorsOK
    <3>2. CASE x # Daemon
      <4>1. actor' = [actor EXCEPT ![x] = r]  BY <1>8, <3>2 DEF Publish, p, r
      <4> QED BY <2>3, <4>1, OneActorSteps
    <3> QED BY <3>1, <3>2
  <2>5. GenInv' /\ SocketsOK'  BY <1>8 DEF Publish, GenInv, Attached, SocketsOK
  <2>6. ReadyInv' /\ OnlineIsCurrent'  BY <1>8 DEF Publish, ReadyInv, OnlineIsCurrent, Clears
  <2> QED BY <2>2, <2>4, <2>5, <2>6
<1> QED BY <1>1, <1>2, <1>3, <1>4, <1>5, <1>6, <1>7, <1>8 DEF SpawnStep

\* So does every other step of a monitor.
LEMMA MonitorKeepsIInv ==
  ASSUME IInv, NEW m \in Procs, MonitorStep(m)
  PROVE  IInv'
<1> USE DEF At, IInv
<1>0. m \in Actors /\ RecordOK(actor[m])  BY DEF ActorsOK
<1>1. CASE WatchEnds(m)
  <2>1. StateTypeOK'  BY <1>1 DEF WatchEnds, StateTypeOK, sessionVars, taskVars
  <2>2. ActorsOK'  BY <1>0, <1>1, GotoKeepsActors DEF WatchEnds, PCs
  <2> QED BY <1>1, <2>1, <2>2, InvalidateKeepsLinks DEF WatchEnds
<1>2. CASE WatchLost(m)
  <2> DEFINE r1 == [actor[m] EXCEPT !.pc = "sleep"]
             r2 == [r1 EXCEPT !.attempt = 1]
  <2>1. StateTypeOK'  BY <1>2 DEF WatchLost, StateTypeOK, sessionVars, taskVars
  <2>2. r1 \in ActorRecord /\ r1.pc = "sleep"
    <3>1. "sleep" \in PCs  BY DEF PCs
    <3> QED BY <1>0, <3>1, FieldChanges DEF RecordOK
  <2>3. actor' = [actor EXCEPT ![m] = r2]  BY <1>2 DEF WatchLost
  <2> HIDE DEF r1
  <2>4. RecordOK(r2)  BY <2>2, FieldChanges DEF RecordOK
  <2> HIDE DEF r2
  <2>5. ActorsOK'  BY <1>0, <2>3, <2>4, OneActorSteps
  <2> QED BY <1>2, <2>1, <2>5, InvalidateKeepsLinks DEF WatchLost
<1>3. CASE WatchExit(m)
  <2>1. StateTypeOK'
    <3>1. /\ held' \subseteq Procs
          /\ UNCHANGED <<generation, handle, cancelled, told, launched, child>>
      BY <1>3 DEF WatchExit, StateTypeOK
    <3>2. CASE Invalidate  BY <3>1, <3>2 DEF Invalidate, StateTypeOK
    <3>3. CASE UNCHANGED sessionVars  BY <3>1, <3>3 DEF sessionVars, StateTypeOK
    <3> QED BY <1>3, <3>2, <3>3 DEF WatchExit, InvalidateIfCurrent
  <2>2. ActorsOK'  BY <1>0, <1>3, GotoKeepsActors DEF WatchExit, PCs
  <2> QED BY <1>3, <2>1, <2>2, InvalidateKeepsLinks DEF WatchExit, InvalidateIfCurrent
<1>4. CASE SleepOver(m)
  <2>1. StateTypeOK'  BY <1>4 DEF SleepOver, StateTypeOK, sessionVars, taskVars
  <2>2. ActorsOK'
    <3>1. CASE m \in cancelled  BY <1>0, <1>4, <3>1, GotoKeepsActors DEF SleepOver, PCs
    <3>2. CASE m \notin cancelled  BY <1>0, <1>4, <3>2, GotoKeepsActors DEF SleepOver, PCs
    <3> QED BY <3>1, <3>2
  <2> QED BY <1>4, <2>1, <2>2, InvalidateKeepsLinks DEF SleepOver
<1>5. CASE KillOld(m)
  <2>1. StateTypeOK'  BY <1>5 DEF KillOld, Kill, StateTypeOK, sessionVars
  <2>2. ActorsOK'  BY <1>0, <1>5, GotoKeepsActors DEF KillOld, PCs
  <2> QED BY <1>5, <2>1, <2>2, InvalidateKeepsLinks DEF KillOld
<1>6. CASE GiveUp(m)
  <2>1. StateTypeOK'
    BY <1>6 DEF GiveUp, InvalidateIfCurrent, Invalidate, StateTypeOK, sessionVars, taskVars
  <2>2. ActorsOK'  BY <1>0, <1>6, GotoKeepsActors DEF GiveUp, PCs
  <2> QED BY <1>6, <2>1, <2>2, InvalidateKeepsLinks DEF GiveUp, InvalidateIfCurrent
<1> QED
  BY <1>0, <1>1, <1>2, <1>3, <1>4, <1>5, <1>6, SpawnKeepsIInv DEF MonitorStep

----------------------------------------------------------------------------
(* Steps of processes and sockets *)

\* A process may exit at any time.
LEMMA ExitKeepsIInv ==
  ASSUME IInv, NEW p \in Procs, ProcessExits(p)
  PROVE  IInv'
<1>1. StateTypeOK'  BY DEF IInv, ProcessExits, StateTypeOK, sessionVars
<1>2. ActorsOK'  BY DEF IInv, ProcessExits, ActorsOK
<1> QED BY <1>1, <1>2, InvalidateKeepsLinks DEF IInv, ProcessExits

\* A socket that opens, closes or is lost has no part in another one's session.
LEMMA SocketKeepsIInv ==
  ASSUME IInv, NEW w \in Sockets,
         (\E p \in Procs : SocketOpens(w, p)) \/ SocketStep(w) \/ SocketDrops(w)
  PROVE  IInv'
<1> USE DEF IInv
<1>0. socket = [v \in Sockets |-> socket[v]] /\ \A v \in Sockets : socket[v] \in SocketRecord
  BY DEF SocketsOK
<1>1. ASSUME NEW p \in Procs, SocketOpens(w, p) PROVE IInv'
  <2> DEFINE r == Socket("upgrade", p, 0, 0)
  <2>1. StateTypeOK' /\ ActorsOK'
    BY <1>1 DEF SocketOpens, StateTypeOK, ActorsOK, sessionVars, taskVars
  <2>2. r \in SocketRecord /\ r.pc = "upgrade"  BY SocketIsOK DEF Socket
  <2>3. /\ socket' = [socket EXCEPT ![w] = r] /\ socket[w].pc = "new"
        /\ UNCHANGED <<sessionVars, generation>>
    BY <1>1 DEF SocketOpens
  <2> HIDE DEF r
  <2>4. SocketsOK'  BY <2>2, <2>3, OneSocketSteps
  <2>5. \A v \in Sockets : socket'[v] = IF v = w THEN r ELSE socket[v]  BY <1>0, <2>3
  <2>6. GenInv'  BY <2>2, <2>3, <2>5 DEF GenInv, Attached
  <2>7. ReadyInv' BY <2>3 DEF ReadyInv, sessionVars
  <2>8. OnlineIsCurrent'
    BY <2>2, <2>3, <2>5 DEF OnlineIsCurrent, Clears, StateTypeOK, sessionVars
  <2> QED BY <2>1, <2>4, <2>6, <2>7, <2>8
<1>2. CASE Attach(w)
  <2> DEFINE p == socket[w].proc
             r == Socket("open", p, epoch, generation + 1)
  <2>1. p \in Procs  BY <1>2 DEF Attach, Nonces, StateTypeOK
  <2>2. StateTypeOK' /\ ActorsOK'
    <3>1. told' \subseteq Procs  BY <1>2 DEF Attach, StateTypeOK
    <3>2. {active', pending', ready'} \subseteq Procs \cup {None} /\ generation' \in Nat
      BY <1>2, <2>1 DEF Attach, StateTypeOK
    <3>3. online' = w /\ UNCHANGED <<epoch, connection, handle, cancelled, launched, child, held, actor>>
      BY <1>2 DEF Attach
    <3> QED BY <3>1, <3>2, <3>3 DEF StateTypeOK, ActorsOK
  <2>3. /\ r \in SocketRecord
        /\ r.pc = "open" /\ r.proc = p /\ r.epoch = epoch /\ r.gen = generation + 1
    BY <2>1, SocketIsOK DEF Socket, StateTypeOK
  <2>4. /\ socket' = [socket EXCEPT ![w] = r]
        /\ active' = p /\ online' = w /\ generation' = generation + 1 /\ epoch' = epoch
        /\ ready' = None
    BY <1>2 DEF Attach
  <2> HIDE DEF r, p
  <2>5. SocketsOK'  BY <2>3, <2>4, OneSocketSteps
  <2>6. \A v \in Sockets : socket'[v] = IF v = w THEN r ELSE socket[v]  BY <1>0, <2>4
  <2>7. generation \in Nat /\ \A v \in Sockets : socket[v].gen \in Nat
    BY <1>0 DEF StateTypeOK, SocketRecord
  <2>8. GenInv'  BY <2>3, <2>4, <2>6, <2>7 DEF GenInv, Attached
  <2>9. ReadyInv' /\ OnlineIsCurrent'
    BY <2>3, <2>4, <2>6 DEF ReadyInv, OnlineIsCurrent, Clears
  <2> QED BY <2>2, <2>5, <2>8, <2>9
<1>3. CASE AttachRefused(w) \/ SocketDrops(w) \/ Cleanup(w)
  <2> DEFINE closes == IF SocketDrops(w) THEN "lost" ELSE "closed"
             r == [socket[w] EXCEPT !.pc = closes]
  <2>1. /\ socket' = [socket EXCEPT ![w] = r]
        /\ UNCHANGED <<epoch, pending, active, ready, connection, generation, taskVars, actor>>
        /\ closes \in {"lost", "closed"}
        /\ closes = "lost" => socket[w].pc = "open" /\ online' = online
        /\ closes = "closed" => online' = None \/ (online' = online /\ (~Attached(w) \/ ~Clears(w)))
    BY <1>3 DEF AttachRefused, SocketDrops, Cleanup, sessionVars, Attached
  <2>2. /\ r \in SocketRecord
        /\ r.pc = closes /\ r.proc = socket[w].proc
        /\ r.epoch = socket[w].epoch /\ r.gen = socket[w].gen
    <3>1. ASSUME NEW a \in SocketRecord, NEW c \in {"lost", "closed"}
          PROVE  LET b == [a EXCEPT !.pc = c]
                 IN  /\ b \in SocketRecord /\ b.pc = c
                     /\ b.proc = a.proc /\ b.epoch = a.epoch /\ b.gen = a.gen
      BY DEF SocketRecord
    <3> HIDE DEF closes
    <3> QED BY <1>0, <2>1, <3>1
  <2> HIDE DEF closes, r
  <2>3. StateTypeOK' /\ ActorsOK'
    BY <2>1 DEF StateTypeOK, ActorsOK, taskVars
  <2>4. SocketsOK'  BY <2>1, <2>2, OneSocketSteps
  <2>5. \A v \in Sockets : socket'[v] = IF v = w THEN r ELSE socket[v]  BY <1>0, <2>1
  <2>6. GenInv'  BY <2>1, <2>2, <2>5 DEF GenInv, Attached
  <2>7. ReadyInv' BY <2>1 DEF ReadyInv
  <2>8. OnlineIsCurrent'
    BY <2>1, <2>2, <2>5 DEF OnlineIsCurrent, Clears, Attached, StateTypeOK
  <2> QED BY <2>3, <2>4, <2>6, <2>7, <2>8
<1> QED BY <1>1, <1>2, <1>3 DEF SocketStep

----------------------------------------------------------------------------
(* The theorems *)

\* The invariant is inductive.
LEMMA NextKeepsIInv == IInv /\ [Next]_vars => IInv'
<1> SUFFICES ASSUME IInv, [Next]_vars PROVE IInv' OBVIOUS
<1>1. CASE StopCommand \/ LaunchCommand \/ Stopped \/ LaunchRefused
  BY <1>1, DaemonKeepsIInv DEF StopCommand, LaunchCommand
<1>2. CASE SpawnStep(Daemon)  BY <1>2, SpawnKeepsIInv
<1>3. CASE \E m \in Procs : MonitorStep(m)  BY <1>3, MonitorKeepsIInv
<1>4. CASE \E p \in Procs : ProcessExits(p)  BY <1>4, ExitKeepsIInv
<1>5. CASE \E w \in Sockets, p \in Procs : SocketOpens(w, p)  BY <1>5, SocketKeepsIInv
<1>6. CASE \E w \in Sockets : SocketStep(w) \/ SocketDrops(w)  BY <1>6, SocketKeepsIInv
<1>7. CASE UNCHANGED vars
  <2>1. StateTypeOK' /\ ActorsOK'
    BY <1>7 DEF vars, IInv, StateTypeOK, ActorsOK, sessionVars, taskVars
  <2> QED BY <1>7, <2>1, InvalidateKeepsLinks DEF vars, IInv
<1> QED BY <1>1, <1>2, <1>3, <1>4, <1>5, <1>6, <1>7 DEF Next, DaemonStep

\* The inductive invariant holds in every state a session can reach.
THEOREM Inductive == Spec => []IInv
BY InitIInv, NextKeepsIInv, PTL DEF Spec

\* state_runtime.rs 27-116, runtime.rs 68-153: the state of the session, its
\* processes, its sockets and the tasks around them are well-formed.
THEOREM TypeCorrect == Spec => []TypeOK
<1>1. IInv => TypeOK  BY DEF IInv, TypeOK, ActorsOK, RecordOK, SocketsOK
<1> QED BY <1>1, Inductive, PTL

\* state_runtime.rs 59-96: messages go to the newest socket of the process that the
\* current launch accepted.
THEOREM OnlineSocketIsCurrent == Spec => []OnlineIsCurrent
<1>1. IInv => OnlineIsCurrent  BY DEF IInv
<1> QED BY <1>1, Inductive, PTL

\* claude_sdk_handler.rs 50-61: no process answers for another one's launch.
THEOREM ReadyIsTrue == Spec => ReadyByOwnProcess
<1> DEFINE A == \A p \in told' \ told : online' # None /\ socket'[online'].proc = p
<1>1. IInv /\ [Next]_vars => [A]_vars
  <2> SUFFICES ASSUME IInv, Next, NEW p \in told' \ told
               PROVE  online' # None /\ socket'[online'].proc = p
    BY DEF vars, taskVars
  <2>1. ASSUME ~(\E w \in Sockets : Attach(w)) PROVE told' = told
    BY <2>1 DEF Next, StopCommand, LaunchCommand, DaemonStep, Stop, Stopped, LaunchRefused,
       MonitorStep, SpawnStep, Begin, Spawn, SpawnFails, SpawnImpossible, Connected,
       NotConnected, Abort, Publish, WatchEnds, WatchLost, WatchExit, SleepOver, KillOld,
       GiveUp, ProcessExits, SocketOpens, SocketStep, AttachRefused, SocketDrops, Cleanup,
       taskVars
  <2>2. PICK w \in Sockets : Attach(w)  BY <2>1
  <2>3. p = ready /\ ready # None  BY <2>2 DEF Attach
  <2>4. Nonces = {p}  BY <2>3 DEF IInv, ReadyInv, Nonces
  <2> QED BY <2>2, <2>4 DEF Attach, Socket, IInv, SocketsOK
<1> QED BY <1>1, Inductive, PTL DEF Spec, ReadyByOwnProcess

\* claude_sdk_handler.rs 98-103: no late cleanup cuts off a socket that is alive.
THEOREM LateCleanupIsHarmless == Spec => LiveSocketStays
<1> DEFINE A == online # None /\ socket[online].pc = "open" /\ online' # online =>
                  generation' > generation \/ epoch' > epoch
<1>1. IInv /\ [Next]_vars => [A]_vars
  <2> SUFFICES ASSUME IInv, Next, online # None, socket[online].pc = "open", online' # online
               PROVE  generation' > generation \/ epoch' > epoch
    BY DEF vars, sessionVars
  <2>0. epoch \in Nat /\ generation \in Nat /\ online \in Sockets
    BY DEF IInv, StateTypeOK
  <2>1. ASSUME ~(\E w \in Sockets : Attach(w) \/ Cleanup(w)) PROVE epoch' > epoch
    <3>1. CASE Stopped  BY <2>0, <3>1 DEF Stopped, Invalidate
    <3>2. ASSUME NEW x \in Actors, SpawnStep(x) PROVE epoch' > epoch
      BY <2>0, <3>2 DEF SpawnStep, Begin, Spawn, SpawnFails, SpawnImpossible, Connected,
         NotConnected, Abort, Publish, Invalidate, InvalidateIfCurrent, sessionVars
    <3>3. ASSUME NEW m \in Procs, MonitorStep(m) PROVE epoch' > epoch
      BY <2>0, <3>2, <3>3 DEF MonitorStep, WatchEnds, WatchLost, WatchExit, SleepOver, KillOld,
         GiveUp, Invalidate, InvalidateIfCurrent, sessionVars
    <3>4. ASSUME NEW w \in Sockets, SocketStep(w) \/ SocketDrops(w) PROVE FALSE
      BY <2>1, <3>4 DEF SocketStep, AttachRefused, SocketDrops, sessionVars
    <3> QED
      BY <3>1, <3>2, <3>3, <3>4 DEF Next, StopCommand, LaunchCommand, DaemonStep, Stop,
         LaunchRefused, ProcessExits, SocketOpens, sessionVars
  <2>2. ASSUME NEW w \in Sockets, Attach(w) PROVE generation' > generation
    BY <2>0, <2>2 DEF Attach
  <2>3. ASSUME NEW w \in Sockets, Cleanup(w) PROVE FALSE
    <3>1. socket[w].pc = "lost" /\ Clears(w)  BY <2>3 DEF Cleanup
    <3>2. Clears(online)  BY DEF IInv, OnlineIsCurrent
    <3>3. w = online  BY <2>0, <3>1, <3>2 DEF IInv, GenInv, Attached, Clears
    <3> QED BY <3>1, <3>3
  <2> QED BY <2>1, <2>2, <2>3
<1> QED BY <1>1, Inductive, PTL DEF Spec, LiveSocketStays

=============================================================================
