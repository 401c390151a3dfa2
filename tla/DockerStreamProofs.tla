-------------------------- MODULE DockerStreamProofs --------------------------
(***************************************************************************)
(* Proofs about DockerStream, for any callers, any number of calls and of  *)
(* closes, and any set of circumstances, an owner that closes the driver   *)
(* under a running Exec included.                                          *)
(***************************************************************************)
EXTENDS DockerStream, SequenceTheorems, TLAPS

------------------------------------------------------------------------------
(* The conversation of the caller in Exec with the container.              *)

Begun(x) == x[2] <= n[x[1]]

Holds(x, request, partial, answer) ==
  inq[x] = request /\ line[x] = partial /\ outq[x] = answer

Drained(x) == Holds(x, <<>>, {}, <<>>)

\* Where the request of call x is, once k chunks of it were written to p.  What
\* p loses it loses for good: it never runs, and is never attached, again.
Exchange(p, x, k) ==
  \/ k = 0 /\ Drained(p)
  \/ k = 1 /\ Holds(p, << <<x, 1>> >>, {}, <<>>)
  \/ k = 2 /\ Holds(p, << <<x, 1>>, <<x, 2>> >>, {}, <<>>)
  \/ k = 1 /\ Holds(p, <<>>, {<<x, 1>>}, <<>>)
  \/ k = 2 /\ Holds(p, << <<x, 2>> >>, {<<x, 1>>}, <<>>)
  \/ k = 2 /\ Holds(p, <<>>, {}, << {<<x, 1>>} >>)
  \/ ~(p \in running /\ p \in link) /\ Drained(p)

Closing == {"close", "remove", "removing", "forget"}
Talking == {"write", "read"} \cup Closing

\* One Exec at a time, each for a call that has begun.
CallerInv ==
  /\ \A c, d \in Callers : pc[c] # "idle" /\ pc[d] # "idle" => c = d
  /\ \A c \in Callers : pc[c] # "idle" => n[c] # 0

\* Which connection the driver and the caller in Exec hold.
ConnInv ==
  /\ conn # Nil => conn = stdout
  /\ \A c \in Callers :
       /\ pc[c] \in {"pull", "create", "attach", "remove", "removing", "forget", "panicked"}
            => conn = Nil
       /\ pc[c] \in {"write", "read"} => fd[c] = stdout /\ stdout # Nil
       /\ pc[c] \in {"idle", "check", "pull", "create", "attach", "start", "input"}
            => sent[c] = 0
       /\ pc[c] = "read" => sent[c] = 2

\* A container nobody has asked for yet is untouched, and one we are not attached
\* to yet has been told nothing.
Untouched(x) == x \notin exists /\ x \notin link /\ Drained(x)

FreshInv ==
  /\ \A x \in Calls : ~Begun(x) => Untouched(x)
  /\ \A c \in Callers :
       /\ pc[c] \in {"check", "pull", "create"} => Untouched(Current(c))
       /\ pc[c] = "attach" => Drained(Current(c))

\* What stopped has nothing left to read or to say.
StoppedInv == \A x \in Calls : x \notin running => inq[x] = <<>> /\ line[x] = {}

\* What is in the connection belongs to the request of the caller in Exec.
OneRequest ==
  /\ conn # Nil /\ (\A c \in Callers : pc[c] \notin Talking) => Drained(conn)
  /\ \A c \in Callers : pc[c] \in {"write", "read"} => Exchange(fd[c], Current(c), sent[c])

\* A call has an outcome once its caller is back, and the line it was given
\* is made of the only value of its request.
LedgerInv ==
  /\ \A c \in Callers : pc[c] = "idle" <=> n[c] = 0 \/ result[Current(c)] # "none"
  /\ \A x \in Calls : ~Begun(x) => result[x] = "none"
  /\ \A x \in Calls : reply[x] = IF result[x] = "ok" THEN {<<x, 1>>} ELSE {}

SessionInv == CallerInv /\ ConnInv /\ FreshInv /\ StoppedInv /\ OneRequest /\ LedgerInv

\* Without an overlap, and with removals that work or names that are taken, the
\* daemon has at most the container of the driver, and none once the driver has
\* no connection and is about to create one.
OneAtATime  == ~config.overlap /\ (config.removeFails => config.named)
NothingMade == {"idle", "check", "pull", "create"}

ContainerParts ==
  /\ \A a, b \in Actors : pc[a] # "idle" /\ pc[b] # "idle" => a = b
  /\ \A x \in exists : x = containerID
  /\ \A a \in Actors :
       /\ pc[a] \in {"start", "input", "write", "read"} => conn # Nil
       /\ pc[a] = "removing" => removing[a] = containerID
       /\ pc[a] = "forget" => exists = {}
  /\ ~config.removeFails /\ conn = Nil /\ (\A a \in Actors : pc[a] \in NothingMade)
       => exists = {}

ContainerInv == OneAtATime => ContainerParts

------------------------------------------------------------------------------
(* The shape of the state                                                  *)

PCs == {"idle", "check", "pull", "create", "attach", "start", "input", "write", "read",
        "close", "remove", "removing", "forget", "panicked"}

LEMMA PCType == TypeOK => pc \in [Actors -> PCs]
  BY DEF TypeOK, PCs

LEMMA CurrentIsCall ==
  ASSUME TypeOK, CallerInv, NEW c \in Callers, pc[c] # "idle"
  PROVE  Current(c) \in Calls
  BY DockerAssumption DEF TypeOK, CallerInv, Current, Calls

\* An actor that closes is past its own work; the owner touches no call.
LEMMA CloseFrame ==
  ASSUME TypeOK, NEW a \in Actors, CloseStep(a)
  PROVE  /\ pc[a] \in Closing /\ \A b \in Actors \ {a} : pc'[b] = pc[b]
         /\ pc'[a] \in Closing \cup {"idle"}
         /\ a = Owner => UNCHANGED call
         /\ UNCHANGED <<config, pullImage, stdout, n, reply, closes>>
  <1> USE PCType DEF PCs
  <1>1. ASSUME NEW b \in Actors, Closed(b)
        PROVE  pc' = [pc EXCEPT ![b] = "idle"] /\ (b = Owner => UNCHANGED call)
    BY <1>1 DEF Closed, Return
  <1>2. CASE CloseConn(a) \/ Removed(a)
    BY <1>2 DEF CloseConn, Removed, Goto, Closing, driver, history
  <1>3. CASE RemoveContainer(a) \/ Forget(a) \/ RemovalFails(a)
    BY <1>1, <1>3 DEF RemoveContainer, Forget, RemovalFails, Goto, Closing, driver
  <1> QED BY <1>2, <1>3 DEF CloseStep

\* A caller that returns, or that goes on, leaves pc and its locals in their types.
LEMMA ReturnType ==
  ASSUME TypeOK, CallerInv, NEW c \in Callers, pc[c] # "idle", NEW outcome \in {"ok", "err"},
         Return(c, outcome)
  PROVE  /\ pc' \in [Actors -> PCs]
         /\ result' \in [Calls -> {"none", "ok", "err"}]
         /\ fd' \in [Callers -> Calls \cup {Nil}]
         /\ sent' \in [Callers -> 0..2]
  <1>1. pc' \in [Actors -> PCs]
    BY PCType DEF Return, PCs
  <1>2. result' \in [Calls -> {"none", "ok", "err"}]
    BY CurrentIsCall DEF Return, TypeOK
  <1>3. fd' \in [Callers -> Calls \cup {Nil}] /\ sent' \in [Callers -> 0..2]
    BY DEF Return, TypeOK
  <1> QED BY <1>1, <1>2, <1>3

LEMMA GotoType ==
  ASSUME TypeOK, NEW a \in Actors, NEW from, NEW to \in PCs, Goto(a, from, to)
  PROVE  pc' \in [Actors -> PCs]
  BY PCType DEF Goto

LEMMA StopType ==
  ASSUME TypeOK, NEW x \in Calls, Stop(x)
  PROVE  /\ running' \subseteq running \ {x}
         /\ inq' \in [Calls -> Seq(Chunks)]
         /\ line' \in [Calls -> SUBSET Chunks]
  <1>1. inq' \in [Calls -> Seq(Chunks)]
    BY DEF TypeOK, Stop
  <1>2. line' \in [Calls -> SUBSET Chunks]
    BY DEF TypeOK, Stop
  <1> QED BY <1>1, <1>2 DEF Stop

\* The parts of TypeOK, as the actions touch them.
DriverType ==
  config \in Config /\ pullImage \in BOOLEAN /\ {containerID, conn, stdout} \subseteq Calls \cup {Nil}
CallType ==
  /\ pc \in [Actors -> PCs]
  /\ fd \in [Callers -> Calls \cup {Nil}]
  /\ sent \in [Callers -> 0..2]
  /\ result \in [Calls -> {"none", "ok", "err"}]
HistoryType ==
  /\ n \in [Callers -> 0..MaxCalls]
  /\ removing \in [Actors -> Calls \cup {Nil}]
  /\ reply \in [Calls -> SUBSET Chunks]
  /\ closes \in 0..MaxCloses
WorldType ==
  /\ exists \subseteq Calls /\ running \subseteq exists /\ link \subseteq Calls
  /\ inq \in [Calls -> Seq(Chunks)]
  /\ line \in [Calls -> SUBSET Chunks]
  /\ outq \in [Calls -> Seq(SUBSET Chunks)]

LEMMA TypeParts == TypeOK <=> DriverType /\ CallType /\ HistoryType /\ WorldType
  BY DEF TypeOK, DriverType, CallType, HistoryType, WorldType, PCs

LEMMA TypePartsNext == TypeOK' <=> DriverType' /\ CallType' /\ HistoryType' /\ WorldType'
  BY DEF TypeOK, DriverType, CallType, HistoryType, WorldType, PCs

LEMMA TypeUnchanged ==
  /\ DriverType /\ UNCHANGED driver => DriverType'
  /\ HistoryType /\ UNCHANGED history => HistoryType'
  /\ WorldType /\ UNCHANGED world => WorldType'
  BY DEF DriverType, HistoryType, WorldType, driver, history, world, daemon, data

LEMMA StepTypeOK == TypeOK /\ CallerInv /\ ConnInv /\ [Next]_vars => TypeOK'
<1> SUFFICES ASSUME TypeOK, CallerInv, ConnInv, [Next]_vars
             PROVE  DriverType' /\ CallType' /\ HistoryType' /\ WorldType'
  BY TypePartsNext
<1> USE DockerAssumption, TypeUnchanged DEF PCs
<1>0. DriverType /\ CallType /\ HistoryType /\ WorldType
  BY TypeParts
<1>1. ASSUME NEW c \in Callers, Begin(c)
      PROVE  DriverType' /\ CallType' /\ HistoryType' /\ WorldType'
  <2>1. CallType'
    BY <1>0, <1>1, GotoType DEF Begin, CallType, Actors
  <2>2. HistoryType'
    BY <1>0, <1>1 DEF Begin, HistoryType
  <2> QED BY <1>0, <1>1, <2>1, <2>2 DEF Begin
<1>2. ASSUME NEW c \in Callers, Exec(c)
      PROVE  DriverType' /\ CallType' /\ HistoryType' /\ WorldType'
  <2>0. pc[c] # "idle" /\ Current(c) \in Calls /\ c \in Actors
    <3>1. pc[c] # "idle"
      BY <1>2 DEF Exec, Check, PullImage, Create, CreateFails, Attach, AttachFails, Start,
                  StartFails, Input, InputFails, Write, WriteFails, Flushed, ReadLine, ReadFails,
                  Goto
    <3> QED BY <3>1, CurrentIsCall DEF Actors
  <2>a. ASSUME UNCHANGED call, NEW from, NEW to \in PCs, Goto(c, from, to) PROVE CallType'
    BY <1>0, <2>0, <2>a, GotoType DEF CallType, call
  <2>b. ASSUME NEW outcome \in {"ok", "err"}, Return(c, outcome) PROVE CallType'
    BY <2>0, <2>b, ReturnType DEF CallType
  <2>1. CASE Check(c) \/ AttachFails(c) \/ StartFails(c) \/ InputFails(c) \/ WriteFails(c)
             \/ ReadFails(c)
    <3>1. UNCHANGED <<driver, call, history, world>>
      BY <2>1 DEF Check, AttachFails, StartFails, InputFails, WriteFails, ReadFails
    <3>2. \E from : \E to \in PCs : Goto(c, from, to)
      BY <2>1 DEF Check, AttachFails, StartFails, InputFails, WriteFails, ReadFails
    <3> QED BY <1>0, <2>a, <3>1, <3>2
  <2>2. CASE PullImage(c)
    <3>1. CallType'
      BY <2>2, <2>a, <2>b DEF PullImage
    <3>2. DriverType'
      BY <1>0, <2>2 DEF PullImage, DriverType
    <3> QED BY <1>0, <2>2, <3>1, <3>2 DEF PullImage
  <2>3. CASE Create(c)
    <3>1. CallType'
      BY <2>3, <2>a DEF Create
    <3>2. DriverType' /\ WorldType'
      BY <1>0, <2>0, <2>3 DEF Create, DriverType, WorldType, data
    <3> QED BY <1>0, <2>3, <3>1, <3>2 DEF Create
  <2>4. CASE CreateFails(c)
    BY <1>0, <2>4, <2>b DEF CreateFails
  <2>5. CASE Attach(c)
    <3>1. CallType'
      BY <2>5, <2>a DEF Attach
    <3>2. DriverType' /\ WorldType'
      BY <1>0, <2>0, <2>5 DEF Attach, DriverType, WorldType, daemon, data
    <3> QED BY <1>0, <2>5, <3>1, <3>2 DEF Attach
  <2>6. CASE Start(c)
    <3>1. CallType'
      BY <2>6, <2>a DEF Start
    <3>2. WorldType'
      BY <1>0, <2>6 DEF Start, WorldType, data
    <3> QED BY <1>0, <2>6, <3>1, <3>2 DEF Start
  <2>7. CASE Input(c) \/ Flushed(c)
    <3>1. UNCHANGED <<driver, n, sent, removing, result, reply, closes, world>>
      BY <2>7 DEF Input, Flushed
    <3>2. fd' \in [Callers -> Calls \cup {Nil}]
      BY <1>0, <2>7 DEF Input, Flushed, CallType, DriverType
    <3>3. \E from : \E to \in PCs : Goto(c, from, to)
      BY <2>7 DEF Input, Flushed
    <3>4. CallType'
      BY <1>0, <2>0, <3>1, <3>2, <3>3, GotoType DEF CallType
    <3> QED BY <1>0, <3>1, <3>4 DEF history
  <2>8. CASE Write(c)
    <3>1. sent' \in [Callers -> 0..2]
      BY <1>0, <2>8 DEF Write, CallType
    <3>2. CallType'
      BY <1>0, <2>0, <2>8, <3>1, GotoType DEF Write, CallType
    <3>3. inq' \in [Calls -> Seq(Chunks)]
      <4>1. <<Current(c), sent[c] + 1>> \in Chunks
        BY <1>0, <2>0, <2>8 DEF Write, CallType, Chunks
      <4>2. fd[c] \in Calls
        BY <1>0, <2>8 DEF Write, WorldType
      <4>3. inq[fd[c]] \in Seq(Chunks)
        BY <1>0, <4>2 DEF WorldType
      <4>4. Append(inq[fd[c]], <<Current(c), sent[c] + 1>>) \in Seq(Chunks)
        BY <4>1, <4>3, AppendProperties
      <4> QED BY <1>0, <2>8, <4>2, <4>3, <4>4 DEF Write, WorldType
    <3>4. WorldType'
      BY <1>0, <2>8, <3>3 DEF Write, WorldType, daemon
    <3> QED BY <1>0, <2>8, <3>2, <3>4 DEF Write, history
  <2>9. CASE ReadLine(c)
    <3> DEFINE x == fd[c]
               all == outq[x]
    <3>1. /\ pc[c] = "read" /\ all # <<>> /\ Return(c, "ok")
          /\ reply' = [reply EXCEPT ![Current(c)] = Head(all)]
          /\ outq' = [outq EXCEPT ![x] = Tail(all)]
          /\ UNCHANGED <<driver, n, removing, closes, daemon, link, inq, line>>
      BY <2>9 DEF ReadLine
    <3>2. x \in Calls
      BY <1>0, <3>1 DEF ConnInv, CallType
    <3>3. all \in Seq(SUBSET Chunks)
      BY <1>0, <3>2 DEF WorldType
    <3> HIDE DEF x, all
    <3>4. Head(all) \in SUBSET Chunks /\ Tail(all) \in Seq(SUBSET Chunks)
      BY <3>1, <3>3, HeadTailProperties
    <3>5. HistoryType'
      BY <1>0, <3>1, <3>4 DEF HistoryType
    <3>6. WorldType'
      BY <1>0, <3>1, <3>4 DEF WorldType, daemon
    <3> QED BY <1>0, <3>1, <3>5, <3>6, <2>b
  <2> QED BY <1>2, <2>1, <2>2, <2>3, <2>4, <2>5, <2>6, <2>7, <2>8, <2>9 DEF Exec
<1>3. ASSUME OwnerCloses PROVE DriverType' /\ CallType' /\ HistoryType' /\ WorldType'
  <2>1. CallType'
    BY <1>0, <1>3, GotoType DEF OwnerCloses, CallType, Actors
  <2>2. HistoryType'
    BY <1>0, <1>3 DEF OwnerCloses, HistoryType
  <2> QED BY <1>0, <1>3, <2>1, <2>2 DEF OwnerCloses
<1>4. ASSUME NEW a \in Actors, CloseStep(a)
      PROVE  DriverType' /\ CallType' /\ HistoryType' /\ WorldType'
  <2>a. ASSUME Closed(a), pc[a] # "idle" PROVE CallType'
    <3>1. CASE a = Owner
      BY <1>0, <2>a, <3>1 DEF Closed, CallType, call
    <3>2. CASE a # Owner
      BY <2>a, <3>2, ReturnType DEF Closed, CallType, Actors
    <3> QED BY <3>1, <3>2
  <2>b. ASSUME UNCHANGED call, NEW from, NEW to \in PCs, Goto(a, from, to) PROVE CallType'
    BY <1>0, <2>b, GotoType DEF CallType, call
  <2>c. removing' \in [Actors -> Calls \cup {Nil}] /\ UNCHANGED <<n, reply, closes>> => HistoryType'
    BY <1>0 DEF HistoryType
  <2>1. CASE CloseConn(a)
    <3>1. CallType'
      BY <2>1, <2>b DEF CloseConn
    <3>2. DriverType'
      BY <1>0, <2>1 DEF CloseConn, DriverType
    <3>3. WorldType'
      <4>1. outq' \in [Calls -> Seq(SUBSET Chunks)]
        <5>1. UNCHANGED outq \/ (conn \in Calls /\ outq' = [outq EXCEPT ![conn] = <<>>])
          BY <1>0, <2>1 DEF CloseConn, DriverType
        <5>2. <<>> \in Seq(SUBSET Chunks)
          OBVIOUS
        <5> QED BY <1>0, <5>1, <5>2 DEF WorldType
      <4> QED BY <1>0, <2>1, <4>1 DEF CloseConn, WorldType, daemon
    <3> QED BY <1>0, <2>1, <3>1, <3>2, <3>3 DEF CloseConn
  <2>2. CASE RemoveContainer(a)
    <3>1. CallType'
      BY <2>2, <2>a, <2>b DEF RemoveContainer
    <3>2. removing' \in [Actors -> Calls \cup {Nil}]
      BY <1>0, <2>2 DEF RemoveContainer, HistoryType, DriverType
    <3> QED BY <1>0, <2>2, <2>c, <3>1, <3>2 DEF RemoveContainer
  <2>3. CASE Removed(a)
    <3>1. CallType'
      BY <2>3, <2>b DEF Removed
    <3>2. WorldType'
      BY <1>0, <2>3, StopType DEF Removed, WorldType
    <3> QED BY <1>0, <2>3, <3>1, <3>2 DEF Removed
  <2>4. CASE Forget(a)
    <3>1. CallType'
      BY <2>4, <2>a DEF Forget
    <3>2. removing' \in [Actors -> Calls \cup {Nil}] /\ DriverType'
      BY <1>0, <2>4 DEF Forget, HistoryType, DriverType
    <3> QED BY <1>0, <2>4, <2>c, <3>1, <3>2 DEF Forget
  <2>5. CASE RemovalFails(a)
    <3>1. CallType'
      BY <2>5, <2>a DEF RemovalFails
    <3>2. removing' \in [Actors -> Calls \cup {Nil}]
      BY <1>0, <2>5 DEF RemovalFails, HistoryType
    <3> QED BY <1>0, <2>5, <2>c, <3>1, <3>2 DEF RemovalFails
  <2> QED BY <1>4, <2>1, <2>2, <2>3, <2>4, <2>5 DEF CloseStep
<1>5. ASSUME NEW x \in Calls, Exit(x) \/ ContainerRead(x)
      PROVE  DriverType' /\ CallType' /\ HistoryType' /\ WorldType'
  <2>1. UNCHANGED <<driver, actor>>
    BY <1>5 DEF Exit, ContainerRead
  <2>2. CallType' /\ HistoryType'
    BY <1>0, <2>1 DEF CallType, HistoryType, actor, call, history
  <2>3. CASE Exit(x)
    BY <1>0, <2>1, <2>2, <2>3, StopType DEF Exit, WorldType
  <2>4. CASE ContainerRead(x)
    <3> DEFINE chunk == Head(inq[x])
    <3>1. /\ inq[x] # <<>> /\ inq' = [inq EXCEPT ![x] = Tail(@)] /\ UNCHANGED <<daemon, link>>
          /\ \/ line' = [line EXCEPT ![x] = @ \cup {chunk}] /\ UNCHANGED outq
             \/ /\ line' = [line EXCEPT ![x] = {}]
                /\ outq' = [outq EXCEPT ![x] = IF line[x] = {} \/ x \notin link
                                               THEN @ ELSE Append(@, line[x])]
      BY <2>4 DEF ContainerRead
    <3>2. chunk \in Chunks /\ Tail(inq[x]) \in Seq(Chunks)
      <4>1. inq[x] \in Seq(Chunks)
        BY <1>0 DEF WorldType
      <4> QED BY <3>1, <4>1, HeadTailProperties
    <3> HIDE DEF chunk
    <3>3. inq' \in [Calls -> Seq(Chunks)]
      BY <1>0, <3>1, <3>2 DEF WorldType
    <3>4. line' \in [Calls -> SUBSET Chunks]
      <4>1. line[x] \cup {chunk} \in SUBSET Chunks
        BY <1>0, <3>2 DEF WorldType
      <4> QED BY <1>0, <3>1, <4>1 DEF WorldType
    <3>5. outq' \in [Calls -> Seq(SUBSET Chunks)]
      <4>1. line[x] \in SUBSET Chunks /\ outq[x] \in Seq(SUBSET Chunks)
        BY <1>0 DEF WorldType
      <4>2. Append(outq[x], line[x]) \in Seq(SUBSET Chunks)
        BY <4>1, AppendProperties
      <4> QED BY <1>0, <3>1, <4>1, <4>2 DEF WorldType
    <3>6. WorldType'
      BY <1>0, <3>1, <3>3, <3>4, <3>5 DEF WorldType, daemon
    <3> QED BY <1>0, <2>1, <2>2, <3>6
  <2> QED BY <1>5, <2>3, <2>4
<1>6. ASSUME UNCHANGED vars PROVE DriverType' /\ CallType' /\ HistoryType' /\ WorldType'
  BY <1>0, <1>6 DEF CallType, vars, actor, call
<1> QED BY <1>1, <1>2, <1>3, <1>4, <1>5, <1>6 DEF Next

------------------------------------------------------------------------------
(* Every step keeps SessionInv.                                            *)

\* A step of Exec: its caller is the only one outside "idle".
LEMMA ExecFrame ==
  ASSUME TypeOK, CallerInv, NEW c \in Callers, Exec(c)
  PROVE  /\ pc[c] # "idle" /\ \A d \in Callers \ {c} : pc[d] = "idle" /\ pc'[d] = "idle"
         /\ \A a \in Actors \ {c} : pc'[a] = pc[a]
         /\ pc[c] \notin Closing
         /\ UNCHANGED <<config, n, removing, closes>>
         /\ Current(c) \in Calls
  <1> USE PCType DEF PCs
  <1>1. pc[c] \notin Closing \cup {"idle"} /\ \A a \in Actors \ {c} : pc'[a] = pc[a]
    BY DEF Exec, Check, PullImage, Create, CreateFails, Attach, AttachFails, Start, StartFails,
           Input, InputFails, Write, WriteFails, Flushed, ReadLine, ReadFails, Goto, Return,
           Closing
  <1>2. \A d \in Callers \ {c} : pc[d] = "idle" /\ d \in Actors \ {c}
    BY <1>1 DEF CallerInv, Actors
  <1>3. UNCHANGED <<config, n, removing, closes>>
    BY DEF Exec, Check, PullImage, Create, CreateFails, Attach, AttachFails, Start, StartFails,
           Input, InputFails, Write, WriteFails, Flushed, ReadLine, ReadFails, driver, history
  <1> QED BY <1>1, <1>2, <1>3, CurrentIsCall

LEMMA StepCallerInv == TypeOK /\ CallerInv /\ [Next]_vars => CallerInv'
<1> SUFFICES ASSUME TypeOK, CallerInv, [Next]_vars PROVE CallerInv'
  OBVIOUS
<1> USE DockerAssumption, PCType DEF PCs
<1>1. ASSUME NEW c \in Callers, Begin(c) PROVE CallerInv'
  <2>1. /\ \A d \in Callers : pc[d] = "idle"
        /\ \A d \in Callers \ {c} : pc'[d] = pc[d]
        /\ n' = [n EXCEPT ![c] = @ + 1] /\ n \in [Callers -> 0..MaxCalls]
    BY <1>1 DEF Begin, Goto, Actors, TypeOK
  <2>2. n'[c] # 0
    BY <2>1
  <2> QED BY <2>1, <2>2 DEF CallerInv
<1>2. ASSUME NEW c \in Callers, Exec(c) PROVE CallerInv'
  <2>1. \A d \in Callers \ {c} : pc'[d] = "idle"
    BY <1>2, ExecFrame
  <2>2. UNCHANGED n /\ n[c] # 0
    BY <1>2, ExecFrame DEF CallerInv
  <2> QED BY <2>1, <2>2 DEF CallerInv
<1>3. ASSUME NEW a \in Actors, CloseStep(a) PROVE CallerInv'
  <2>1. pc[a] # "idle" /\ UNCHANGED n /\ \A b \in Actors \ {a} : pc'[b] = pc[b]
    BY <1>3, CloseFrame DEF Closing
  <2>2. \A c \in Callers : c \in Actors
    BY DEF Actors
  <2> QED BY <2>1, <2>2 DEF CallerInv
<1>4. CASE OwnerCloses
  BY <1>4 DEF OwnerCloses, Goto, CallerInv, Actors
<1>5. CASE (\E x \in Calls : Exit(x) \/ ContainerRead(x)) \/ UNCHANGED vars
  BY <1>5 DEF Exit, ContainerRead, CallerInv, vars, actor, history
<1> QED BY <1>1, <1>2, <1>3, <1>4, <1>5 DEF Next

\* Nothing of ConnInv speaks of a caller that closes, or of the owner.
LEMMA ConnSame ==
  ASSUME TypeOK, ConnInv, UNCHANGED <<stdout, fd, sent>>, conn' = conn \/ conn' = Nil,
         \A c \in Callers : pc'[c] = pc[c]
  PROVE  ConnInv'
  BY DEF ConnInv

LEMMA StepConnInv == TypeOK /\ CallerInv /\ ConnInv /\ [Next]_vars => ConnInv'
<1> SUFFICES ASSUME TypeOK, CallerInv, ConnInv, [Next]_vars PROVE ConnInv'
  OBVIOUS
<1> USE DockerAssumption, PCType DEF PCs
<1>0. /\ fd \in [Callers -> Calls \cup {Nil}] /\ sent \in [Callers -> 0..2]
      /\ \A c \in Callers : c \in Actors /\ c # Owner
  BY DEF TypeOK, Actors
<1>1. ASSUME NEW c \in Callers, Begin(c) PROVE ConnInv'
  BY <1>0, <1>1 DEF Begin, Goto, ConnInv, driver
<1>2. ASSUME NEW c \in Callers, Exec(c) PROVE ConnInv'
  <2>0. \A d \in Callers \ {c} : pc[d] = "idle" /\ pc'[d] = "idle"
    BY <1>2, ExecFrame
  <2>a. ASSUME conn' # Nil => conn' = stdout',
               \A d \in Callers \ {c} : sent'[d] = sent[d],
               pc'[c] \in {"pull", "create", "attach", "remove", "removing", "forget", "panicked"}
                 => conn' = Nil,
               pc'[c] \in {"write", "read"} => fd'[c] = stdout' /\ stdout' # Nil,
               pc'[c] \in {"idle", "check", "pull", "create", "attach", "start", "input"}
                 => sent'[c] = 0,
               pc'[c] = "read" => sent'[c] = 2
        PROVE  ConnInv'
    BY <2>0, <2>a DEF ConnInv
  <2>1. CASE Check(c)
    BY <1>0, <2>1, <2>a DEF Check, Goto, ConnInv, driver, call
  <2>2. CASE PullImage(c)
    BY <1>0, <2>2, <2>a DEF PullImage, Goto, Return, ConnInv, call
  <2>3. CASE Create(c) \/ AttachFails(c) \/ Start(c)
    BY <1>0, <2>3, <2>a DEF Create, AttachFails, Start, Goto, ConnInv, driver, call
  <2>4. CASE CreateFails(c) \/ ReadLine(c)
    <3>1. Return(c, "err") \/ Return(c, "ok")
      BY <2>4 DEF CreateFails, ReadLine
    <3>2. UNCHANGED <<conn, stdout>>
      BY <2>4 DEF CreateFails, ReadLine, driver
    <3>3. pc'[c] = "idle" /\ sent'[c] = 0 /\ \A d \in Callers \ {c} : sent'[d] = sent[d]
      BY <1>0, <3>1 DEF Return
    <3> QED BY <2>a, <3>2, <3>3 DEF ConnInv
  <2>5. CASE Attach(c)
    BY <1>0, <2>5, <2>a DEF Attach, Goto, ConnInv, call
  <2>6. CASE StartFails(c) \/ InputFails(c) \/ WriteFails(c) \/ ReadFails(c)
    BY <1>0, <2>6, <2>a DEF StartFails, InputFails, WriteFails, ReadFails, Goto, ConnInv, driver,
                            call
  <2>7. CASE Input(c)
    <3>1. /\ pc[c] = "input" /\ pc'[c] = (IF conn = Nil THEN "panicked" ELSE "write")
          /\ fd'[c] = conn /\ UNCHANGED <<conn, stdout, sent>>
      BY <1>0, <2>7 DEF Input, Goto, driver
    <3> QED BY <2>a, <3>1 DEF ConnInv
  <2>8. CASE Write(c)
    <3>1. /\ pc[c] = "write" /\ pc'[c] = "write" /\ UNCHANGED <<conn, stdout, fd>>
          /\ \A d \in Callers \ {c} : sent'[d] = sent[d]
      BY <1>0, <2>8 DEF Write, Goto, driver
    <3> QED BY <2>a, <3>1 DEF ConnInv
  <2>9. CASE Flushed(c)
    <3>1. /\ pc[c] = "write" /\ pc'[c] = "read" /\ UNCHANGED <<conn, stdout, sent>>
          /\ fd'[c] = stdout /\ sent[c] = 2
      BY <1>0, <2>9 DEF Flushed, Goto, driver
    <3> QED BY <2>a, <3>1 DEF ConnInv
  <2> QED BY <1>2, <2>1, <2>2, <2>3, <2>4, <2>5, <2>6, <2>7, <2>8, <2>9 DEF Exec
<1>3. ASSUME NEW a \in Actors, CloseStep(a) PROVE ConnInv'
  <2>0. /\ pc[a] \in Closing /\ \A b \in Actors \ {a} : pc'[b] = pc[b]
        /\ a = Owner => UNCHANGED call
        /\ UNCHANGED stdout
    BY <1>3, CloseFrame
  <2>1. conn' = conn \/ conn' = Nil
    BY <1>3 DEF CloseStep, CloseConn, RemoveContainer, Removed, Forget, RemovalFails, driver
  <2>2. CASE a = Owner
    BY <1>0, <2>0, <2>1, <2>2, ConnSame DEF call
  <2>3. CASE a # Owner
    <3>1. a \in Callers /\ \A d \in Callers \ {a} : pc[d] = "idle" /\ pc'[d] = "idle"
      BY <1>0, <2>0, <2>3 DEF CallerInv, Actors, Closing
    <3>2. /\ pc'[a] \in {"remove", "removing", "forget", "idle"}
          /\ pc'[a] # "idle" => UNCHANGED call
          /\ pc'[a] = "idle" => Return(a, "err")
          /\ pc'[a] \in {"remove", "removing", "forget"} => conn' = Nil
      <4>1. CASE CloseConn(a)
        BY <1>0, <4>1 DEF CloseConn, Goto
      <4>2. CASE RemoveContainer(a)
        <5>1. pc[a] = "remove" /\ conn' = conn /\ conn = Nil
          BY <3>1, <4>2 DEF RemoveContainer, ConnInv, driver
        <5>2. Return(a, "err") \/ (Goto(a, "remove", "removing") /\ UNCHANGED call)
          BY <2>3, <4>2 DEF RemoveContainer, Closed
        <5> QED BY <1>0, <5>1, <5>2 DEF Return, Goto
      <4>3. CASE Removed(a)
        BY <1>0, <3>1, <4>3 DEF Removed, Goto, ConnInv, driver
      <4>4. CASE Forget(a) \/ RemovalFails(a)
        BY <1>0, <2>3, <4>4 DEF Forget, RemovalFails, Closed, Return
      <4> QED BY <1>3, <4>1, <4>2, <4>3, <4>4 DEF CloseStep
    <3>3. \A d \in Callers \ {a} : sent'[d] = sent[d]
      BY <1>0, <3>1, <3>2 DEF Return, call
    <3>4. pc'[a] = "idle" => sent'[a] = 0
      BY <1>0, <3>1, <3>2 DEF Return
    <3> QED BY <2>0, <2>1, <3>1, <3>2, <3>3, <3>4 DEF ConnInv
  <2> QED BY <2>2, <2>3
<1>4. CASE OwnerCloses \/ (\E x \in Calls : Exit(x) \/ ContainerRead(x)) \/ UNCHANGED vars
  <2>1. UNCHANGED <<conn, stdout, fd, sent>>
    BY <1>4 DEF OwnerCloses, Exit, ContainerRead, vars, driver, actor, call
  <2>2. \A c \in Callers : pc'[c] = pc[c]
    BY <1>0, <1>4 DEF OwnerCloses, Goto, Exit, ContainerRead, vars, actor
  <2> QED BY <2>1, <2>2, ConnSame
<1> QED BY <1>1, <1>2, <1>3, <1>4 DEF Next

\* What is drained stays so until a caller writes to it.
LEMMA DrainedStays ==
  ASSUME TypeOK, CallerInv, ConnInv, [Next]_vars, NEW x \in Calls, Drained(x),
         \A c \in Callers : Write(c) => fd[c] # x
  PROVE  Drained(x)'
<1> USE DockerAssumption
<1>0. /\ inq \in [Calls -> Seq(Chunks)] /\ line \in [Calls -> SUBSET Chunks]
      /\ outq \in [Calls -> Seq(SUBSET Chunks)]
      /\ inq[x] = <<>> /\ line[x] = {} /\ outq[x] = <<>>
  BY DEF TypeOK, Drained, Holds
<1> SUFFICES inq'[x] = <<>> /\ line'[x] = {} /\ outq'[x] = <<>>
  BY DEF Drained, Holds
<1>1. ASSUME NEW c \in Callers, Begin(c) \/ Exec(c)
      PROVE  inq'[x] = <<>> /\ line'[x] = {} /\ outq'[x] = <<>>
  <2>1. CASE Write(c)
    <3>1. fd[c] # x /\ UNCHANGED <<line, outq>>
          /\ \E s : inq' = [inq EXCEPT ![fd[c]] = s]
      BY <2>1 DEF Write
    <3> QED BY <1>0, <3>1
  <2>2. CASE ReadLine(c)
    <3>1. /\ outq[fd[c]] # <<>> /\ UNCHANGED <<inq, line>>
          /\ \E s : outq' = [outq EXCEPT ![fd[c]] = s]
      BY <2>2 DEF ReadLine
    <3> QED BY <1>0, <3>1
  <2>3. CASE UNCHANGED data
    BY <1>0, <2>3 DEF data
  <2> QED BY <1>1, <2>1, <2>2, <2>3
          DEF Begin, Exec, Check, PullImage, Create, CreateFails, Attach, AttachFails, Start,
              StartFails, Input, InputFails, WriteFails, Flushed, ReadFails, world
<1>2. ASSUME NEW a \in Actors, CloseStep(a)
      PROVE  inq'[x] = <<>> /\ line'[x] = {} /\ outq'[x] = <<>>
  <2>1. CASE Removed(a)
    BY <1>0, <2>1 DEF Removed, Stop
  <2>2. CASE CloseConn(a)
    BY <1>0, <2>2 DEF CloseConn
  <2>3. CASE RemoveContainer(a) \/ Forget(a) \/ RemovalFails(a)
    BY <1>0, <2>3 DEF RemoveContainer, Forget, RemovalFails, world, data
  <2> QED BY <1>2, <2>1, <2>2, <2>3 DEF CloseStep
<1>3. ASSUME NEW y \in Calls, Exit(y) \/ ContainerRead(y)
      PROVE  inq'[x] = <<>> /\ line'[x] = {} /\ outq'[x] = <<>>
  <2>1. CASE Exit(y)
    BY <1>0, <2>1 DEF Exit, Stop
  <2>2. CASE ContainerRead(y)
    <3>1. y # x
      BY <1>0, <2>2 DEF ContainerRead
    <3> QED BY <1>0, <2>2, <3>1 DEF ContainerRead
  <2> QED BY <1>3, <2>1, <2>2
<1>4. CASE OwnerCloses \/ UNCHANGED vars
  BY <1>0, <1>4 DEF OwnerCloses, vars, world, data
<1> QED BY <1>1, <1>2, <1>3, <1>4 DEF Next

\* Only the call that creates a container touches it first.
LEMMA UntouchedStays ==
  ASSUME TypeOK, CallerInv, ConnInv, [Next]_vars, NEW x \in Calls, Untouched(x),
         \A c \in Callers : Create(c) => Current(c) # x
  PROVE  Untouched(x)'
<1>1. Drained(x)'
  <2>1. \A c \in Callers : Write(c) => fd[c] # x
    BY DEF Write, Untouched
  <2> QED BY <2>1, DrainedStays DEF Untouched
<1>2. x \notin exists' /\ x \notin link'
  <2>1. ASSUME NEW c \in Callers, Begin(c) \/ Exec(c) PROVE x \notin exists' /\ x \notin link'
    BY <2>1 DEF Untouched, Begin, Exec, Check, PullImage, Create, CreateFails, Attach,
                AttachFails, Start, StartFails, Input, InputFails, Write, WriteFails, Flushed,
                ReadLine, ReadFails, world, daemon
  <2>2. ASSUME NEW a \in Actors, CloseStep(a) PROVE x \notin exists' /\ x \notin link'
    BY <2>2 DEF Untouched, CloseStep, CloseConn, RemoveContainer, Removed, Forget, RemovalFails,
                world, daemon
  <2>3. CASE OwnerCloses \/ (\E y \in Calls : Exit(y) \/ ContainerRead(y)) \/ UNCHANGED vars
    BY <2>3 DEF Untouched, OwnerCloses, Exit, ContainerRead, vars, world, daemon
  <2> QED BY <2>1, <2>2, <2>3 DEF Next
<1> QED BY <1>1, <1>2 DEF Untouched

LEMMA StepFresh ==
  ASSUME TypeOK, CallerInv, ConnInv, FreshInv, [Next]_vars
  PROVE  FreshInv'
<1> USE DockerAssumption, PCType DEF PCs
<1>0. /\ n \in [Callers -> 0..MaxCalls] /\ running \subseteq exists
      /\ \A c \in Callers : c \in Actors /\ c # Owner
  BY DEF TypeOK, Actors
<1>1. \A x \in Calls : ~Begun(x)' => Untouched(x)'
  <2> SUFFICES ASSUME NEW x \in Calls, ~Begun(x)' PROVE Untouched(x)'
    OBVIOUS
  <2>1. ~Begun(x)
    <3>1. UNCHANGED n \/ \E c \in Callers : n' = [n EXCEPT ![c] = @ + 1]
      <4>1. ASSUME NEW a \in Actors, CloseStep(a) PROVE UNCHANGED n
        BY <4>1, CloseFrame
      <4>2. ASSUME NEW c \in Callers, Exec(c) PROVE UNCHANGED n
        BY <4>2, ExecFrame
      <4> QED BY <4>1, <4>2 DEF Next, Begin, OwnerCloses, Exit, ContainerRead, vars, actor, history
    <3>2. n'[x[1]] >= n[x[1]] /\ n[x[1]] \in Nat /\ n'[x[1]] \in Nat
      BY <1>0, <3>1 DEF Calls
    <3>3. x[2] \in Nat
      BY DEF Calls
    <3> QED BY <3>2, <3>3 DEF Begun
  <2>2. \A c \in Callers : Create(c) => Current(c) # x
    BY <1>0, <2>1 DEF Begun, Current
  <2> QED BY <2>1, <2>2, UntouchedStays DEF FreshInv
<1>2. ASSUME NEW c \in Callers, pc'[c] \in {"check", "pull", "create"}
      PROVE  Untouched(Current(c))'
  <2>1. CASE Begin(c)
    <3>1. /\ Current(c)' = <<c, n[c] + 1>> /\ <<c, n[c] + 1>> \in Calls
          /\ ~Begun(<<c, n[c] + 1>>) /\ UNCHANGED world
      BY <1>0, <2>1 DEF Begin, Current, Begun, Calls
    <3>2. Untouched(<<c, n[c] + 1>>)
      BY <3>1 DEF FreshInv
    <3> QED BY <3>1, <3>2 DEF Untouched, Drained, Holds, world, daemon, data
  <2>2. CASE ~Begin(c)
    <3>1. pc[c] \in {"check", "pull", "create"} /\ ~Create(c) /\ n'[c] = n[c]
      <4>1. CASE \E d \in Callers \ {c} : Begin(d)
        BY <1>0, <1>2, <4>1 DEF Begin, Goto, Create
      <4>2. CASE \E d \in Callers \ {c} : Exec(d)
        BY <1>2, <4>2, ExecFrame
      <4>3. CASE Exec(c)
        BY <1>0, <1>2, <4>3 DEF Exec, Check, PullImage, Create, CreateFails, Attach, AttachFails,
              Start, StartFails, Input, InputFails, Write, WriteFails, Flushed, ReadLine,
              ReadFails, Goto, Return, history
      <4>4. CASE \E a \in Actors : CloseStep(a)
        BY <1>0, <1>2, <4>4, CloseFrame DEF Closing, Create, Goto
      <4>5. CASE OwnerCloses \/ (\E x \in Calls : Exit(x) \/ ContainerRead(x)) \/ UNCHANGED vars
        BY <1>0, <1>2, <4>5 DEF OwnerCloses, Goto, Exit, ContainerRead, vars, actor, Create,
                                history
      <4> QED BY <2>2, <4>1, <4>2, <4>3, <4>4, <4>5 DEF Next
    <3>2. Current(c) \in Calls /\ Current(c)' = Current(c) /\ Untouched(Current(c))
      BY <3>1, CurrentIsCall DEF FreshInv, Current
    <3>3. \A d \in Callers : Create(d) => Current(d) # Current(c)
      BY <3>1 DEF Current
    <3>4. PICK x \in Calls : x = Current(c)
      BY <3>2
    <3>5. Untouched(x)'
      BY <3>2, <3>3, <3>4, UntouchedStays
    <3> QED BY <3>2, <3>4, <3>5
  <2> QED BY <2>1, <2>2
<1>3. ASSUME NEW c \in Callers, pc'[c] = "attach" PROVE Drained(Current(c))'
  <2>1. (Create(c) \/ pc[c] = "attach") /\ n'[c] = n[c] /\ \A d \in Callers : ~Write(d)
    <3>1. CASE \E d \in Callers : Begin(d)
      BY <1>0, <1>3, <3>1 DEF Begin, Goto
    <3>2. CASE \E d \in Callers \ {c} : Exec(d)
      BY <1>3, <3>2, ExecFrame
    <3>3. CASE Exec(c)
      BY <1>0, <1>3, <3>3, ExecFrame
         DEF Exec, Check, PullImage, Create, CreateFails, Attach, AttachFails,
             Start, StartFails, Input, InputFails, Write, WriteFails, Flushed, ReadLine,
             ReadFails, Goto, Return, history
    <3>4. CASE \E a \in Actors : CloseStep(a)
      <4>1. PICK a \in Actors : CloseStep(a)
        BY <3>4
      <4>2. c # a /\ pc[c] = "attach" /\ n'[c] = n[c]
        BY <1>0, <1>3, <4>1, CloseFrame DEF Closing
      <4>3. \A d \in Callers : ~Write(d)
        BY <1>0, <4>2 DEF CallerInv, Write, Goto
      <4> QED BY <4>2, <4>3
    <3>5. CASE OwnerCloses \/ (\E x \in Calls : Exit(x) \/ ContainerRead(x)) \/ UNCHANGED vars
      <4>1. pc[c] = "attach" /\ n'[c] = n[c]
        BY <1>0, <1>3, <3>5 DEF OwnerCloses, Goto, Exit, ContainerRead, vars, actor, history
      <4>2. \A d \in Callers : ~Write(d)
        BY <1>0, <4>1 DEF CallerInv, Write, Goto
      <4> QED BY <4>1, <4>2
    <3> QED BY <3>1, <3>2, <3>3, <3>4, <3>5 DEF Next
  <2>2. pc[c] \in {"create", "attach"}
    BY <2>1 DEF Create, Goto
  <2>3. Current(c) \in Calls /\ Current(c)' = Current(c) /\ Drained(Current(c))
    BY <2>1, <2>2, CurrentIsCall DEF FreshInv, Current, Untouched
  <2>4. PICK x \in Calls : x = Current(c)
    BY <2>3
  <2>5. Drained(x)'
    BY <2>1, <2>3, <2>4, DrainedStays
  <2> QED BY <2>3, <2>4, <2>5
<1> QED BY <1>1, <1>2, <1>3 DEF FreshInv

LEMMA StepStopped ==
  ASSUME TypeOK, StoppedInv, [Next]_vars
  PROVE  StoppedInv'
<1>0. inq \in [Calls -> Seq(Chunks)] /\ line \in [Calls -> SUBSET Chunks]
  BY DEF TypeOK
<1>1. CASE UNCHANGED <<inq, line>> /\ running \subseteq running'
  BY <1>1 DEF StoppedInv
<1>2. ASSUME NEW c \in Callers, Begin(c) \/ Exec(c) PROVE StoppedInv'
  <2>1. CASE Write(c)
    BY <1>0, <2>1 DEF Write, StoppedInv, daemon
  <2>2. CASE ~Write(c)
    <3>1. UNCHANGED <<inq, line>> /\ running \subseteq running'
      BY <1>2, <2>2 DEF Begin, Exec, Check, PullImage, Create, CreateFails, Attach, AttachFails,
           Start, StartFails, Input, InputFails, WriteFails, Flushed, ReadLine, ReadFails,
           world, daemon, data
    <3> QED BY <1>1, <3>1
  <2> QED BY <2>1, <2>2
<1>3. ASSUME NEW a \in Actors, CloseStep(a) PROVE StoppedInv'
  BY <1>0, <1>1, <1>3 DEF CloseStep, CloseConn, RemoveContainer, Removed, Forget, RemovalFails,
                         Stop, StoppedInv, world, daemon, data
<1>4. ASSUME NEW x \in Calls, Exit(x) \/ ContainerRead(x) PROVE StoppedInv'
  <2>1. CASE Exit(x)
    BY <1>0, <2>1 DEF Exit, Stop, StoppedInv
  <2>2. CASE ContainerRead(x)
    BY <1>0, <2>2 DEF ContainerRead, StoppedInv, daemon
  <2> QED BY <1>4, <2>1, <2>2
<1>5. CASE OwnerCloses \/ UNCHANGED vars
  BY <1>1, <1>5 DEF OwnerCloses, vars, world, daemon, data
<1> QED BY <1>2, <1>3, <1>4, <1>5 DEF Next

LEMMA AppendTwo ==
  ASSUME NEW e, NEW f
  PROVE  Append(<<>>, e) = <<e>> /\ Append(<<e>>, f) = <<e, f>>
  <1>1. <<>> \in Seq({e, f}) /\ <<e>> \in Seq({e, f}) /\ <<e, f>> \in Seq({e, f})
    OBVIOUS
  <1>2. Append(<<>>, e) \in Seq({e, f}) /\ Append(<<e>>, f) \in Seq({e, f})
    BY <1>1, AppendProperties
  <1>3. Len(Append(<<e>>, f)) = 2 /\ Append(<<e>>, f)[1] = e /\ Append(<<e>>, f)[2] = f
    BY <1>1, AppendProperties
  <1>4. Len(Append(<<>>, e)) = 1 /\ Append(<<>>, e)[1] = e
    BY <1>1, AppendProperties
  <1>5. Append(<<>>, e) = <<e>>
    BY <1>1, <1>2, <1>4, SeqEqual
  <1>6. Append(<<e>>, f) = <<e, f>>
    <2> DEFINE s == Append(<<e>>, f)
               t == <<e, f>>
    <2>1. Len(t) = 2 /\ t[1] = e /\ t[2] = f
      OBVIOUS
    <2>2. Len(s) = Len(t) /\ \A i \in 1..Len(s) : s[i] = t[i]
      <3> HIDE DEF s, t
      <3>1. Len(s) = 2 /\ s[1] = e /\ s[2] = f
        BY <1>3 DEF s
      <3>2. \A i \in 1..2 : i = 1 \/ i = 2
        OBVIOUS
      <3> QED BY <2>1, <3>1, <3>2
    <2>3. s \in Seq({e, f}) /\ t \in Seq({e, f})
      BY <1>1, <1>2
    <2> HIDE DEF s, t
    <2>4. s = t
      BY <2>2, <2>3, SeqEqual
    <2> QED BY <2>4 DEF s, t
  <1> QED BY <1>5, <1>6

\* One chunk is written: the request grows by it, or is lost.
LEMMA WriteExchange ==
  ASSUME TypeOK, CallerInv, ConnInv, StoppedInv, OneRequest, NEW c \in Callers, Write(c)
  PROVE  /\ pc'[c] = "write"
         /\ Exchange(fd[c], Current(c), sent[c])'
  <1>0. /\ sent \in [Callers -> 0..2] /\ inq \in [Calls -> Seq(Chunks)]
        /\ pc \in [Actors -> PCs] /\ c \in Actors
    BY PCType DEF TypeOK, Actors
  <1>1. PICK p, x, k : p = fd[c] /\ x = Current(c) /\ k = sent[c]
    OBVIOUS
  <1>2. /\ k < 2 /\ p \in link /\ p \in Calls
        /\ pc[c] = "write" /\ pc' = [pc EXCEPT ![c] = "write"]
        /\ sent' = [sent EXCEPT ![c] = @ + 1]
        /\ inq' = [inq EXCEPT ![p] = IF p \in running THEN Append(@, <<x, k + 1>>) ELSE @]
        /\ UNCHANGED <<line, outq, n, fd, running, link>>
    BY <1>1 DEF Write, Goto, daemon, TypeOK
  <1>3. Exchange(p, x, k)
    BY <1>1, <1>2 DEF OneRequest
  <1>4. k \in {0, 1} /\ sent'[c] = k + 1 /\ fd'[c] = p /\ Current(c)' = x
    BY <1>0, <1>1, <1>2 DEF Current
  <1>5. line'[p] = line[p] /\ outq'[p] = outq[p]
    BY <1>2
  <1>6. CASE p \notin running
    <2>1. inq'[p] = inq[p] /\ inq[p] = <<>> /\ line[p] = {}
      BY <1>0, <1>2, <1>6 DEF StoppedInv
    <2>2. outq[p] = <<>>
      BY <1>2, <1>3, <2>1 DEF Exchange, Drained, Holds
    <2>3. Exchange(p, x, k + 1)'
      BY <1>2, <1>5, <1>6, <2>1, <2>2 DEF Exchange, Drained, Holds
    <2> QED BY <1>0, <1>2, <1>4, <2>3
  <1>7. CASE p \in running
    <2>1. inq'[p] = Append(inq[p], <<x, k + 1>>)
      BY <1>0, <1>2, <1>7
    <2>2. \A e, f : Append(<<>>, e) = <<e>> /\ Append(<<e>>, f) = <<e, f>>
      BY AppendTwo
    <2>3. CASE k = 0
      <3>1. inq[p] = <<>> /\ line[p] = {} /\ outq[p] = <<>>
        BY <1>3, <2>3 DEF Exchange, Drained, Holds
      <3>2. <<x, k + 1>> = <<x, 1>> /\ k + 1 = 1
        BY <2>3
      <3>3. inq'[p] = << <<x, 1>> >>
        BY <2>1, <2>2, <3>1, <3>2
      <3> QED BY <1>5, <3>1, <3>2, <3>3, <1>0, <1>2, <1>4 DEF Exchange, Holds
    <2>4. CASE k = 1
      <3>1. \/ inq[p] = << <<x, 1>> >> /\ line[p] = {} /\ outq[p] = <<>>
            \/ inq[p] = <<>> /\ line[p] = {<<x, 1>>} /\ outq[p] = <<>>
        BY <1>2, <1>3, <1>7, <2>4 DEF Exchange, Drained, Holds
      <3>2. <<x, k + 1>> = <<x, 2>> /\ k + 1 = 2
        BY <2>4
      <3>3. \/ inq'[p] = << <<x, 1>>, <<x, 2>> >> /\ line'[p] = {} /\ outq'[p] = <<>>
            \/ inq'[p] = << <<x, 2>> >> /\ line'[p] = {<<x, 1>>} /\ outq'[p] = <<>>
        BY <1>5, <2>1, <2>2, <3>1, <3>2
      <3> QED BY <3>2, <3>3, <1>0, <1>2, <1>4 DEF Exchange, Holds
    <2> QED BY <1>4, <2>3, <2>4
  <1> QED BY <1>6, <1>7

\* The container takes a chunk: the request moves on by one stage, or the
\* answer is lost because we hung up.
LEMMA ReadExchange ==
  ASSUME TypeOK, NEW p \in Calls, ContainerRead(p), NEW x, NEW k, Exchange(p, x, k)
  PROVE  Exchange(p, x, k)'
  <1> DEFINE chunk == Head(inq[p])
  <1>1. /\ p \in running /\ inq[p] # <<>>
        /\ inq' = [inq EXCEPT ![p] = Tail(@)] /\ UNCHANGED <<running, link>>
        /\ \/ /\ IsValue(chunk)
              /\ line' = [line EXCEPT ![p] = @ \cup {chunk}]
              /\ UNCHANGED outq
           \/ /\ ~IsValue(chunk)
              /\ line' = [line EXCEPT ![p] = {}]
              /\ outq' = [outq EXCEPT ![p] = IF line[p] = {} \/ p \notin link
                                             THEN @ ELSE Append(@, line[p])]
    BY DEF ContainerRead, daemon
  <1> HIDE DEF chunk
  <1>2. /\ inq'[p] = Tail(inq[p])
        /\ IsValue(chunk) => line'[p] = line[p] \cup {chunk} /\ outq'[p] = outq[p]
        /\ ~IsValue(chunk) =>
             /\ line'[p] = {}
             /\ p \notin link => outq'[p] = outq[p]
             /\ p \in link /\ line[p] # {} => outq'[p] = Append(outq[p], line[p])
    BY <1>1 DEF TypeOK
  <1>3. chunk = <<x, 1>> => IsValue(chunk)
    BY DEF IsValue
  <1>4. chunk = <<x, 2>> => ~IsValue(chunk)
    BY DEF IsValue
  <1>5. CASE k = 1 /\ Holds(p, << <<x, 1>> >>, {}, <<>>)
    <2>1. chunk = <<x, 1>> /\ inq'[p] = <<>>
      BY <1>2, <1>5 DEF Holds, chunk
    <2>2. Holds(p, <<>>, {<<x, 1>>}, <<>>)'
      BY <1>2, <1>3, <1>5, <2>1 DEF Holds
    <2> QED BY <1>5, <2>2 DEF Exchange
  <1>6. CASE k = 2 /\ Holds(p, << <<x, 1>>, <<x, 2>> >>, {}, <<>>)
    <2>1. chunk = <<x, 1>> /\ inq'[p] = << <<x, 2>> >>
      BY <1>2, <1>6 DEF Holds, chunk
    <2>2. Holds(p, << <<x, 2>> >>, {<<x, 1>>}, <<>>)'
      BY <1>2, <1>3, <1>6, <2>1 DEF Holds
    <2> QED BY <1>6, <2>2 DEF Exchange
  <1>7. CASE k = 2 /\ Holds(p, << <<x, 2>> >>, {<<x, 1>>}, <<>>)
    <2>1. chunk = <<x, 2>> /\ inq'[p] = <<>>
      BY <1>2, <1>7 DEF Holds, chunk
    <2>2. CASE p \in link
      <3>1. line'[p] = {} /\ outq'[p] = Append(<<>>, {<<x, 1>>})
        BY <1>2, <1>4, <1>7, <2>1, <2>2 DEF Holds
      <3>2. Holds(p, <<>>, {}, << {<<x, 1>>} >>)'
        BY <2>1, <3>1 DEF Holds
      <3> QED BY <1>7, <3>2 DEF Exchange
    <2>3. CASE p \notin link
      <3>1. Drained(p)' /\ p \notin link'
        BY <1>1, <1>2, <1>4, <1>7, <2>1, <2>3 DEF Drained, Holds
      <3> QED BY <3>1 DEF Exchange
    <2> QED BY <2>2, <2>3
  <1> QED BY <1>1, <1>5, <1>6, <1>7 DEF Exchange, Drained, Holds

\* A container that stops, or a connection that we close, takes the request
\* with it, or leaves its answer to be read.
LEMMA LossExchange ==
  ASSUME TypeOK, NEW p \in Calls, NEW x, NEW k, Exchange(p, x, k),
         running' \subseteq running, link' \subseteq link,
         \/ inq'[p] = inq[p] /\ line'[p] = line[p]
         \/ inq'[p] = <<>> /\ line'[p] = {} /\ p \notin running',
         outq'[p] = outq[p] \/ (outq'[p] = <<>> /\ p \notin link')
  PROVE  Exchange(p, x, k)'
  <1>1. CASE inq'[p] = inq[p] /\ line'[p] = line[p]
    BY <1>1 DEF Exchange, Drained, Holds
  <1>2. CASE inq'[p] = <<>> /\ line'[p] = {} /\ p \notin running'
    BY <1>2 DEF Exchange, Drained, Holds
  <1> QED BY <1>1, <1>2

\* What a caller that reads finds: the answer to its own request.
LEMMA AnswerRead ==
  ASSUME TypeOK, ConnInv, OneRequest, NEW c \in Callers, ReadLine(c)
  PROVE  /\ fd[c] = stdout /\ stdout \in Calls
         /\ inq[stdout] = <<>> /\ line[stdout] = {}
         /\ outq[stdout] = << {<<Current(c), 1>>} >>
  <1>1. pc[c] = "read" /\ outq[fd[c]] # <<>>
    BY DEF ReadLine
  <1>2. fd[c] = stdout /\ stdout \in Calls
    BY <1>1 DEF ConnInv, TypeOK
  <1>3. Exchange(fd[c], Current(c), sent[c])
    BY <1>1 DEF OneRequest
  <1>4. Holds(stdout, <<>>, {}, << {<<Current(c), 1>>} >>)
    BY <1>1, <1>2, <1>3 DEF Exchange, Drained, Holds
  <1> QED BY <1>2, <1>4 DEF Holds

\* Whatever the owner, the daemon and the container do, the exchange of the
\* caller in Exec goes on or is lost.
LEMMA OthersExchange ==
  ASSUME TypeOK, ConnInv, OneRequest, NEW c \in Callers, pc[c] \in {"write", "read"},
         \/ CloseStep(Owner) \/ OwnerCloses
         \/ \E x \in Calls : Exit(x) \/ ContainerRead(x)
  PROVE  Exchange(fd[c], Current(c), sent[c])'
  <1>0. UNCHANGED <<fd, n, sent>>
    BY CloseFrame
       DEF CloseStep, CloseConn, Removed, RemoveContainer, Forget, RemovalFails, OwnerCloses,
           Exit, ContainerRead, actor, call, history, Closed
  <1>1. PICK p, x, k : p = fd[c] /\ x = Current(c) /\ k = sent[c]
    OBVIOUS
  <1>2. p \in Calls /\ Exchange(p, x, k) /\ fd'[c] = p /\ Current(c)' = x /\ sent'[c] = k
    BY <1>0, <1>1 DEF ConnInv, TypeOK, OneRequest, Current
  <1>a. /\ inq \in [Calls -> Seq(Chunks)] /\ line \in [Calls -> SUBSET Chunks]
        /\ outq \in [Calls -> Seq(SUBSET Chunks)]
    BY DEF TypeOK
  <1> SUFFICES Exchange(p, x, k)'
    BY <1>2
  <1>3. ASSUME NEW y, Stop(y), UNCHANGED <<link, outq>> PROVE Exchange(p, x, k)'
    <2>1. running' \subseteq running /\ outq'[p] = outq[p] /\ link' \subseteq link
      BY <1>3 DEF Stop
    <2>2. \/ inq'[p] = inq[p] /\ line'[p] = line[p]
          \/ inq'[p] = <<>> /\ line'[p] = {} /\ p \notin running'
      BY <1>2, <1>3, <1>a DEF Stop
    <2> QED BY <1>2, <2>1, <2>2, LossExchange
  <1>4. CASE Removed(Owner) \/ \E y \in Calls : Exit(y)
    BY <1>3, <1>4 DEF Removed, Exit
  <1>5. CASE CloseConn(Owner)
    <2>1. /\ link' \subseteq link /\ UNCHANGED <<running, inq, line>>
          /\ outq'[p] = outq[p] \/ (outq'[p] = <<>> /\ p \notin link')
      BY <1>2, <1>5, <1>a DEF CloseConn, daemon
    <2> QED BY <1>2, <2>1, LossExchange
  <1>6. ASSUME NEW y \in Calls, ContainerRead(y) PROVE Exchange(p, x, k)'
    <2>1. CASE y = p
      BY <1>2, <1>6, <2>1, ReadExchange
    <2>2. CASE y # p
      <3>1. UNCHANGED <<running, link>> /\ inq'[p] = inq[p] /\ line'[p] = line[p] /\ outq'[p] = outq[p]
        BY <1>2, <1>6, <1>a, <2>2 DEF ContainerRead, daemon
      <3> QED BY <1>2, <3>1, LossExchange
    <2> QED BY <2>1, <2>2
  <1>7. CASE OwnerCloses \/ RemoveContainer(Owner) \/ Forget(Owner) \/ RemovalFails(Owner)
    <2>1. UNCHANGED <<running, link, inq, line, outq>>
      BY <1>7 DEF OwnerCloses, RemoveContainer, Forget, RemovalFails, world, daemon, data
    <2> QED BY <1>2, <2>1, LossExchange
  <1> QED BY <1>4, <1>5, <1>6, <1>7 DEF CloseStep

LEMMA StepOneRequest ==
  ASSUME TypeOK, CallerInv, ConnInv, FreshInv, StoppedInv, OneRequest, [Next]_vars
  PROVE  OneRequest'
<1> USE DockerAssumption, PCType DEF PCs
<1>0. /\ conn \in Calls \cup {Nil} /\ sent \in [Callers -> 0..2]
      /\ fd \in [Callers -> Calls \cup {Nil}]
      /\ \A c \in Callers : c \in Actors /\ c # Owner
  BY DEF TypeOK, Actors
\* The first part, for a step that opens no connection and writes nothing.
<1>a. ASSUME conn' = conn \/ conn' = Nil, \A c \in Callers : ~Write(c),
             (\A c \in Callers : pc'[c] \notin Talking)
               => conn = Nil \/ \A c \in Callers : pc[c] \notin Talking
      PROVE  conn' # Nil /\ (\A c \in Callers : pc'[c] \notin Talking) => Drained(conn)'
  <2> SUFFICES ASSUME conn' # Nil, \A c \in Callers : pc'[c] \notin Talking
               PROVE  Drained(conn)'
    OBVIOUS
  <2>1. conn \in Calls /\ conn' = conn /\ Drained(conn)
    BY <1>0, <1>a DEF OneRequest
  <2>2. PICK x \in Calls : x = conn
    BY <2>1
  <2>3. Drained(x)'
    BY <1>a, <2>1, <2>2, DrainedStays
  <2> QED BY <2>1, <2>2, <2>3
<1>1. ASSUME NEW c \in Callers, Begin(c) PROVE OneRequest'
  <2>1. \A d \in Callers : pc[d] = "idle" /\ pc'[d] \in {"idle", "check"}
    BY <1>0, <1>1 DEF Begin, Goto
  <2>2. conn' = conn /\ \A d \in Callers : ~Write(d)
    BY <1>1, <2>1 DEF Begin, Write, Goto, driver
  <2>3. conn' # Nil /\ (\A d \in Callers : pc'[d] \notin Talking) => Drained(conn)'
    BY <1>a, <2>1, <2>2 DEF Talking, Closing
  <2> QED BY <2>1, <2>3 DEF OneRequest
<1>2. ASSUME NEW c \in Callers, Exec(c) PROVE OneRequest'
  <2>0. /\ \A d \in Callers \ {c} : pc[d] = "idle" /\ pc'[d] = "idle"
        /\ Current(c)' = Current(c) /\ pc[c] \notin Closing /\ Current(c) \in Calls
    BY <1>2, ExecFrame DEF Current
  <2>b. ASSUME pc'[c] \in Closing PROVE OneRequest'
    BY <2>0, <2>b DEF OneRequest, Talking, Closing
  <2>c. ASSUME pc[c] \notin {"write", "read"}, pc'[c] \notin {"write", "read"}, conn' = conn
        PROVE  OneRequest'
    <3>1. \A d \in Callers : ~Write(d) /\ pc[d] \notin Talking
      BY <2>0, <2>c DEF Write, Goto, Talking, Closing
    <3> QED BY <1>a, <2>0, <2>c, <3>1 DEF OneRequest
  <2>1. CASE Check(c) \/ PullImage(c) \/ Create(c) \/ CreateFails(c) \/ Start(c)
    <3>1. pc[c] \notin {"write", "read"} /\ pc'[c] \notin {"write", "read"} /\ conn' = conn
      BY <1>0, <2>1 DEF Check, PullImage, Create, CreateFails, Start, Goto, Return, driver
    <3> QED BY <2>c, <3>1
  <2>2. CASE Attach(c)
    <3>1. conn' = Current(c) /\ UNCHANGED data /\ pc'[c] = "start" /\ pc[c] = "attach"
      BY <1>0, <2>2 DEF Attach, Goto
    <3>2. Drained(Current(c))
      BY <3>1 DEF FreshInv
    <3> QED BY <2>0, <3>1, <3>2 DEF OneRequest, Drained, Holds, data
  <2>3. CASE AttachFails(c) \/ StartFails(c) \/ InputFails(c) \/ WriteFails(c) \/ ReadFails(c)
    <3>1. pc'[c] \in Closing
      BY <1>0, <2>3 DEF AttachFails, StartFails, InputFails, WriteFails, ReadFails, Goto, Closing
    <3> QED BY <2>b, <3>1
  <2>4. CASE Input(c)
    <3>1. /\ pc[c] = "input" /\ UNCHANGED <<conn, sent, world>>
          /\ pc'[c] = (IF conn = Nil THEN "panicked" ELSE "write") /\ fd'[c] = conn
      BY <1>0, <2>4 DEF Input, Goto, driver
    <3>2. CASE conn = Nil
      BY <2>c, <3>1, <3>2
    <3>3. CASE conn # Nil
      <4>1. Drained(conn) /\ sent[c] = 0
        BY <2>0, <3>1, <3>3 DEF OneRequest, ConnInv, Talking, Closing
      <4>2. Exchange(fd[c], Current(c), sent[c])'
        BY <3>1, <4>1 DEF Exchange, Drained, Holds, world, daemon, data
      <4> QED BY <2>0, <3>1, <3>3, <4>2 DEF OneRequest, Talking
    <3> QED BY <3>2, <3>3
  <2>5. CASE Write(c)
    <3>1. pc'[c] = "write" /\ Exchange(fd[c], Current(c), sent[c])'
      BY <2>5, WriteExchange
    <3> QED BY <2>0, <3>1 DEF OneRequest, Talking
  <2>6. CASE Flushed(c)
    <3>1. /\ pc[c] = "write" /\ pc'[c] = "read" /\ fd'[c] = stdout /\ UNCHANGED <<sent, world>>
      BY <1>0, <2>6 DEF Flushed, Goto
    <3>2. Exchange(stdout, Current(c), sent[c])
      BY <3>1 DEF OneRequest, ConnInv
    <3>3. Exchange(fd[c], Current(c), sent[c])'
      BY <2>0, <3>1, <3>2 DEF Exchange, Drained, Holds, world, daemon, data
    <3> QED BY <2>0, <3>1, <3>3 DEF OneRequest, Talking
  <2>7. CASE ReadLine(c)
    <3>1. /\ fd[c] = stdout /\ stdout \in Calls
          /\ inq[stdout] = <<>> /\ line[stdout] = {}
          /\ outq[stdout] = << {<<Current(c), 1>>} >>
      BY <2>7, AnswerRead
    <3>2. /\ pc'[c] = "idle" /\ UNCHANGED <<conn, stdout, inq, line>>
          /\ outq' = [outq EXCEPT ![stdout] = Tail(@)]
      BY <1>0, <2>7, <3>1 DEF ReadLine, Return, driver
    <3>3. outq'[stdout] = <<>>
      BY <3>1, <3>2 DEF TypeOK
    <3>4. Drained(stdout)'
      BY <3>1, <3>2, <3>3 DEF Drained, Holds
    <3> QED BY <2>0, <3>2, <3>4 DEF OneRequest, ConnInv
  <2> QED BY <1>2, <2>1, <2>2, <2>3, <2>4, <2>5, <2>6, <2>7 DEF Exec
<1>3. ASSUME NEW a \in Actors, CloseStep(a) PROVE OneRequest'
  <2>1. CASE a = Owner
    <3>1. \A c \in Callers : pc'[c] = pc[c]
      BY <1>0, <1>3, <2>1, CloseFrame
    <3>2. conn' = conn \/ conn' = Nil
      BY <1>3 DEF CloseStep, CloseConn, RemoveContainer, Removed, Forget, RemovalFails, driver
    <3>3. \A c \in Callers : ~Write(c)
      <4>1. pc'[Owner] # pc[Owner]
        BY <1>3, <2>1 DEF CloseStep, CloseConn, RemoveContainer, Removed, Forget, RemovalFails,
                          Goto, Closed, Actors
      <4> QED BY <1>0, <4>1 DEF Write, Goto, Actors
    <3>4. \A c \in Callers : pc'[c] \in {"write", "read"}
                               => Exchange(fd[c], Current(c), sent[c])'
      BY <1>3, <2>1, <3>1, OthersExchange
    <3> QED BY <1>a, <3>1, <3>2, <3>3, <3>4 DEF OneRequest
  <2>2. CASE a # Owner
    <3>1. /\ a \in Callers /\ pc[a] \in Closing /\ pc'[a] \in Closing \cup {"idle"}
          /\ \A d \in Callers \ {a} : pc[d] = "idle" /\ pc'[d] = "idle"
      BY <1>0, <1>3, <2>2, CloseFrame DEF CallerInv, Actors, Closing
    <3>2. pc'[a] = "idle" => conn' = Nil
      <4>1. CASE CloseConn(a) \/ Removed(a)
        BY <1>0, <3>1, <4>1 DEF CloseConn, Removed, Goto
      <4>2. CASE RemoveContainer(a) \/ Forget(a) \/ RemovalFails(a)
        BY <3>1, <4>2 DEF RemoveContainer, Forget, RemovalFails, ConnInv, driver
      <4> QED BY <1>3, <4>1, <4>2 DEF CloseStep
    <3> QED BY <3>1, <3>2 DEF OneRequest, Talking, Closing
  <2> QED BY <2>1, <2>2
<1>4. ASSUME OwnerCloses \/ \E x \in Calls : Exit(x) \/ ContainerRead(x) PROVE OneRequest'
  <2>1. conn' = conn /\ \A c \in Callers : pc'[c] = pc[c]
    BY <1>0, <1>4 DEF OwnerCloses, Goto, Exit, ContainerRead, driver, actor
  <2>2. \A c \in Callers : ~Write(c)
    <3>1. UNCHANGED sent
      BY <1>4 DEF OwnerCloses, Exit, ContainerRead, actor, call
    <3>2. \A c \in Callers : Write(c) => sent'[c] = sent[c] + 1
      BY <1>0 DEF Write
    <3>3. \A c \in Callers : sent[c] \in 0..2
      BY <1>0
    <3> QED BY <3>1, <3>2, <3>3
  <2>3. \A c \in Callers : pc'[c] \in {"write", "read"}
                             => Exchange(fd[c], Current(c), sent[c])'
    BY <1>4, <2>1, OthersExchange
  <2> QED BY <1>a, <2>1, <2>2, <2>3 DEF OneRequest
<1>5. CASE UNCHANGED vars
  <2>1. UNCHANGED <<conn, pc, n, fd, sent, running, link, inq, line, outq>>
    BY <1>5 DEF vars, driver, actor, call, history, world, daemon, data
  <2> QED BY <2>1, ZenonT(60) DEF OneRequest, Exchange, Drained, Holds, Current
<1> QED BY <1>1, <1>2, <1>3, <1>4, <1>5 DEF Next

LEMMA LedgerSame ==
  ASSUME LedgerInv, UNCHANGED <<n, result, reply>>,
         \A c \in Callers : pc'[c] = "idle" <=> pc[c] = "idle"
  PROVE  LedgerInv'
  BY DEF LedgerInv, Begun, Current

\* A call that is in progress has no outcome yet.
LEMMA NoReplyYet ==
  ASSUME TypeOK, CallerInv, LedgerInv, NEW c \in Callers, pc[c] # "idle"
  PROVE  Current(c) \in Calls /\ result[Current(c)] = "none" /\ reply[Current(c)] = {}
  BY CurrentIsCall DEF LedgerInv

\* A call that returns is entered once, with its outcome.
LEMMA LedgerReturn ==
  ASSUME TypeOK, CallerInv, LedgerInv, NEW c \in Callers, pc[c] # "idle",
         NEW outcome \in {"ok", "err"}, Return(c, outcome), UNCHANGED n,
         reply'[Current(c)] = IF outcome = "ok" THEN {<<Current(c), 1>>} ELSE {},
         \A x \in Calls \ {Current(c)} : reply'[x] = reply[x]
  PROVE  LedgerInv'
  <1>1. /\ pc'[c] = "idle" /\ \A d \in Callers \ {c} : pc'[d] = pc[d]
        /\ result'[Current(c)] = outcome
        /\ \A x \in Calls \ {Current(c)} : result'[x] = result[x]
        /\ outcome # "none"
    BY PCType, CurrentIsCall DEF Return, TypeOK, Actors
  <1>2. \A d \in Callers : pc'[d] = "idle" <=> n'[d] = 0 \/ result'[Current(d)'] # "none"
    <2>1. \A d \in Callers : Current(d)' = Current(d) /\ n'[d] = n[d]
      BY DEF Current
    <2>2. \A d \in Callers \ {c} : n[d] # 0 => result'[Current(d)] = result[Current(d)]
      <3>1. \A d \in Callers \ {c} : n[d] # 0 => Current(d) \in Calls \ {Current(c)}
        BY DockerAssumption DEF Current, Calls, TypeOK
      <3> QED BY <1>1, <3>1
    <2>3. \A d \in Callers : pc[d] = "idle" <=> n[d] = 0 \/ result[Current(d)] # "none"
      BY DEF LedgerInv
    <2> QED BY <1>1, <2>1, <2>2, <2>3
  <1>3. \A x \in Calls : ~Begun(x)' => result'[x] = "none"
    <2>1. Begun(Current(c))
      BY DEF Begun, Current, TypeOK
    <2>2. \A x \in Calls : Begun(x)' = Begun(x)
      BY DEF Begun
    <2> QED BY <1>1, <2>1, <2>2 DEF LedgerInv
  <1>4. \A x \in Calls : reply'[x] = IF result'[x] = "ok" THEN {<<x, 1>>} ELSE {}
    BY <1>1, ZenonT(60) DEF LedgerInv
  <1> QED BY <1>2, <1>3, <1>4 DEF LedgerInv

\* What a step does to the outcomes: nothing, or one call returns, with its own
\* answer, or with an error and then without a connection.
LEMMA StepOutcome ==
  ASSUME TypeOK, CallerInv, ConnInv, OneRequest, LedgerInv, [Next]_vars,
         \A c \in Callers : ~Begin(c)
  PROVE  /\ UNCHANGED n
         /\ \/ /\ UNCHANGED <<result, reply>>
               /\ \A c \in Callers : pc'[c] = "idle" <=> pc[c] = "idle"
            \/ \E c \in Callers :
                 /\ pc[c] # "idle" /\ Return(c, "ok") /\ UNCHANGED conn
                 /\ reply' = [reply EXCEPT ![Current(c)] = {<<Current(c), 1>>}]
            \/ \E c \in Callers :
                 pc[c] # "idle" /\ Return(c, "err") /\ conn' = Nil /\ UNCHANGED reply
<1> DEFINE Quiet1 == /\ UNCHANGED <<result, reply>>
                     /\ \A c \in Callers : pc'[c] = "idle" <=> pc[c] = "idle"
           Answered(c) == /\ pc[c] # "idle" /\ Return(c, "ok") /\ UNCHANGED conn
                          /\ reply' = [reply EXCEPT ![Current(c)] = {<<Current(c), 1>>}]
           Failed(c) == pc[c] # "idle" /\ Return(c, "err") /\ conn' = Nil /\ UNCHANGED reply
<1> USE DockerAssumption, PCType DEF PCs
<1> HIDE DEF Quiet1, Answered, Failed
<1> SUFFICES UNCHANGED n /\ (Quiet1 \/ \E c \in Callers : Answered(c) \/ Failed(c))
  BY DEF Quiet1, Answered, Failed
<1>0. \A c \in Callers : c \in Actors /\ c # Owner
  BY DockerAssumption DEF Actors
<1>1. ASSUME NEW c \in Callers, Exec(c) PROVE UNCHANGED n /\ (Quiet1 \/ Answered(c) \/ Failed(c))
  <2>0. /\ pc[c] # "idle" /\ \A d \in Callers \ {c} : pc[d] = "idle" /\ pc'[d] = "idle"
        /\ UNCHANGED n
    BY <1>1, ExecFrame
  <2>1. CASE ReadLine(c)
    <3>1. /\ Return(c, "ok") /\ UNCHANGED conn
          /\ reply' = [reply EXCEPT ![Current(c)] = Head(outq[fd[c]])]
      BY <2>1 DEF ReadLine, driver
    <3>2. outq[fd[c]] = << {<<Current(c), 1>>} >>
      BY <2>1, AnswerRead
    <3>3. Head(outq[fd[c]]) = {<<Current(c), 1>>}
      BY <3>2
    <3> QED BY <2>0, <3>1, <3>3 DEF Answered
  <2>2. CASE CreateFails(c)
    <3>1. Return(c, "err") /\ UNCHANGED <<conn, reply>> /\ conn = Nil
      BY <2>2 DEF CreateFails, ConnInv, driver, history
    <3> QED BY <2>0, <3>1 DEF Failed
  <2>3. CASE PullImage(c)
    <3>1. UNCHANGED <<conn, reply>> /\ conn = Nil
      BY <2>3 DEF PullImage, ConnInv, history
    <3>2. CASE Return(c, "err")
      BY <2>0, <3>1, <3>2 DEF Failed
    <3>3. CASE Goto(c, "pull", "create") /\ UNCHANGED call
      BY <1>0, <2>0, <3>1, <3>3 DEF Quiet1, Goto, call
    <3> QED BY <2>0, <2>3, <3>2, <3>3 DEF PullImage
  <2>4. CASE ~(ReadLine(c) \/ CreateFails(c) \/ PullImage(c))
    <3>1. pc'[c] # "idle" /\ UNCHANGED <<result, reply>>
      BY <1>0, <1>1, <2>4 DEF Exec, Check, Create, Attach, AttachFails, Start, StartFails, Input,
                  InputFails, Write, WriteFails, Flushed, ReadFails, Goto, call, history
    <3> QED BY <2>0, <3>1 DEF Quiet1
  <2> QED BY <2>0, <2>1, <2>2, <2>3, <2>4
<1>2. ASSUME NEW a \in Actors, CloseStep(a)
      PROVE  UNCHANGED n /\ (Quiet1 \/ \E c \in Callers : Failed(c))
  <2>0. /\ pc[a] \in Closing /\ UNCHANGED <<n, reply>> /\ (a = Owner => UNCHANGED call)
        /\ \A b \in Actors \ {a} : pc'[b] = pc[b]
    BY <1>2, CloseFrame
  <2>1. CASE a = Owner
    BY <1>0, <2>0, <2>1 DEF Quiet1, call
  <2>2. CASE a # Owner /\ pc'[a] # "idle"
    <3>1. UNCHANGED result
      BY <1>0, <1>2, <2>2 DEF CloseStep, CloseConn, RemoveContainer, Removed, Forget,
                              RemovalFails, Closed, Return, Actors, call
    <3> QED BY <1>0, <2>0, <2>2, <3>1 DEF Quiet1, Closing
  <2>3. CASE a # Owner /\ pc'[a] = "idle"
    <3>1. a \in Callers
      BY <2>3 DEF Actors
    <3>2. ~CloseConn(a) /\ ~Removed(a)
      BY <2>3, <3>1, <1>0 DEF CloseConn, Removed, Goto
    <3>3. RemoveContainer(a) \/ Forget(a) \/ RemovalFails(a)
      BY <1>2, <3>2 DEF CloseStep
    <3>4. Closed(a) /\ conn' = conn /\ conn = Nil
      BY <1>0, <2>3, <3>1, <3>3 DEF RemoveContainer, Forget, RemovalFails, Goto, ConnInv, driver
    <3>5. Failed(a)
      BY <2>0, <2>3, <3>4 DEF Failed, Closed, Closing
    <3> QED BY <2>0, <3>1, <3>5
  <2> QED BY <2>1, <2>2, <2>3
<1>3. CASE OwnerCloses \/ (\E x \in Calls : Exit(x) \/ ContainerRead(x)) \/ UNCHANGED vars
  BY <1>0, <1>3 DEF OwnerCloses, Goto, Exit, ContainerRead, vars, actor, call, history, Quiet1
<1> QED BY <1>1, <1>2, <1>3 DEF Next

LEMMA StepLedger ==
  ASSUME TypeOK, CallerInv, ConnInv, OneRequest, LedgerInv, [Next]_vars
  PROVE  LedgerInv'
<1> USE PCType DEF PCs
<1>1. ASSUME NEW c \in Callers, Begin(c) PROVE LedgerInv'
  <2>1. /\ n[c] < MaxCalls /\ pc[c] = "idle" /\ pc' = [pc EXCEPT ![c] = "check"]
        /\ n' = [n EXCEPT ![c] = @ + 1] /\ UNCHANGED <<result, reply>>
        /\ n \in [Callers -> 0..MaxCalls] /\ \A d \in Callers : d \in Actors
    BY <1>1 DEF Begin, Goto, TypeOK, Actors
  <2>2. /\ Current(c)' = <<c, n[c] + 1>> /\ <<c, n[c] + 1>> \in Calls
        /\ ~Begun(<<c, n[c] + 1>>)
    BY <2>1, DockerAssumption DEF Current, Calls, Begun
  <2>3. result'[Current(c)'] = "none" /\ n'[c] # 0
    BY <2>1, <2>2 DEF LedgerInv
  <2>4. \A d \in Callers \ {c} : Current(d)' = Current(d) /\ n'[d] = n[d]
    BY <2>1 DEF Current
  <2>5. \A d \in Callers : pc'[d] = "idle" <=> n'[d] = 0 \/ result'[Current(d)'] # "none"
    BY <2>1, <2>3, <2>4 DEF LedgerInv
  <2>6. \A x \in Calls : ~Begun(x)' => ~Begun(x)
    BY <2>1, DockerAssumption DEF Begun, Calls
  <2> QED BY <2>1, <2>5, <2>6 DEF LedgerInv
<1>2. CASE \A c \in Callers : ~Begin(c)
  <2>1. UNCHANGED n
    BY <1>2, StepOutcome
  <2>2. CASE UNCHANGED <<result, reply>> /\ \A c \in Callers : pc'[c] = "idle" <=> pc[c] = "idle"
    BY <2>1, <2>2, LedgerSame
  <2>3. ASSUME NEW c \in Callers, pc[c] # "idle", Return(c, "ok"),
               reply' = [reply EXCEPT ![Current(c)] = {<<Current(c), 1>>}]
        PROVE  LedgerInv'
    <3>1. /\ reply'[Current(c)] = {<<Current(c), 1>>}
          /\ \A x \in Calls \ {Current(c)} : reply'[x] = reply[x]
      BY <2>3, CurrentIsCall DEF TypeOK
    <3> QED BY <2>1, <2>3, <3>1, LedgerReturn
  <2>4. ASSUME NEW c \in Callers, pc[c] # "idle", Return(c, "err"), UNCHANGED reply
        PROVE  LedgerInv'
    BY <2>1, <2>4, NoReplyYet, LedgerReturn
  <2> QED BY <1>2, <2>2, <2>3, <2>4, StepOutcome
<1> QED BY <1>1, <1>2

------------------------------------------------------------------------------
(* The theorems                                                            *)

LEMMA SessionInvHolds == Spec => [](TypeOK /\ SessionInv)
<1>1. Init => TypeOK /\ SessionInv
  <2> SUFFICES ASSUME Init PROVE TypeOK /\ SessionInv
    OBVIOUS
  <2>0. /\ \A a \in Actors : pc[a] = "idle"
        /\ \A c \in Callers : c \in Actors /\ pc[c] = "idle" /\ n[c] = 0 /\ sent[c] = 0
    BY DEF Init, Actors
  <2>1. TypeOK
    BY DockerAssumption DEF Init, TypeOK, Config
  <2>2. CallerInv /\ ConnInv
    BY <2>0 DEF Init, CallerInv, ConnInv
  <2>3. FreshInv /\ StoppedInv /\ OneRequest
    BY <2>0 DEF Init, FreshInv, StoppedInv, OneRequest, Untouched, Drained, Holds
  <2>4. LedgerInv
    BY <2>0 DEF Init, LedgerInv
  <2> QED BY <2>1, <2>2, <2>3, <2>4 DEF SessionInv
<1>2. (TypeOK /\ SessionInv) /\ [Next]_vars => (TypeOK /\ SessionInv)'
  BY StepTypeOK, StepCallerInv, StepConnInv, StepFresh, StepStopped, StepOneRequest, StepLedger
  DEF SessionInv
<1> QED BY <1>1, <1>2, PTL DEF Spec

\* The state keeps its shape.  This is more than bookkeeping: a caller that
\* reads always has a connection to read from, whatever the owner does.
THEOREM TypeCorrect == Spec => []TypeOK
  BY SessionInvHolds, PTL

------------------------------------------------------------------------------
(* The refinement: a session is an attached connection.                    *)

\* A caller is inside the abstract call exactly while it is inside Exec.
LEMMA InCallIsBusy ==
  ASSUME TypeOK, LedgerInv, NEW c \in Callers
  PROVE  Session!InCall(c) <=> pc[c] # "idle"
  BY DockerAssumption DEF Session!InCall, Session!Current, LedgerInv, Current, TypeOK

\* What a step does to the connection.
LEMMA StepConn ==
  ASSUME TypeOK, CallerInv, ConnInv, [Next]_vars
  PROVE  \/ conn' = conn \/ conn' = Nil
         \/ \E c \in Callers : /\ pc[c] # "idle" /\ conn = Nil /\ conn' \in Calls
                               /\ Attach(c)
  <1>1. ASSUME NEW c \in Callers, Exec(c), ~Attach(c) PROVE conn' = conn
    BY <1>1 DEF Exec, Check, PullImage, Create, CreateFails, AttachFails, Start, StartFails,
        Input, InputFails, Write, WriteFails, Flushed, ReadLine, ReadFails, driver
  <1>2. ASSUME NEW c \in Callers, Attach(c)
        PROVE  pc[c] # "idle" /\ conn = Nil /\ conn' \in Calls
    BY <1>2, CurrentIsCall DEF Attach, Goto, ConnInv
  <1>3. ASSUME NEW a \in Actors, CloseStep(a) PROVE conn' = conn \/ conn' = Nil
    BY <1>3 DEF CloseStep, CloseConn, RemoveContainer, Removed, Forget, RemovalFails, driver
  <1> QED BY <1>1, <1>2, <1>3
          DEF Next, Begin, OwnerCloses, Exit, ContainerRead, vars, driver

\* Every step of the driver is a step of the session or leaves it alone.
LEMMA StepRefines ==
  ASSUME TypeOK, SessionInv, (TypeOK /\ SessionInv)', [Next]_vars
  PROVE  [Session!Next]_Session!sessionVars
<1> DEFINE answers == [x \in Calls |-> {chunk[1] : chunk \in reply[x]}]
<1> USE DockerAssumption
<1>0. /\ TypeOK /\ CallerInv /\ ConnInv /\ OneRequest /\ LedgerInv
      /\ \A c \in Callers : c \in Actors
  BY DEF SessionInv, Actors
<1>a. \A c \in Callers : pc[c] # "idle" => Session!InCall(c) /\ Session!Current(c) = Current(c)
  BY <1>0, InCallIsBusy DEF Session!Current, Current
<1>1. ASSUME NEW c \in Callers, Begin(c) PROVE Session!Next
  <2>1. /\ \A d \in Callers : pc[d] = "idle"
        /\ n[c] < MaxCalls /\ n' = [n EXCEPT ![c] = @ + 1]
        /\ UNCHANGED <<conn, result, reply>>
    BY <1>1 DEF Begin, driver
  <2>2. \A d \in Callers : ~Session!InCall(d)
    BY <1>0, <2>1, InCallIsBusy
  <2>3. Session!Begin(c)
    BY <2>1, <2>2 DEF Session!Begin
  <2> QED BY <2>3 DEF Session!Next
<1>2. ASSUME NEW c \in Callers, Attach(c) PROVE Session!Next
  <2>1. pc[c] # "idle" /\ conn = Nil /\ conn' \in Calls /\ UNCHANGED <<n, result, reply>>
    BY <1>0, <1>2, CurrentIsCall DEF Attach, Goto, ConnInv, call, history
  <2>2. Session!Open(c)
    BY <1>a, <2>1 DEF Session!Open
  <2> QED BY <2>2 DEF Session!Next
<1>3. CASE (\A c \in Callers : ~Begin(c) /\ ~Attach(c)) /\ UNCHANGED <<n, result, reply>>
  <2>1. conn' = conn \/ (conn # Nil /\ conn' = Nil)
    BY <1>0, <1>3, StepConn
  <2>2. CASE conn' = conn
    BY <1>3, <2>2 DEF Session!sessionVars
  <2>3. CASE conn # Nil /\ conn' = Nil
    <3>1. Session!Drop
      BY <1>3, <2>3 DEF Session!Drop
    <3> QED BY <3>1 DEF Session!Next
  <2> QED BY <2>1, <2>2, <2>3
<1>4. ASSUME NEW c \in Callers, pc[c] # "idle", Return(c, "ok"), UNCHANGED <<conn, n>>,
             reply' = [reply EXCEPT ![Current(c)] = {<<Current(c), 1>>}]
      PROVE  Session!Next
  <2>1. answers' = [answers EXCEPT ![Current(c)] = {Current(c)}]
    <3>1. reply' \in [Calls -> SUBSET Chunks] /\ reply \in [Calls -> SUBSET Chunks]
      BY DEF TypeOK
    <3>2. ASSUME NEW x \in Calls
          PROVE  answers'[x] = IF x = Current(c) THEN {x} ELSE answers[x]
      <4>1. CASE x = Current(c)
        <5>1. reply'[x] = {<<x, 1>>}
          BY <1>4, <3>1, <4>1
        <5>2. {chunk[1] : chunk \in {<<x, 1>>}} = {x}
          OBVIOUS
        <5> QED BY <4>1, <5>1, <5>2
      <4>2. CASE x # Current(c)
        BY <1>4, <3>1, <4>2
      <4> QED BY <4>1, <4>2
    <3> QED BY <3>2
  <2>2. Session!Succeed(c)
    BY <1>a, <1>4, <2>1 DEF Session!Succeed, Return
  <2> QED BY <2>2 DEF Session!Next, Session!Return
<1>5. ASSUME NEW c \in Callers, pc[c] # "idle", Return(c, "err"), conn' = Nil,
             UNCHANGED <<n, reply>>
      PROVE  Session!Next
  <2>1. Session!Fail(c)
    BY <1>a, <1>5 DEF Session!Fail, Return
  <2> QED BY <2>1 DEF Session!Next, Session!Return
<1> QED
  <2>1. CASE \E c \in Callers : Begin(c) \/ Attach(c)
    BY <1>1, <1>2, <2>1
  <2>2. CASE \A c \in Callers : ~Begin(c) /\ ~Attach(c)
    BY <1>0, <1>3, <1>4, <1>5, <2>2, StepOutcome
  <2> QED BY <2>1, <2>2

\* Whatever the daemon refuses, whenever the container exits, and whenever the
\* owner closes the driver, in the middle of an Exec or of its establish
\* included, the driver keeps the promise of a stream session.
THEOREM Implements == Spec => KeepsPromise
<1>1. Init => Session!Init
  BY DEF Init, Session!Init, Calls, Session!Calls
<1>2. (TypeOK /\ SessionInv) /\ (TypeOK /\ SessionInv)' /\ [Next]_vars
        => [Session!Next]_Session!sessionVars
  BY StepRefines
<1> QED BY <1>1, <1>2, SessionInvHolds, PTL DEF Spec, KeepsPromise, Session!Spec

------------------------------------------------------------------------------
(* No container is left behind.                                            *)

\* A step of actor a, when all others are idle.
LEMMA ContainerStep ==
  ASSUME TypeOK, ContainerParts, NEW a \in Actors, UNCHANGED config,
         \A b \in Actors \ {a} : pc'[b] = "idle",
         \A x \in exists' : x = containerID',
         pc'[a] \in {"start", "input", "write", "read"} => conn' # Nil,
         pc'[a] = "removing" => removing'[a] = containerID',
         pc'[a] = "forget" => exists' = {},
         ~config.removeFails /\ conn' = Nil /\ pc'[a] \in NothingMade => exists' = {}
  PROVE  ContainerParts'
  BY DEF ContainerParts, NothingMade

LEMMA StepContainer ==
  ASSUME TypeOK, CallerInv, ConnInv, ContainerInv, [Next]_vars
  PROVE  ContainerInv'
<1> USE DockerAssumption, PCType DEF PCs
<1>0. UNCHANGED config
  <2>1. ASSUME NEW a \in Actors, CloseStep(a) PROVE UNCHANGED config
    BY <2>1, CloseFrame
  <2>2. ASSUME NEW c \in Callers, Exec(c) PROVE UNCHANGED config
    BY <2>2, ExecFrame
  <2> QED BY <2>1, <2>2 DEF Next, Begin, OwnerCloses, Exit, ContainerRead, vars, driver
<1> SUFFICES ASSUME OneAtATime, ContainerParts PROVE ContainerParts'
  BY <1>0 DEF ContainerInv, OneAtATime
<1>a. /\ \A c \in Callers : c \in Actors /\ c # Owner
      /\ Owner \in Actors /\ removing \in [Actors -> Calls \cup {Nil}]
      /\ exists \subseteq Calls
  BY DEF TypeOK, Actors
<1>1. ASSUME NEW c \in Callers, Begin(c) PROVE ContainerParts'
  <2>1. /\ Quiet /\ pc'[c] = "check" /\ \A b \in Actors \ {c} : pc'[b] = "idle"
        /\ UNCHANGED <<exists, containerID, conn, removing>>
    BY <1>1, <1>a DEF Begin, OneAtATime, Quiet, Goto, driver, world, daemon
  <2>2. ~config.removeFails /\ conn = Nil => exists = {}
    BY <2>1 DEF ContainerParts, Quiet, NothingMade
  <2>3. \A x \in exists' : x = containerID'
    BY <2>1 DEF ContainerParts
  <2> QED BY <1>0, <1>a, <2>1, <2>2, <2>3, ContainerStep
<1>2. ASSUME NEW c \in Callers, Exec(c) PROVE ContainerParts'
  <2>0. pc[c] # "idle" /\ \A b \in Actors \ {c} : pc[b] = "idle" /\ pc'[b] = "idle"
    BY <1>2, <1>a, ExecFrame DEF ContainerParts
  <2>1. UNCHANGED removing /\ c \in Actors
    BY <1>2, <1>a, ExecFrame
  <2>a. ASSUME UNCHANGED <<exists, containerID, conn>>,
               pc'[c] \in {"start", "input", "write", "read"} => conn # Nil,
               pc'[c] \in {"removing", "forget"} => FALSE,
               conn # Nil \/ pc[c] \in NothingMade \/ pc'[c] \notin NothingMade
        PROVE  ContainerParts'
    <3>1. \A x \in exists' : x = containerID'
      BY <2>a DEF ContainerParts
    <3>2. ~config.removeFails /\ conn' = Nil /\ pc'[c] \in NothingMade => exists' = {}
      BY <2>0, <2>a DEF ContainerParts, NothingMade
    <3> QED BY <1>0, <2>0, <2>1, <2>a, <3>1, <3>2, ContainerStep
  <2>2. CASE Check(c)
    BY <1>a, <2>2, <2>a DEF Check, Goto, NothingMade, driver, world, daemon
  <2>3. CASE PullImage(c) \/ CreateFails(c)
    <3>1. pc[c] \in {"pull", "create"} /\ pc'[c] \in {"create", "idle"}
          /\ UNCHANGED <<exists, containerID, conn>>
      BY <1>a, <2>3 DEF PullImage, CreateFails, Goto, Return, driver, world, daemon
    <3> QED BY <2>a, <3>1 DEF NothingMade
  <2>4. CASE Create(c)
    <3>1. /\ pc[c] = "create" /\ pc'[c] = "attach" /\ UNCHANGED conn /\ conn = Nil
          /\ exists' = exists \cup {Current(c)} /\ containerID' = Current(c)
          /\ config.named => exists = {}
      BY <1>a, <2>4 DEF Create, Goto, ConnInv
    <3>2. ~config.removeFails => exists = {}
      BY <2>0, <3>1 DEF ContainerParts, NothingMade
    <3>3. exists = {}
      BY <3>1, <3>2 DEF OneAtATime
    <3>4. \A x \in exists' : x = containerID'
      BY <3>1, <3>3
    <3> QED BY <1>0, <2>0, <2>1, <3>1, <3>4, ContainerStep DEF NothingMade
  <2>5. CASE Attach(c)
    <3>1. /\ conn' = Current(c) /\ pc[c] = "attach" /\ pc'[c] = "start"
          /\ UNCHANGED <<exists, containerID>>
      BY <1>a, <2>5 DEF Attach, Goto, daemon
    <3>2. Current(c) # Nil
      BY <2>0, CurrentIsCall
    <3>3. \A x \in exists' : x = containerID'
      BY <3>1 DEF ContainerParts
    <3> QED BY <1>0, <2>0, <2>1, <3>1, <3>2, <3>3, ContainerStep
  <2>6. CASE AttachFails(c) \/ StartFails(c) \/ InputFails(c) \/ WriteFails(c) \/ ReadFails(c)
    <3>1. pc'[c] \in {"remove", "close"} /\ UNCHANGED <<exists, containerID, conn>>
      BY <1>a, <2>6 DEF AttachFails, StartFails, InputFails, WriteFails, ReadFails, Goto,
                        driver, world, daemon
    <3> QED BY <2>a, <3>1 DEF NothingMade
  <2>7. CASE Start(c) \/ Input(c) \/ Write(c) \/ Flushed(c) \/ ReadLine(c)
    <3>1. pc[c] \in {"start", "input", "write", "read"} /\ UNCHANGED <<exists, containerID, conn>>
      BY <2>7 DEF Start, Input, Write, Flushed, ReadLine, Goto, driver, world, daemon
    <3>2. conn # Nil
      BY <1>a, <3>1 DEF ContainerParts
    <3>3. pc'[c] \in {"input", "write", "read", "idle"}
      BY <1>a, <2>7, <3>2 DEF Start, Input, Write, Flushed, ReadLine, Goto, Return
    <3> QED BY <2>a, <3>1, <3>2, <3>3
  <2> QED BY <1>2, <2>2, <2>3, <2>4, <2>5, <2>6, <2>7 DEF Exec
<1>3. CASE OwnerCloses
  <2>1. /\ pc'[Owner] = "close" /\ \A b \in Actors \ {Owner} : pc'[b] = "idle"
        /\ UNCHANGED <<exists, containerID, conn, removing>>
    BY <1>3, <1>a DEF OwnerCloses, OneAtATime, Quiet, Goto, driver, world, daemon
  <2>2. \A x \in exists' : x = containerID'
    BY <2>1 DEF ContainerParts
  <2> QED BY <1>0, <1>a, <2>1, <2>2, ContainerStep DEF NothingMade
<1>4. ASSUME NEW a \in Actors, CloseStep(a) PROVE ContainerParts'
  <2>0. pc[a] # "idle" /\ \A b \in Actors \ {a} : pc'[b] = "idle"
    BY <1>4, CloseFrame DEF ContainerParts, Closing
  <2>b. ASSUME Closed(a) PROVE pc'[a] = "idle"
    BY <1>a, <2>b DEF Closed, Return
  <2>1. CASE CloseConn(a)
    <3>1. pc'[a] = "remove" /\ UNCHANGED <<exists, containerID>>
      BY <2>1 DEF CloseConn, Goto, daemon
    <3>2. \A x \in exists' : x = containerID'
      BY <3>1 DEF ContainerParts
    <3> QED BY <1>0, <2>0, <3>1, <3>2, ContainerStep DEF NothingMade
  <2>2. CASE RemoveContainer(a)
    <3>1. UNCHANGED <<exists, containerID, conn>>
      BY <2>2 DEF RemoveContainer, driver, world, daemon
    <3>2. \A x \in exists' : x = containerID'
      BY <3>1 DEF ContainerParts
    <3>3. CASE containerID = Nil
      <4>1. pc'[a] = "idle"
        BY <2>2, <2>b, <3>3 DEF RemoveContainer
      <4>2. exists = {}
        BY <1>a, <3>3 DEF ContainerParts
      <4> QED BY <1>0, <2>0, <3>1, <3>2, <4>1, <4>2, ContainerStep
    <3>4. CASE containerID # Nil
      <4>1. pc'[a] = "removing" /\ removing'[a] = containerID
        BY <1>a, <2>2, <3>4 DEF RemoveContainer, Goto
      <4> QED BY <1>0, <2>0, <3>1, <3>2, <4>1, ContainerStep DEF NothingMade
    <3> QED BY <3>3, <3>4
  <2>3. CASE Removed(a)
    <3>1. pc[a] = "removing" /\ pc'[a] = "forget" /\ exists' = exists \ {removing[a]}
      BY <2>3 DEF Removed, Goto
    <3>2. exists' = {}
      BY <3>1 DEF ContainerParts
    <3> QED BY <1>0, <2>0, <3>1, <3>2, ContainerStep DEF NothingMade
  <2>4. CASE Forget(a)
    <3>1. pc[a] = "forget" /\ UNCHANGED exists /\ pc'[a] = "idle"
      BY <2>4, <2>b DEF Forget, world, daemon
    <3>2. exists' = {}
      BY <3>1 DEF ContainerParts
    <3> QED BY <1>0, <2>0, <3>1, <3>2, ContainerStep
  <2>5. CASE RemovalFails(a)
    <3>1. /\ pc[a] = "removing" /\ UNCHANGED <<exists, containerID, conn>> /\ pc'[a] = "idle"
          /\ config.removeFails \/ removing[a] \notin exists
      BY <2>5, <2>b DEF RemovalFails, driver, world, daemon
    <3>2. \A x \in exists : x = containerID
      BY DEF ContainerParts
    <3>3. removing[a] = containerID
      BY <3>1 DEF ContainerParts
    <3>4. ~config.removeFails => exists = {}
      BY <3>1, <3>2, <3>3
    <3> QED BY <1>0, <2>0, <3>1, <3>2, <3>4, ContainerStep
  <2> QED BY <1>4, <2>1, <2>2, <2>3, <2>4, <2>5 DEF CloseStep
<1>5. CASE (\E x \in Calls : Exit(x) \/ ContainerRead(x)) \/ UNCHANGED vars
  <2>1. UNCHANGED <<pc, exists, containerID, conn, removing>>
    BY <1>5 DEF Exit, ContainerRead, vars, driver, actor, history, world, daemon
  <2> QED BY <1>0, <2>1 DEF ContainerParts
<1> QED BY <1>1, <1>2, <1>3, <1>4, <1>5 DEF Next

\* With one Close or Exec at a time, every container the daemon has is the one
\* the driver would remove, whatever the daemon refuses; where it may also
\* refuse to remove, the container name is what the proof needs.
THEOREM NoContainerLost == Spec => []NothingLost
<1>1. Init => ContainerInv
  BY DEF Init, ContainerInv, ContainerParts
<1>2. (TypeOK /\ SessionInv) /\ ContainerInv /\ [Next]_vars => ContainerInv'
  BY StepContainer DEF SessionInv
<1>3. ContainerInv => NothingLost
  BY DEF ContainerInv, ContainerParts, OneAtATime, NothingLost
<1> QED BY <1>1, <1>2, <1>3, SessionInvHolds, PTL DEF Spec

==============================================================================
