----------------------------- MODULE DockerStream -----------------------------
(***************************************************************************)
(* The docker driver in stream mode (driver/docker/stream.go): the first   *)
(* Exec creates a container, attaches to it and starts it; every Exec      *)
(* writes its stdin parameter to the container and reads one line back.    *)
(* The actors are the goroutines that call Exec, one at a time, the owner  *)
(* that calls Close, the docker daemon and the container.                  *)
(*                                                                         *)
(* A container is named by the call that created it.  Requests, chunks and *)
(* replies are those of ShellStream, with one stdin parameter.             *)
(***************************************************************************)
EXTENDS Naturals, Sequences

CONSTANTS
  Callers,      \* the goroutines that call Exec
  Owner,        \* the goroutine that calls Close
  MaxCalls,     \* bound: calls made by each caller
  MaxCloses,    \* bound: calls of Close by the owner
  Configs,      \* the circumstances to check: records of the type below
  Nil           \* the nil pointer and the empty container id

Actors == Callers \cup {Owner}
Calls  == Callers \X (1..MaxCalls)
Chunks == Calls \X (1..2)

\* overlap: may the owner close while an Exec is running?  Nothing prevents it.
\* named: is a container name configured?  pull: is WithImage asked to pull?
\* removeFails: may the daemon fail to remove a container it has?
Config == [overlap : BOOLEAN, named : BOOLEAN, pull : BOOLEAN, removeFails : BOOLEAN]

ASSUME DockerAssumption ==
  /\ MaxCalls \in Nat /\ MaxCloses \in Nat
  /\ Configs \subseteq Config
  /\ Owner \notin Callers /\ Nil \notin Calls

VARIABLES
  config,       \* the circumstances of this behavior
  pullImage,    \* d.pullImage
  containerID,  \* d.containerID
  conn,         \* d.conn: the container it is attached to
  stdout,       \* d.stdout: the container its pump reads from
  pc,           \* where each actor is
  n,            \* calls begun so far, per caller
  fd,           \* what the caller took from the driver for its next I/O
  sent,         \* chunks of the request written so far
  removing,     \* the container each actor asked the daemon to remove
  result,       \* "none" until the call returns "ok" or "err"
  reply,        \* the line the call was given
  closes,       \* calls of Close by the owner so far
  exists,       \* the containers the daemon knows
  running,      \* those that run
  link,         \* attach connections open at our end
  inq,          \* chunks on their way to the container
  line,         \* what the container has read of the current line
  outq          \* reply lines on their way to, or in, our bufio.Reader

driver  == <<config, pullImage, containerID, conn, stdout>>
call    == <<fd, sent, result>>
history == <<n, removing, reply, closes>>
actor   == <<pc, call, history>>
daemon  == <<exists, running>>
data    == <<inq, line, outq>>
world   == <<daemon, link, data>>
vars    == <<driver, actor, world>>

Current(c) == <<c, n[c]>>
Quiet      == \A a \in Actors : pc[a] = "idle"

Init ==
  /\ config \in Configs
  /\ pullImage = config.pull /\ containerID = Nil /\ conn = Nil /\ stdout = Nil
  /\ pc       = [a \in Actors |-> "idle"]
  /\ n        = [c \in Callers |-> 0]
  /\ fd       = [c \in Callers |-> Nil]
  /\ sent     = [c \in Callers |-> 0]
  /\ removing = [a \in Actors |-> Nil]
  /\ result   = [x \in Calls |-> "none"]
  /\ reply    = [x \in Calls |-> {}]
  /\ closes = 0 /\ exists = {} /\ running = {} /\ link = {}
  /\ inq      = [x \in Calls |-> <<>>]
  /\ line     = [x \in Calls |-> {}]
  /\ outq     = [x \in Calls |-> <<>>]

Goto(a, from, to) ==
  /\ pc[a] = from
  /\ pc' = [pc EXCEPT ![a] = to]

\* Exec returns, and its locals are gone.
Return(c, outcome) ==
  /\ pc'     = [pc EXCEPT ![c] = "idle"]
  /\ result' = [result EXCEPT ![Current(c)] = outcome]
  /\ fd'     = [fd EXCEPT ![c] = Nil]
  /\ sent'   = [sent EXCEPT ![c] = 0]

\* Mutant of Stop: a container is removed without Force, and runs on.
StopNothing(x) == UNCHANGED <<running, inq, line>>

\* What a container that stops running takes with it.
Stop(x) ==
  /\ running' = running \ {x}
  /\ inq'     = [inq EXCEPT ![x] = <<>>]
  /\ line'    = [line EXCEPT ![x] = {}]

------------------------------------------------------------------------------
(* Exec and establish *)
Begin(c) ==
  /\ \A d \in Callers : pc[d] = "idle"
  /\ config.overlap \/ Quiet
  /\ n[c] < MaxCalls
  /\ Goto(c, "idle", "check")
  /\ n' = [n EXCEPT ![c] = @ + 1]
  /\ UNCHANGED <<driver, fd, sent, removing, result, reply, closes, world>>

Check(c) ==
  /\ Goto(c, "check", IF conn # Nil THEN "input" ELSE IF pullImage THEN "pull" ELSE "create")
  /\ UNCHANGED <<driver, call, history, world>>

\* The flag is cleared before the outcome is known.
PullImage(c) ==
  /\ pc[c] = "pull"
  /\ pullImage' = FALSE
  /\ \/ Goto(c, "pull", "create") /\ UNCHANGED call
     \/ Return(c, "err")
  /\ UNCHANGED <<config, containerID, conn, stdout, history, world>>

\* A name can be taken by one container only.
Create(c) ==
  /\ config.named => exists = {}
  /\ Goto(c, "create", "attach")
  /\ exists'      = exists \cup {Current(c)}
  /\ containerID' = Current(c)
  /\ UNCHANGED <<config, pullImage, conn, stdout, call, history, running, link, data>>

CreateFails(c) ==
  /\ pc[c] = "create"
  /\ Return(c, "err")
  /\ UNCHANGED <<driver, history, world>>

\* The pump that feeds d.stdout starts with the connection.
Attach(c) ==
  LET x == Current(c) IN
  /\ x \in exists
  /\ Goto(c, "attach", "start")
  /\ conn' = x /\ stdout' = x
  /\ link' = link \cup {x}
  /\ UNCHANGED <<config, pullImage, containerID, call, history, daemon, data>>

\* Mutant of AttachFails: the container is not removed.
AttachFailsKeeps(c) ==
  /\ pc[c] = "attach"
  /\ Return(c, "err")
  /\ UNCHANGED <<driver, history, world>>

AttachFails(c) ==
  /\ Goto(c, "attach", "remove")
  /\ UNCHANGED <<driver, call, history, world>>

Start(c) ==
  /\ Current(c) \in exists
  /\ Goto(c, "start", "input")
  /\ running' = running \cup {Current(c)}
  /\ UNCHANGED <<driver, call, history, exists, link, data>>

\* Mutant of StartFails: the driver is not closed.
StartFailsKeeps(c) ==
  /\ pc[c] = "start"
  /\ Return(c, "err")
  /\ UNCHANGED <<driver, history, world>>

StartFails(c) ==
  /\ Goto(c, "start", "close")
  /\ UNCHANGED <<driver, call, history, world>>

\* InputStream, then io.Copy takes d.conn.Conn; a nil d.conn panics.
Input(c) ==
  /\ Goto(c, "input", IF conn = Nil THEN "panicked" ELSE "write")
  /\ fd' = [fd EXCEPT ![c] = conn]
  /\ UNCHANGED <<driver, n, sent, removing, result, reply, closes, world>>

InputFails(c) ==
  /\ Goto(c, "input", "close")
  /\ UNCHANGED <<driver, call, history, world>>

\* Bytes for a container that has exited may be accepted and lost.
Write(c) ==
  LET x == fd[c] IN
  /\ sent[c] < 2
  /\ x \in link
  /\ Goto(c, "write", "write")
  /\ sent' = [sent EXCEPT ![c] = @ + 1]
  /\ inq'  = [inq EXCEPT ![x] = IF x \in running
                                THEN Append(@, <<Current(c), sent[c] + 1>>) ELSE @]
  /\ UNCHANGED <<driver, n, fd, removing, result, reply, closes, daemon, link, line, outq>>

WriteFails(c) ==
  /\ sent[c] < 2
  /\ ~(fd[c] \in link /\ fd[c] \in running)
  /\ Goto(c, "write", "close")
  /\ UNCHANGED <<driver, call, history, world>>

Flushed(c) ==
  /\ sent[c] = 2
  /\ Goto(c, "write", "read")
  /\ fd' = [fd EXCEPT ![c] = stdout]
  /\ UNCHANGED <<driver, n, sent, removing, result, reply, closes, world>>

ReadLine(c) ==
  LET x == fd[c] IN
  /\ pc[c] = "read" /\ outq[x] # <<>>
  /\ Return(c, "ok")
  /\ reply' = [reply EXCEPT ![Current(c)] = Head(outq[x])]
  /\ outq'  = [outq EXCEPT ![x] = Tail(@)]
  /\ UNCHANGED <<driver, n, removing, closes, daemon, link, inq, line>>

\* Mutant of ReadFails: the pump ends and does not close the pipe it feeds.
ReadFailsOnHangup(c) ==
  LET x == fd[c] IN
  /\ Goto(c, "read", "close")
  /\ outq[x] = <<>>
  /\ x \notin link
  /\ UNCHANGED <<driver, call, history, world>>

\* The pump closes the pipe when the container exits or we hang up.
ReadFails(c) ==
  LET x == fd[c] IN
  /\ Goto(c, "read", "close")
  /\ outq[x] = <<>>
  /\ ~(x \in link /\ x \in running)
  /\ UNCHANGED <<driver, call, history, world>>

------------------------------------------------------------------------------
(* Close, by an Exec that failed or by the owner: the connection first,    *)
(* then the container, with no lock around them.                           *)
OwnerCloses ==
  /\ closes < MaxCloses
  /\ config.overlap \/ Quiet
  /\ Goto(Owner, "idle", "close")
  /\ closes' = closes + 1
  /\ UNCHANGED <<driver, n, fd, sent, removing, result, reply, world>>

\* What the pump had not taken from the connection is lost; the rest may still
\* be read.
CloseConn(a) ==
  /\ Goto(a, "close", "remove")
  /\ conn' = Nil
  /\ link' = link \ {conn}
  /\ \/ UNCHANGED outq
     \/ conn # Nil /\ outq' = [outq EXCEPT ![conn] = <<>>]
  /\ UNCHANGED <<config, pullImage, containerID, stdout, call, history, daemon, inq, line>>

Closed(a) ==
  IF a = Owner
  THEN pc' = [pc EXCEPT ![a] = "idle"] /\ UNCHANGED call
  ELSE Return(a, "err")

\* removeContainer: nothing to remove, or the id goes to the daemon.
RemoveContainer(a) ==
  /\ pc[a] = "remove"
  /\ IF containerID = Nil
     THEN Closed(a) /\ UNCHANGED removing
     ELSE /\ Goto(a, "remove", "removing")
          /\ removing' = [removing EXCEPT ![a] = containerID]
          /\ UNCHANGED call
  /\ UNCHANGED <<driver, n, reply, closes, world>>

Removed(a) ==
  LET x == removing[a] IN
  /\ x \in exists
  /\ Goto(a, "removing", "forget")
  /\ exists' = exists \ {x}
  /\ Stop(x)
  /\ UNCHANGED <<driver, call, history, link, outq>>

\* Whichever container the id names by now is forgotten.
Forget(a) ==
  /\ pc[a] = "forget"
  /\ Closed(a)
  /\ removing'    = [removing EXCEPT ![a] = Nil]
  /\ containerID' = Nil
  /\ UNCHANGED <<config, pullImage, conn, stdout, n, reply, closes, world>>

\* The daemon refuses, or no longer has the container: the id is kept.
RemovalFails(a) ==
  /\ pc[a] = "removing"
  /\ config.removeFails \/ removing[a] \notin exists
  /\ Closed(a)
  /\ removing' = [removing EXCEPT ![a] = Nil]
  /\ UNCHANGED <<driver, n, reply, closes, world>>

Exec(c) ==
  \/ Check(c) \/ PullImage(c) \/ Create(c) \/ CreateFails(c) \/ Attach(c) \/ AttachFails(c)
  \/ Start(c) \/ StartFails(c) \/ Input(c) \/ InputFails(c)
  \/ Write(c) \/ WriteFails(c) \/ Flushed(c) \/ ReadLine(c) \/ ReadFails(c)

CloseStep(a) ==
  CloseConn(a) \/ RemoveContainer(a) \/ Removed(a) \/ Forget(a) \/ RemovalFails(a)

------------------------------------------------------------------------------
(* The container: it may exit at any time, and answers every line that is  *)
(* not empty with one line.                                                *)
Exit(x) ==
  /\ x \in running
  /\ Stop(x)
  /\ UNCHANGED <<driver, actor, exists, link, outq>>

IsValue(chunk) == chunk[2] = 1

ContainerRead(x) ==
  LET chunk == Head(inq[x]) IN
  /\ x \in running /\ inq[x] # <<>>
  /\ inq' = [inq EXCEPT ![x] = Tail(@)]
  /\ \/ /\ IsValue(chunk)
        /\ line' = [line EXCEPT ![x] = @ \cup {chunk}]
        /\ UNCHANGED outq
     \/ /\ ~IsValue(chunk)
        /\ line' = [line EXCEPT ![x] = {}]
        /\ outq' = [outq EXCEPT ![x] = IF line[x] = {} \/ x \notin link
                                       THEN @ ELSE Append(@, line[x])]
  /\ UNCHANGED <<driver, actor, daemon, link>>

Next ==
  \/ \E c \in Callers : Begin(c) \/ Exec(c)
  \/ OwnerCloses
  \/ \E a \in Actors : CloseStep(a)
  \/ \E x \in Calls : Exit(x) \/ ContainerRead(x)

Spec == Init /\ [][Next]_vars

\* The daemon answers every request, a goroutine that can run does, and the
\* container reads what it is sent.
FairSpec ==
  /\ Spec
  /\ \A c \in Callers : WF_vars(Exec(c))
  /\ \A a \in Actors : WF_vars(CloseStep(a))
  /\ \A x \in Calls : WF_vars(ContainerRead(x))

------------------------------------------------------------------------------
(* Properties *)

\* The shape of the state.
TypeOK ==
  /\ config \in Config /\ pullImage \in BOOLEAN
  /\ {containerID, conn, stdout} \subseteq Calls \cup {Nil}
  /\ pc \in [Actors -> {"idle", "check", "pull", "create", "attach", "start", "input",
                        "write", "read", "close", "remove", "removing", "forget", "panicked"}]
  /\ n \in [Callers -> 0..MaxCalls]
  /\ fd \in [Callers -> Calls \cup {Nil}]
  /\ sent \in [Callers -> 0..2]
  /\ removing \in [Actors -> Calls \cup {Nil}]
  /\ result \in [Calls -> {"none", "ok", "err"}]
  /\ reply \in [Calls -> SUBSET Chunks]
  /\ closes \in 0..MaxCloses
  /\ exists \subseteq Calls /\ running \subseteq exists /\ link \subseteq Calls
  /\ inq \in [Calls -> Seq(Chunks)]
  /\ line \in [Calls -> SUBSET Chunks]
  /\ outq \in [Calls -> Seq(SUBSET Chunks)]

\* Every container the daemon has is the one Close would remove: whatever
\* fails on the way to a working session, no container is left behind.  (When a
\* removal may fail too, a name is what keeps a second container away.)
NothingLost ==
  ~config.overlap /\ (config.removeFails => config.named) =>
    \A x \in exists : x = containerID

\* The promise of StreamSession: a session is an attached connection.
Session == INSTANCE StreamSession WITH
  session <- conn # Nil,
  answers <- [x \in Calls |-> {chunk[1] : chunk \in reply[x]}]

\* One Exec at a time, whatever the daemon refuses, whenever the container
\* exits and whenever the owner closes, the driver keeps the promise of a
\* stream session.
KeepsPromise == Session!Spec

\* Every Exec returns, whatever fails, as long as the owner does not close the
\* driver under it: a nil d.conn panics.
CallReturns == ~config.overlap => Session!Returns

==============================================================================
