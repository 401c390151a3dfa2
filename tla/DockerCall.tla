------------------------------ MODULE DockerCall ------------------------------
(***************************************************************************)
(* The docker driver in call mode (driver/docker/call.go, container.go,    *)
(* utils.go).  A "global" command is the main process of a container made  *)
(* for the call; otherwise the command is run by docker exec in a sidecar  *)
(* container, which may be retained for the next calls.                    *)
(*                                                                         *)
(* A container is named by the call that created it, and so is the         *)
(* containerConnect of that call.  The driver has no mutex: d.conn and     *)
(* d.containerID are shared by every call in progress.                     *)
(***************************************************************************)
EXTENDS Naturals

CONSTANTS
  Callers,     \* the goroutines that call Exec
  MaxCalls,    \* bound: calls made by each of them
  MaxCloses,   \* bound: calls of Close by the owner
  Configs,     \* the configurations and circumstances, see Config
  Other,       \* a running container of the name, made by someone else
  Nil          \* the nil pointer and the empty container id

Calls      == Callers \X (1..MaxCalls)
Containers == Calls \cup {Other}

(* What the options say (isGlobalCommand, retainContainer, removeAfterDone,  *)
(* pullImage, the name, whether the container opens its stdin), what the     *)
(* procedure is given (a parameter with stdin: true), and what may happen:   *)
(* Execs overlap, which nothing in the driver prevents; Other exists; the    *)
(* daemon fails to remove a container it has; a connection reports an error  *)
(* when it is closed; the context of a call ends while its container starts. *)
Config ==
  [global : BOOLEAN, retain : BOOLEAN, remove : BOOLEAN, pull : BOOLEAN,
   name : {"", "name", "/name"}, openStdin : BOOLEAN, input : BOOLEAN,
   overlap : BOOLEAN, existing : BOOLEAN, removeFails : BOOLEAN, closeFails : BOOLEAN,
   cancels : BOOLEAN]

Fates == {"none", "open", "late", "lost"}

ASSUME CallAssumption ==
  /\ MaxCalls \in Nat /\ MaxCloses \in Nat
  /\ Configs \subseteq Config
  /\ \A k \in Configs : k.global => ~k.retain
  /\ Other \notin Calls /\ Nil \notin Containers

VARIABLES
  config,       \* the configuration; it never changes
  pullImage,    \* d.pullImage
  containerID,  \* d.containerID
  conn,         \* d.conn
  connID,       \* containerConnect.containerID
  general,      \* containerConnect.generalExec and .output: what it is attached to
  pc,           \* where each caller is
  n,            \* calls begun so far, per caller
  mine,         \* the containerConnect establish returned to the caller
  command,      \* the call whose command it reads the output of
  stdin,        \* what became of the stdin of each call, see Fate
  result,       \* "none" until the call returns "ok" or "err"
  answer,       \* the call whose command produced what it returned
  closes,       \* calls of Close by the owner so far
  exists,       \* the containers the daemon has
  running       \* those that run

driver   == <<config, pullImage, containerID, conn>>
connects == <<connID, general>>
history  == <<n, stdin, answer, closes>>
actor    == <<pc, mine, command, result, history>>
daemon   == <<exists, running>>
vars     == <<driver, connects, actor, daemon>>

Current(c) == <<c, n[c]>>
Quiet      == \A c \in Callers : pc[c] = "idle"
Taken      == config.name # "" /\ exists # {}

Init ==
  /\ config \in Configs
  /\ pullImage = config.pull /\ containerID = Nil /\ conn = Nil
  /\ connID    = [x \in Calls |-> Nil]
  /\ general   = [x \in Calls |-> Nil]
  /\ pc        = [c \in Callers |-> "idle"]
  /\ n         = [c \in Callers |-> 0]
  /\ mine      = [c \in Callers |-> Nil]
  /\ command   = [c \in Callers |-> Nil]
  /\ stdin     = [x \in Calls |-> "none"]
  /\ result    = [x \in Calls |-> "none"]
  /\ answer    = [x \in Calls |-> Nil]
  /\ closes = 0
  /\ exists  = IF config.existing THEN {Other} ELSE {}
  /\ running = exists

Goto(c, from, to) ==
  /\ pc[c] = from
  /\ pc' = [pc EXCEPT ![c] = to]

Return(c, outcome) ==
  /\ pc'      = [pc EXCEPT ![c] = "idle"]
  /\ result'  = [result EXCEPT ![Current(c)] = outcome]
  /\ mine'    = [mine EXCEPT ![c] = Nil]
  /\ command' = [command EXCEPT ![c] = Nil]

\* Mutant of Remove: the container is removed without Force, and runs on.
RemoveUnforced(x) ==
  /\ IF config.remove
     THEN connID' = [connID EXCEPT ![x] = Nil] /\ exists' = exists \ {connID[x]}
     ELSE UNCHANGED <<connID, exists>>
  /\ UNCHANGED running

\* The removal of the container of a connect, whose id is forgotten whether or
\* not the daemon does what it is asked to.
Remove(x) ==
  IF config.remove /\ connID[x] # Nil
  THEN /\ connID' = [connID EXCEPT ![x] = Nil]
       /\ \/ /\ exists'  = exists \ {connID[x]}
             /\ running' = running \ {connID[x]}
          \/ config.removeFails /\ UNCHANGED daemon
  ELSE UNCHANGED <<connID, daemon>>

\* Mutant of Release: the container is removed first, and an error of that
\* returns before the connection is closed.
ReleaseRemovesFirst(x) ==
  /\ Remove(x)
  /\ general' = IF connID[x] \in exists' THEN general ELSE [general EXCEPT ![x] = Nil]

\* containerConnect.Release: the attached connection is closed, and with
\* removeAfterDone the container is removed.  An error of the former returns
\* before the latter, and nothing is forgotten.
Release(x) ==
  \/ config.closeFails /\ general[x] # Nil /\ UNCHANGED <<connects, daemon>>
  \/ general' = [general EXCEPT ![x] = Nil] /\ Remove(x)

\* Mutant of CloseDriver: the id is cleared and nothing is released.
CloseForgets == containerID' = Nil /\ UNCHANGED <<connects, daemon>>

\* The body of Close.
CloseDriver ==
  IF containerID = Nil
  THEN UNCHANGED <<containerID, connects, daemon>>
  ELSE Release(conn) /\ containerID' = Nil

\* Mutant of Established: an id the driver has is kept.
EstablishedOnce(id) ==
  /\ containerID' = IF containerID = Nil THEN id ELSE containerID
  /\ connID' = [connID EXCEPT ![conn] = id]

\* The container id is in both places from here on.
Established(id) ==
  /\ containerID' = id
  /\ connID' = [connID EXCEPT ![conn] = id]

------------------------------------------------------------------------------
(* Exec and establish *)
Begin(c) ==
  /\ config.overlap \/ Quiet
  /\ n[c] < MaxCalls
  /\ Goto(c, "idle", "check")
  /\ n' = [n EXCEPT ![c] = @ + 1]
  /\ UNCHANGED <<driver, connects, mine, command, stdin, result, answer, closes, daemon>>

\* Mutant of Reusable: a retained container that has stopped is replaced.
ReusableRunning == config.retain /\ containerID \in running

\* A retained container is used again, whether it still runs or not.
Reusable == config.retain /\ containerID # Nil

Reuse(c) ==
  /\ Reusable
  /\ Goto(c, "check", "exec")
  /\ mine' = [mine EXCEPT ![c] = conn]
  /\ UNCHANGED <<driver, connects, command, result, history, daemon>>

PullImage(c) ==
  /\ pc[c] = "check" /\ ~Reusable /\ pullImage
  /\ pullImage' = FALSE
  /\ \/ UNCHANGED <<pc, mine, command, result>>
     \/ Return(c, "err")
  /\ UNCHANGED <<config, containerID, conn, connects, history, daemon>>

Connect(c) ==
  /\ ~Reusable /\ ~pullImage
  /\ Goto(c, "check", IF config.global THEN "create"
                     ELSE IF config.name # "" THEN "find" ELSE "run")
  /\ conn' = Current(c)
  /\ UNCHANGED <<config, pullImage, containerID, connects, mine, command, result, history, daemon>>

\* createContainer, for a global command
Create(c) ==
  /\ ~Taken
  /\ Goto(c, "create", "attach")
  /\ Established(Current(c))
  /\ exists' = exists \cup {Current(c)}
  /\ UNCHANGED <<config, pullImage, conn, general, mine, command, result, history, running>>

\* A macro has no value, the name is taken, or the daemon refuses.
CreateFails(c) ==
  /\ pc[c] \in {"create", "find", "run"}
  /\ Return(c, "err")
  /\ containerID' = Nil
  /\ UNCHANGED <<config, pullImage, conn, connects, history, daemon>>

\* The connection is made to d.containerID and kept in d.conn.
Attach(c) ==
  /\ containerID \in exists
  /\ Goto(c, "attach", "start")
  /\ general' = [general EXCEPT ![conn] = containerID]
  /\ UNCHANGED <<driver, connID, mine, command, result, history, daemon>>

Start(c) ==
  /\ containerID \in exists
  /\ Goto(c, "start", "exec")
  /\ running' = running \cup {containerID}
  /\ mine' = [mine EXCEPT ![c] = conn]
  /\ UNCHANGED <<driver, connects, command, result, history, exists>>

\* Mutant of AttachOrStartFails: the driver is not closed.
AttachOrStartFailsKeeps(c) ==
  /\ pc[c] \in {"attach", "start"}
  /\ Return(c, "err")
  /\ UNCHANGED <<driver, connects, history, daemon>>

\* The driver closes itself.
AttachOrStartFails(c) ==
  /\ pc[c] \in {"attach", "start"}
  /\ CloseDriver
  /\ Return(c, "err")
  /\ UNCHANGED <<config, pullImage, conn, history>>

\* getContainerByName, for a sidecar: the daemon lists running containers, and
\* gives their names with a leading "/".
Matches == config.name = "/name" /\ running # {}

Find(c) ==
  /\ Matches
  /\ Goto(c, "find", "exec")
  /\ \E id \in running : Established(id)
  /\ mine' = [mine EXCEPT ![c] = conn]
  /\ UNCHANGED <<config, pullImage, conn, general, command, result, history, daemon>>

FindNone(c) ==
  /\ ~Matches
  /\ Goto(c, "find", "run")
  /\ UNCHANGED <<driver, connects, mine, command, result, history, daemon>>

RunContainer(c) ==
  /\ ~Taken
  /\ Goto(c, "run", "exec")
  /\ Established(Current(c))
  /\ exists'  = exists \cup {Current(c)}
  /\ running' = running \cup {Current(c)}
  /\ mine' = [mine EXCEPT ![c] = conn]
  /\ UNCHANGED <<config, pullImage, conn, general, command, result, history>>

\* Created but not started.  The container is removed under the context of the
\* call, which may be why the start failed; the error of that is ignored.
RunContainerFails(c) ==
  /\ pc[c] = "run" /\ ~Taken
  /\ Return(c, "err")
  /\ containerID' = Nil
  /\ \/ UNCHANGED exists
     \/ (config.removeFails \/ config.cancels) /\ exists' = exists \cup {Current(c)}
  /\ UNCHANGED <<config, pullImage, conn, connects, history, running>>

------------------------------------------------------------------------------
(* containerConnect.exec *)

\* The attached connection, whose command was made from the parameters of the
\* call that created the container, or a docker exec of our own command.
ExecGlobal(c) ==
  /\ Goto(c, "exec", "send")
  /\ general[mine[c]] # Nil
  /\ command' = [command EXCEPT ![c] = general[mine[c]]]
  /\ UNCHANGED <<driver, connects, n, mine, stdin, result, answer, closes, daemon>>

ExecSidecar(c) ==
  /\ Goto(c, "exec", "send")
  /\ general[mine[c]] = Nil
  /\ connID[mine[c]] \in running
  /\ command' = [command EXCEPT ![c] = Current(c)]
  /\ UNCHANGED <<driver, connects, n, mine, stdin, result, answer, closes, daemon>>

ExecFails(c) ==
  /\ Goto(c, "exec", "failed")
  /\ general[mine[c]] = Nil
  /\ UNCHANGED <<driver, connects, mine, command, result, history, daemon>>

\* SendParams: docker exec attaches stdin; a container has one only if its
\* configuration opens it, and what is written to one that has none is "lost".
\* The command may have ended before it is written to ("late").
Fate(c) ==
  CASE ~config.input -> {"none"}
    [] config.input /\ ~config.global -> {"open", "late"}
    [] config.input /\ config.global /\ command[c] \notin running -> {"late"}
    [] config.input /\ config.global /\ command[c] \in running ->
         IF config.openStdin /\ command[c] = Current(c) THEN {"open"} ELSE {"lost"}

Send(c) ==
  /\ Goto(c, "send", "read")
  /\ \E fate \in Fate(c) : stdin' = [stdin EXCEPT ![Current(c)] = fate]
  /\ UNCHANGED <<driver, connects, n, mine, command, result, answer, closes, daemon>>

\* ReadOutput reads until the command ends.
Read(c) ==
  /\ config.global => command[c] \notin running
  /\ Goto(c, "read", "done")
  /\ answer' = [answer EXCEPT ![Current(c)] = command[c]]
  /\ UNCHANGED <<driver, connects, n, mine, command, stdin, result, closes, daemon>>

\* The connection breaks, or the command wrote to its stderr.
SendOrReadFails(c) ==
  /\ pc[c] \in {"send", "read"}
  /\ Goto(c, pc[c], "failed")
  /\ UNCHANGED <<driver, connects, mine, command, result, history, daemon>>

\* The deferred releases, of the connection and, unless it is retained, of the
\* container.
Finish(c) ==
  LET x == mine[c] IN
  /\ pc[c] \in {"done", "failed"}
  /\ IF config.retain
     THEN general' = [general EXCEPT ![x] = Nil] /\ UNCHANGED <<connID, daemon>>
     ELSE Release(x)
  /\ Return(c, IF pc[c] = "done" THEN "ok" ELSE "err")
  /\ UNCHANGED <<driver, history>>

Exec(c) ==
  \/ Reuse(c) \/ PullImage(c) \/ Connect(c)
  \/ Create(c) \/ CreateFails(c) \/ Attach(c) \/ Start(c) \/ AttachOrStartFails(c)
  \/ Find(c) \/ FindNone(c) \/ RunContainer(c) \/ RunContainerFails(c)
  \/ ExecGlobal(c) \/ ExecSidecar(c) \/ ExecFails(c)
  \/ Send(c) \/ Read(c) \/ SendOrReadFails(c) \/ Finish(c)

Close ==
  /\ closes < MaxCloses
  /\ config.overlap \/ Quiet
  /\ CloseDriver
  /\ closes' = closes + 1
  /\ UNCHANGED <<config, pullImage, conn, pc, n, mine, command, stdin, result, answer>>

\* The command of a container ends, or the container is stopped.
Exit(id) ==
  /\ id \in running
  /\ running' = running \ {id}
  /\ UNCHANGED <<driver, connects, actor, exists>>

Next ==
  \/ \E c \in Callers : Begin(c) \/ Exec(c)
  \/ Close
  \/ \E id \in Containers : Exit(id)

Spec == Init /\ [][Next]_vars

------------------------------------------------------------------------------
(* Properties *)

\* The shape of the state.
TypeOK ==
  /\ config \in Configs /\ pullImage \in BOOLEAN
  /\ containerID \in Containers \cup {Nil}
  /\ conn \in Calls \cup {Nil}
  /\ {connID, general} \subseteq [Calls -> Containers \cup {Nil}]
  /\ n \in [Callers -> 0..MaxCalls]
  /\ {mine, command} \subseteq [Callers -> Containers \cup {Nil}]
  /\ stdin \in [Calls -> Fates]
  /\ result \in [Calls -> {"none", "ok", "err"}]
  /\ answer \in [Calls -> Containers \cup {Nil}]
  /\ closes \in 0..MaxCloses
  /\ exists \subseteq Containers /\ running \subseteq exists

\* A call that succeeds returns the output of its own command: a new process
\* or container is started for every Exec.
OwnAnswer == \A x \in Calls : result[x] = "ok" => answer[x] = x

\* The stdin of a call that succeeds is not lost in a container that has none.
InputDelivered == \A x \in Calls : result[x] = "ok" => stdin[x] # "lost"

\* With removeAfterDone and without retainContainer no container is left once
\* a call has returned, whatever failed in it.  It takes a daemon that removes
\* what it is asked to, connections that can be closed, a context that outlives
\* the start, and calls in turn.
NothingLeft ==
  /\ config.remove /\ Quiet /\ ~config.retain
  /\ ~config.removeFails /\ ~config.closeFails /\ ~config.cancels /\ ~config.overlap
  => exists \subseteq {Other}

\* No connection outlives the call it was attached for, whatever failed in the
\* call and in the removals: calls in turn, and connections that can be closed.
NoConnectionLeft ==
  Quiet /\ ~config.closeFails /\ ~config.overlap => \A x \in Calls : general[x] = Nil

\* A retained container is the only one, however often a call fails, the
\* container exits or the driver is closed.
OneRetained == config.retain => \A x, y \in exists \ {Other} : x = y

\* The cleanup of a retained container happens in Close.
CleanedByClose ==
  [][config.retain /\ closes' > closes => exists' \subseteq {Other}]_vars

==============================================================================
