--------------------------- MODULE DockerCallProofs ---------------------------
(***************************************************************************)
(* Proofs about DockerCall, for any callers and any number of calls and of *)
(* closes.  A theorem that needs a circumstance says so of the Configs.    *)
(***************************************************************************)
EXTENDS DockerCall, TLAPS

PCs == {"idle", "check", "create", "attach", "start", "find", "run", "exec", "send", "read",
        "done", "failed"}

Making == {"create", "attach", "start", "find", "run"}
Using  == {"exec", "send", "read", "done", "failed"}

------------------------------------------------------------------------------
(* The invariants                                                          *)

\* A caller past "check" has a connect, that of the driver while it makes one
\* and its own to use it.
ShapeInv ==
  /\ pc \in [Callers -> PCs]
  /\ containerID # Nil => conn # Nil
  /\ \A c \in Callers :
       /\ pc[c] # "idle" => n[c] # 0
       /\ pc[c] \in Making => conn # Nil
       /\ pc[c] \in Using => mine[c] \in Calls

\* Only a global command has an attached connection, and a sidecar is looked
\* up only by a name.
Fits(c) ==
  /\ pc[c] \in {"create", "attach", "start"} => config.global
  /\ pc[c] \in {"find", "run"} => ~config.global
  /\ pc[c] = "find" => config.name # ""

SidecarInv ==
  /\ ~config.global => \A x \in Calls : general[x] = Nil
  /\ \A c \in Callers : Fits(c)

\* Calls in turn: the caller in Exec is alone with the driver, which refers to
\* the container it is making.
Alone == \A c, d \in Callers : pc[c] # "idle" /\ pc[d] # "idle" => c = d

Makes(c) ==
  /\ pc[c] \in Making => conn = Current(c)
  /\ pc[c] \in {"attach", "start"} => containerID = Current(c) /\ connID[conn] = Current(c)
  /\ pc[c] = "start" => general[conn] = Current(c)

TurnInv == ~config.overlap => Alone /\ \A c \in Callers : Makes(c)

\* The command a call talks to, and the answer it got, are its own.
Separate == config.overlap => ~config.global

Answers(c) ==
  /\ pc[c] = "exec" => general[mine[c]] \in {Nil, Current(c)}
  /\ pc[c] \in {"send", "read"} => command[c] = Current(c)
  /\ pc[c] = "done" => answer[Current(c)] = Current(c)

AnswerInv == Separate => OwnAnswer /\ \A c \in Callers : Answers(c)

\* A container that is to be removed is known to the call that made it, from
\* its creation to its removal.
Tidy == config.remove /\ ~config.removeFails /\ ~config.cancels /\ ~config.overlap

Owns(c, x) == \/ pc[c] \in {"attach", "start"} /\ x = connID[conn]
              \/ pc[c] \in Using /\ x = connID[mine[c]]

OwnedInv ==
  Tidy /\ ~config.closeFails /\ ~config.retain =>
    \A x \in exists \ {Other} : \E c \in Callers : Owns(c, x)

\* A container that is retained is known to the driver, and one is made only
\* when there is none.
RetainedInv ==
  Tidy /\ config.retain =>
    /\ \A x \in exists \ {Other} : x = containerID
    /\ containerID # Nil => connID[conn] = containerID
    /\ \A c \in Callers : pc[c] \in Making => containerID = Nil

\* An attached connection is that of a call in progress.
Orderly == ~config.closeFails /\ ~config.overlap

Holds(c, x) == \/ pc[c] = "start" /\ x = conn
               \/ pc[c] \in Using /\ x = mine[c]

ConnectedInv ==
  Orderly => \A x \in Calls : general[x] # Nil => \E c \in Callers : Holds(c, x)

CallInv ==
  ShapeInv /\ SidecarInv /\ TurnInv /\ AnswerInv /\ OwnedInv /\ RetainedInv /\ ConnectedInv

------------------------------------------------------------------------------
(* The shape of the state                                                  *)

USE DEF Calls, Containers

LEMMA Nils == Nil \notin Calls /\ Nil # Other /\ Other \notin Calls
  BY CallAssumption

LEMMA Unpacked ==
  ASSUME TypeOK
  PROVE  /\ connID \in [Calls -> Containers \cup {Nil}]
         /\ general \in [Calls -> Containers \cup {Nil}]
         /\ mine \in [Callers -> Containers \cup {Nil}]
         /\ command \in [Callers -> Containers \cup {Nil}]
  BY DEF TypeOK

LEMMA Packed ==
  ASSUME config \in Configs, pullImage \in BOOLEAN,
         containerID \in Containers \cup {Nil}, conn \in Calls \cup {Nil},
         connID \in [Calls -> Containers \cup {Nil}],
         general \in [Calls -> Containers \cup {Nil}],
         n \in [Callers -> 0..MaxCalls],
         mine \in [Callers -> Containers \cup {Nil}],
         command \in [Callers -> Containers \cup {Nil}],
         stdin \in [Calls -> Fates],
         result \in [Calls -> {"none", "ok", "err"}],
         answer \in [Calls -> Containers \cup {Nil}],
         closes \in 0..MaxCloses, exists \subseteq Containers, running \subseteq exists
  PROVE  TypeOK
  BY DEF TypeOK

\* A caller past "idle" is in a call of its own.
LEMMA InCall ==
  ASSUME TypeOK, ShapeInv, NEW c \in Callers, pc[c] # "idle"
  PROVE  Current(c) \in Calls
<1>1. n[c] \in 0..MaxCalls /\ n[c] # 0
  BY DEF TypeOK, ShapeInv
<1>2. n[c] \in 1..MaxCalls
  BY <1>1, CallAssumption
<1>. QED
  BY <1>2 DEF Current

LEMMA Apart ==
  ASSUME NEW c \in Callers, NEW d \in Callers, Current(c) = Current(d)
  PROVE  c = d
  BY DEF Current

\* Nothing changes the configuration.
LEMMA ConfigFixed == [Next]_vars => config' = config
<1>. SUFFICES ASSUME [Next]_vars PROVE config' = config
  OBVIOUS
<1>1. CASE UNCHANGED vars
  BY <1>1 DEF vars, driver
<1>2. ASSUME NEW c \in Callers, Begin(c) \/ Exec(c) PROVE config' = config
  BY <1>2 DEF Begin, Exec, Reuse, PullImage, Connect, Create, CreateFails, Attach, Start,
     AttachOrStartFails, Find, FindNone, RunContainer, RunContainerFails, ExecGlobal,
     ExecSidecar, ExecFails, Send, Read, SendOrReadFails, Finish, driver
<1>3. CASE Close
  BY <1>3 DEF Close
<1>4. ASSUME NEW id \in Containers, Exit(id) PROVE config' = config
  BY <1>4 DEF Exit, driver
<1>. QED
  BY <1>1, <1>2, <1>3, <1>4 DEF Next

\* A release keeps the types, and closes a connection at most.
LEMMA ReleaseType ==
  ASSUME TypeOK, NEW x, Release(x)
  PROVE  /\ connID' \in [Calls -> Containers \cup {Nil}]
         /\ general' \in [Calls -> Containers \cup {Nil}]
         /\ \A y \in Calls : general'[y] \in {general[y], Nil}
         /\ exists' \subseteq exists /\ running' \subseteq exists' /\ running' \subseteq running
<1>. USE Unpacked
<1>1. exists \subseteq Containers /\ running \subseteq exists
  BY DEF TypeOK
<1>2. general' \in {general, [general EXCEPT ![x] = Nil]}
  BY DEF Release, connects
<1>3. connID' \in {connID, [connID EXCEPT ![x] = Nil]}
  BY DEF Release, Remove, connects
<1>4. \/ exists' = exists /\ running' = running
      \/ exists' = exists \ {connID[x]} /\ running' = running \ {connID[x]}
  BY DEF Release, Remove, daemon
<1>. QED
  BY <1>1, <1>2, <1>3, <1>4

LEMMA CloseDriverType ==
  ASSUME TypeOK, CloseDriver
  PROVE  /\ containerID' = Nil
         /\ connID' \in [Calls -> Containers \cup {Nil}]
         /\ general' \in [Calls -> Containers \cup {Nil}]
         /\ \A y \in Calls : general'[y] \in {general[y], Nil}
         /\ exists' \subseteq exists /\ running' \subseteq exists' /\ running' \subseteq running
<1>1. CASE containerID = Nil
  BY <1>1, Unpacked DEF CloseDriver, connects, daemon, TypeOK
<1>2. CASE containerID # Nil
  BY <1>2, ReleaseType DEF CloseDriver
<1>. QED
  BY <1>1, <1>2

LEMMA ReturnType ==
  ASSUME TypeOK, ShapeInv, NEW c \in Callers, NEW o \in {"ok", "err"}, Return(c, o)
  PROVE  /\ pc' = [pc EXCEPT ![c] = "idle"]
         /\ mine' = [mine EXCEPT ![c] = Nil]
         /\ mine' \in [Callers -> Containers \cup {Nil}]
         /\ command' \in [Callers -> Containers \cup {Nil}]
         /\ result' \in [Calls -> {"none", "ok", "err"}]
  BY Unpacked DEF Return, TypeOK

LEMMA EstablishedType ==
  ASSUME TypeOK, NEW id \in Containers, Established(id)
  PROVE  /\ containerID' \in Containers \cup {Nil}
         /\ connID' \in [Calls -> Containers \cup {Nil}]
  BY Unpacked DEF Established

LEMMA InitType == Init => TypeOK /\ ShapeInv
<1>. SUFFICES ASSUME Init PROVE TypeOK /\ ShapeInv
  OBVIOUS
<1>1. config \in Config
  BY CallAssumption DEF Init
<1>2. TypeOK
  <2>1. pullImage \in BOOLEAN
    BY <1>1 DEF Init, Config
  <2>2. exists \subseteq Containers /\ running \subseteq exists
    BY DEF Init
  <2>3. /\ n \in [Callers -> 0..MaxCalls] /\ closes \in 0..MaxCloses
    BY CallAssumption DEF Init
  <2>4. stdin \in [Calls -> Fates]
    BY DEF Init, Fates
  <2>. QED
    BY <2>1, <2>2, <2>3, <2>4, Packed DEF Init
<1>3. ShapeInv
  BY DEF Init, ShapeInv, PCs, Making, Using
<1>. QED
  BY <1>2, <1>3

LEMMA StepType == TypeOK /\ ShapeInv /\ [Next]_vars => TypeOK' /\ ShapeInv'
<1>. SUFFICES ASSUME TypeOK, ShapeInv, [Next]_vars PROVE TypeOK' /\ ShapeInv'
  OBVIOUS
<1>. USE Unpacked, Nils
<1>1. CASE UNCHANGED vars
  BY <1>1 DEF vars, driver, connects, actor, history, daemon, TypeOK, ShapeInv
<1>2. ASSUME NEW c \in Callers, Begin(c) PROVE TypeOK' /\ ShapeInv'
  <2>1. TypeOK'
    BY <1>2, CallAssumption DEF Begin, driver, connects, daemon, TypeOK
  <2>2. ShapeInv'
    BY <1>2, CallAssumption DEF Begin, Goto, driver, TypeOK, ShapeInv, PCs, Making, Using
  <2>. QED
    BY <2>1, <2>2
<1>3. ASSUME NEW c \in Callers, Exec(c) PROVE TypeOK' /\ ShapeInv'
  <2>. USE InCall
  <2>. USE DEF Goto, driver, connects, history, daemon, Established
  <2>1. CASE Reuse(c)
    <3>1. TypeOK'
      BY <2>1 DEF Reuse, TypeOK
    <3>2. ShapeInv'
      BY <2>1 DEF Reuse, Reusable, TypeOK, ShapeInv, PCs, Making, Using
    <3>. QED
      BY <3>1, <3>2
  <2>2. CASE PullImage(c)
    <3>1. TypeOK'
      BY <2>2, ReturnType, Packed, ZenonT(60) DEF PullImage, TypeOK
    <3>2. ShapeInv'
      <4>1. CASE UNCHANGED <<pc, mine, command, result>>
        BY <2>2, <4>1 DEF PullImage, ShapeInv
      <4>2. CASE Return(c, "err")
        BY <2>2, <4>2, ReturnType DEF PullImage, ShapeInv, PCs, Making, Using
      <4>. QED
        BY <2>2, <4>1, <4>2 DEF PullImage
    <3>. QED
      BY <3>1, <3>2
  <2>3. CASE Connect(c)
    <3>1. TypeOK'
      BY <2>3 DEF Connect, TypeOK, ShapeInv
    <3>2. ShapeInv'
      <4>1. PICK l \in {"create", "find", "run"} : pc' = [pc EXCEPT ![c] = l]
        BY <2>3 DEF Connect
      <4>2. conn' = Current(c) /\ mine' = mine /\ n' = n /\ pc[c] = "check"
        BY <2>3 DEF Connect
      <4>3. conn' # Nil /\ n[c] # 0
        BY <4>2 DEF ShapeInv
      <4>. QED
        BY <4>1, <4>2, <4>3 DEF ShapeInv, PCs, Making, Using
    <3>. QED
      BY <3>1, <3>2
  <2>4. CASE Create(c)
    <3>1. TypeOK'
      <4>1. Current(c) \in Containers
        BY <2>4 DEF Create
      <4>2. exists' \subseteq Containers /\ running' \subseteq exists'
        BY <2>4, <4>1 DEF Create, TypeOK
      <4>. QED
        BY <2>4, <4>1, <4>2, EstablishedType, Packed DEF Create, TypeOK, ShapeInv
    <3>2. ShapeInv'
      BY <2>4 DEF Create, TypeOK, ShapeInv, PCs, Making, Using
    <3>. QED
      BY <3>1, <3>2
  <2>5. CASE CreateFails(c)
    <3>1. TypeOK'
      BY <2>5, ReturnType, Packed DEF CreateFails, TypeOK
    <3>2. ShapeInv'
      BY <2>5, ReturnType, SMTT(30) DEF CreateFails, TypeOK, ShapeInv, PCs, Making, Using
    <3>. QED
      BY <3>1, <3>2
  <2>6. CASE Attach(c)
    <3>1. TypeOK'
      BY <2>6 DEF Attach, TypeOK, ShapeInv
    <3>2. ShapeInv'
      BY <2>6 DEF Attach, TypeOK, ShapeInv, PCs, Making, Using
    <3>. QED
      BY <3>1, <3>2
  <2>7. CASE Start(c)
    <3>1. TypeOK'
      BY <2>7 DEF Start, TypeOK, ShapeInv
    <3>2. ShapeInv'
      BY <2>7 DEF Start, TypeOK, ShapeInv, PCs, Making, Using
    <3>. QED
      BY <3>1, <3>2
  <2>8. CASE AttachOrStartFails(c)
    <3>1. TypeOK'
      BY <2>8, ReturnType, CloseDriverType, Packed, ZenonT(60) DEF AttachOrStartFails, TypeOK
    <3>2. ShapeInv'
      <4>1. /\ pc' = [pc EXCEPT ![c] = "idle"] /\ mine' = [mine EXCEPT ![c] = Nil]
            /\ containerID' = Nil /\ conn' = conn /\ n' = n
        BY <2>8, ReturnType, CloseDriverType DEF AttachOrStartFails
      <4>. QED
        BY <4>1 DEF ShapeInv, PCs, Making, Using
    <3>. QED
      BY <3>1, <3>2
  <2>9. CASE Find(c)
    <3>1. TypeOK'
      <4>1. PICK id \in Containers : Established(id)
        BY <2>9 DEF Find, TypeOK
      <4>2. mine' \in [Callers -> Containers \cup {Nil}]
        BY <2>9 DEF Find, TypeOK
      <4>3. containerID' \in Containers \cup {Nil} /\ connID' \in [Calls -> Containers \cup {Nil}]
        BY <4>1, EstablishedType
      <4>. QED
        BY <2>9, <4>2, <4>3, Packed DEF Find, TypeOK
    <3>2. ShapeInv'
      BY <2>9 DEF Find, TypeOK, ShapeInv, PCs, Making, Using
    <3>. QED
      BY <3>1, <3>2
  <2>10. CASE FindNone(c)
    <3>1. TypeOK'
      BY <2>10 DEF FindNone, TypeOK, ShapeInv
    <3>2. ShapeInv'
      BY <2>10 DEF FindNone, TypeOK, ShapeInv, PCs, Making, Using
    <3>. QED
      BY <3>1, <3>2
  <2>11. CASE RunContainer(c)
    <3>1. TypeOK'
      <4>1. Current(c) \in Containers
        BY <2>11 DEF RunContainer
      <4>2. exists' \subseteq Containers /\ running' \subseteq exists'
        BY <2>11, <4>1 DEF RunContainer, TypeOK
      <4>3. mine' \in [Callers -> Containers \cup {Nil}]
        BY <2>11 DEF RunContainer, TypeOK
      <4>4. containerID' \in Containers \cup {Nil} /\ connID' \in [Calls -> Containers \cup {Nil}]
        BY <2>11, <4>1, EstablishedType DEF RunContainer
      <4>. QED
        BY <2>11, <4>2, <4>3, <4>4, Packed DEF RunContainer, TypeOK
    <3>2. ShapeInv'
      BY <2>11 DEF RunContainer, TypeOK, ShapeInv, PCs, Making, Using
    <3>. QED
      BY <3>1, <3>2
  <2>12. CASE RunContainerFails(c)
    <3>1. TypeOK'
      BY <2>12, ReturnType, Packed, ZenonT(60) DEF RunContainerFails, TypeOK
    <3>2. ShapeInv'
      <4>1. /\ pc' = [pc EXCEPT ![c] = "idle"] /\ mine' = [mine EXCEPT ![c] = Nil]
            /\ containerID' = Nil /\ conn' = conn /\ n' = n
        BY <2>12, ReturnType DEF RunContainerFails
      <4>. QED
        BY <4>1 DEF ShapeInv, PCs, Making, Using
    <3>. QED
      BY <3>1, <3>2
  <2>13. CASE ExecGlobal(c)
    <3>1. TypeOK'
      BY <2>13 DEF ExecGlobal, TypeOK, ShapeInv, Using
    <3>2. ShapeInv'
      BY <2>13 DEF ExecGlobal, TypeOK, ShapeInv, PCs, Making, Using
    <3>. QED
      BY <3>1, <3>2
  <2>14. CASE ExecSidecar(c)
    <3>1. TypeOK'
      BY <2>14 DEF ExecSidecar, TypeOK, ShapeInv, Using
    <3>2. ShapeInv'
      BY <2>14 DEF ExecSidecar, TypeOK, ShapeInv, PCs, Making, Using
    <3>. QED
      BY <3>1, <3>2
  <2>15. CASE ExecFails(c)
    <3>1. TypeOK'
      BY <2>15 DEF ExecFails, TypeOK, ShapeInv, Using
    <3>2. ShapeInv'
      BY <2>15 DEF ExecFails, TypeOK, ShapeInv, PCs, Making, Using
    <3>. QED
      BY <3>1, <3>2
  <2>16. CASE Send(c)
    <3>1. TypeOK'
      <4>1. PICK fate \in Fate(c) : stdin' = [stdin EXCEPT ![Current(c)] = fate]
        BY <2>16 DEF Send
      <4>2. fate \in Fates
        BY <4>1 DEF Fate, Fates
      <4>. QED
        BY <2>16, <4>1, <4>2 DEF Send, TypeOK, ShapeInv, Using
    <3>2. ShapeInv'
      BY <2>16 DEF Send, TypeOK, ShapeInv, PCs, Making, Using
    <3>. QED
      BY <3>1, <3>2
  <2>17. CASE Read(c)
    <3>1. TypeOK'
      BY <2>17, Packed DEF Read, TypeOK, ShapeInv, Using
    <3>2. ShapeInv'
      BY <2>17 DEF Read, TypeOK, ShapeInv, PCs, Making, Using
    <3>. QED
      BY <3>1, <3>2
  <2>18. CASE SendOrReadFails(c)
    <3>1. TypeOK'
      BY <2>18 DEF SendOrReadFails, TypeOK, ShapeInv, Using
    <3>2. ShapeInv'
      BY <2>18 DEF SendOrReadFails, TypeOK, ShapeInv, PCs, Making, Using
    <3>. QED
      BY <3>1, <3>2
  <2>19. CASE Finish(c)
    <3>1. PICK o \in {"ok", "err"} : Return(c, o)
      BY <2>19 DEF Finish
    <3>2. /\ connID' \in [Calls -> Containers \cup {Nil}]
          /\ general' \in [Calls -> Containers \cup {Nil}]
          /\ exists' \subseteq exists /\ running' \subseteq exists'
      <4>1. CASE config.retain
        BY <2>19, <4>1 DEF Finish, TypeOK
      <4>2. CASE ~config.retain
        BY <2>19, <4>2, ReleaseType DEF Finish
      <4>. QED
        BY <4>1, <4>2
    <3>3. TypeOK'
      BY <2>19, <3>1, <3>2, ReturnType, Packed DEF Finish, TypeOK
    <3>4. ShapeInv'
      BY <2>19, <3>1, ReturnType DEF Finish, ShapeInv, PCs, Making, Using
    <3>. QED
      BY <3>3, <3>4
  <2>. QED
    BY <1>3, <2>1, <2>2, <2>3, <2>4, <2>5, <2>6, <2>7, <2>8, <2>9, <2>10, <2>11, <2>12, <2>13,
       <2>14, <2>15, <2>16, <2>17, <2>18, <2>19 DEF Exec
<1>4. CASE Close
  <2>1. TypeOK'
    BY <1>4, CloseDriverType, Packed, CallAssumption DEF Close, TypeOK
  <2>2. ShapeInv'
    BY <1>4, CloseDriverType DEF Close, ShapeInv
  <2>. QED
    BY <2>1, <2>2
<1>5. ASSUME NEW id \in Containers, Exit(id) PROVE TypeOK' /\ ShapeInv'
  BY <1>5 DEF Exit, driver, connects, actor, history, TypeOK, ShapeInv
<1>. QED
  BY <1>1, <1>2, <1>3, <1>4, <1>5 DEF Next

\* The variables keep their types: nothing runs that does not exist, and the
\* driver and the callers name connects and containers, whoever calls.
THEOREM TypeCorrect == Spec => []TypeOK
<1>1. Init => TypeOK /\ ShapeInv
  BY InitType
<1>2. TypeOK /\ ShapeInv /\ [Next]_vars => TypeOK' /\ ShapeInv'
  BY StepType
<1>. QED
  BY <1>1, <1>2, PTL DEF Spec

------------------------------------------------------------------------------
(* A step of one caller                                                    *)

\* A step of Exec is that of one caller, in its own call.
StepOf(c) ==
  /\ \A d \in Callers \ {c} : pc'[d] = pc[d] /\ mine'[d] = mine[d] /\ command'[d] = command[d]
  /\ n' = n
  /\ \A x \in Calls \ {Current(c)} : result'[x] = result[x] /\ answer'[x] = answer[x]

LEMMA Frame ==
  ASSUME TypeOK, ShapeInv, NEW c \in Callers, Exec(c)
  PROVE  StepOf(c)
<1>. USE Unpacked DEF StepOf, Goto, Return, Current, driver, connects, history, daemon, TypeOK
<1>1. CASE Reuse(c)
  BY <1>1 DEF Reuse
<1>2. CASE PullImage(c)
  <2>1. UNCHANGED history
    BY <1>2 DEF PullImage
  <2>2. CASE UNCHANGED <<pc, mine, command, result>>
    BY <2>1, <2>2
  <2>3. CASE Return(c, "err")
    BY <2>1, <2>3
  <2>. QED
    BY <1>2, <2>2, <2>3 DEF PullImage
<1>3. CASE Connect(c)
  <2>1. PICK l : pc' = [pc EXCEPT ![c] = l]
    BY <1>3 DEF Connect
  <2>2. UNCHANGED <<mine, command, result, history>>
    BY <1>3 DEF Connect
  <2>. QED
    BY <2>1, <2>2
<1>4. CASE Create(c)
  BY <1>4 DEF Create
<1>5. CASE CreateFails(c)
  BY <1>5 DEF CreateFails
<1>6. CASE Attach(c)
  BY <1>6 DEF Attach
<1>7. CASE Start(c)
  BY <1>7 DEF Start
<1>8. CASE AttachOrStartFails(c)
  BY <1>8 DEF AttachOrStartFails
<1>9. CASE Find(c)
  BY <1>9 DEF Find
<1>10. CASE FindNone(c)
  BY <1>10 DEF FindNone
<1>11. CASE RunContainer(c)
  BY <1>11 DEF RunContainer
<1>12. CASE RunContainerFails(c)
  BY <1>12 DEF RunContainerFails
<1>13. CASE ExecGlobal(c)
  BY <1>13 DEF ExecGlobal
<1>14. CASE ExecSidecar(c)
  BY <1>14 DEF ExecSidecar
<1>15. CASE ExecFails(c)
  BY <1>15 DEF ExecFails
<1>16. CASE Send(c)
  BY <1>16 DEF Send
<1>17. CASE Read(c)
  BY <1>17 DEF Read
<1>18. CASE SendOrReadFails(c)
  BY <1>18 DEF SendOrReadFails
<1>19. CASE Finish(c)
  BY <1>19 DEF Finish
<1>. QED
  BY <1>1, <1>2, <1>3, <1>4, <1>5, <1>6, <1>7, <1>8, <1>9, <1>10,
     <1>11, <1>12, <1>13, <1>14, <1>15, <1>16, <1>17, <1>18, <1>19 DEF Exec

LEMMA Within ==
  ASSUME NEW c \in Callers, Exec(c)
  PROVE  pc[c] # "idle"
BY DEF Exec, Goto, Reuse, PullImage, Connect, Create, CreateFails, Attach, Start,
   AttachOrStartFails, Find, FindNone, RunContainer, RunContainerFails, ExecGlobal,
   ExecSidecar, ExecFails, Send, Read, SendOrReadFails, Finish

\* Calls in turn stay so.
LEMMA StepAlone ==
  ASSUME TypeOK, ShapeInv, [Next]_vars, ~config.overlap, Alone
  PROVE  Alone'
<1>1. CASE UNCHANGED vars
  BY <1>1 DEF vars, actor, Alone
<1>2. ASSUME NEW c \in Callers, Begin(c) PROVE Alone'
  BY <1>2 DEF Begin, Goto, Quiet, Alone, ShapeInv
<1>3. ASSUME NEW c \in Callers, Exec(c) PROVE Alone'
  <2>1. pc[c] # "idle"
    BY <1>3, Within
  <2>. QED
    BY <1>3, <2>1, Frame DEF StepOf, Alone
<1>4. CASE Close
  BY <1>4 DEF Close, Alone
<1>5. ASSUME NEW id \in Containers, Exit(id) PROVE Alone'
  BY <1>5 DEF Exit, actor, Alone
<1>. QED
  BY <1>1, <1>2, <1>3, <1>4, <1>5 DEF Next

------------------------------------------------------------------------------
(* Connections and commands                                                *)

LEMMA ExecFits ==
  ASSUME TypeOK, ShapeInv, SidecarInv, NEW c \in Callers, Exec(c)
  PROVE  Fits(c)'
<1>. USE ConfigFixed DEF Fits, Next, SidecarInv, Goto, Return, driver, history, ShapeInv
<1>1. CASE Reuse(c)
  BY <1>1 DEF Reuse
<1>2. CASE PullImage(c)
  BY <1>2 DEF PullImage
<1>3. CASE Connect(c)
  BY <1>3 DEF Connect
<1>4. CASE Create(c)
  BY <1>4 DEF Create
<1>5. CASE CreateFails(c)
  BY <1>5 DEF CreateFails
<1>6. CASE Attach(c)
  BY <1>6 DEF Attach
<1>7. CASE Start(c)
  BY <1>7 DEF Start
<1>8. CASE AttachOrStartFails(c)
  BY <1>8 DEF AttachOrStartFails
<1>9. CASE Find(c)
  BY <1>9 DEF Find
<1>10. CASE FindNone(c)
  BY <1>10 DEF FindNone
<1>11. CASE RunContainer(c)
  BY <1>11 DEF RunContainer
<1>12. CASE RunContainerFails(c)
  BY <1>12 DEF RunContainerFails
<1>13. CASE ExecGlobal(c)
  BY <1>13 DEF ExecGlobal
<1>14. CASE ExecSidecar(c)
  BY <1>14 DEF ExecSidecar
<1>15. CASE ExecFails(c)
  BY <1>15 DEF ExecFails
<1>16. CASE Send(c)
  BY <1>16 DEF Send
<1>17. CASE Read(c)
  BY <1>17 DEF Read
<1>18. CASE SendOrReadFails(c)
  BY <1>18 DEF SendOrReadFails
<1>19. CASE Finish(c)
  BY <1>19 DEF Finish
<1>. QED
  BY <1>1, <1>2, <1>3, <1>4, <1>5, <1>6, <1>7, <1>8, <1>9, <1>10,
     <1>11, <1>12, <1>13, <1>14, <1>15, <1>16, <1>17, <1>18, <1>19 DEF Exec

LEMMA ExecConnections ==
  ASSUME TypeOK, ShapeInv, SidecarInv, NEW c \in Callers, Exec(c)
  PROVE  ~config.global => \A x \in Calls : general'[x] = Nil
<1>. USE Unpacked DEF Fits, SidecarInv, Goto, driver, connects
<1>1. CASE Reuse(c)
  BY <1>1 DEF Reuse
<1>2. CASE PullImage(c)
  BY <1>2 DEF PullImage
<1>3. CASE Connect(c)
  BY <1>3 DEF Connect
<1>4. CASE Create(c)
  BY <1>4 DEF Create
<1>5. CASE CreateFails(c)
  BY <1>5 DEF CreateFails
<1>6. CASE Attach(c)
  BY <1>6 DEF Attach
<1>7. CASE Start(c)
  BY <1>7 DEF Start
<1>8. CASE AttachOrStartFails(c)
  BY <1>8, CloseDriverType DEF AttachOrStartFails
<1>9. CASE Find(c)
  BY <1>9 DEF Find
<1>10. CASE FindNone(c)
  BY <1>10 DEF FindNone
<1>11. CASE RunContainer(c)
  BY <1>11 DEF RunContainer
<1>12. CASE RunContainerFails(c)
  BY <1>12 DEF RunContainerFails
<1>13. CASE ExecGlobal(c)
  BY <1>13 DEF ExecGlobal
<1>14. CASE ExecSidecar(c)
  BY <1>14 DEF ExecSidecar
<1>15. CASE ExecFails(c)
  BY <1>15 DEF ExecFails
<1>16. CASE Send(c)
  BY <1>16 DEF Send
<1>17. CASE Read(c)
  BY <1>17 DEF Read
<1>18. CASE SendOrReadFails(c)
  BY <1>18 DEF SendOrReadFails
<1>19. CASE Finish(c)
  BY <1>19, ReleaseType DEF Finish
<1>. QED
  BY <1>1, <1>2, <1>3, <1>4, <1>5, <1>6, <1>7, <1>8, <1>9, <1>10,
     <1>11, <1>12, <1>13, <1>14, <1>15, <1>16, <1>17, <1>18, <1>19 DEF Exec

LEMMA StepSidecar ==
  ASSUME TypeOK, ShapeInv, SidecarInv, [Next]_vars
  PROVE  SidecarInv'
<1>0. config' = config
  BY ConfigFixed
<1>1. CASE UNCHANGED vars
  BY <1>1 DEF vars, driver, connects, actor, SidecarInv, Fits
<1>2. ASSUME NEW c \in Callers, Begin(c) PROVE SidecarInv'
  BY <1>2 DEF Begin, Goto, driver, connects, SidecarInv, Fits, ShapeInv
<1>3. ASSUME NEW c \in Callers, Exec(c) PROVE SidecarInv'
  BY <1>0, <1>3, Frame, ExecFits, ExecConnections, ZenonT(60) DEF StepOf, SidecarInv, Fits
<1>4. CASE Close
  BY <1>4, CloseDriverType DEF Close, SidecarInv, Fits
<1>5. ASSUME NEW id \in Containers, Exit(id) PROVE SidecarInv'
  BY <1>5 DEF Exit, driver, connects, actor, SidecarInv, Fits
<1>. QED
  BY <1>1, <1>2, <1>3, <1>4, <1>5 DEF Next

LEMMA ExecMakes ==
  ASSUME TypeOK, ShapeInv, NEW c \in Callers, Makes(c), Exec(c)
  PROVE  Makes(c)'
<1>. USE Unpacked, InCall DEF Makes, Making, Current, Goto, Return, Established, driver,
             connects, history, ShapeInv
<1>1. CASE Reuse(c)
  BY <1>1 DEF Reuse, TypeOK
<1>2. CASE PullImage(c)
  BY <1>2 DEF PullImage, TypeOK
<1>3. CASE Connect(c)
  BY <1>3 DEF Connect, TypeOK
<1>4. CASE Create(c)
  BY <1>4 DEF Create, TypeOK
<1>5. CASE CreateFails(c)
  BY <1>5 DEF CreateFails, TypeOK
<1>6. CASE Attach(c)
  BY <1>6 DEF Attach, TypeOK
<1>7. CASE Start(c)
  BY <1>7 DEF Start, TypeOK
<1>8. CASE AttachOrStartFails(c)
  BY <1>8 DEF AttachOrStartFails, TypeOK
<1>9. CASE Find(c)
  BY <1>9 DEF Find, TypeOK
<1>10. CASE FindNone(c)
  BY <1>10 DEF FindNone, TypeOK
<1>11. CASE RunContainer(c)
  BY <1>11 DEF RunContainer, TypeOK
<1>12. CASE RunContainerFails(c)
  BY <1>12 DEF RunContainerFails, TypeOK
<1>13. CASE ExecGlobal(c)
  BY <1>13 DEF ExecGlobal, TypeOK
<1>14. CASE ExecSidecar(c)
  BY <1>14 DEF ExecSidecar, TypeOK
<1>15. CASE ExecFails(c)
  BY <1>15 DEF ExecFails, TypeOK
<1>16. CASE Send(c)
  BY <1>16 DEF Send, TypeOK
<1>17. CASE Read(c)
  BY <1>17 DEF Read, TypeOK
<1>18. CASE SendOrReadFails(c)
  BY <1>18 DEF SendOrReadFails, TypeOK
<1>19. CASE Finish(c)
  BY <1>19 DEF Finish, TypeOK
<1>. QED
  BY <1>1, <1>2, <1>3, <1>4, <1>5, <1>6, <1>7, <1>8, <1>9, <1>10,
     <1>11, <1>12, <1>13, <1>14, <1>15, <1>16, <1>17, <1>18, <1>19 DEF Exec

LEMMA StepTurn ==
  ASSUME TypeOK, ShapeInv, TurnInv, [Next]_vars
  PROVE  TurnInv'
<1>. SUFFICES ASSUME ~config.overlap
              PROVE  Alone' /\ \A c \in Callers : Makes(c)'
  BY ConfigFixed DEF TurnInv
<1>0. Alone /\ Alone' /\ \A c \in Callers : Makes(c)
  BY StepAlone DEF TurnInv
<1>1. CASE UNCHANGED vars
  BY <1>0, <1>1 DEF vars, driver, connects, actor, history, Makes, Current
<1>2. ASSUME NEW c \in Callers, Begin(c) PROVE \A d \in Callers : Makes(d)'
  BY <1>0, <1>2 DEF Begin, Goto, Quiet, Makes, Making, Alone, ShapeInv
<1>3. ASSUME NEW c \in Callers, Exec(c) PROVE \A d \in Callers : Makes(d)'
  <2>1. pc[c] # "idle"
    BY <1>3, Within
  <2>2. \A d \in Callers \ {c} : pc'[d] = "idle"
    BY <1>0, <1>3, <2>1, Frame DEF StepOf, Alone
  <2>3. Makes(c)'
    BY <1>0, <1>3, ExecMakes
  <2>. QED
    BY <2>2, <2>3 DEF Makes, Making
<1>4. CASE Close
  BY <1>0, <1>4 DEF Close, Quiet, Makes, Making
<1>5. ASSUME NEW id \in Containers, Exit(id) PROVE \A d \in Callers : Makes(d)'
  BY <1>0, <1>5 DEF Exit, driver, connects, actor, history, Makes, Current
<1>. QED
  BY <1>0, <1>1, <1>2, <1>3, <1>4, <1>5 DEF Next

------------------------------------------------------------------------------
(* Answers                                                                 *)

\* A retained container is not that of a global command.
LEMMA RetainedSidecar == TypeOK /\ config.retain => ~config.global
  BY CallAssumption DEF TypeOK

\* While a caller is in Exec the others are idle or, where calls overlap, have
\* no attached connection to mistake for theirs.
LEMMA Undisturbed ==
  ASSUME TypeOK, ShapeInv, SidecarInv', TurnInv, Separate, config' = config,
         NEW c \in Callers, Exec(c), NEW d \in Callers \ {c}, pc'[d] # "idle"
  PROVE  \A x \in Calls : general'[x] = Nil
<1>1. config.overlap
  BY Within, Frame DEF StepOf, TurnInv, Alone
<1>. QED
  BY <1>1 DEF Separate, SidecarInv

LEMMA ExecAnswers ==
  ASSUME TypeOK, ShapeInv, SidecarInv, SidecarInv', TurnInv, Separate, NEW c \in Callers,
         Answers(c), Exec(c)
  PROVE  Answers(c)'
<1>. USE Unpacked, InCall, RetainedSidecar
<1>. USE DEF Answers, Goto, Return, Current, driver, connects, history, ShapeInv
<1>1. CASE Reuse(c)
  BY <1>1 DEF Reuse, Reusable, SidecarInv, TypeOK
<1>2. CASE PullImage(c)
  BY <1>2 DEF PullImage
<1>3. CASE Connect(c)
  BY <1>3 DEF Connect
<1>4. CASE Create(c)
  BY <1>4 DEF Create
<1>5. CASE CreateFails(c)
  BY <1>5 DEF CreateFails
<1>6. CASE Attach(c)
  BY <1>6 DEF Attach
<1>7. CASE Start(c)
  BY <1>7 DEF Start, SidecarInv, TurnInv, Fits, Makes, Making, Separate, TypeOK
<1>8. CASE AttachOrStartFails(c)
  BY <1>8 DEF AttachOrStartFails
<1>9. CASE Find(c)
  BY <1>9 DEF Find, SidecarInv, Fits, Making, TypeOK
<1>10. CASE FindNone(c)
  BY <1>10 DEF FindNone
<1>11. CASE RunContainer(c)
  BY <1>11 DEF RunContainer, SidecarInv, Fits, Making, TypeOK
<1>12. CASE RunContainerFails(c)
  BY <1>12 DEF RunContainerFails
<1>13. CASE ExecGlobal(c)
  BY <1>13 DEF ExecGlobal, TypeOK
<1>14. CASE ExecSidecar(c)
  BY <1>14 DEF ExecSidecar, TypeOK
<1>15. CASE ExecFails(c)
  BY <1>15 DEF ExecFails
<1>16. CASE Send(c)
  BY <1>16 DEF Send
<1>17. CASE Read(c)
  BY <1>17 DEF Read, TypeOK
<1>18. CASE SendOrReadFails(c)
  BY <1>18 DEF SendOrReadFails
<1>19. CASE Finish(c)
  BY <1>19 DEF Finish
<1>. QED
  BY <1>1, <1>2, <1>3, <1>4, <1>5, <1>6, <1>7, <1>8, <1>9, <1>10,
     <1>11, <1>12, <1>13, <1>14, <1>15, <1>16, <1>17, <1>18, <1>19 DEF Exec

LEMMA ExecOwn ==
  ASSUME TypeOK, ShapeInv, OwnAnswer, NEW c \in Callers, Answers(c), Exec(c)
  PROVE  OwnAnswer'
<1>. USE Unpacked, InCall
<1>. USE DEF OwnAnswer, Goto, Return, history, TypeOK
<1>1. CASE Reuse(c)
  BY <1>1 DEF Reuse
<1>2. CASE PullImage(c)
  BY <1>2 DEF PullImage
<1>3. CASE Connect(c)
  BY <1>3 DEF Connect
<1>4. CASE Create(c)
  BY <1>4 DEF Create
<1>5. CASE CreateFails(c)
  BY <1>5 DEF CreateFails
<1>6. CASE Attach(c)
  BY <1>6 DEF Attach
<1>7. CASE Start(c)
  BY <1>7 DEF Start
<1>8. CASE AttachOrStartFails(c)
  BY <1>8 DEF AttachOrStartFails
<1>9. CASE Find(c)
  BY <1>9 DEF Find
<1>10. CASE FindNone(c)
  BY <1>10 DEF FindNone
<1>11. CASE RunContainer(c)
  BY <1>11 DEF RunContainer
<1>12. CASE RunContainerFails(c)
  BY <1>12 DEF RunContainerFails
<1>13. CASE ExecGlobal(c)
  BY <1>13 DEF ExecGlobal
<1>14. CASE ExecSidecar(c)
  BY <1>14 DEF ExecSidecar
<1>15. CASE ExecFails(c)
  BY <1>15 DEF ExecFails
<1>16. CASE Send(c)
  BY <1>16 DEF Send
<1>17. CASE Read(c)
  BY <1>17 DEF Read, Answers
<1>18. CASE SendOrReadFails(c)
  BY <1>18 DEF SendOrReadFails
<1>19. CASE Finish(c)
  BY <1>19 DEF Finish, Answers
<1>. QED
  BY <1>1, <1>2, <1>3, <1>4, <1>5, <1>6, <1>7, <1>8, <1>9, <1>10,
     <1>11, <1>12, <1>13, <1>14, <1>15, <1>16, <1>17, <1>18, <1>19 DEF Exec

LEMMA StepAnswer ==
  ASSUME TypeOK, ShapeInv, SidecarInv, SidecarInv', TurnInv, AnswerInv, [Next]_vars
  PROVE  AnswerInv'
<1>0. config' = config
  BY ConfigFixed
<1>. SUFFICES ASSUME Separate
              PROVE  OwnAnswer' /\ \A d \in Callers : Answers(d)'
  BY <1>0 DEF AnswerInv, Separate
<1>. USE DEF AnswerInv
<1>1. CASE UNCHANGED vars
  BY <1>1 DEF vars, connects, actor, history, OwnAnswer, Answers, Current
<1>2. ASSUME NEW c \in Callers, Begin(c) PROVE OwnAnswer' /\ \A d \in Callers : Answers(d)'
  BY <1>2 DEF Begin, Goto, connects, OwnAnswer, Answers, Current, ShapeInv, TypeOK
<1>3. ASSUME NEW c \in Callers, Exec(c) PROVE OwnAnswer' /\ \A d \in Callers : Answers(d)'
  <2>1. OwnAnswer'
    BY <1>3, ExecOwn
  <2>2. Answers(c)'
    BY <1>3, ExecAnswers
  <2>3. ASSUME NEW d \in Callers \ {c} PROVE Answers(d)'
    <3>1. CASE pc'[d] = "idle"
      BY <3>1 DEF Answers
    <3>2. CASE pc'[d] # "idle"
      <4>1. \A x \in Calls : general'[x] = Nil
        BY <1>0, <1>3, <3>2, Undisturbed
      <4>2. /\ pc'[d] = pc[d] /\ mine'[d] = mine[d] /\ command'[d] = command[d]
            /\ Current(d)' = Current(d)
        BY <1>3, Frame DEF StepOf, Current
      <4>3. Current(d) \in Calls /\ answer'[Current(d)] = answer[Current(d)]
        BY <1>3, <3>2, <4>2, InCall, Apart, Frame DEF StepOf
      <4>4. pc[d] = "exec" => mine[d] \in Calls
        BY DEF ShapeInv, Using
      <4>. QED
        BY <4>1, <4>2, <4>3, <4>4 DEF Answers
    <3>. QED
      BY <3>1, <3>2
  <2>. QED
    BY <2>1, <2>2, <2>3
<1>4. CASE Close
  <2>1. \A y \in Calls : general'[y] \in {general[y], Nil}
    BY <1>4, CloseDriverType DEF Close
  <2>. QED
    BY <1>4, <2>1 DEF Close, OwnAnswer, Answers, Current, ShapeInv, Using
<1>5. ASSUME NEW id \in Containers, Exit(id) PROVE OwnAnswer' /\ \A d \in Callers : Answers(d)'
  BY <1>5 DEF Exit, connects, actor, history, OwnAnswer, Answers, Current
<1>. QED
  BY <1>1, <1>2, <1>3, <1>4, <1>5 DEF Next

------------------------------------------------------------------------------
(* Containers                                                              *)

\* A release that does not fail leaves nothing of the connect it is of.
LEMMA ReleaseRemoves ==
  ASSUME TypeOK, Tidy, NEW x, ~config.closeFails \/ general[x] = Nil, Release(x)
  PROVE  exists' \subseteq exists \ {connID[x]}
  BY Nils DEF Release, Remove, Tidy, daemon, TypeOK

LEMMA ExecOwned ==
  ASSUME TypeOK, ShapeInv, SidecarInv, Tidy, ~config.closeFails, ~config.retain,
         NEW c \in Callers, Makes(c), \A x \in exists \ {Other} : Owns(c, x), Exec(c)
  PROVE  \A x \in exists' \ {Other} : Owns(c, x)'
<1>. USE Unpacked, InCall
<1>. USE DEF Owns, Using, Making, Goto, Return, Established, Current, driver, connects,
             daemon, ShapeInv
<1>1. CASE Reuse(c)
  BY <1>1 DEF Reuse
<1>2. CASE PullImage(c)
  BY <1>2 DEF PullImage
<1>3. CASE Connect(c)
  BY <1>3 DEF Connect, TypeOK
<1>4. CASE Create(c)
  BY <1>4 DEF Create, Makes
<1>5. CASE CreateFails(c)
  BY <1>5 DEF CreateFails
<1>6. CASE Attach(c)
  BY <1>6 DEF Attach
<1>7. CASE Start(c)
  BY <1>7 DEF Start
<1>8. CASE AttachOrStartFails(c)
  BY <1>8, ReleaseRemoves, Nils DEF AttachOrStartFails, Makes, CloseDriver
<1>9. CASE Find(c)
  BY <1>9 DEF Find, TypeOK
<1>10. CASE FindNone(c)
  BY <1>10 DEF FindNone
<1>11. CASE RunContainer(c)
  BY <1>11 DEF RunContainer, Makes
<1>12. CASE RunContainerFails(c)
  BY <1>12 DEF RunContainerFails, Tidy
<1>13. CASE ExecGlobal(c)
  BY <1>13 DEF ExecGlobal
<1>14. CASE ExecSidecar(c)
  BY <1>14 DEF ExecSidecar
<1>15. CASE ExecFails(c)
  BY <1>15 DEF ExecFails
<1>16. CASE Send(c)
  BY <1>16 DEF Send
<1>17. CASE Read(c)
  BY <1>17 DEF Read
<1>18. CASE SendOrReadFails(c)
  BY <1>18 DEF SendOrReadFails
<1>19. CASE Finish(c)
  BY <1>19, ReleaseRemoves DEF Finish
<1>. QED
  BY <1>1, <1>2, <1>3, <1>4, <1>5, <1>6, <1>7, <1>8, <1>9, <1>10,
     <1>11, <1>12, <1>13, <1>14, <1>15, <1>16, <1>17, <1>18, <1>19 DEF Exec

LEMMA StepOwned ==
  ASSUME TypeOK, ShapeInv, SidecarInv, TurnInv, OwnedInv, [Next]_vars
  PROVE  OwnedInv'
<1>0. config' = config
  BY ConfigFixed
<1>. SUFFICES ASSUME Tidy, ~config.closeFails, ~config.retain
              PROVE  \A x \in exists' \ {Other} : \E c \in Callers : Owns(c, x)'
  BY <1>0 DEF OwnedInv, Tidy
<1>. USE DEF OwnedInv
<1>1. CASE UNCHANGED vars
  BY <1>1 DEF vars, driver, connects, actor, daemon, Owns
<1>2. ASSUME Quiet PROVE exists \subseteq {Other}
  BY <1>2 DEF Quiet, Owns, Using
<1>3. ASSUME NEW c \in Callers, Begin(c)
      PROVE  \A x \in exists' \ {Other} : \E d \in Callers : Owns(d, x)'
  BY <1>2, <1>3 DEF Begin, Tidy, daemon
<1>4. ASSUME NEW c \in Callers, Exec(c)
      PROVE  \A x \in exists' \ {Other} : \E d \in Callers : Owns(d, x)'
  <2>1. Makes(c) /\ \A d \in Callers : pc[d] # "idle" => d = c
    BY <1>4, Within DEF TurnInv, Alone, Tidy
  <2>2. \A x \in exists \ {Other} : Owns(c, x)
    BY <2>1 DEF Owns, Using
  <2>. QED
    BY <1>4, <2>1, <2>2, ExecOwned
<1>5. CASE Close
  BY <1>2, <1>5, CloseDriverType DEF Close, Tidy
<1>6. ASSUME NEW id \in Containers, Exit(id)
      PROVE  \A x \in exists' \ {Other} : \E d \in Callers : Owns(d, x)'
  BY <1>6 DEF Exit, driver, connects, actor, Owns
<1>. QED
  BY <1>1, <1>3, <1>4, <1>5, <1>6 DEF Next

\* What RetainedInv says of the driver.
Kept ==
  /\ \A x \in exists \ {Other} : x = containerID
  /\ containerID # Nil => connID[conn] = containerID

LEMMA ExecKept ==
  ASSUME TypeOK, ShapeInv, SidecarInv, Tidy, config.retain, NEW c \in Callers, Kept,
         pc[c] \in Making => containerID = Nil, Exec(c)
  PROVE  Kept' /\ (pc'[c] \in Making => containerID' = Nil)
<1>. USE Unpacked, InCall, Nils, RetainedSidecar
<1>. USE DEF Kept, Making, Goto, Return, Established, driver, connects, daemon, ShapeInv
<1>1. CASE Reuse(c)
  BY <1>1 DEF Reuse
<1>2. CASE PullImage(c)
  BY <1>2 DEF PullImage
<1>3. CASE Connect(c)
  BY <1>3 DEF Connect, Reusable
<1>4. CASE Create(c)
  BY <1>4 DEF Create, SidecarInv, Fits
<1>5. CASE CreateFails(c)
  BY <1>5 DEF CreateFails
<1>6. CASE Attach(c)
  BY <1>6 DEF Attach, SidecarInv, Fits
<1>7. CASE Start(c)
  BY <1>7 DEF Start, SidecarInv, Fits
<1>8. CASE AttachOrStartFails(c)
  BY <1>8 DEF AttachOrStartFails, SidecarInv, Fits
<1>9. CASE Find(c)
  BY <1>9 DEF Find, TypeOK
<1>10. CASE FindNone(c)
  BY <1>10 DEF FindNone
<1>11. CASE RunContainer(c)
  BY <1>11 DEF RunContainer, TypeOK
<1>12. CASE RunContainerFails(c)
  BY <1>12 DEF RunContainerFails, Tidy
<1>13. CASE ExecGlobal(c)
  BY <1>13 DEF ExecGlobal
<1>14. CASE ExecSidecar(c)
  BY <1>14 DEF ExecSidecar
<1>15. CASE ExecFails(c)
  BY <1>15 DEF ExecFails
<1>16. CASE Send(c)
  BY <1>16 DEF Send
<1>17. CASE Read(c)
  BY <1>17 DEF Read
<1>18. CASE SendOrReadFails(c)
  BY <1>18 DEF SendOrReadFails
<1>19. CASE Finish(c)
  BY <1>19 DEF Finish
<1>. QED
  BY <1>1, <1>2, <1>3, <1>4, <1>5, <1>6, <1>7, <1>8, <1>9, <1>10,
     <1>11, <1>12, <1>13, <1>14, <1>15, <1>16, <1>17, <1>18, <1>19 DEF Exec

LEMMA StepRetained ==
  ASSUME TypeOK, ShapeInv, SidecarInv, TurnInv, RetainedInv, [Next]_vars
  PROVE  RetainedInv'
<1>0. config' = config
  BY ConfigFixed
<1>. SUFFICES ASSUME Tidy, config.retain
              PROVE  Kept' /\ \A c \in Callers : pc'[c] \in Making => containerID' = Nil
  BY <1>0 DEF RetainedInv, Kept, Tidy
<1>01. Kept /\ \A c \in Callers : pc[c] \in Making => containerID = Nil
  BY DEF RetainedInv, Kept
<1>1. CASE UNCHANGED vars
  BY <1>01, <1>1 DEF vars, driver, connects, actor, daemon, Kept
<1>2. ASSUME NEW c \in Callers, Begin(c)
      PROVE  Kept' /\ \A d \in Callers : pc'[d] \in Making => containerID' = Nil
  BY <1>01, <1>2 DEF Begin, Goto, driver, connects, daemon, Kept, Making, ShapeInv
<1>3. ASSUME NEW c \in Callers, Exec(c)
      PROVE  Kept' /\ \A d \in Callers : pc'[d] \in Making => containerID' = Nil
  <2>1. Kept' /\ (pc'[c] \in Making => containerID' = Nil)
    BY <1>01, <1>3, ExecKept
  <2>2. \A d \in Callers \ {c} : pc'[d] = "idle"
    BY <1>3, Within, Frame DEF StepOf, TurnInv, Alone, Tidy
  <2>. QED
    BY <2>1, <2>2 DEF Making
<1>4. CASE Close
  <2>1. containerID' = Nil /\ conn' = conn /\ pc' = pc /\ Quiet
    BY <1>4, CloseDriverType DEF Close, Tidy
  <2>2. exists' \ {Other} = {}
    <3>1. CASE containerID = Nil
      BY <1>4, <1>01, <3>1, Nils DEF Close, CloseDriver, daemon, Kept, TypeOK
    <3>2. CASE containerID # Nil
      <4>1. general[conn] = Nil
        BY <3>2, RetainedSidecar DEF SidecarInv, ShapeInv, TypeOK
      <4>. QED
        BY <1>4, <1>01, <3>2, <4>1, ReleaseRemoves DEF Close, CloseDriver, Kept
    <3>. QED
      BY <3>1, <3>2
  <2>. QED
    BY <2>1, <2>2 DEF Kept, Quiet, Making
<1>5. ASSUME NEW id \in Containers, Exit(id)
      PROVE  Kept' /\ \A d \in Callers : pc'[d] \in Making => containerID' = Nil
  BY <1>01, <1>5 DEF Exit, driver, connects, actor, Kept
<1>. QED
  BY <1>1, <1>2, <1>3, <1>4, <1>5 DEF Next

------------------------------------------------------------------------------
(* Connections                                                             *)

\* A release that is not refused leaves the connect without a connection.
LEMMA ReleaseCloses ==
  ASSUME TypeOK, ~config.closeFails, NEW x, Release(x)
  PROVE  general' = [general EXCEPT ![x] = Nil]
  BY DEF Release

LEMMA ExecHolds ==
  ASSUME TypeOK, ShapeInv, Orderly, NEW c \in Callers, Makes(c),
         \A x \in Calls : general[x] # Nil => Holds(c, x), Exec(c)
  PROVE  \A x \in Calls : general'[x] # Nil => Holds(c, x)'
<1>. USE Unpacked, InCall, Nils
<1>. USE DEF Holds, Orderly, Using, Making, Makes, Goto, Return, driver, connects, ShapeInv
<1>1. CASE Reuse(c)
  BY <1>1 DEF Reuse
<1>2. CASE PullImage(c)
  BY <1>2 DEF PullImage
<1>3. CASE Connect(c)
  BY <1>3 DEF Connect
<1>4. CASE Create(c)
  BY <1>4 DEF Create
<1>5. CASE CreateFails(c)
  BY <1>5 DEF CreateFails
<1>6. CASE Attach(c)
  BY <1>6 DEF Attach, TypeOK
<1>7. CASE Start(c)
  BY <1>7 DEF Start
<1>8. CASE AttachOrStartFails(c)
  BY <1>8, ReleaseCloses DEF AttachOrStartFails, CloseDriver
<1>9. CASE Find(c)
  BY <1>9 DEF Find
<1>10. CASE FindNone(c)
  BY <1>10 DEF FindNone
<1>11. CASE RunContainer(c)
  BY <1>11 DEF RunContainer
<1>12. CASE RunContainerFails(c)
  BY <1>12 DEF RunContainerFails
<1>13. CASE ExecGlobal(c)
  BY <1>13 DEF ExecGlobal
<1>14. CASE ExecSidecar(c)
  BY <1>14 DEF ExecSidecar
<1>15. CASE ExecFails(c)
  BY <1>15 DEF ExecFails
<1>16. CASE Send(c)
  BY <1>16 DEF Send
<1>17. CASE Read(c)
  BY <1>17 DEF Read
<1>18. CASE SendOrReadFails(c)
  BY <1>18 DEF SendOrReadFails
<1>19. CASE Finish(c)
  BY <1>19, ReleaseCloses DEF Finish
<1>. QED
  BY <1>1, <1>2, <1>3, <1>4, <1>5, <1>6, <1>7, <1>8, <1>9, <1>10,
     <1>11, <1>12, <1>13, <1>14, <1>15, <1>16, <1>17, <1>18, <1>19 DEF Exec

LEMMA StepConnected ==
  ASSUME TypeOK, ShapeInv, TurnInv, ConnectedInv, [Next]_vars
  PROVE  ConnectedInv'
<1>0. config' = config
  BY ConfigFixed
<1>. SUFFICES ASSUME Orderly, NEW x \in Calls, general'[x] # Nil
              PROVE  \E c \in Callers : Holds(c, x)'
  BY <1>0 DEF ConnectedInv, Orderly
<1>01. \A y \in Calls : general[y] # Nil => \E c \in Callers : Holds(c, y)
  BY DEF ConnectedInv
<1>1. CASE UNCHANGED vars
  BY <1>01, <1>1 DEF vars, driver, connects, actor, Holds
<1>2. ASSUME Quiet PROVE general[x] = Nil
  BY <1>01, <1>2 DEF Quiet, Holds, Using
<1>3. ASSUME NEW c \in Callers, Begin(c) PROVE FALSE
  BY <1>2, <1>3 DEF Begin, Orderly, connects
<1>4. ASSUME NEW c \in Callers, Exec(c) PROVE Holds(c, x)'
  <2>1. Makes(c) /\ \A d \in Callers : pc[d] # "idle" => d = c
    BY <1>4, Within DEF TurnInv, Alone, Orderly
  <2>2. \A y \in Calls : general[y] # Nil => Holds(c, y)
    BY <1>01, <2>1 DEF Holds, Using
  <2>. QED
    BY <1>4, <2>1, <2>2, ExecHolds
<1>5. CASE Close
  BY <1>2, <1>5, CloseDriverType DEF Close, Orderly
<1>6. ASSUME NEW id \in Containers, Exit(id) PROVE \E c \in Callers : Holds(c, x)'
  BY <1>01, <1>6 DEF Exit, driver, connects, actor, Holds
<1>. QED
  BY <1>1, <1>3, <1>4, <1>5, <1>6 DEF Next

------------------------------------------------------------------------------
(* The theorems                                                            *)

LEMMA InitCall == Init => TypeOK /\ CallInv
<1>. SUFFICES ASSUME Init PROVE TypeOK /\ CallInv
  OBVIOUS
<1>1. TypeOK /\ ShapeInv
  BY InitType
<1>2. SidecarInv /\ TurnInv /\ AnswerInv /\ ConnectedInv
  BY DEF Init, SidecarInv, Fits, TurnInv, Alone, Makes, Making, AnswerInv, OwnAnswer, Answers,
     ConnectedInv
<1>3. exists \subseteq {Other} /\ containerID = Nil
  BY DEF Init
<1>4. OwnedInv /\ RetainedInv
  BY <1>3 DEF OwnedInv, RetainedInv
<1>. QED
  BY <1>1, <1>2, <1>4 DEF CallInv

LEMMA StepCall == TypeOK /\ CallInv /\ [Next]_vars => (TypeOK /\ CallInv)'
<1>. SUFFICES ASSUME TypeOK, CallInv, [Next]_vars PROVE TypeOK' /\ CallInv'
  OBVIOUS
<1>1. TypeOK' /\ ShapeInv'
  BY StepType DEF CallInv
<1>2. SidecarInv' /\ TurnInv'
  BY StepSidecar, StepTurn DEF CallInv
<1>3. AnswerInv' /\ ConnectedInv'
  BY <1>2, StepAnswer, StepConnected DEF CallInv
<1>4. OwnedInv' /\ RetainedInv'
  BY StepOwned, StepRetained DEF CallInv
<1>. QED
  BY <1>1, <1>2, <1>3, <1>4 DEF CallInv

LEMMA CallInvariant == Spec => [](TypeOK /\ CallInv)
  BY InitCall, StepCall, PTL DEF Spec

\* A call that succeeds returns the output of its own command, if only sidecars
\* are used by calls that overlap: the container of a global command is made by
\* the call, but attached to through the d.conn and d.containerID of the driver.
THEOREM AnswersItsOwn ==
  ASSUME \A k \in Configs : k.overlap => ~k.global
  PROVE  Spec => []OwnAnswer
<1>1. TypeOK /\ CallInv => OwnAnswer
  BY DEF CallInv, AnswerInv, Separate, TypeOK
<1>. QED
  BY <1>1, CallInvariant, PTL

\* The container of a call is gone when the call returns, wherever it failed,
\* with removeAfterDone and in the circumstances NothingLeft names.
THEOREM LeavesNothing == Spec => []NothingLeft
<1>1. TypeOK /\ CallInv => NothingLeft
  BY DEF CallInv, OwnedInv, Owns, Using, Tidy, NothingLeft, Quiet
<1>. QED
  BY <1>1, CallInvariant, PTL

\* No connection is left attached when no call is in progress, whatever failed in
\* the calls and in the removals, if calls come in turn and connections close.
THEOREM ClosesConnections == Spec => []NoConnectionLeft
<1>1. TypeOK /\ CallInv => NoConnectionLeft
  BY DEF CallInv, ConnectedInv, Holds, Using, Orderly, NoConnectionLeft, Quiet
<1>. QED
  BY <1>1, CallInvariant, PTL

\* There is at most one retained container, and it is the one the driver knows:
\* calls in turn, with a daemon that removes what it is asked to.
THEOREM RetainsOne ==
  ASSUME \A k \in Configs : k.retain => /\ k.remove /\ ~k.removeFails
                                        /\ ~k.cancels /\ ~k.overlap
  PROVE  Spec => []OneRetained
<1>1. TypeOK /\ CallInv => OneRetained
  BY DEF CallInv, RetainedInv, Tidy, OneRetained, TypeOK
<1>. QED
  BY <1>1, CallInvariant, PTL

\* Close removes the retained container, under the same hypotheses, whether it
\* still runs and whatever calls failed before.
THEOREM CloseCleans ==
  ASSUME \A k \in Configs : k.retain => /\ k.remove /\ ~k.removeFails
                                        /\ ~k.cancels /\ ~k.overlap
  PROVE  Spec => CleanedByClose
<1>1. TypeOK /\ TypeOK' /\ CallInv' /\ [Next]_vars
        => [config.retain /\ closes' > closes => exists' \subseteq {Other}]_vars
  <2>. SUFFICES ASSUME TypeOK, TypeOK', CallInv', [Next]_vars, config.retain, closes' > closes
                PROVE  exists' \subseteq {Other}
    OBVIOUS
  <2>1. config' = config
    BY ConfigFixed
  <2>2. Close
    <3>1. closes \in Nat /\ closes' # closes
      BY CallAssumption DEF TypeOK
    <3>2. ~ UNCHANGED vars
      BY <3>1 DEF vars, actor, history
    <3>3. ASSUME NEW c \in Callers, Begin(c) \/ Exec(c) PROVE closes' = closes
      BY <3>3 DEF Begin, Exec, Reuse, PullImage, Connect, Create, CreateFails, Attach, Start,
         AttachOrStartFails, Find, FindNone, RunContainer, RunContainerFails, ExecGlobal,
         ExecSidecar, ExecFails, Send, Read, SendOrReadFails, Finish, history
    <3>4. ASSUME NEW id \in Containers, Exit(id) PROVE closes' = closes
      BY <3>4 DEF Exit, actor, history
    <3>. QED
      BY <3>1, <3>2, <3>3, <3>4 DEF Next
  <2>3. containerID' = Nil
    BY <2>2, CloseDriverType DEF Close
  <2>4. \A x \in exists' \ {Other} : x = Nil
    BY <2>1, <2>3 DEF CallInv, RetainedInv, Tidy, TypeOK
  <2>. QED
    BY <2>4, Nils DEF TypeOK
<1>. QED
  BY <1>1, CallInvariant, PTL DEF Spec, CleanedByClose

==============================================================================
