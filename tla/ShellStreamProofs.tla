-------------------------- MODULE ShellStreamProofs --------------------------
(***************************************************************************)
(* Proofs about ShellStream, for any callers, any number of calls and of   *)
(* stdin parameters.                                                       *)
(***************************************************************************)
EXTENDS ShellStream, SequenceTheorems, TLAPS

------------------------------------------------------------------------------
(* The shape of the state                                                  *)

LEMMA CurrentIsCall ==
  ASSUME TypeOK, NEW c \in Callers, pc[c] # "idle"
  PROVE  Current(c) \in Calls
  BY StreamAssumption DEF TypeOK, CallerTypeOK, Current, Calls

LEMMA InitTypeOK == Init => TypeOK
  BY StreamAssumption
  DEF Init, TypeOK, DriverTypeOK, CallerTypeOK, ProcessTypeOK, DataTypeOK, Calls, Ended

\* Both ways to lose a process or its pipes keep the shape of the state.
LEMMA ProcessEndsTypeOK ==
  ASSUME TypeOK, NEW p \in Calls, NEW how \in {"running"} \cup Ended \cup {"none"},
         ProcessEnds(p, how)
  PROVE  /\ state' \in [Calls -> {"none", "running"} \cup Ended]
         /\ inq' \in [Calls -> Seq(Chunks)]
         /\ line' \in [Calls -> SUBSET Chunks]
  <1>1. state' \in [Calls -> {"none", "running"} \cup Ended]
    BY DEF TypeOK, ProcessTypeOK, ProcessEnds
  <1>2. inq' \in [Calls -> Seq(Chunks)]
    BY DEF TypeOK, DataTypeOK, ProcessEnds
  <1>3. line' \in [Calls -> SUBSET Chunks]
    BY DEF TypeOK, DataTypeOK, ProcessEnds
  <1> QED BY <1>1, <1>2, <1>3

LEMMA PipesCloseTypeOK ==
  ASSUME TypeOK, NEW p \in Calls, PipesClose(p)
  PROVE  /\ open' \in [Calls -> BOOLEAN]
         /\ outq' \in [Calls -> Seq(SUBSET Chunks)]
  <1>1. open' \in [Calls -> BOOLEAN]
    BY DEF TypeOK, ProcessTypeOK, PipesClose
  <1>2. outq' \in [Calls -> Seq(SUBSET Chunks)]
    BY DEF TypeOK, DataTypeOK, PipesClose
  <1> QED BY <1>1, <1>2

LEMMA CloseDriverTypeOK ==
  ASSUME TypeOK, CloseDriver
  PROVE  /\ cmd' = Nil
         /\ state' \in [Calls -> {"none", "running"} \cup Ended]
         /\ open' \in [Calls -> BOOLEAN]
         /\ DataTypeOK'
  <1>1. CASE cmd = Nil
    BY <1>1 DEF CloseDriver, TypeOK, ProcessTypeOK, DataTypeOK, data
  <1>2. CASE cmd # Nil
    <2> DEFINE how == IF state[cmd] = "running" THEN "closed" ELSE state[cmd]
    <2>1. cmd \in Calls
      BY <1>2 DEF TypeOK, DriverTypeOK
    <2>2. ProcessEnds(cmd, how) /\ PipesClose(cmd) /\ rbuf' = rbuf /\ cmd' = Nil
      BY <1>2 DEF CloseDriver
    <2>3. how \in {"running"} \cup Ended \cup {"none"}
      BY <2>1 DEF TypeOK, ProcessTypeOK, Ended
    <2>4. rbuf' \in [Calls -> Seq(SUBSET Chunks)]
      BY <2>2 DEF TypeOK, DataTypeOK
    <2> HIDE DEF how
    <2> QED BY <2>1, <2>2, <2>3, <2>4, ProcessEndsTypeOK, PipesCloseTypeOK DEF DataTypeOK
  <1> QED BY <1>1, <1>2

\* A caller that returns leaves its locals in their types.
LEMMA ReturnTypeOK ==
  ASSUME TypeOK, NEW c \in Callers, pc[c] # "idle",
         NEW outcome \in {"ok", "err"}, Return(c, outcome), UNCHANGED n,
         reply' \in [Calls -> SUBSET Chunks]
  PROVE  CallerTypeOK'
  <1> USE DEF TypeOK, CallerTypeOK, Return
  <1>1. result' \in [Calls -> {"none", "ok", "err"}]
    BY CurrentIsCall
  <1>2. sent' \in [Callers -> 0..(2 * Inputs)]
    BY StreamAssumption
  <1>3. fd' \in [Callers -> Calls \cup {Nil}]
    OBVIOUS
  <1>4. pc' \in [Callers -> {"idle", "check", "preclose", "spawn", "publish", "input",
                            "write", "read", "fail", "panicked"}]
    OBVIOUS
  <1>5. \A d \in Callers : pc'[d] # "idle" => n'[d] > 0
    OBVIOUS
  <1> QED BY <1>1, <1>2, <1>3, <1>4, <1>5

LEMMA GotoTypeOK ==
  ASSUME TypeOK, NEW c \in Callers, NEW from, from # "idle",
         NEW to \in {"preclose", "spawn", "publish", "input", "write", "read", "fail",
                     "panicked"},
         Goto(c, from, to), UNCHANGED <<n, result, reply>>,
         fd' \in [Callers -> Calls \cup {Nil}], sent' \in [Callers -> 0..(2 * Inputs)]
  PROVE  CallerTypeOK'
  BY DEF TypeOK, CallerTypeOK, Goto

LEMMA StepTypeOK == TypeOK /\ [Next]_vars => TypeOK'
<1> SUFFICES ASSUME TypeOK, [Next]_vars PROVE TypeOK'
  OBVIOUS
<1> USE StreamAssumption
<1>1. ASSUME NEW c \in Callers, Begin(c) PROVE TypeOK'
  <2>1. CallerTypeOK'
    BY <1>1 DEF TypeOK, CallerTypeOK, Begin, Goto
  <2> QED BY <1>1, <2>1 DEF TypeOK, DriverTypeOK, ProcessTypeOK, DataTypeOK, Begin,
                            driver, process, data
<1>2. ASSUME NEW c \in Callers, Exec(c) PROVE TypeOK'
  <2>0. pc[c] # "idle"
    BY <1>2 DEF Exec, Check, PreClose, Spawn, SpawnFails, Publish, Input, InputFails,
                Write, Flushed, ReadLine, ReadFails, FailClose, Goto
  <2>x. Current(c) \in Calls
    BY <2>0, CurrentIsCall
  <2>1. CASE Check(c)
    <3>1. CallerTypeOK'
      BY <2>1 DEF TypeOK, CallerTypeOK, Check, Goto
    <3> QED BY <2>1, <3>1 DEF TypeOK, DriverTypeOK, ProcessTypeOK, DataTypeOK, Check,
                              driver, process, data
  <2>2. CASE PreClose(c)
    <3>1. CallerTypeOK'
      <4>1. CASE Return(c, "err")
        BY <2>2, <2>0, <4>1, ReturnTypeOK DEF TypeOK, CallerTypeOK, PreClose
      <4>2. CASE Goto(c, "preclose", "spawn") /\ UNCHANGED <<result, fd, sent>>
        BY <2>2, <4>2 DEF TypeOK, CallerTypeOK, PreClose, Goto
      <4> QED BY <2>2, <4>1, <4>2 DEF PreClose
    <3>2. CloseDriver /\ UNCHANGED <<mx, pipes, cancelled, closes>>
      BY <2>2 DEF PreClose
    <3> QED BY <3>1, <3>2, CloseDriverTypeOK DEF TypeOK, DriverTypeOK, ProcessTypeOK
  <2>3. CASE Spawn(c)
    <3>1. CallerTypeOK'
      BY <2>3 DEF TypeOK, CallerTypeOK, Spawn, Goto
    <3>2. DriverTypeOK' /\ ProcessTypeOK'
      BY <2>3, <2>x DEF TypeOK, DriverTypeOK, ProcessTypeOK, Spawn
    <3> QED BY <2>3, <3>1, <3>2 DEF TypeOK, DataTypeOK, Spawn, data
  <2>4. CASE SpawnFails(c)
    <3>1. CallerTypeOK'
      BY <2>4, <2>0, ReturnTypeOK DEF TypeOK, CallerTypeOK, SpawnFails
    <3> QED BY <2>4, <3>1 DEF TypeOK, DriverTypeOK, ProcessTypeOK, DataTypeOK, SpawnFails,
                              driver, process, data
  <2>5. CASE Publish(c)
    <3>1. CallerTypeOK'
      BY <2>5 DEF TypeOK, CallerTypeOK, Publish, Goto
    <3>2. DriverTypeOK'
      BY <2>5, <2>x DEF TypeOK, DriverTypeOK, Publish
    <3> QED BY <2>5, <3>1, <3>2 DEF TypeOK, ProcessTypeOK, DataTypeOK, Publish, process, data
  <2>6. CASE Input(c)
    <3>1. CallerTypeOK'
      <4>1. fd' \in [Callers -> Calls \cup {Nil}]
        BY <2>6 DEF TypeOK, CallerTypeOK, DriverTypeOK, Input
      <4>2. sent' \in [Callers -> 0..(2 * Inputs)]
        BY <2>6 DEF TypeOK, CallerTypeOK, Input
      <4> QED BY <2>6, <4>1, <4>2, GotoTypeOK DEF Input
    <3> QED BY <2>6, <3>1 DEF TypeOK, DriverTypeOK, ProcessTypeOK, DataTypeOK, Input,
                              driver, process, data
  <2>7. CASE InputFails(c)
    <3>1. CallerTypeOK'
      BY <2>7 DEF TypeOK, CallerTypeOK, InputFails, Goto
    <3> QED BY <2>7, <3>1 DEF TypeOK, DriverTypeOK, ProcessTypeOK, DataTypeOK, InputFails,
                              driver, process, data
  <2>8. CASE Write(c)
    <3>1. CallerTypeOK'
      <4>1. sent' \in [Callers -> 0..(2 * Inputs)]
        <5>1. sent[c] < 2 * Inputs
          BY <2>8 DEF Write
        <5>2. UNCHANGED sent \/ sent' = [sent EXCEPT ![c] = @ + 1]
          BY <2>8 DEF Write
        <5> QED BY <5>1, <5>2 DEF TypeOK, CallerTypeOK
      <4>2. fd' \in [Callers -> Calls \cup {Nil}] /\ UNCHANGED <<n, result, reply>>
        BY <2>8 DEF TypeOK, CallerTypeOK, Write
      <4>3. \E to \in {"write", "fail", "panicked"} : Goto(c, "write", to)
        BY <2>8 DEF Write
      <4> QED BY <4>1, <4>2, <4>3, GotoTypeOK
    <3>2. inq' \in [Calls -> Seq(Chunks)]
      <4>1. CASE UNCHANGED inq
        BY <4>1 DEF TypeOK, DataTypeOK
      <4>2. CASE fd[c] # Nil /\ inq' = [inq EXCEPT ![fd[c]] =
                                          Append(@, <<Current(c), sent[c] + 1>>)]
        <5>1. fd[c] \in Calls
          BY <4>2 DEF TypeOK, CallerTypeOK
        <5>2. <<Current(c), sent[c] + 1>> \in Chunks
          BY <2>8, <2>x DEF TypeOK, CallerTypeOK, Chunks, Write
        <5> QED BY <4>2, <5>1, <5>2 DEF TypeOK, DataTypeOK
      <4> QED BY <2>8, <4>1, <4>2 DEF Write, data
    <3> QED BY <2>8, <3>1, <3>2 DEF TypeOK, DriverTypeOK, ProcessTypeOK, DataTypeOK, Write,
                                    driver, process, data
  <2>9. CASE Flushed(c)
    <3>1. CallerTypeOK'
      <4>1. fd' \in [Callers -> Calls \cup {Nil}]
        BY <2>9 DEF TypeOK, CallerTypeOK, DriverTypeOK, Flushed
      <4>2. sent' \in [Callers -> 0..(2 * Inputs)]
        BY <2>9 DEF TypeOK, CallerTypeOK, Flushed
      <4> QED BY <2>9, <4>1, <4>2, GotoTypeOK DEF Flushed
    <3> QED BY <2>9, <3>1 DEF TypeOK, DriverTypeOK, ProcessTypeOK, DataTypeOK, Flushed,
                              driver, process, data
  <2>10. CASE ReadLine(c)
    <3> DEFINE p == fd[c]
               all == Available(p)
    <3>1. p \in Calls
      BY <2>10 DEF TypeOK, CallerTypeOK, ReadLine
    <3>2. all \in Seq(SUBSET Chunks) /\ all # <<>>
      BY <2>10, <3>1 DEF TypeOK, DataTypeOK, Available, ReadLine
    <3>3. Head(all) \in SUBSET Chunks /\ Tail(all) \in Seq(SUBSET Chunks)
      BY <3>2, HeadTailProperties
    <3>4. reply' = [reply EXCEPT ![Current(c)] = Head(all)] /\ Return(c, "ok") /\ UNCHANGED n
      BY <2>10 DEF ReadLine
    <3>5. outq' = [outq EXCEPT ![p] = IF rbuf[p] = <<>> THEN <<>> ELSE @]
      BY <2>10 DEF ReadLine
    <3>6. PICK left \in {Tail(all), all, <<>>} : rbuf' = [rbuf EXCEPT ![p] = left]
      BY <2>10 DEF ReadLine
    <3> HIDE DEF p, all
    <3>7. reply' \in [Calls -> SUBSET Chunks]
      BY <3>3, <3>4 DEF TypeOK, CallerTypeOK
    <3>8. CallerTypeOK'
      BY <2>0, <3>4, <3>7, ReturnTypeOK
    <3>9. outq' \in [Calls -> Seq(SUBSET Chunks)]
      BY <3>1, <3>5 DEF TypeOK, DataTypeOK
    <3>10. rbuf' \in [Calls -> Seq(SUBSET Chunks)]
      <4>1. left \in Seq(SUBSET Chunks)
        BY <3>2, <3>3, <3>6, EmptySeq
      <4> QED BY <3>1, <3>6, <4>1 DEF TypeOK, DataTypeOK
    <3> QED BY <2>10, <3>8, <3>9, <3>10 DEF TypeOK, DriverTypeOK, ProcessTypeOK, DataTypeOK,
                                            ReadLine, driver, process
  <2>11. CASE ReadFails(c)
    <3>1. CallerTypeOK'
      BY <2>11 DEF TypeOK, CallerTypeOK, ReadFails, Goto
    <3> QED BY <2>11, <3>1 DEF TypeOK, DriverTypeOK, ProcessTypeOK, DataTypeOK, ReadFails,
                              driver, process, data
  <2>12. CASE FailClose(c)
    <3>1. CallerTypeOK'
      BY <2>12, <2>0, ReturnTypeOK DEF TypeOK, CallerTypeOK, FailClose
    <3>2. CloseDriver /\ UNCHANGED <<mx, pipes, cancelled, closes>>
      BY <2>12 DEF FailClose
    <3> QED BY <3>1, <3>2, CloseDriverTypeOK DEF TypeOK, DriverTypeOK, ProcessTypeOK
  <2> QED BY <1>2, <2>1, <2>2, <2>3, <2>4, <2>5, <2>6, <2>7, <2>8, <2>9, <2>10, <2>11, <2>12
          DEF Exec
<1>3. ASSUME NEW x \in Calls, Cancel(x) PROVE TypeOK'
  BY <1>3 DEF TypeOK, DriverTypeOK, CallerTypeOK, ProcessTypeOK, DataTypeOK, Cancel,
              driver, caller, data
<1>4. ASSUME NEW p \in Calls, Process(p) PROVE TypeOK'
  <2> USE DEF TypeOK, DriverTypeOK, driver, caller
  <2>1. CallerTypeOK'
    BY <1>4 DEF CallerTypeOK, Process, ContextKill, Crash, Reap, ChildRead
  <2>2. CASE ContextKill(p) \/ Crash(p)
    BY <2>1, <2>2, ProcessEndsTypeOK DEF ProcessTypeOK, DataTypeOK, ContextKill, Crash, Ended
  <2>3. CASE Reap(p)
    BY <2>1, <2>3, PipesCloseTypeOK DEF ProcessTypeOK, DataTypeOK, Reap
  <2>4. CASE ChildRead(p)
    <3> DEFINE chunk == Head(inq[p])
    <3>1. chunk \in Chunks /\ Tail(inq[p]) \in Seq(Chunks)
      <4>1. inq[p] \in Seq(Chunks) /\ inq[p] # <<>>
        BY <2>4 DEF DataTypeOK, ChildRead
      <4> QED BY <4>1, HeadTailProperties
    <3>2. inq' \in [Calls -> Seq(Chunks)]
      BY <2>4, <3>1 DEF DataTypeOK, ChildRead
    <3>3. line' \in [Calls -> SUBSET Chunks]
      <4>1. \/ line' = [line EXCEPT ![p] = @ \cup {chunk}]
            \/ line' = [line EXCEPT ![p] = {}]
        BY <2>4 DEF ChildRead
      <4> HIDE DEF chunk
      <4>2. line[p] \cup {chunk} \in SUBSET Chunks
        BY <3>1 DEF DataTypeOK
      <4> QED BY <4>1, <4>2 DEF DataTypeOK
    <3>4. outq' \in [Calls -> Seq(SUBSET Chunks)]
      <4>1. \/ UNCHANGED outq
            \/ outq' = [outq EXCEPT ![p] = IF line[p] = {} THEN @ ELSE Append(@, line[p])]
        BY <2>4 DEF ChildRead
      <4>2. line[p] \in SUBSET Chunks /\ outq[p] \in Seq(SUBSET Chunks)
        BY DEF DataTypeOK
      <4>3. Append(outq[p], line[p]) \in Seq(SUBSET Chunks)
        BY <4>2, AppendProperties
      <4> QED BY <4>1, <4>2, <4>3 DEF DataTypeOK
    <3> QED BY <2>4, <2>1, <3>2, <3>3, <3>4 DEF ProcessTypeOK, DataTypeOK, ChildRead, process
  <2> QED BY <1>4, <2>2, <2>3, <2>4 DEF Process
<1>5. ASSUME Close PROVE TypeOK'
  <2>1. CloseDriver /\ UNCHANGED <<mx, pipes, caller, cancelled>>
    BY <1>5 DEF Close
  <2>2. closes' \in 0..MaxCloses
    BY <1>5 DEF Close, TypeOK, ProcessTypeOK
  <2>3. CallerTypeOK'
    BY <2>1 DEF TypeOK, CallerTypeOK, caller
  <2> QED BY <2>1, <2>2, <2>3, CloseDriverTypeOK DEF TypeOK, DriverTypeOK, ProcessTypeOK
<1>6. ASSUME UNCHANGED vars PROVE TypeOK'
  BY <1>6 DEF TypeOK, DriverTypeOK, CallerTypeOK, ProcessTypeOK, DataTypeOK, vars,
              driver, caller, process, data
<1> QED BY <1>1, <1>2, <1>3, <1>4, <1>5, <1>6 DEF Next

\* The state keeps its shape: every variable stays in its type, whatever the
\* callers, the owner and the processes do.
THEOREM TypeCorrect == Spec => []TypeOK
<1>1. Init => TypeOK
  BY InitTypeOK
<1>2. TypeOK /\ [Next]_vars => TypeOK'
  BY StepTypeOK
<1> QED BY <1>1, <1>2, PTL DEF Spec

------------------------------------------------------------------------------
(* The fields of the driver.  A caller is in "publish" exactly while it     *)
(* holds the mutex, and then d.cmd is the process it has just started: no   *)
(* other caller can replace it before the pipes follow.                     *)
FieldsInv ==
  /\ \A c \in Callers : pc[c] = "publish" <=> mx = c
  /\ \A c \in Callers : mx = c => cmd = Current(c)
  /\ FieldsAgree

\* A step that leaves the fields alone and neither enters nor leaves "publish".
LEMMA FieldsUntouched ==
  ASSUME FieldsInv, UNCHANGED driver,
         \A c \in Callers : pc'[c] = "publish" <=> pc[c] = "publish",
         \A c \in Callers : pc[c] = "publish" => n'[c] = n[c]
  PROVE  FieldsInv'
  BY DEF FieldsInv, FieldsAgree, Current, driver

LEMMA FieldsClosed ==
  ASSUME FieldsInv, CloseDriver, UNCHANGED <<mx, pipes, n>>,
         \A c \in Callers : pc'[c] = "publish" <=> pc[c] = "publish"
  PROVE  FieldsInv'
  BY StreamAssumption DEF FieldsInv, FieldsAgree, Current, CloseDriver

LEMMA StepFieldsInv == TypeOK /\ FieldsInv /\ [Next]_vars => FieldsInv'
<1> SUFFICES ASSUME TypeOK, FieldsInv, [Next]_vars PROVE FieldsInv'
  OBVIOUS
<1> USE StreamAssumption
<1>0. pc \in [Callers -> {"idle", "check", "preclose", "spawn", "publish", "input",
                         "write", "read", "fail", "panicked"}]
  BY DEF TypeOK, CallerTypeOK
<1>1. ASSUME NEW c \in Callers, Begin(c) PROVE FieldsInv'
  <2>1. /\ UNCHANGED driver
        /\ pc[c] = "idle" /\ pc' = [pc EXCEPT ![c] = "check"]
        /\ n' = [n EXCEPT ![c] = @ + 1]
    BY <1>1 DEF Begin, Goto
  <2>2. \A d \in Callers : pc'[d] = "publish" <=> pc[d] = "publish"
    BY <1>0, <2>1
  <2>3. \A d \in Callers : pc[d] = "publish" => n'[d] = n[d]
    BY <2>1 DEF TypeOK, CallerTypeOK
  <2> QED BY <2>1, <2>2, <2>3, FieldsUntouched
<1>2. ASSUME NEW c \in Callers, Exec(c) PROVE FieldsInv'
  <2>1. CASE Check(c) \/ SpawnFails(c) \/ Input(c) \/ InputFails(c) \/ Write(c) \/ Flushed(c)
             \/ ReadLine(c) \/ ReadFails(c)
    <3>1. UNCHANGED <<driver, n>>
      BY <2>1 DEF Check, SpawnFails, Input, InputFails, Write, Flushed, ReadLine, ReadFails
    <3>2. \A d \in Callers : pc'[d] = "publish" <=> pc[d] = "publish"
      BY <1>0, <2>1 DEF Check, SpawnFails, Input, InputFails, Write, Flushed, ReadLine,
                        ReadFails, Return, Goto
    <3> QED BY <3>1, <3>2, FieldsUntouched
  <2>2. CASE PreClose(c) \/ FailClose(c)
    <3>1. CloseDriver /\ UNCHANGED <<mx, pipes, n>>
      BY <2>2 DEF PreClose, FailClose
    <3>2. \A d \in Callers : pc'[d] = "publish" <=> pc[d] = "publish"
      BY <1>0, <2>2 DEF PreClose, FailClose, Return, Goto
    <3> QED BY <3>1, <3>2, FieldsClosed
  <2>3. CASE Spawn(c)
    <3>1. /\ mx = Nil /\ mx' = c /\ cmd' = Current(c) /\ UNCHANGED n
          /\ pc[c] = "spawn" /\ pc' = [pc EXCEPT ![c] = "publish"]
      BY <2>3 DEF Spawn, Goto
    <3>2. \A d \in Callers : pc'[d] = "publish" <=> mx' = d
      BY <1>0, <3>1 DEF FieldsInv
    <3> QED BY <3>1, <3>2 DEF FieldsInv, FieldsAgree, Current
  <2>4. CASE Publish(c)
    <3>1. /\ pc[c] = "publish" /\ pc' = [pc EXCEPT ![c] = "input"]
          /\ mx' = Nil /\ pipes' = Current(c) /\ UNCHANGED <<cmd, n>>
      BY <2>4 DEF Publish, Goto
    <3>2. mx = c /\ cmd = Current(c)
      BY <3>1 DEF FieldsInv
    <3>3. \A d \in Callers : pc'[d] = "publish" <=> mx' = d
      BY <1>0, <3>1, <3>2 DEF FieldsInv
    <3> QED BY <3>1, <3>2, <3>3 DEF FieldsInv, FieldsAgree
  <2> QED BY <1>2, <2>1, <2>2, <2>3, <2>4 DEF Exec
<1>3. CASE \E x \in Calls : Cancel(x) \/ Process(x)
  <2>1. UNCHANGED <<driver, pc, n>>
    BY <1>3 DEF Cancel, Process, ContextKill, Crash, Reap, ChildRead, caller
  <2> QED BY <2>1, FieldsUntouched
<1>4. CASE Close
  <2>1. CloseDriver /\ UNCHANGED <<mx, pipes, n, pc>>
    BY <1>4 DEF Close, caller
  <2> QED BY <2>1, FieldsClosed
<1>5. CASE UNCHANGED vars
  BY <1>5, FieldsUntouched DEF vars, caller
<1> QED BY <1>1, <1>2, <1>3, <1>4, <1>5 DEF Next

\* Whenever the mutex is free, a driver that has a process has its pipes, with
\* any number of overlapping Execs: the mutex of establish and Close is enough
\* to keep the fields together (but not the callers that read them without it).
THEOREM FieldsStayTogether == Spec => []FieldsAgree
<1>1. Init => FieldsInv
  BY StreamAssumption DEF Init, FieldsInv, FieldsAgree
<1>2. TypeOK /\ FieldsInv /\ [Next]_vars => FieldsInv'
  BY StepFieldsInv
<1>3. FieldsInv => FieldsAgree
  BY DEF FieldsInv
<1> QED BY <1>1, <1>2, <1>3, TypeCorrect, PTL DEF Spec

------------------------------------------------------------------------------
(* One Exec at a time.  The check of d.cmd and the critical sections of     *)
(* establish are apart; what keeps a process from being forgotten between   *)
(* them is that nobody else is in Exec.                                     *)
SerialInv ==
  /\ \A c, d \in Callers : pc[c] # "idle" /\ pc[d] # "idle" => c = d
  /\ \A c \in Callers : pc[c] \in {"preclose", "spawn"} => cmd = Nil
  /\ NoOrphan

\* Close forgets no process that runs.
LEMMA CloseLeavesNone ==
  ASSUME TypeOK, NoOrphan, CloseDriver
  PROVE  cmd' = Nil /\ \A p \in Calls : state'[p] # "running"
  <1>1. CASE cmd = Nil
    BY <1>1, StreamAssumption DEF CloseDriver, NoOrphan
  <1>2. CASE cmd # Nil
    <2>1. state' = [state EXCEPT ![cmd] = IF state[cmd] = "running" THEN "closed"
                                                                    ELSE state[cmd]]
      BY <1>2 DEF CloseDriver, ProcessEnds
    <2> QED BY <1>2, <2>1 DEF TypeOK, DriverTypeOK, ProcessTypeOK, NoOrphan, CloseDriver
  <1> QED BY <1>1, <1>2

\* What of SerialInv speaks of the callers survives every step.
LEMMA StepOneCaller ==
  ASSUME ~Concurrent, TypeOK, [Next]_vars,
         \A c, d \in Callers : pc[c] # "idle" /\ pc[d] # "idle" => c = d
  PROVE  \A c, d \in Callers : pc'[c] # "idle" /\ pc'[d] # "idle" => c = d
<1>0. pc \in [Callers -> {"idle", "check", "preclose", "spawn", "publish", "input",
                         "write", "read", "fail", "panicked"}]
  BY DEF TypeOK, CallerTypeOK
<1>1. ASSUME NEW c \in Callers, Begin(c)
      PROVE  \A a, b \in Callers : pc'[a] # "idle" /\ pc'[b] # "idle" => a = b
  BY <1>0, <1>1 DEF Begin, Goto
<1>2. ASSUME NEW c \in Callers, Exec(c)
      PROVE  \A a, b \in Callers : pc'[a] # "idle" /\ pc'[b] # "idle" => a = b
  <2>1. pc[c] # "idle" /\ \A d \in Callers \ {c} : pc'[d] = pc[d]
    BY <1>0, <1>2 DEF Exec, Check, PreClose, Spawn, SpawnFails, Publish, Input, InputFails,
                      Write, Flushed, ReadLine, ReadFails, FailClose, Goto, Return
  <2> QED BY <2>1
<1>3. CASE UNCHANGED pc
  BY <1>3
<1>4. CASE (\E x \in Calls : Cancel(x) \/ Process(x)) \/ Close \/ UNCHANGED vars
  BY <1>3, <1>4 DEF Cancel, Process, ContextKill, Crash, Reap, ChildRead, Close, vars, caller
<1> QED BY <1>1, <1>2, <1>4 DEF Next

LEMMA StepSerialInv == ~Concurrent /\ TypeOK /\ SerialInv /\ [Next]_vars => SerialInv'
<1> SUFFICES ASSUME ~Concurrent, TypeOK, SerialInv, [Next]_vars PROVE SerialInv'
  OBVIOUS
<1> DEFINE NoCmd == \A c \in Callers : pc[c] \in {"preclose", "spawn"} => cmd = Nil
<1>0. /\ pc \in [Callers -> {"idle", "check", "preclose", "spawn", "publish", "input",
                            "write", "read", "fail", "panicked"}]
      /\ state \in [Calls -> {"none", "running"} \cup Ended]
  BY DEF TypeOK, CallerTypeOK, ProcessTypeOK
<1> SUFFICES NoCmd' /\ NoOrphan'
  BY StepOneCaller DEF SerialInv
<1>1. ASSUME NEW c \in Callers, Begin(c) PROVE NoCmd' /\ NoOrphan'
  <2>1. UNCHANGED <<cmd, state>> /\ pc' = [pc EXCEPT ![c] = "check"]
    BY <1>1 DEF Begin, Goto, driver, process
  <2> QED BY <1>0, <2>1 DEF SerialInv, NoOrphan
<1>2. ASSUME NEW c \in Callers, Exec(c) PROVE NoCmd' /\ NoOrphan'
  <2>1. CASE Check(c)
    <3>1. /\ UNCHANGED <<cmd, state>>
          /\ pc' = [pc EXCEPT ![c] = IF cmd = Nil THEN "preclose" ELSE "input"]
      BY <2>1 DEF Check, Goto, driver, process
    <3> QED BY <1>0, <3>1 DEF SerialInv, NoOrphan
  <2>2. CASE PreClose(c) \/ FailClose(c)
    <3>1. CloseDriver
      BY <2>2 DEF PreClose, FailClose
    <3> QED BY <3>1, CloseLeavesNone DEF SerialInv, NoOrphan
  <2>3. CASE Spawn(c)
    <3>1. /\ pc[c] = "spawn" /\ pc' = [pc EXCEPT ![c] = "publish"]
          /\ cmd' = Current(c) /\ state' = [state EXCEPT ![Current(c)] = "running"]
      BY <2>3 DEF Spawn, Goto
    <3>2. \A p \in Calls : state[p] # "running"
      BY <3>1, StreamAssumption DEF SerialInv, NoOrphan
    <3>3. NoCmd'
      BY <1>0, <3>1 DEF SerialInv
    <3>4. NoOrphan'
      BY <1>0, <3>1, <3>2 DEF NoOrphan
    <3> QED BY <3>3, <3>4
  <2>4. CASE SpawnFails(c) \/ Publish(c) \/ Input(c) \/ InputFails(c) \/ Write(c)
             \/ Flushed(c) \/ ReadLine(c) \/ ReadFails(c)
    <3>1. UNCHANGED <<cmd, state>>
      BY <2>4 DEF SpawnFails, Publish, Input, InputFails, Write, Flushed, ReadLine, ReadFails,
                  driver, process
    <3>2. \A d \in Callers : pc'[d] \in {"preclose", "spawn"} => pc'[d] = pc[d]
      BY <1>0, <2>4 DEF SpawnFails, Publish, Input, InputFails, Write, Flushed, ReadLine,
                        ReadFails, Goto, Return
    <3> QED BY <3>1, <3>2 DEF SerialInv, NoOrphan
  <2> QED BY <1>2, <2>1, <2>2, <2>3, <2>4 DEF Exec
<1>3. ASSUME NEW x \in Calls, Cancel(x) \/ Process(x) PROVE NoCmd' /\ NoOrphan'
  <2>1. UNCHANGED <<pc, cmd>>
    BY <1>3 DEF Cancel, Process, ContextKill, Crash, Reap, ChildRead, driver, caller
  <2>2. \A p \in Calls : state'[p] = "running" => state[p] = "running"
    BY <1>0, <1>3 DEF Cancel, Process, ContextKill, Crash, Reap, ChildRead, ProcessEnds,
                      process
  <2> QED BY <2>1, <2>2 DEF SerialInv, NoOrphan
<1>4. CASE Close
  BY <1>4, CloseLeavesNone DEF Close, SerialInv, NoOrphan
<1>5. CASE UNCHANGED vars
  BY <1>5 DEF SerialInv, NoOrphan, vars, driver, caller, process
<1> QED BY <1>1, <1>2, <1>3, <1>4, <1>5 DEF Next

LEMMA SerialInvHolds == ~Concurrent => (Spec => [](TypeOK /\ SerialInv))
<1> SUFFICES ASSUME ~Concurrent PROVE Spec => [](TypeOK /\ SerialInv)
  OBVIOUS
<1>1. Init => SerialInv
  BY DEF Init, SerialInv, NoOrphan
<1>2. TypeOK /\ SerialInv /\ [Next]_vars => SerialInv'
  BY StepSerialInv
<1> QED BY <1>1, <1>2, TypeCorrect, PTL DEF Spec

\* One Exec at a time, the only process that runs is the one Close would kill,
\* however often the process died, was closed or was started again.
THEOREM NoProcessForgotten == ~Concurrent => (Spec => []NoOrphan)
<1>1. SerialInv => NoOrphan
  BY DEF SerialInv
<1> QED BY <1>1, SerialInvHolds, PTL

\* One Exec at a time, when Close returns no process is running, also when it
\* came in the middle of an Exec.
THEOREM CloseLeavesNothingRunning == ~Concurrent => (Spec => CloseTerminates)
<1> SUFFICES ASSUME ~Concurrent PROVE Spec => CloseTerminates
  OBVIOUS
<1>1. TypeOK /\ SerialInv /\ [Next]_vars
        => [closes' > closes => \A p \in Calls : state'[p] # "running"]_vars
  <2> SUFFICES ASSUME TypeOK, SerialInv, [Next]_vars, closes' > closes
               PROVE  \A p \in Calls : state'[p] # "running"
    OBVIOUS
  <2>1. closes' # closes
    BY DEF TypeOK, ProcessTypeOK
  <2>2. Close
    BY <2>1 DEF Next, Begin, Exec, Check, PreClose, Spawn, SpawnFails, Publish, Input,
                InputFails, Write, Flushed, ReadLine, ReadFails, FailClose, Cancel, Process,
                ContextKill, Crash, Reap, ChildRead, vars
  <2> QED BY <2>2, CloseLeavesNone DEF Close, SerialInv
<1> QED BY <1>1, SerialInvHolds, PTL DEF Spec, CloseTerminates

==============================================================================
