-------------------------- MODULE ShellStreamRefines --------------------------
(***************************************************************************)
(* ShellStream implements StreamSession: one Exec at a time, with a        *)
(* procedure that has at most one stdin parameter, for any callers and any *)
(* number of calls.  On the way: each call gets its own answer, and a      *)
(* driver that will be used again is drained.                              *)
(***************************************************************************)
EXTENDS ShellStreamProofs

------------------------------------------------------------------------------
(* The conversation of the caller in Exec with the process in d.cmd.       *)

Holds(p, request, partial, answer) ==
  inq[p] = request /\ line[p] = partial /\ outq[p] = answer

Drained(p) == Holds(p, <<>>, {}, <<>>)

\* Where the request of call x is, once k chunks of it were written to p.
Exchange(p, x, k) ==
  \/ k = 0 /\ Drained(p)
  \/ k = 1 /\ Holds(p, << <<x, 1>> >>, {}, <<>>)
  \/ k = 2 /\ Holds(p, << <<x, 1>>, <<x, 2>> >>, {}, <<>>)
  \/ k = 1 /\ Holds(p, <<>>, {<<x, 1>>}, <<>>)
  \/ k = 2 /\ Holds(p, << <<x, 2>> >>, {<<x, 1>>}, <<>>)
  \/ k = 2 /\ Holds(p, <<>>, {}, << {<<x, 1>>} >>)
  \/ state[p] # "running" /\ Drained(p)

Talking == {"write", "read", "fail"}

\* Only the process in d.cmd has open pipes or data in them, and a process
\* that has ended has nothing left to read or to say.
OnlyCmd ==
  /\ \A p \in Calls : rbuf[p] = <<>>
  /\ \A p \in Calls : p # cmd => Drained(p) /\ ~open[p]
  /\ \A p \in Calls : state[p] # "running" => inq[p] = <<>> /\ line[p] = {}

\* A caller that talks does so with the process of d.stdin and d.stdout.
TalksToPipes ==
  \A c \in Callers :
    /\ pc[c] # "panicked"
    /\ pc[c] \in {"input", "write", "read"} => pipes # Nil
    /\ pc[c] \in {"write", "read"} => fd[c] = pipes
    /\ pc[c] = "read" => sent[c] = 2 * Inputs

\* What is in those pipes belongs to that caller's request.
OneRequest ==
  cmd # Nil =>
    /\ (\A c \in Callers : pc[c] \notin Talking) => Drained(cmd)
    /\ \A c \in Callers : pc[c] \in {"write", "read"} => Exchange(cmd, Current(c), sent[c])

ExchangeInv == OnlyCmd /\ TalksToPipes /\ OneRequest

\* A call has an outcome once its caller is back, and the line it was given
\* is made of the only value of its request.
LedgerInv ==
  /\ \A c \in Callers : pc[c] = "idle" <=> n[c] = 0 \/ result[Current(c)] # "none"
  /\ \A x \in Calls : ~Begun(x) => result[x] = "none"
  /\ \A x \in Calls : reply[x] = IF result[x] = "ok" THEN {<<x, 1>>} ELSE {}

------------------------------------------------------------------------------
(* Lemmas                                                                  *)

PCs == {"idle", "check", "preclose", "spawn", "publish", "input", "write", "read", "fail",
        "panicked"}

LEMMA PCType == TypeOK => pc \in [Callers -> PCs]
  BY DEF TypeOK, CallerTypeOK, PCs

\* The pipes a talking caller uses are those of the process in d.cmd.
LEMMA SamePipes ==
  ASSUME TypeOK, FieldsInv, SerialInv, ExchangeInv,
         NEW c \in Callers, pc[c] \in {"input", "write", "read"}
  PROVE  /\ pipes \in Calls
         /\ cmd # Nil => pipes = cmd
         /\ pc[c] # "input" => fd[c] = pipes
  <1>1. mx = Nil
    BY DEF TypeOK, DriverTypeOK, FieldsInv, SerialInv
  <1> QED BY <1>1 DEF TypeOK, DriverTypeOK, FieldsInv, FieldsAgree, ExchangeInv, TalksToPipes

\* Nobody else talks, so nobody races for the buffer.
LEMMA NoRace ==
  ASSUME SerialInv, NEW c \in Callers, pc[c] = "read"
  PROVE  ~RacingFor(c)
  BY DEF SerialInv, RacingFor

\* Close leaves nothing in any pipe.
LEMMA CloseDrains ==
  ASSUME TypeOK, NoOrphan, OnlyCmd, CloseDriver
  PROVE  /\ cmd' = Nil
         /\ OnlyCmd'
  <1>1. CASE cmd = Nil
    BY <1>1 DEF CloseDriver, OnlyCmd, Drained, Holds, data
  <1>2. CASE cmd # Nil
    <2> DEFINE how == IF state[cmd] = "running" THEN "closed" ELSE state[cmd]
    <2>1. /\ ProcessEnds(cmd, how) /\ PipesClose(cmd)
          /\ rbuf' = rbuf /\ cmd' = Nil
      BY <1>2 DEF CloseDriver
    <2> HIDE DEF how
    <2>2. \A p \in Calls : Drained(p)' /\ ~open'[p]
      BY <1>2, <2>1 DEF ProcessEnds, PipesClose, OnlyCmd, Drained, Holds, TypeOK,
                        ProcessTypeOK, DataTypeOK
    <2> QED BY <2>1, <2>2 DEF OnlyCmd, Drained, Holds
  <1> QED BY <1>1, <1>2

\* What a caller that reads finds in the pipe: the answer to its own request.
LEMMA AnswerRead ==
  ASSUME Inputs \in {0, 1}, TypeOK, FieldsInv, SerialInv, ExchangeInv,
         NEW c \in Callers, ReadLine(c)
  PROVE  /\ fd[c] = cmd /\ cmd \in Calls
         /\ pc[c] = "read"
         /\ Available(cmd) = << {<<Current(c), 1>>} >>
         /\ outq[cmd] = << {<<Current(c), 1>>} >>
         /\ inq[cmd] = <<>> /\ line[cmd] = {}
  <1>1. pc[c] = "read" /\ Available(fd[c]) # <<>>
    BY DEF ReadLine
  <1>2. fd[c] = pipes /\ pipes \in Calls
    BY <1>1, SamePipes
  <1>3. Available(fd[c]) = outq[fd[c]]
    BY <1>2 DEF Available, ExchangeInv, OnlyCmd
  <1>4. fd[c] = cmd
    BY <1>1, <1>2, <1>3 DEF ExchangeInv, OnlyCmd, Drained, Holds
  <1>5. cmd # Nil
    BY <1>2, <1>4, StreamAssumption
  <1>6. Exchange(cmd, Current(c), sent[c])
    BY <1>1, <1>5 DEF ExchangeInv, OneRequest
  <1>7. outq[cmd] # <<>>
    BY <1>1, <1>3, <1>4
  <1>8. Holds(cmd, <<>>, {}, << {<<Current(c), 1>>} >>)
    BY <1>6, <1>7 DEF Exchange, Drained, Holds
  <1> QED BY <1>1, <1>2, <1>3, <1>4, <1>8 DEF Holds

LEMMA AnswerGiven ==
  ASSUME Inputs \in {0, 1}, TypeOK, FieldsInv, SerialInv, ExchangeInv,
         NEW c \in Callers, ReadLine(c)
  PROVE  Head(Available(fd[c])) = {<<Current(c), 1>>}
  <1>1. Available(fd[c]) = << {<<Current(c), 1>>} >>
    BY AnswerRead
  <1> QED BY <1>1

\* A process that runs is the one in d.cmd.
LEMMA RunningIsCmd ==
  ASSUME NoOrphan, NEW p \in Calls, state[p] = "running"
  PROVE  p = cmd /\ cmd # Nil
  BY StreamAssumption DEF NoOrphan

------------------------------------------------------------------------------
(* Every step keeps ExchangeInv.                                           *)

LEMMA StepOnlyCmd ==
  ASSUME Inputs \in {0, 1}, TypeOK, FieldsInv, SerialInv, ExchangeInv, [Next]_vars
  PROVE  OnlyCmd'
<1> USE StreamAssumption
<1>0. NoOrphan /\ OnlyCmd
  BY DEF SerialInv, ExchangeInv
<1>a. /\ state \in [Calls -> {"none", "running"} \cup Ended] /\ open \in [Calls -> BOOLEAN]
      /\ inq \in [Calls -> Seq(Chunks)] /\ line \in [Calls -> SUBSET Chunks]
      /\ outq \in [Calls -> Seq(SUBSET Chunks)] /\ rbuf \in [Calls -> Seq(SUBSET Chunks)]
  BY DEF TypeOK, ProcessTypeOK, DataTypeOK
<1>1. ASSUME UNCHANGED <<cmd, state, open, data>> PROVE OnlyCmd'
  BY <1>0, <1>1 DEF OnlyCmd, Drained, Holds, data
<1>2. ASSUME NEW c \in Callers, Exec(c) PROVE OnlyCmd'
  <2>1. CASE Check(c) \/ SpawnFails(c) \/ Publish(c) \/ Input(c) \/ InputFails(c) \/ Flushed(c)
             \/ ReadFails(c)
    BY <1>1, <2>1 DEF Check, SpawnFails, Publish, Input, InputFails, Flushed, ReadFails, driver,
                      process
  <2>2. CASE PreClose(c) \/ FailClose(c)
    BY <1>0, <2>2, CloseDrains DEF PreClose, FailClose
  <2>3. CASE Spawn(c)
    <3>1. /\ pc[c] = "spawn" /\ cmd' = Current(c) /\ UNCHANGED data
          /\ state' = [state EXCEPT ![Current(c)] = "running"]
          /\ open' = [open EXCEPT ![Current(c)] = TRUE]
      BY <2>3 DEF Spawn, Goto
    <3>2. cmd = Nil
      BY <3>1 DEF SerialInv
    <3> QED BY <1>0, <1>a, <3>1, <3>2 DEF OnlyCmd, Drained, Holds, data
  <2>4. CASE Write(c)
    <3>1. CASE UNCHANGED data
      BY <1>1, <2>4, <3>1 DEF Write, driver, process
    <3>2. CASE ~UNCHANGED data
      <4> DEFINE p == fd[c]
      <4>1. /\ open[p] /\ state[p] = "running" /\ p # Nil
            /\ inq' = [inq EXCEPT ![p] = Append(@, <<Current(c), sent[c] + 1>>)]
            /\ UNCHANGED <<line, outq, rbuf, cmd, state, open>>
        BY <2>4, <3>2 DEF Write, driver, process
      <4>2. p \in Calls
        BY <4>1 DEF TypeOK, CallerTypeOK
      <4>3. p = cmd
        BY <1>0, <4>1, <4>2, RunningIsCmd
      <4>4. \A q \in Calls \ {p} : inq'[q] = inq[q]
        BY <1>a, <4>1
      <4> HIDE DEF p
      <4> QED BY <1>0, <4>1, <4>2, <4>3, <4>4 DEF OnlyCmd, Drained, Holds
    <3> QED BY <3>1, <3>2
  <2>5. CASE ReadLine(c)
    <3>1. /\ fd[c] = cmd /\ cmd \in Calls /\ pc[c] = "read"
          /\ Available(cmd) = << {<<Current(c), 1>>} >>
      BY <2>5, AnswerRead
    <3>2. /\ rbuf' = [rbuf EXCEPT ![cmd] = Tail(Available(cmd))]
          /\ \E o : outq' = [outq EXCEPT ![cmd] = o]
          /\ UNCHANGED <<cmd, state, open, inq, line>>
      BY <2>5, <3>1, NoRace DEF ReadLine, driver, process
    <3>3. Tail(Available(cmd)) = <<>>
      BY <3>1
    <3> QED BY <1>0, <1>a, <3>1, <3>2, <3>3 DEF OnlyCmd, Drained, Holds
  <2> QED BY <1>2, <2>1, <2>2, <2>3, <2>4, <2>5 DEF Exec
<1>3. ASSUME NEW p \in Calls, Process(p) PROVE OnlyCmd'
  <2>1. CASE ContextKill(p) \/ Crash(p)
    BY <1>0, <1>a, <2>1 DEF ContextKill, Crash, ProcessEnds, OnlyCmd, Drained, Holds, driver
  <2>2. CASE Reap(p)
    BY <1>0, <1>a, <2>2 DEF Reap, PipesClose, OnlyCmd, Drained, Holds, driver
  <2>3. CASE ChildRead(p)
    <3>1. /\ state[p] = "running" /\ UNCHANGED <<cmd, state, open, rbuf>>
          /\ \A q \in Calls \ {p} : inq'[q] = inq[q] /\ line'[q] = line[q] /\ outq'[q] = outq[q]
      BY <1>a, <2>3 DEF ChildRead, driver, process
    <3>2. p = cmd
      BY <1>0, <3>1, RunningIsCmd
    <3> QED BY <1>0, <3>1, <3>2 DEF OnlyCmd, Drained, Holds
  <2> QED BY <1>3, <2>1, <2>2, <2>3 DEF Process
<1>4. CASE Close
  BY <1>0, <1>4, CloseDrains DEF Close
<1>5. CASE (\E c \in Callers : Begin(c)) \/ (\E x \in Calls : Cancel(x)) \/ UNCHANGED vars
  BY <1>1, <1>5 DEF Begin, Cancel, vars, driver, process
<1> QED BY <1>2, <1>3, <1>4, <1>5 DEF Next

LEMMA StepTalks ==
  ASSUME Inputs \in {0, 1}, TypeOK, FieldsInv, SerialInv, ExchangeInv, [Next]_vars
  PROVE  TalksToPipes'
<1> USE StreamAssumption, PCType DEF PCs
<1>0. TalksToPipes
  BY DEF ExchangeInv
<1>a. /\ fd \in [Callers -> Calls \cup {Nil}] /\ sent \in [Callers -> 0..(2 * Inputs)]
      /\ pipes \in Calls \cup {Nil}
  BY DEF TypeOK, CallerTypeOK, DriverTypeOK
<1>1. ASSUME NEW c \in Callers, Begin(c) PROVE TalksToPipes'
  BY <1>0, <1>1 DEF Begin, Goto, TalksToPipes, driver
<1>2. ASSUME NEW c \in Callers, Exec(c) PROVE TalksToPipes'
  <2>0. \A d \in Callers \ {c} : pc[d] = "idle"
    BY <1>2 DEF SerialInv, Exec, Check, PreClose, Spawn, SpawnFails, Publish, Input, InputFails,
                Write, Flushed, ReadLine, ReadFails, FailClose, Goto
  <2>1. CASE Check(c)
    <3>1. /\ pc' = [pc EXCEPT ![c] = IF cmd = Nil THEN "preclose" ELSE "input"]
          /\ pc[c] = "check" /\ UNCHANGED <<pipes, fd, sent>>
      BY <2>1 DEF Check, Goto, driver
    <3>2. mx = Nil
      BY <2>0, <3>1 DEF FieldsInv, TypeOK, DriverTypeOK
    <3>3. cmd # Nil => pipes # Nil
      BY <3>2 DEF FieldsInv, FieldsAgree
    <3> QED BY <1>0, <3>1, <3>3 DEF TalksToPipes
  <2>2. CASE SpawnFails(c) \/ FailClose(c) \/ ReadLine(c)
    BY <1>0, <1>a, <2>0, <2>2 DEF SpawnFails, FailClose, ReadLine, Return, TalksToPipes, driver
  <2>3. CASE PreClose(c)
    BY <1>0, <1>a, <2>0, <2>3 DEF PreClose, Return, Goto, TalksToPipes
  <2>4. CASE Spawn(c) \/ InputFails(c)
    BY <1>0, <2>0, <2>4 DEF Spawn, InputFails, Goto, TalksToPipes, driver
  <2>5. CASE Publish(c)
    <3>1. pc[c] = "publish" /\ pc' = [pc EXCEPT ![c] = "input"] /\ pipes' = Current(c)
      BY <2>5 DEF Publish, Goto
    <3>2. Current(c) \in Calls
      BY <3>1, CurrentIsCall
    <3> QED BY <2>0, <3>1, <3>2 DEF TalksToPipes
  <2>6. CASE Input(c)
    BY <1>0, <1>a, <2>0, <2>6 DEF Input, Goto, TalksToPipes, driver
  <2>7. CASE Write(c)
    <3>1. pc[c] = "write" /\ UNCHANGED <<pipes, fd>>
      BY <2>7 DEF Write, Goto, driver
    <3>2. fd[c] # Nil
      BY <1>0, <3>1 DEF TalksToPipes
    <3>3. pc' = [pc EXCEPT ![c] = "write"] \/ pc' = [pc EXCEPT ![c] = "fail"]
      BY <2>7, <3>2 DEF Write, Goto
    <3> QED BY <1>0, <2>0, <3>1, <3>3 DEF TalksToPipes
  <2>8. CASE Flushed(c)
    BY <1>0, <1>a, <2>0, <2>8 DEF Flushed, Goto, TalksToPipes, driver
  <2>9. CASE ReadFails(c)
    <3>1. UNCHANGED <<pipes, fd, sent>>
      BY <2>9 DEF ReadFails, driver
    <3>2. fd[c] = Nil => pc[c] # "read"
      BY <1>0 DEF TalksToPipes
    <3>3. pc' = [pc EXCEPT ![c] = "fail"]
      BY <2>9, <3>2 DEF ReadFails, Goto
    <3> QED BY <1>0, <2>0, <3>1, <3>3 DEF TalksToPipes
  <2> QED BY <1>2, <2>1, <2>2, <2>3, <2>4, <2>5, <2>6, <2>7, <2>8, <2>9 DEF Exec
<1>3. CASE UNCHANGED <<pc, pipes, fd, sent>>
  BY <1>0, <1>3 DEF TalksToPipes
<1>4. CASE (\E x \in Calls : Cancel(x) \/ Process(x)) \/ Close \/ UNCHANGED vars
  BY <1>3, <1>4 DEF Cancel, Process, ContextKill, Crash, Reap, ChildRead, Close, vars, driver,
                    caller
<1> QED BY <1>1, <1>2, <1>4 DEF Next

LEMMA AppendTwo ==
  ASSUME NEW e, NEW f
  PROVE  Append(<<>>, e) = <<e>> /\ Append(<<e>>, f) = <<e, f>>
  <1>1. <<>> \in Seq({e, f}) /\ <<e>> \in Seq({e, f}) /\ <<e, f>> \in Seq({e, f})
    OBVIOUS
  <1>2. Append(<<>>, e) \in Seq({e, f}) /\ Append(<<e>>, f) \in Seq({e, f})
    BY <1>1, AppendProperties
  <1>3. Len(Append(<<e>>, f)) = 2 /\ Append(<<e>>, f)[1] = e /\ Append(<<e>>, f)[2] = f
    BY <1>1, AppendProperties
  <1>4. Len(Append(<<>>, e)) = 1 /\ Append(<<>>, e)[1] = e
    BY <1>1, AppendProperties
  <1>5. Append(<<>>, e) = <<e>>
    BY <1>1, <1>2, <1>4, SeqEqual
  <1>6. Append(<<e>>, f) = <<e, f>>
    <2> DEFINE s == Append(<<e>>, f)
               t == <<e, f>>
    <2>1. Len(t) = 2 /\ t[1] = e /\ t[2] = f
      OBVIOUS
    <2>2. Len(s) = Len(t) /\ \A i \in 1..Len(s) : s[i] = t[i]
      <3> HIDE DEF s, t
      <3>1. Len(s) = 2 /\ s[1] = e /\ s[2] = f
        BY <1>3 DEF s
      <3>2. \A i \in 1..2 : i = 1 \/ i = 2
        OBVIOUS
      <3> QED BY <2>1, <3>1, <3>2
    <2>3. s \in Seq({e, f}) /\ t \in Seq({e, f})
      BY <1>1, <1>2
    <2> HIDE DEF s, t
    <2>4. s = t
      BY <2>2, <2>3, SeqEqual
    <2> QED BY <2>4 DEF s, t
  <1> QED BY <1>5, <1>6

\* One chunk is written: the request grows by it.
LEMMA WriteExchange ==
  ASSUME Inputs \in {0, 1}, TypeOK, FieldsInv, SerialInv, ExchangeInv,
         NEW c \in Callers, Write(c), ~UNCHANGED data
  PROVE  /\ fd[c] = cmd /\ cmd \in Calls
         /\ pc'[c] = "write" /\ UNCHANGED <<n, state>>
         /\ Exchange(cmd, Current(c), sent[c])'
  <1> DEFINE p == fd[c]
             x == Current(c)
             k == sent[c]
  <1>0. /\ sent \in [Callers -> 0..(2 * Inputs)] /\ inq \in [Calls -> Seq(Chunks)]
        /\ pc \in [Callers -> PCs]
    BY PCType DEF TypeOK, CallerTypeOK, DataTypeOK
  <1>1. /\ k < 2 * Inputs /\ p # Nil /\ open[p] /\ state[p] = "running"
        /\ pc[c] = "write" /\ pc' = [pc EXCEPT ![c] = "write"]
        /\ sent' = [sent EXCEPT ![c] = @ + 1]
        /\ inq' = [inq EXCEPT ![p] = Append(@, <<x, k + 1>>)]
        /\ UNCHANGED <<line, outq, n, state>>
    BY DEF Write, Goto, driver, process
  <1>2. p \in Calls
    BY <1>1 DEF TypeOK, CallerTypeOK
  <1>3. p = cmd /\ cmd # Nil
    BY <1>1, <1>2, RunningIsCmd DEF SerialInv
  <1>4. Exchange(p, x, k)
    BY <1>1, <1>3 DEF ExchangeInv, OneRequest
  <1>5. k \in {0, 1} /\ sent'[c] = k + 1
    BY <1>0, <1>1
  <1>6. inq'[p] = Append(inq[p], <<x, k + 1>>) /\ line'[p] = line[p] /\ outq'[p] = outq[p]
    BY <1>0, <1>1, <1>2
  <1>7. x' = x /\ p' = p
    BY <1>1 DEF Current, Write
  <1> HIDE DEF p, x, k
  <1>8. \/ k = 0 /\ inq[p] = <<>> /\ line[p] = {} /\ outq[p] = <<>>
        \/ k = 1 /\ inq[p] = << <<x, 1>> >> /\ line[p] = {} /\ outq[p] = <<>>
        \/ k = 1 /\ inq[p] = <<>> /\ line[p] = {<<x, 1>>} /\ outq[p] = <<>>
    BY <1>1, <1>4, <1>5 DEF Exchange, Drained, Holds
  <1>9. \/ k + 1 = 1 /\ inq'[p] = << <<x, 1>> >> /\ line'[p] = {} /\ outq'[p] = <<>>
        \/ k + 1 = 2 /\ inq'[p] = << <<x, 1>>, <<x, 2>> >> /\ line'[p] = {} /\ outq'[p] = <<>>
        \/ k + 1 = 2 /\ inq'[p] = << <<x, 2>> >> /\ line'[p] = {<<x, 1>>} /\ outq'[p] = <<>>
    <2>1. \A e, f : Append(<<>>, e) = <<e>> /\ Append(<<e>>, f) = <<e, f>>
      BY AppendTwo
    <2>2. /\ k = 0 => k + 1 = 1 /\ <<x, k + 1>> = <<x, 1>>
          /\ k = 1 => k + 1 = 2 /\ <<x, k + 1>> = <<x, 2>>
      OBVIOUS
    <2>3. CASE k = 0
      <3>0. inq[p] = <<>> /\ line[p] = {} /\ outq[p] = <<>>
        BY <1>8, <2>3
      <3>1. inq'[p] = Append(<<>>, <<x, 1>>) /\ line'[p] = {} /\ outq'[p] = <<>>
        <4>1. <<x, k + 1>> = <<x, 1>>
          BY <2>3
        <4> QED BY <1>6, <3>0, <4>1
      <3>2. Append(<<>>, <<x, 1>>) = << <<x, 1>> >>
        BY <2>1
      <3> QED BY <2>2, <2>3, <3>1, <3>2
    <2>4. CASE k = 1
      BY <1>6, <1>8, <2>1, <2>2, <2>4, ZenonT(60)
    <2> QED BY <1>5, <2>3, <2>4
  <1>10. Exchange(p, x, sent[c])'
    BY <1>5, <1>7, <1>9 DEF Exchange, Holds
  <1>11. UNCHANGED cmd
    BY DEF Write, driver
  <1> QED BY <1>0, <1>1, <1>2, <1>3, <1>7, <1>10, <1>11 DEF p, x

\* The child takes a chunk: the request moves on by one stage.
LEMMA ChildExchange ==
  ASSUME TypeOK, NEW p \in Calls, ChildRead(p), NEW x, NEW k, Exchange(p, x, k)
  PROVE  \/ k = 1 /\ Holds(p, <<>>, {<<x, 1>>}, <<>>)'
         \/ k = 2 /\ Holds(p, << <<x, 2>> >>, {<<x, 1>>}, <<>>)'
         \/ k = 2 /\ Holds(p, <<>>, {}, << {<<x, 1>>} >>)'
  <1> DEFINE chunk == Head(inq[p])
  <1>1. /\ state[p] = "running" /\ inq[p] # <<>>
        /\ inq' = [inq EXCEPT ![p] = Tail(@)]
        /\ \/ /\ IsValue(chunk)
              /\ line' = [line EXCEPT ![p] = @ \cup {chunk}]
              /\ UNCHANGED outq
           \/ /\ ~IsValue(chunk)
              /\ line' = [line EXCEPT ![p] = {}]
              /\ outq' = [outq EXCEPT ![p] = IF line[p] = {} THEN @ ELSE Append(@, line[p])]
    BY DEF ChildRead
  <1> HIDE DEF chunk
  <1>2. /\ inq'[p] = Tail(inq[p])
        /\ IsValue(chunk) => line'[p] = line[p] \cup {chunk} /\ outq'[p] = outq[p]
        /\ ~IsValue(chunk) => /\ line'[p] = {}
                              /\ line[p] # {} => outq'[p] = Append(outq[p], line[p])
    BY <1>1 DEF TypeOK, DataTypeOK
  <1>3. chunk = <<x, 1>> => IsValue(chunk)
    BY DEF IsValue
  <1>4. chunk = <<x, 2>> => ~IsValue(chunk)
    BY DEF IsValue
  <1>5. CASE k = 1 /\ Holds(p, << <<x, 1>> >>, {}, <<>>)
    <2>1. chunk = <<x, 1>> /\ inq'[p] = <<>>
      BY <1>2, <1>5 DEF Holds, chunk
    <2> QED BY <1>2, <1>3, <1>5, <2>1 DEF Holds
  <1>6. CASE k = 2 /\ Holds(p, << <<x, 1>>, <<x, 2>> >>, {}, <<>>)
    <2>1. chunk = <<x, 1>> /\ inq'[p] = << <<x, 2>> >>
      BY <1>2, <1>6 DEF Holds, chunk
    <2> QED BY <1>2, <1>3, <1>6, <2>1 DEF Holds
  <1>7. CASE k = 2 /\ Holds(p, << <<x, 2>> >>, {<<x, 1>>}, <<>>)
    <2>1. chunk = <<x, 2>> /\ inq'[p] = <<>>
      BY <1>2, <1>7 DEF Holds, chunk
    <2>2. line'[p] = {} /\ outq'[p] = Append(<<>>, {<<x, 1>>})
      BY <1>2, <1>4, <1>7, <2>1 DEF Holds
    <2> QED BY <1>7, <2>1, <2>2 DEF Holds
  <1> QED BY <1>1, <1>5, <1>6, <1>7 DEF Exchange, Drained, Holds

LEMMA StepOneRequest ==
  ASSUME Inputs \in {0, 1}, TypeOK, FieldsInv, SerialInv, ExchangeInv, [Next]_vars
  PROVE  OneRequest'
<1> USE StreamAssumption, PCType DEF PCs
<1>0. OnlyCmd /\ OneRequest /\ NoOrphan
  BY DEF ExchangeInv, SerialInv
<1>a. /\ cmd \in Calls \cup {Nil}
      /\ state \in [Calls -> {"none", "running"} \cup Ended]
      /\ inq \in [Calls -> Seq(Chunks)] /\ line \in [Calls -> SUBSET Chunks]
      /\ outq \in [Calls -> Seq(SUBSET Chunks)]
      /\ sent \in [Callers -> 0..(2 * Inputs)]
  BY DEF TypeOK, DriverTypeOK, CallerTypeOK, ProcessTypeOK, DataTypeOK
<1>1. ASSUME NEW c \in Callers, Begin(c) PROVE OneRequest'
  <2>1. /\ pc[c] = "idle" /\ pc' = [pc EXCEPT ![c] = "check"]
        /\ \A d \in Callers \ {c} : n'[d] = n[d]
        /\ UNCHANGED <<cmd, sent, state, inq, line, outq>>
    BY <1>1 DEF Begin, Goto, TypeOK, CallerTypeOK, driver, process, data
  <2> QED BY <1>0, <2>1 DEF OneRequest, Exchange, Drained, Holds, Current, Talking
<1>2. ASSUME NEW c \in Callers, Exec(c) PROVE OneRequest'
  <2>0. \A d \in Callers \ {c} : pc[d] = "idle"
    BY <1>2 DEF SerialInv, Exec, Check, PreClose, Spawn, SpawnFails, Publish, Input, InputFails,
                Write, Flushed, ReadLine, ReadFails, FailClose, Goto
  <2>1. CASE Check(c) \/ Publish(c) \/ SpawnFails(c)
    <3>1. /\ pc[c] \notin Talking /\ pc'[c] \notin Talking
          /\ \A d \in Callers \ {c} : pc'[d] = "idle"
          /\ UNCHANGED <<cmd, inq, line, outq>>
      BY <2>0, <2>1 DEF Check, Publish, SpawnFails, Goto, Return, Talking, driver, data
    <3> QED BY <1>0, <2>0, <3>1 DEF OneRequest, Drained, Holds, Talking
  <2>2. CASE PreClose(c) \/ FailClose(c)
    BY <1>0, <2>2, CloseDrains DEF PreClose, FailClose, OneRequest
  <2>3. CASE Spawn(c)
    <3>1. /\ pc[c] = "spawn" /\ pc' = [pc EXCEPT ![c] = "publish"]
          /\ cmd' = Current(c) /\ UNCHANGED <<inq, line, outq>>
      BY <2>3 DEF Spawn, Goto, data
    <3>2. Current(c) \in Calls /\ cmd = Nil
      BY <3>1, CurrentIsCall DEF SerialInv
    <3>3. Drained(Current(c))
      BY <1>0, <3>2 DEF OnlyCmd
    <3> QED BY <2>0, <3>1, <3>3 DEF OneRequest, Drained, Holds
  <2>4. CASE Input(c)
    <3>1. /\ pc[c] = "input" /\ pc' = [pc EXCEPT ![c] = "write"]
          /\ sent' = [sent EXCEPT ![c] = 0] /\ UNCHANGED <<cmd, state, inq, line, outq>>
      BY <2>4 DEF Input, Goto, driver, process, data
    <3>2. cmd # Nil => Drained(cmd)
      BY <1>0, <2>0, <3>1 DEF OneRequest, Talking
    <3>3. sent'[c] = 0
      BY <1>a, <3>1
    <3> QED BY <2>0, <3>1, <3>2, <3>3 DEF OneRequest, Exchange, Drained, Holds, Talking
  <2>5. CASE InputFails(c) \/ ReadFails(c)
    <3>1. pc'[c] \in {"fail", "panicked"} /\ \A d \in Callers \ {c} : pc'[d] = "idle"
      BY <2>0, <2>5 DEF InputFails, ReadFails, Goto
    <3>2. pc'[c] # "panicked"
      BY StepTalks DEF TalksToPipes
    <3> QED BY <3>1, <3>2 DEF OneRequest, Talking
  <2>6. CASE Write(c)
    <3>1. CASE UNCHANGED data
      <4>1. pc'[c] \in {"fail", "panicked"} /\ \A d \in Callers \ {c} : pc'[d] = "idle"
        <5>1. ~(\E e : inq' = [inq EXCEPT ![fd[c]] = Append(@, e)] /\ fd[c] # Nil)
          <6> SUFFICES ASSUME NEW e, inq' = [inq EXCEPT ![fd[c]] = Append(@, e)], fd[c] # Nil
                       PROVE  FALSE
            OBVIOUS
          <6>1. fd[c] \in Calls
            BY DEF TypeOK, CallerTypeOK
          <6>2. inq[fd[c]] = Append(inq[fd[c]], e) /\ inq[fd[c]] \in Seq(Chunks)
            BY <1>a, <3>1, <6>1 DEF data
          <6>3. Len(inq[fd[c]]) = Len(inq[fd[c]]) + 1 /\ Len(inq[fd[c]]) \in Nat
            BY <6>2
          <6> QED BY <6>3
        <5> QED BY <2>0, <2>6, <5>1 DEF Write, Goto
      <4>2. pc'[c] # "panicked"
        BY StepTalks DEF TalksToPipes
      <4> QED BY <4>1, <4>2 DEF OneRequest, Talking
    <3>2. CASE ~UNCHANGED data
      <4>1. /\ cmd \in Calls /\ pc'[c] = "write" /\ UNCHANGED <<n, cmd>>
            /\ Exchange(cmd, Current(c), sent[c])'
            /\ \A d \in Callers \ {c} : pc'[d] = "idle"
        BY <2>0, <2>6, <3>2, WriteExchange DEF Write, Goto, driver
      <4> QED BY <4>1 DEF OneRequest, Talking
    <3> QED BY <3>1, <3>2
  <2>7. CASE Flushed(c)
    <3>1. /\ pc[c] = "write" /\ pc' = [pc EXCEPT ![c] = "read"]
          /\ UNCHANGED <<cmd, n, sent, state, inq, line, outq>>
      BY <2>7 DEF Flushed, Goto, driver, process, data
    <3> QED BY <1>0, <2>0, <3>1 DEF OneRequest, Exchange, Drained, Holds, Current, Talking
  <2>8. CASE ReadLine(c)
    <3>1. /\ fd[c] = cmd /\ cmd \in Calls /\ inq[cmd] = <<>> /\ line[cmd] = {}
          /\ rbuf[cmd] = <<>>
      BY <1>0, <2>8, AnswerRead DEF OnlyCmd
    <3>2. /\ outq'[cmd] = <<>> /\ UNCHANGED <<cmd, inq, line>>
          /\ \A d \in Callers : pc'[d] = "idle"
      BY <1>a, <2>0, <2>8, <3>1 DEF ReadLine, Return, driver
    <3> QED BY <3>1, <3>2 DEF OneRequest, Drained, Holds
  <2> QED BY <1>2, <2>1, <2>2, <2>3, <2>4, <2>5, <2>6, <2>7, <2>8 DEF Exec
<1>3. ASSUME NEW p \in Calls, Process(p) PROVE OneRequest'
  <2>0. UNCHANGED <<cmd, pc, n, sent>>
    BY <1>3 DEF Process, ContextKill, Crash, Reap, ChildRead, driver, caller
  <2>1. CASE ContextKill(p) \/ Crash(p)
    <3>1. p = cmd /\ state'[p] # "running" /\ inq'[p] = <<>> /\ line'[p] = {} /\ outq' = outq
      BY <1>0, <1>a, <2>1, RunningIsCmd DEF ContextKill, Crash, ProcessEnds
    <3> QED BY <1>0, <2>0, <3>1 DEF OneRequest, Exchange, Drained, Holds, Current, Talking
  <2>2. CASE Reap(p)
    <3>1. /\ state[p] # "running" /\ UNCHANGED <<state, inq, line>>
          /\ outq' = [outq EXCEPT ![p] = <<>>]
      BY <2>2 DEF Reap, PipesClose, Ended
    <3>2. inq[p] = <<>> /\ line[p] = {} /\ outq'[p] = <<>> /\ \A q \in Calls \ {p} : outq'[q] = outq[q]
      BY <1>0, <1>a, <3>1 DEF OnlyCmd
    <3> QED BY <1>0, <1>a, <2>0, <3>1, <3>2 DEF OneRequest, Exchange, Drained, Holds, Current,
                                               Talking
  <2>3. CASE ChildRead(p)
    <3>1. p = cmd /\ cmd # Nil /\ inq[p] # <<>>
      BY <1>0, <2>3, RunningIsCmd DEF ChildRead
    <3>2. ~ \A c \in Callers : pc[c] \notin Talking
      BY <1>0, <3>1 DEF OneRequest, Drained, Holds
    <3>3. ASSUME NEW c \in Callers, pc[c] \in {"write", "read"}
          PROVE  Exchange(cmd, Current(c), sent[c])'
      <4>1. PICK x, k : x = Current(c) /\ k = sent[c]
        OBVIOUS
      <4>2. Exchange(p, x, k) /\ Current(c)' = x /\ sent'[c] = k
        BY <1>0, <2>0, <3>1, <3>3, <4>1 DEF OneRequest, Current
      <4>3. \/ k = 1 /\ Holds(p, <<>>, {<<x, 1>>}, <<>>)'
            \/ k = 2 /\ Holds(p, << <<x, 2>> >>, {<<x, 1>>}, <<>>)'
            \/ k = 2 /\ Holds(p, <<>>, {}, << {<<x, 1>>} >>)'
        BY <2>3, <4>2, ChildExchange
      <4>4. Exchange(p, x, k)'
        BY <4>3 DEF Exchange, Holds
      <4> QED BY <2>0, <3>1, <4>2, <4>4
    <3> QED BY <2>0, <3>2, <3>3 DEF OneRequest
  <2> QED BY <1>3, <2>1, <2>2, <2>3 DEF Process
<1>4. CASE Close
  BY <1>0, <1>4, CloseDrains DEF Close, OneRequest
<1>5. CASE (\E x \in Calls : Cancel(x)) \/ UNCHANGED vars
  <2>1. UNCHANGED <<cmd, pc, n, sent, state, inq, line, outq>>
    BY <1>5 DEF Cancel, vars, driver, caller, process, data
  <2> QED BY <1>0, <2>1 DEF OneRequest, Exchange, Drained, Holds, Current
<1> QED BY <1>1, <1>2, <1>3, <1>4, <1>5 DEF Next

------------------------------------------------------------------------------
(* Every step keeps LedgerInv.                                             *)

LEMMA LedgerSame ==
  ASSUME LedgerInv, UNCHANGED <<n, result, reply>>,
         \A c \in Callers : pc'[c] = "idle" <=> pc[c] = "idle"
  PROVE  LedgerInv'
  BY DEF LedgerInv, Begun, Current

\* A call that returns is entered once, with its outcome.
LEMMA LedgerReturn ==
  ASSUME TypeOK, LedgerInv, NEW c \in Callers, pc[c] # "idle",
         NEW outcome \in {"ok", "err"}, Return(c, outcome), UNCHANGED n,
         reply'[Current(c)] = IF outcome = "ok" THEN {<<Current(c), 1>>} ELSE {},
         \A x \in Calls \ {Current(c)} : reply'[x] = reply[x]
  PROVE  LedgerInv'
  <1>1. /\ pc'[c] = "idle" /\ \A d \in Callers \ {c} : pc'[d] = pc[d]
        /\ result'[Current(c)] = outcome
        /\ \A x \in Calls \ {Current(c)} : result'[x] = result[x]
        /\ outcome # "none"
    BY PCType, CurrentIsCall DEF Return, TypeOK, CallerTypeOK
  <1>2. \A d \in Callers : pc'[d] = "idle" <=> n'[d] = 0 \/ result'[Current(d)'] # "none"
    <2>1. \A d \in Callers : Current(d)' = Current(d) /\ n'[d] = n[d]
      BY DEF Current
    <2>2. \A d \in Callers \ {c} : n[d] # 0 => result'[Current(d)] = result[Current(d)]
      <3>1. \A d \in Callers \ {c} : n[d] # 0 => Current(d) \in Calls \ {Current(c)}
        BY StreamAssumption DEF Current, Calls, TypeOK, CallerTypeOK
      <3> QED BY <1>1, <3>1
    <2>3. \A d \in Callers : pc[d] = "idle" <=> n[d] = 0 \/ result[Current(d)] # "none"
      BY DEF LedgerInv
    <2> QED BY <1>1, <2>1, <2>2, <2>3
  <1>3. \A x \in Calls : ~Begun(x)' => result'[x] = "none"
    <2>1. Begun(Current(c))
      BY DEF Begun, Current, TypeOK, CallerTypeOK
    <2>2. \A x \in Calls : Begun(x)' = Begun(x)
      BY DEF Begun
    <2> QED BY <1>1, <2>1, <2>2 DEF LedgerInv
  <1>4. \A x \in Calls : reply'[x] = IF result'[x] = "ok" THEN {<<x, 1>>} ELSE {}
    BY <1>1 DEF LedgerInv
  <1> QED BY <1>2, <1>3, <1>4 DEF LedgerInv

\* A call that is in progress has no outcome yet.
LEMMA NoReplyYet ==
  ASSUME TypeOK, LedgerInv, NEW c \in Callers, pc[c] # "idle"
  PROVE  Current(c) \in Calls /\ result[Current(c)] = "none" /\ reply[Current(c)] = {}
  BY CurrentIsCall DEF LedgerInv

LEMMA StepLedger ==
  ASSUME Inputs \in {0, 1}, TypeOK, FieldsInv, SerialInv, ExchangeInv, LedgerInv, [Next]_vars
  PROVE  LedgerInv'
<1> USE PCType DEF PCs
<1>1. ASSUME NEW c \in Callers, Begin(c) PROVE LedgerInv'
  <2>1. /\ n[c] < MaxCalls /\ pc[c] = "idle" /\ pc' = [pc EXCEPT ![c] = "check"]
        /\ n' = [n EXCEPT ![c] = @ + 1] /\ UNCHANGED <<result, reply>>
        /\ n \in [Callers -> 0..MaxCalls]
    BY <1>1 DEF Begin, Goto, TypeOK, CallerTypeOK
  <2>2. /\ Current(c)' = <<c, n[c] + 1>> /\ <<c, n[c] + 1>> \in Calls
        /\ ~Begun(<<c, n[c] + 1>>)
    BY <2>1, StreamAssumption DEF Current, Calls, Begun
  <2>3. result'[Current(c)'] = "none" /\ n'[c] # 0
    BY <2>1, <2>2 DEF LedgerInv
  <2>4. \A d \in Callers \ {c} : Current(d)' = Current(d) /\ n'[d] = n[d]
    BY <2>1 DEF Current
  <2>5. \A d \in Callers : pc'[d] = "idle" <=> n'[d] = 0 \/ result'[Current(d)'] # "none"
    BY <2>1, <2>3, <2>4 DEF LedgerInv
  <2>6. \A x \in Calls : ~Begun(x)' => ~Begun(x)
    BY <2>1, StreamAssumption DEF Begun, Calls
  <2> QED BY <2>1, <2>5, <2>6 DEF LedgerInv
<1>2. ASSUME NEW c \in Callers, Exec(c) PROVE LedgerInv'
  <2>0. pc[c] # "idle"
    BY <1>2 DEF Exec, Check, PreClose, Spawn, SpawnFails, Publish, Input, InputFails,
                Write, Flushed, ReadLine, ReadFails, FailClose, Goto
  <2>1. CASE Check(c) \/ Spawn(c) \/ Publish(c) \/ Input(c) \/ InputFails(c) \/ Write(c)
             \/ Flushed(c) \/ ReadFails(c)
    <3>1. UNCHANGED <<n, result, reply>> /\ pc'[c] # "idle"
          /\ \A d \in Callers \ {c} : pc'[d] = pc[d]
      BY <2>1 DEF Check, Spawn, Publish, Input, InputFails, Write, Flushed, ReadFails, Goto
    <3> QED BY <2>0, <3>1, LedgerSame
  <2>2. CASE ReadLine(c)
    <3>1. /\ Return(c, "ok") /\ UNCHANGED n
          /\ reply' = [reply EXCEPT ![Current(c)] = {<<Current(c), 1>>}]
      BY <2>2, AnswerGiven DEF ReadLine
    <3>2. /\ reply'[Current(c)] = {<<Current(c), 1>>}
          /\ \A x \in Calls \ {Current(c)} : reply'[x] = reply[x]
      BY <2>0, <3>1, CurrentIsCall DEF TypeOK, CallerTypeOK
    <3> QED BY <2>0, <3>1, <3>2, LedgerReturn
  <2>3. CASE SpawnFails(c) \/ FailClose(c)
    <3>1. Return(c, "err") /\ UNCHANGED <<n, reply>>
      BY <2>3 DEF SpawnFails, FailClose
    <3> QED BY <2>0, <3>1, NoReplyYet, LedgerReturn
  <2>4. CASE PreClose(c)
    <3>1. cmd = Nil
      BY <2>4 DEF PreClose, SerialInv
    <3>2. Goto(c, "preclose", "spawn") /\ UNCHANGED <<n, result, reply>>
      BY <2>4, <3>1 DEF PreClose, CloseFails
    <3>3. pc'[c] # "idle" /\ \A d \in Callers \ {c} : pc'[d] = pc[d]
      BY <3>2 DEF Goto
    <3> QED BY <2>0, <3>2, <3>3, LedgerSame
  <2> QED BY <1>2, <2>1, <2>2, <2>3, <2>4 DEF Exec
<1>3. CASE (\E x \in Calls : Cancel(x) \/ Process(x)) \/ Close \/ UNCHANGED vars
  <2>1. UNCHANGED <<pc, n, result, reply>>
    BY <1>3 DEF Cancel, Process, ContextKill, Crash, Reap, ChildRead, Close, vars, caller
  <2> QED BY <2>1, LedgerSame
<1> QED BY <1>1, <1>2, <1>3 DEF Next

------------------------------------------------------------------------------
(* The theorems                                                            *)

OneByOne == ~Concurrent /\ Inputs \in {0, 1}

StreamInv == TypeOK /\ FieldsInv /\ SerialInv /\ ExchangeInv /\ LedgerInv

LEMMA StreamInvHolds == OneByOne => (Spec => []StreamInv)
<1> SUFFICES ASSUME OneByOne PROVE Spec => []StreamInv
  OBVIOUS
<1>1. Init => StreamInv
  <2> SUFFICES ASSUME Init PROVE StreamInv
    OBVIOUS
  <2>1. FieldsInv
    BY StreamAssumption DEF Init, FieldsInv, FieldsAgree
  <2>2. SerialInv
    BY DEF Init, SerialInv, NoOrphan
  <2>3. ExchangeInv
    BY DEF Init, ExchangeInv, OnlyCmd, TalksToPipes, OneRequest, Drained, Holds
  <2>4. LedgerInv
    BY DEF Init, LedgerInv
  <2> QED BY <2>1, <2>2, <2>3, <2>4, InitTypeOK DEF StreamInv
<1>2. StreamInv /\ [Next]_vars => StreamInv'
  BY StepTypeOK, StepFieldsInv, StepSerialInv, StepOnlyCmd, StepTalks, StepOneRequest, StepLedger
  DEF StreamInv, OneByOne, ExchangeInv
<1> QED BY <1>1, <1>2, PTL DEF Spec

\* One Exec at a time with at most one stdin parameter, a call that succeeds
\* was given the answer to its own request, whatever answers other calls have
\* left unread, however often the process died and was started again.
THEOREM EachItsOwn == OneByOne => (Spec => []OwnResponse)
<1>1. StreamInv => OwnResponse
  <2> SUFFICES ASSUME StreamInv, NEW x \in Calls, result[x] = "ok"
               PROVE  reply[x] # {} /\ \A chunk \in reply[x] : chunk[1] = x
    BY DEF OwnResponse
  <2>1. reply[x] = {<<x, 1>>}
    BY DEF StreamInv, LedgerInv
  <2>2. \A chunk \in {<<x, 1>>} : chunk[1] = x
    OBVIOUS
  <2> QED BY <2>1, <2>2
<1> QED BY <1>1, StreamInvHolds, PTL

\* Under the same conditions a driver that keeps its process between two calls
\* has nothing in its pipes that the second could take for its own.
THEOREM DrainedBetweenCalls == OneByOne => (Spec => []NoLeftover)
<1>1. StreamInv => NoLeftover
  <2> SUFFICES ASSUME StreamInv, cmd # Nil, \A c \in Callers : ~Busy(c)
               PROVE  inq[cmd] = <<>> /\ line[cmd] = {} /\ outq[cmd] = <<>> /\ rbuf[cmd] = <<>>
    BY DEF NoLeftover
  <2>1. \A c \in Callers : pc[c] \notin Talking
    BY DEF Busy, Talking
  <2>2. cmd \in Calls
    BY DEF StreamInv, TypeOK, DriverTypeOK
  <2> QED BY <2>1, <2>2 DEF StreamInv, ExchangeInv, OneRequest, OnlyCmd, Drained, Holds
<1> QED BY <1>1, StreamInvHolds, PTL

------------------------------------------------------------------------------
(* The refinement: a session is a process in d.cmd.                        *)

\* A caller is inside the abstract call exactly while it is inside Exec.
LEMMA InCallIsBusy ==
  ASSUME TypeOK, LedgerInv, NEW c \in Callers
  PROVE  Session!InCall(c) <=> pc[c] # "idle"
  BY StreamAssumption DEF Session!InCall, Session!Current, LedgerInv, Current, TypeOK, CallerTypeOK

\* Every step of the driver is a step of the session or leaves it alone.
LEMMA StepRefines ==
  ASSUME OneByOne, StreamInv, StreamInv', [Next]_vars
  PROVE  [Session!Next]_Session!sessionVars
<1> DEFINE session == cmd # Nil
           answers == [x \in Calls |-> {chunk[1] : chunk \in reply[x]}]
<1> USE StreamAssumption
<1>0. TypeOK /\ FieldsInv /\ SerialInv /\ ExchangeInv /\ LedgerInv /\ Inputs \in {0, 1}
  BY DEF StreamInv, OneByOne
<1>1. ASSUME (session' <=> session), UNCHANGED <<n, result, reply>>
      PROVE  UNCHANGED Session!sessionVars
  BY <1>1 DEF Session!sessionVars
<1>2. ASSUME NEW c \in Callers, Begin(c) PROVE Session!Next
  <2>1. /\ \A d \in Callers : pc[d] = "idle"
        /\ n[c] < MaxCalls /\ n' = [n EXCEPT ![c] = @ + 1]
        /\ UNCHANGED <<cmd, result, reply>>
    BY <1>2 DEF Begin, OneByOne, driver
  <2>2. \A d \in Callers : ~Session!InCall(d)
    BY <1>0, <2>1, InCallIsBusy
  <2>3. Session!Begin(c)
    BY <2>1, <2>2 DEF Session!Begin
  <2> QED BY <2>3 DEF Session!Next
<1>3. ASSUME NEW c \in Callers, Exec(c) PROVE Session!Next \/ UNCHANGED Session!sessionVars
  <2>0. Session!InCall(c) /\ Session!Current(c) = Current(c)
    <3>1. pc[c] # "idle"
      BY <1>3 DEF Exec, Check, PreClose, Spawn, SpawnFails, Publish, Input, InputFails,
                  Write, Flushed, ReadLine, ReadFails, FailClose, Goto
    <3> QED BY <1>0, <3>1, InCallIsBusy DEF Session!Current, Current
  <2>1. CASE Check(c) \/ Publish(c) \/ Input(c) \/ InputFails(c) \/ Write(c) \/ Flushed(c)
             \/ ReadFails(c)
    <3>1. UNCHANGED <<cmd, n, result, reply>>
      BY <2>1 DEF Check, Publish, Input, InputFails, Write, Flushed, ReadFails, driver
    <3> QED BY <1>1, <3>1
  <2>2. CASE PreClose(c)
    <3>1. cmd = Nil
      BY <1>0, <2>2 DEF PreClose, SerialInv
    <3>2. cmd' = Nil /\ UNCHANGED <<n, result, reply>>
      BY <2>2, <3>1 DEF PreClose, CloseDriver, CloseFails
    <3> QED BY <1>1, <3>1, <3>2
  <2>3. CASE Spawn(c)
    <3>1. pc[c] = "spawn" /\ cmd' = Current(c) /\ UNCHANGED <<n, result, reply>>
      BY <2>3 DEF Spawn, Goto
    <3>2. cmd = Nil /\ Current(c) \in Calls
      BY <1>0, <3>1, CurrentIsCall DEF SerialInv
    <3>3. Session!Open(c)
      BY <2>0, <3>1, <3>2 DEF Session!Open
    <3> QED BY <3>3 DEF Session!Next
  <2>4. CASE SpawnFails(c) \/ FailClose(c)
    <3>1. cmd' = Nil
      <4>1. CASE SpawnFails(c)
        BY <1>0, <4>1 DEF SpawnFails, SerialInv, driver
      <4>2. CASE FailClose(c)
        BY <4>2 DEF FailClose, CloseDriver
      <4> QED BY <2>4, <4>1, <4>2
    <3>2. result' = [result EXCEPT ![Current(c)] = "err"] /\ UNCHANGED <<n, reply>>
      BY <2>4 DEF SpawnFails, FailClose, Return
    <3>3. Session!Fail(c)
      BY <2>0, <3>1, <3>2 DEF Session!Fail
    <3> QED BY <3>3 DEF Session!Next, Session!Return
  <2>5. CASE ReadLine(c)
    <3>1. /\ result' = [result EXCEPT ![Current(c)] = "ok"] /\ UNCHANGED <<n, cmd>>
          /\ reply' = [reply EXCEPT ![Current(c)] = Head(Available(fd[c]))]
      BY <2>5 DEF ReadLine, Return, driver
    <3>2. Head(Available(fd[c])) = {<<Current(c), 1>>}
      BY <1>0, <2>5, AnswerGiven
    <3>3. answers' = [answers EXCEPT ![Current(c)] = {Current(c)}]
      <4>1. reply' \in [Calls -> SUBSET Chunks] /\ reply \in [Calls -> SUBSET Chunks]
        BY DEF StreamInv, TypeOK, CallerTypeOK
      <4>2. ASSUME NEW x \in Calls
            PROVE  answers'[x] = IF x = Current(c) THEN {x} ELSE answers[x]
        <5>1. CASE x = Current(c)
          <6>1. reply'[x] = {<<x, 1>>}
            BY <3>1, <3>2, <4>1, <5>1
          <6>2. {chunk[1] : chunk \in {<<x, 1>>}} = {x}
            OBVIOUS
          <6> QED BY <5>1, <6>1, <6>2
        <5>2. CASE x # Current(c)
          BY <3>1, <4>1, <5>2
        <5> QED BY <5>1, <5>2
      <4> QED BY <4>2
    <3>4. Session!Succeed(c)
      BY <2>0, <3>1, <3>3 DEF Session!Succeed
    <3> QED BY <3>4 DEF Session!Next, Session!Return
  <2> QED BY <1>3, <2>1, <2>2, <2>3, <2>4, <2>5 DEF Exec
<1>4. ASSUME Close PROVE Session!Next \/ UNCHANGED Session!sessionVars
  <2>1. cmd' = Nil /\ UNCHANGED <<n, result, reply>>
    BY <1>4 DEF Close, CloseDriver, caller
  <2>2. CASE cmd = Nil
    BY <1>1, <2>1, <2>2
  <2>3. CASE cmd # Nil
    <3>1. Session!Drop
      BY <2>1, <2>3 DEF Session!Drop
    <3> QED BY <3>1 DEF Session!Next
  <2> QED BY <2>2, <2>3
<1>5. ASSUME (\E x \in Calls : Cancel(x) \/ Process(x)) \/ UNCHANGED vars
      PROVE  UNCHANGED Session!sessionVars
  <2>1. UNCHANGED <<cmd, n, result, reply>>
    BY <1>5 DEF Cancel, Process, ContextKill, Crash, Reap, ChildRead, vars, driver, caller
  <2> QED BY <1>1, <2>1
<1> QED BY <1>2, <1>3, <1>4, <1>5 DEF Next

\* One Exec at a time with at most one stdin parameter, the driver keeps the
\* promise of a stream session: each call returns with the answer to its own
\* request or with an error, and after an error no process is left that a later
\* call could use.
THEOREM Implements == OneByOne => (Spec => KeepsPromise)
<1> SUFFICES ASSUME OneByOne PROVE Spec => KeepsPromise
  OBVIOUS
<1>1. Init => Session!Init
  BY DEF Init, Session!Init, Calls, Session!Calls
<1>2. StreamInv /\ StreamInv' /\ [Next]_vars => [Session!Next]_Session!sessionVars
  BY StepRefines
<1> QED BY <1>1, <1>2, StreamInvHolds, PTL DEF Spec, KeepsPromise, Session!Spec

==============================================================================
