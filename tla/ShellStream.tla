----------------------------- MODULE ShellStream -----------------------------
(***************************************************************************)
(* The shell driver in stream mode (driver/shell/stream.go): a bash        *)
(* process is started by the first Exec and kept; every Exec writes its    *)
(* stdin parameters to the process and reads one line back.  The actors    *)
(* are the goroutines that call Exec, the owner that calls Close, the      *)
(* Wait goroutine and the context watcher of each process, and the         *)
(* process itself.                                                         *)
(*                                                                         *)
(* A process is named by the call that started it, so its context is the   *)
(* context of that call.  A request is a sequence of chunks, one Write     *)
(* each: chunk 2i-1 is the value of stdin parameter i, chunk 2i the        *)
(* newline that InputStream(TRUE) adds after it.  A reply line is the set  *)
(* of the value chunks the line it answers was made of.                    *)
(***************************************************************************)
EXTENDS Naturals, Sequences

CONSTANTS
  Callers,     \* the goroutines that call Exec
  MaxCalls,    \* bound: calls made by each of them
  MaxCloses,   \* bound: calls of Close by the owner of the driver
  Inputs,      \* how many parameters of the procedure have stdin: true
  Concurrent,  \* may two Execs overlap?  Nothing in the driver prevents it
  Nil          \* the nil pointer, and the free mutex

Calls  == Callers \X (1..MaxCalls)
Chunks == Calls \X (1..(2 * Inputs))

ASSUME StreamAssumption ==
  /\ MaxCalls \in Nat /\ MaxCloses \in Nat /\ Inputs \in Nat
  /\ Concurrent \in BOOLEAN
  /\ Nil \notin Callers /\ Nil \notin Calls

VARIABLES
  mx,         \* who holds d.mx across steps
  cmd,        \* d.cmd
  pipes,      \* d.stdin and d.stdout: the process they belong to
  pc,         \* where each caller is in Exec
  n,          \* calls begun so far, per caller
  fd,         \* the pipes a caller took from the driver for its next I/O
  sent,       \* chunks of the request written so far
  result,     \* "none" until the call returns "ok" or "err"
  reply,      \* the line the call was given
  state,      \* of each process: "none", "running" or how it ended
  open,       \* are our ends of its pipes open?  Close and Wait close them
  cancelled,  \* calls whose context is done
  closes,     \* calls of Close by the owner so far
  inq,        \* chunks in the stdin pipe of each process
  line,       \* what the process has read of the current line
  outq,       \* reply lines in its stdout pipe
  rbuf        \* reply lines already in the bufio.Reader on that pipe

driver  == <<mx, cmd, pipes>>
caller  == <<pc, n, fd, sent, result, reply>>
process == <<state, open, cancelled>>
data    == <<inq, line, outq, rbuf>>
vars    == <<driver, caller, process, closes, data>>

Current(c) == <<c, n[c]>>
Begun(x)   == x[2] <= n[x[1]]
Busy(c)    == pc[c] \notin {"idle", "panicked"}
Ended      == {"crashed", "cancelled", "closed"}

Init ==
  /\ mx = Nil /\ cmd = Nil /\ pipes = Nil
  /\ pc     = [c \in Callers |-> "idle"]
  /\ n      = [c \in Callers |-> 0]
  /\ fd     = [c \in Callers |-> Nil]
  /\ sent   = [c \in Callers |-> 0]
  /\ result = [x \in Calls |-> "none"]
  /\ reply  = [x \in Calls |-> {}]
  /\ state  = [p \in Calls |-> "none"]
  /\ open   = [p \in Calls |-> FALSE]
  /\ cancelled = {} /\ closes = 0
  /\ inq    = [p \in Calls |-> <<>>]
  /\ line   = [p \in Calls |-> {}]
  /\ outq   = [p \in Calls |-> <<>>]
  /\ rbuf   = [p \in Calls |-> <<>>]

------------------------------------------------------------------------------
(* A process that ends takes with it what it has not answered; a pipe we    *)
(* close takes with it what we have not read.  (A buffer stays.)           *)
ProcessEnds(p, how) ==
  /\ state' = [state EXCEPT ![p] = how]
  /\ inq'   = [inq EXCEPT ![p] = <<>>]
  /\ line'  = [line EXCEPT ![p] = {}]

PipesClose(p) ==
  /\ open' = [open EXCEPT ![p] = FALSE]
  /\ outq' = [outq EXCEPT ![p] = <<>>]

\* Mutant of CloseDriver: the pipes are closed and the process is not killed.
CloseDriverNoKill ==
  /\ mx = Nil
  /\ cmd' = Nil
  /\ IF cmd = Nil THEN UNCHANGED <<state, open, data>>
                  ELSE PipesClose(cmd) /\ UNCHANGED <<state, inq, line, rbuf>>

\* The body of Close, run under mx.  Killing a process that has ended is
\* harmless; the fields stdin and stdout keep pointing at closed pipes.
CloseDriver ==
  /\ mx = Nil
  /\ cmd' = Nil
  /\ IF cmd = Nil
     THEN UNCHANGED <<state, open, data>>
     ELSE /\ ProcessEnds(cmd, IF state[cmd] = "running" THEN "closed" ELSE state[cmd])
          /\ PipesClose(cmd)
          /\ UNCHANGED rbuf

\* The error of Close: os.ErrProcessDone, once Wait has returned; only Wait
\* closes the pipes of a process that is still in d.cmd.
CloseFails == cmd # Nil /\ ~open[cmd]

\* Exec returns, and its locals are gone.
Return(c, outcome) ==
  /\ pc'     = [pc EXCEPT ![c] = "idle"]
  /\ result' = [result EXCEPT ![Current(c)] = outcome]
  /\ fd'     = [fd EXCEPT ![c] = Nil]
  /\ sent'   = [sent EXCEPT ![c] = 0]

Goto(c, from, to) ==
  /\ pc[c] = from
  /\ pc' = [pc EXCEPT ![c] = to]

------------------------------------------------------------------------------
(* Exec *)
Begin(c) ==
  /\ Concurrent \/ \A d \in Callers : pc[d] = "idle"
  /\ n[c] < MaxCalls
  /\ Goto(c, "idle", "check")
  /\ n' = [n EXCEPT ![c] = @ + 1]
  /\ UNCHANGED <<driver, fd, sent, result, reply, process, closes, data>>

\* if d.cmd == nil, read without the mutex.
Check(c) ==
  /\ Goto(c, "check", IF cmd = Nil THEN "preclose" ELSE "input")
  /\ UNCHANGED <<driver, n, fd, sent, result, reply, process, closes, data>>

\* establish first calls Close, in a critical section of its own.
PreClose(c) ==
  /\ pc[c] = "preclose"
  /\ CloseDriver
  /\ \/ /\ CloseFails
        /\ Return(c, "err")
     \/ /\ ~CloseFails
        /\ Goto(c, "preclose", "spawn")
        /\ UNCHANGED <<result, fd, sent>>
  /\ UNCHANGED <<mx, pipes, n, reply, cancelled, closes>>

\* Mutant of Spawn: the mutex is released before the fields are assigned.
SpawnUnlocked(c) ==
  /\ mx = Nil
  /\ Current(c) \notin cancelled
  /\ Goto(c, "spawn", "publish")
  /\ cmd'   = Current(c)
  /\ state' = [state EXCEPT ![Current(c)] = "running"]
  /\ open'  = [open EXCEPT ![Current(c)] = TRUE]
  /\ UNCHANGED <<mx, pipes, n, fd, sent, result, reply, cancelled, closes, data>>

\* cmd.Start, which refuses a context that is already done, then d.cmd = cmd.
Spawn(c) ==
  /\ mx = Nil
  /\ Current(c) \notin cancelled
  /\ Goto(c, "spawn", "publish")
  /\ mx'    = c
  /\ cmd'   = Current(c)
  /\ state' = [state EXCEPT ![Current(c)] = "running"]
  /\ open'  = [open EXCEPT ![Current(c)] = TRUE]
  /\ UNCHANGED <<pipes, n, fd, sent, result, reply, cancelled, closes, data>>

\* A pipe could not be made or the process could not be started.
SpawnFails(c) ==
  /\ pc[c] = "spawn"
  /\ mx = Nil
  /\ Return(c, "err")
  /\ UNCHANGED <<driver, n, reply, process, closes, data>>

\* The fields the other callers read without the mutex, and its release.
Publish(c) ==
  /\ Goto(c, "publish", "input")
  /\ pipes' = Current(c)
  /\ mx'    = Nil
  /\ UNCHANGED <<cmd, n, fd, sent, result, reply, process, closes, data>>

\* InputStream, then io.Copy takes d.stdin.
Input(c) ==
  /\ Goto(c, "input", "write")
  /\ fd'   = [fd EXCEPT ![c] = pipes]
  /\ sent' = [sent EXCEPT ![c] = 0]
  /\ UNCHANGED <<driver, n, result, reply, process, closes, data>>

\* The value of a stdin parameter cannot be marshalled.
InputFails(c) ==
  /\ Inputs > 0
  /\ Goto(c, "input", "fail")
  /\ UNCHANGED <<driver, n, fd, sent, result, reply, process, closes, data>>

\* Mutant of Write: one chunk too many, when the last was written.
WritePastEnd(c) ==
  LET p == fd[c] IN
  /\ sent[c] <= 2 * Inputs
  /\ p # Nil /\ open[p] /\ state[p] = "running"
  /\ Goto(c, "write", "write")
  /\ sent' = [sent EXCEPT ![c] = @ + 1]
  /\ inq'  = [inq EXCEPT ![p] = Append(@, <<Current(c), sent[c] + 1>>)]
  /\ UNCHANGED <<driver, n, fd, result, reply, process, closes, line, outq, rbuf>>

\* One Write of io.Copy: the pipe of a process that is gone gives EPIPE, a
\* pipe that was closed gives ErrClosed, a nil writer panics.
Write(c) ==
  LET p == fd[c] IN
  /\ sent[c] < 2 * Inputs
  /\ \/ /\ p = Nil
        /\ Goto(c, "write", "panicked")
        /\ UNCHANGED <<sent, data>>
     \/ /\ p # Nil /\ open[p] /\ state[p] = "running"
        /\ Goto(c, "write", "write")
        /\ sent' = [sent EXCEPT ![c] = @ + 1]
        /\ inq'  = [inq EXCEPT ![p] = Append(@, <<Current(c), sent[c] + 1>>)]
        /\ UNCHANGED <<line, outq, rbuf>>
     \/ /\ p # Nil /\ ~(open[p] /\ state[p] = "running")
        /\ Goto(c, "write", "fail")
        /\ UNCHANGED <<sent, data>>
  /\ UNCHANGED <<driver, n, fd, result, reply, process, closes>>

\* io.Copy is done; ProcessStreamResponse is given d.stdout, read again.
Flushed(c) ==
  /\ sent[c] = 2 * Inputs
  /\ Goto(c, "write", "read")
  /\ fd' = [fd EXCEPT ![c] = pipes]
  /\ UNCHANGED <<driver, n, sent, result, reply, process, closes, data>>

\* What the reader of p can deliver: its buffer, refilled from the pipe when
\* it is empty.
Available(p) == IF rbuf[p] # <<>> THEN rbuf[p] ELSE outq[p]

\* Two Execs inside one bufio.Reader race for its indices: either of them may
\* undo what the other consumed, or consume what it has not returned.
RacingFor(c) == \E d \in Callers \ {c} : pc[d] = "read" /\ fd[d] = fd[c]

\* Mutant of ReadLine: the line stays in the buffer, as after a Peek.
ReadLinePeek(c) ==
  LET p == fd[c] IN
  /\ p # Nil
  /\ Available(p) # <<>>
  /\ pc[c] = "read"
  /\ Return(c, "ok")
  /\ reply' = [reply EXCEPT ![Current(c)] = Head(Available(p))]
  /\ rbuf'  = [rbuf EXCEPT ![p] = Available(p)]
  /\ outq'  = [outq EXCEPT ![p] = <<>>]
  /\ UNCHANGED <<driver, n, process, closes, inq, line>>

\* One response is taken from the reader.
ReadLine(c) ==
  LET p    == fd[c]
      rest == Tail(Available(p))
  IN
  /\ p # Nil
  /\ Available(p) # <<>>
  /\ pc[c] = "read"
  /\ Return(c, "ok")
  /\ reply'  = [reply EXCEPT ![Current(c)] = Head(Available(p))]
  /\ outq'   = [outq EXCEPT ![p] = IF rbuf[p] = <<>> THEN <<>> ELSE @]
  /\ \E left \in IF RacingFor(c) THEN {rest, Available(p), <<>>} ELSE {rest} :
       rbuf' = [rbuf EXCEPT ![p] = left]
  /\ UNCHANGED <<driver, n, process, closes, inq, line>>

\* Mutant of ReadFails: a pipe that was closed under the reader is not noticed.
ReadFailsAtEOF(c) ==
  LET p == fd[c] IN
  /\ p # Nil /\ Available(p) = <<>>
  /\ open[p] /\ state[p] # "running"
  /\ Goto(c, "read", "fail")
  /\ UNCHANGED <<driver, n, fd, sent, result, reply, process, closes, data>>

\* EOF once the process is gone and its pipe drained, ErrClosed after Close or
\* Wait closed our end; a nil reader panics.
ReadFails(c) ==
  LET p == fd[c] IN
  /\ \/ /\ p = Nil
        /\ Goto(c, "read", "panicked")
     \/ /\ p # Nil /\ Available(p) = <<>>
        /\ open[p] => state[p] # "running"
        /\ Goto(c, "read", "fail")
  /\ UNCHANGED <<driver, n, fd, sent, result, reply, process, closes, data>>

\* Mutant of FailClose: the error is returned and the driver is left as it is.
FailKeep(c) ==
  /\ pc[c] = "fail"
  /\ Return(c, "err")
  /\ UNCHANGED <<driver, n, reply, process, closes, data>>

\* Each error after establish closes the driver before it is returned.
FailClose(c) ==
  /\ pc[c] = "fail"
  /\ CloseDriver
  /\ Return(c, "err")
  /\ UNCHANGED <<mx, pipes, n, reply, cancelled, closes>>

Exec(c) ==
  \/ Check(c) \/ PreClose(c) \/ Spawn(c) \/ SpawnFails(c) \/ Publish(c)
  \/ Input(c) \/ InputFails(c) \/ Write(c) \/ Flushed(c)
  \/ ReadLine(c) \/ ReadFails(c) \/ FailClose(c)

------------------------------------------------------------------------------
(* The owner of the driver, the contexts, and the process.                 *)

\* Close, at any time: the store releases its procedures without asking
\* whether they are running.
Close ==
  /\ closes < MaxCloses
  /\ CloseDriver
  /\ closes' = closes + 1
  /\ UNCHANGED <<mx, pipes, caller, cancelled>>

\* The context given to an Exec is done: a deadline, or the usual deferred
\* cancel after Exec returned.  It matters only to the process made with it.
Cancel(x) ==
  /\ Begun(x) /\ x \notin cancelled
  /\ state[x] = "running" \/ (state[x] = "none" /\ result[x] = "none")
  /\ cancelled' = cancelled \cup {x}
  /\ UNCHANGED <<driver, caller, state, open, closes, data>>

\* exec.CommandContext kills the process when the context it was made with,
\* that of the call that established it, is done.
ContextKill(p) ==
  /\ p \in cancelled /\ state[p] = "running"
  /\ ProcessEnds(p, "cancelled")
  /\ UNCHANGED <<driver, caller, open, cancelled, closes, outq, rbuf>>

Crash(p) ==
  /\ state[p] = "running"
  /\ ProcessEnds(p, "crashed")
  /\ UNCHANGED <<driver, caller, open, cancelled, closes, outq, rbuf>>

\* cmd.Wait returns; it closes our ends of the pipes, read or not.
Reap(p) ==
  /\ state[p] \in Ended /\ open[p]
  /\ PipesClose(p)
  /\ UNCHANGED <<driver, caller, state, cancelled, closes, inq, line, rbuf>>

\* A child like tests/stream/stream.sh: it answers every line that is not
\* empty with one line.
IsValue(chunk) == chunk[2] % 2 = 1

ChildRead(p) ==
  LET chunk == Head(inq[p]) IN
  /\ state[p] = "running" /\ inq[p] # <<>>
  /\ inq' = [inq EXCEPT ![p] = Tail(@)]
  /\ \/ /\ IsValue(chunk)
        /\ line' = [line EXCEPT ![p] = @ \cup {chunk}]
        /\ UNCHANGED outq
     \/ /\ ~IsValue(chunk)
        /\ line' = [line EXCEPT ![p] = {}]
        /\ outq' = [outq EXCEPT ![p] = IF line[p] = {} THEN @ ELSE Append(@, line[p])]
  /\ UNCHANGED <<driver, caller, process, closes, rbuf>>

Process(p) == ContextKill(p) \/ Crash(p) \/ Reap(p) \/ ChildRead(p)

Next ==
  \/ \E c \in Callers : Begin(c) \/ Exec(c)
  \/ \E x \in Calls : Cancel(x) \/ Process(x)
  \/ Close

Spec == Init /\ [][Next]_vars

\* A goroutine that can run does, and so do the child and its Wait; nobody has
\* to call Exec or Close, to cancel a context, or to die.
FairSpec ==
  /\ Spec
  /\ \A c \in Callers : WF_vars(Exec(c))
  /\ \A p \in Calls : WF_vars(ContextKill(p)) /\ WF_vars(Reap(p)) /\ WF_vars(ChildRead(p))

------------------------------------------------------------------------------
(* Properties *)

DriverTypeOK ==
  /\ mx \in Callers \cup {Nil}
  /\ cmd \in Calls \cup {Nil}
  /\ pipes \in Calls \cup {Nil}

CallerTypeOK ==
  /\ pc \in [Callers -> {"idle", "check", "preclose", "spawn", "publish", "input",
                         "write", "read", "fail", "panicked"}]
  /\ n \in [Callers -> 0..MaxCalls]
  /\ \A c \in Callers : pc[c] # "idle" => n[c] > 0
  /\ fd \in [Callers -> Calls \cup {Nil}]
  /\ sent \in [Callers -> 0..(2 * Inputs)]
  /\ result \in [Calls -> {"none", "ok", "err"}]
  /\ reply \in [Calls -> SUBSET Chunks]

ProcessTypeOK ==
  /\ state \in [Calls -> {"none", "running"} \cup Ended]
  /\ open \in [Calls -> BOOLEAN]
  /\ cancelled \in SUBSET Calls
  /\ closes \in 0..MaxCloses

DataTypeOK ==
  /\ inq \in [Calls -> Seq(Chunks)]
  /\ line \in [Calls -> SUBSET Chunks]
  /\ outq \in [Calls -> Seq(SUBSET Chunks)]
  /\ rbuf \in [Calls -> Seq(SUBSET Chunks)]

\* The shape of the state.
TypeOK == DriverTypeOK /\ CallerTypeOK /\ ProcessTypeOK /\ DataTypeOK

\* A call that succeeds was given a line made of its own request: no answer
\* is handed to a later call, or to another caller.
OwnResponse ==
  \A x \in Calls : result[x] = "ok" =>
    reply[x] # {} /\ \A chunk \in reply[x] : chunk[1] = x

\* Between calls nothing of an old request or answer is left in a driver that
\* will be used again: Exec drains what it started or closes the driver.
NoLeftover ==
  cmd # Nil /\ (\A c \in Callers : ~Busy(c)) =>
    inq[cmd] = <<>> /\ line[cmd] = {} /\ outq[cmd] = <<>> /\ rbuf[cmd] = <<>>

\* The only process that runs is the one Close would kill.
NoOrphan == \A p \in Calls : state[p] = "running" => p = cmd

\* "Close terminates the persistent subprocess": when it returns no process
\* the driver ever started is running.
CloseTerminates ==
  [][closes' > closes => \A p \in Calls : state'[p] # "running"]_vars

\* The process is kept alive between calls: a context that is done stops the
\* call it was given to, not the process the later calls rely on.
KeptAlive ==
  [][\A p \in Calls : state[p] = "running" /\ state'[p] = "cancelled"
                        => result[p] = "none"]_vars

\* Whenever the mutex is free, a driver that has a process has its pipes:
\* the assignments of two establishes never mix.
FieldsAgree == mx = Nil /\ cmd # Nil => pipes = cmd

------------------------------------------------------------------------------
(* The promise of StreamSession: a session is a process in d.cmd.          *)
Session == INSTANCE StreamSession WITH
  session <- cmd # Nil,
  answers <- [x \in Calls |-> {chunk[1] : chunk \in reply[x]}]

\* One Exec at a time, whatever happens to the process and whenever the owner
\* closes the driver, the driver keeps the promise of a stream session.
KeepsPromise == Session!Spec

\* Every Exec returns: whatever ends the process, the call blocked on its
\* pipes gets an error.
CallReturns == Session!Returns

==============================================================================
