---------------------------- MODULE StreamSession ----------------------------
(***************************************************************************)
(* What a driver in stream mode promises to the callers of Exec, whatever  *)
(* it is built on: a session with a long-lived worker is opened when it is *)
(* needed, each call returns once, with the answer to its own request or   *)
(* with an error, and a session that let a call down is over, so that the  *)
(* next call talks to a fresh worker.  ShellStream implements it.          *)
(***************************************************************************)
EXTENDS Naturals

CONSTANTS
  Callers,    \* the goroutines that call Exec
  MaxCalls    \* bound: calls made by each of them, a natural number

Calls == Callers \X (1..MaxCalls)

VARIABLES
  session,    \* is a session established?
  n,          \* calls begun so far, per caller
  result,     \* "none" until the call returns "ok" or "err"
  answers     \* the requests whose answer the call was given

sessionVars == <<session, n, result, answers>>

Current(c) == <<c, n[c]>>
InCall(c)  == n[c] > 0 /\ result[Current(c)] = "none"

Init ==
  /\ session = FALSE
  /\ n       = [c \in Callers |-> 0]
  /\ result  = [x \in Calls |-> "none"]
  /\ answers = [x \in Calls |-> {}]

Begin(c) ==
  /\ \A d \in Callers : ~InCall(d)
  /\ n[c] < MaxCalls
  /\ n' = [n EXCEPT ![c] = @ + 1]
  /\ UNCHANGED <<session, result, answers>>

\* A session is opened on behalf of a call that found none.
Open(c) ==
  /\ InCall(c) /\ ~session
  /\ session' = TRUE
  /\ UNCHANGED <<n, result, answers>>

\* The answer is to this request alone, and the session, unless it was closed
\* in the meantime, goes on.
Succeed(c) ==
  /\ InCall(c)
  /\ result'  = [result EXCEPT ![Current(c)] = "ok"]
  /\ answers' = [answers EXCEPT ![Current(c)] = {Current(c)}]
  /\ UNCHANGED <<session, n>>

\* A failed call leaves no session behind.
Fail(c) ==
  /\ InCall(c)
  /\ result'  = [result EXCEPT ![Current(c)] = "err"]
  /\ session' = FALSE
  /\ UNCHANGED <<n, answers>>

\* The owner closes the driver; a call in progress may still be running.
Drop ==
  /\ session
  /\ session' = FALSE
  /\ UNCHANGED <<n, result, answers>>

Return(c) == Succeed(c) \/ Fail(c)

Next ==
  \/ \E c \in Callers : Begin(c) \/ Open(c) \/ Return(c)
  \/ Drop

Spec == Init /\ [][Next]_sessionVars

\* Every call that was begun returns.
Returns == \A c \in Callers : InCall(c) ~> ~InCall(c)

PromiseSpec == Spec /\ \A c \in Callers : WF_sessionVars(Return(c))

==============================================================================
