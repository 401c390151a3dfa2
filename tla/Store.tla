-------------------------------- MODULE Store --------------------------------
(***************************************************************************)
(* The store (store.go) on top of the loader: NewStoreFromLoader builds a  *)
(* procedure of every manifest or fails, Register adds procedures, Exec    *)
(* finds one by its name and calls it, Release closes them one by one.     *)
(*                                                                         *)
(* Of the drivers only this is kept: in stream mode an Exec finds or opens *)
(* a session, a failure of the driver and Close end it; in call mode there *)
(* is none.  The owner of the store loads, registers and releases, one     *)
(* after the other; the callers Exec at any time, also while Release runs, *)
(* but not two of them the same procedure.                                 *)
(***************************************************************************)
EXTENDS Loader

CONSTANTS
  Callers,       \* the goroutines that call Exec
  Manual,        \* the manifests the owner makes procedures of and registers
  MaxProcs,      \* bound: procedures in the store that are called
  MaxCalls,      \* bound: calls of a procedure by a caller
  MaxReleases    \* bound: calls of Release

ASSUME StoreAssumption == {MaxProcs, MaxCalls, MaxReleases} \subseteq Nat

Procs == 1..MaxProcs

VARIABLES
  phase,       \* "load"; "serve" when the store is there; "failed" without one
  store,       \* s.procs: the manifests of the procedures
  open,        \* per procedure: is its session open?
  n,           \* calls begun so far, per procedure and caller
  calling,     \* the calls in progress, each a procedure and a caller
  attached,    \* those that found or opened a session
  closing,     \* the procedure Release closes next; 0 when it does not run
  releases,    \* calls of Release that returned
  reopened     \* the procedures that were opened again behind its back

sessions  == <<open, n, calling, attached>>
releasing == <<closing, releases, reopened>>
vars      == <<loader, phase, store, sessions, releasing>>

Init ==
  /\ InitLoader
  /\ phase = "load" /\ store = <<>>
  /\ open     = [p \in Procs |-> FALSE]
  /\ n        = [p \in Procs |-> [c \in Callers |-> 0]]
  /\ calling  = {} /\ attached = {}
  /\ closing = 0 /\ releases = 0 /\ reopened = {}

Places(s, name) == {i \in 1..Len(s) : s[i].name = name}

\* The place of the first procedure of that name; 0 if there is none.
Get(name) == IF Places(store, name) = {} THEN 0 ELSE Min(Places(store, name))

------------------------------------------------------------------------------
(* NewStoreFromLoader *)
LoadStep ==
  /\ phase = "load"
  /\ Walk
  /\ UNCHANGED <<phase, store, sessions, releasing>>

Supported(m) == Kind(m) # "none"

\* Mutant of Build: procedures without a driver are left out.
BuildSupported ==
  /\ phase = "load" /\ outcome = "ok"
  /\ phase' = "serve"
  /\ store' = SelectSeq(procs, Supported)
  /\ UNCHANGED <<loader, sessions, releasing>>

Build ==
  /\ phase = "load" /\ outcome = "ok"
  /\ \A i \in DOMAIN procs : Supported(procs[i])
  /\ phase' = "serve"
  /\ store' = procs
  /\ UNCHANGED <<loader, sessions, releasing>>

\* What the loader has loaded and New has built is dropped.  New fails also when
\* the client for a docker procedure cannot be made.
BuildFails ==
  /\ phase = "load"
  /\ \/ outcome = "err"
     \/ outcome = "ok" /\ \E i \in DOMAIN procs :
          ~Supported(procs[i]) \/ Kind(procs[i]) = "docker"
  /\ phase' = "failed"
  /\ UNCHANGED <<loader, store, sessions, releasing>>

------------------------------------------------------------------------------
(* Register *)
CanRegister(m) ==
  phase = "serve" /\ closing = 0 /\ Len(store) < MaxProcs /\ Supported(m)

\* Mutant of Register: the new procedure comes first, and the sessions move on.
RegisterFirst(m) ==
  /\ CanRegister(m) /\ ~\E p \in Procs : open[p] \/ \E c \in Callers : n[p][c] > 0
  /\ store' = <<m>> \o store
  /\ UNCHANGED <<loader, phase, sessions, releasing>>

Register(m) ==
  /\ CanRegister(m)
  /\ store' = Append(store, m)
  /\ UNCHANGED <<loader, phase, sessions, releasing>>

------------------------------------------------------------------------------
(* Exec *)

\* A name that is not there is an error and nothing else.
Begin(c, name) ==
  LET p == Get(name) IN
  /\ phase = "serve" /\ p \in Procs
  /\ n[p][c] < MaxCalls
  /\ \A q \in Procs : <<q, c>> \notin calling
  /\ \A d \in Callers : <<p, d>> \notin calling
  /\ n' = [n EXCEPT ![p][c] = @ + 1]
  /\ calling' = calling \cup {<<p, c>>}
  /\ UNCHANGED <<loader, phase, store, open, attached, releasing>>

\* The driver finds a session, or opens one.
Attach(p, c) ==
  /\ <<p, c>> \in calling \ attached
  /\ IsStream(store[p])
  /\ open'     = [open EXCEPT ![p] = TRUE]
  /\ attached' = attached \cup {<<p, c>>}
  /\ reopened' = IF ~open[p] /\ p < closing THEN reopened \cup {p} ELSE reopened
  /\ UNCHANGED <<loader, phase, store, n, calling, closing, releases>>

Return(p, c) ==
  /\ <<p, c>> \in calling
  /\ calling'  = calling \ {<<p, c>>}
  /\ attached' = attached \ {<<p, c>>}
  /\ UNCHANGED <<loader, phase, store, n, releasing>>

\* The session goes on: the answer is there; or the number of the parameters is
\* wrong, and the driver is never called; or the output cannot be mapped to the
\* target or its file not be removed, after the driver is done.
Reply(p, c) == Return(p, c) /\ UNCHANGED open

\* The driver fails.  It ends the session if it has one.
Fail(p, c) ==
  /\ <<p, c>> \in attached \/ ~open[p]
  /\ Return(p, c)
  /\ open' = [open EXCEPT ![p] = FALSE]

------------------------------------------------------------------------------
(* Release *)
Release ==
  /\ phase = "serve" /\ closing = 0 /\ releases < MaxReleases
  /\ closing' = 1 /\ reopened' = {}
  /\ UNCHANGED <<loader, phase, store, sessions, releases>>

\* Mutant of CloseProc: the first Close that fails is the last.
CloseProcOrStop ==
  /\ closing \in 1..Len(store)
  /\ open' = [open EXCEPT ![closing] = FALSE]
  /\ closing' \in {closing + 1, Len(store) + 1}
  /\ UNCHANGED <<loader, phase, store, n, calling, attached, releases, reopened>>

\* Close ends the session and may yet return an error: that is kept for later.
CloseProc ==
  /\ closing \in 1..Len(store)
  /\ open'    = [open EXCEPT ![closing] = FALSE]
  /\ closing' = closing + 1
  /\ UNCHANGED <<loader, phase, store, n, calling, attached, releases, reopened>>

Released ==
  /\ closing > Len(store)
  /\ closing' = 0 /\ releases' = releases + 1
  /\ UNCHANGED <<loader, phase, store, sessions, reopened>>

Names == {procs[i].name : i \in DOMAIN procs} \cup {m.name : m \in Manual}

Next ==
  \/ LoadStep \/ Build \/ BuildFails
  \/ \E m \in Manual : Register(m)
  \/ \E c \in Callers : \E name \in Names : Begin(c, name)
  \/ \E p \in Procs, c \in Callers : Attach(p, c) \/ Reply(p, c) \/ Fail(p, c)
  \/ Release \/ CloseProc \/ Released

Spec == Init /\ [][Next]_vars

------------------------------------------------------------------------------
(* Properties *)

\* A store is there only if every manifest of the tree is in it, can be driven,
\* and is found by its name, unless one before it has that name
\* (NewStoreFromLoader, Get).
AllServed ==
  phase = "serve" =>
    /\ at > Len(source.tree) /\ Len(store) >= Cardinality(Documented)
    /\ \A j \in Documented :
         /\ store[Place(j)].directory = source.tree[j].dir
         /\ Kind(store[Place(j)]) # "none"
         /\ Get(store[Place(j)].name) \in 1..Place(j)

\* A name, once it stands for a procedure, stands for the same one for ever,
\* whatever is registered later (Get, Register).
FirstWins ==
  [][\A name \in Names : Get(name) > 0 => store'[Get(name)'] = store[Get(name)]
                                          /\ Get(name)' = Get(name)]_vars

\* When Release returns, every session there is was opened by a call after
\* Release had closed that procedure, also when a Close has failed (Release).
ReleaseClosesAll ==
  [][releases' > releases => \A p \in Procs : open'[p] => p \in reopened]_vars

==============================================================================
