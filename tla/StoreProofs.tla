----------------------------- MODULE StoreProofs -----------------------------
(***************************************************************************)
(* Proofs about Store, for any trees, any callers, any manifests that are  *)
(* registered and any bounds.                                              *)
(***************************************************************************)
EXTENDS Store, LoaderProofs

------------------------------------------------------------------------------
(* Get returns the first procedure of a name *)

LEMMA GetFirst ==
  ASSUME Len(store) \in Nat, NEW name
  PROVE  /\ Get(name) \in 0..Len(store)
         /\ Get(name) > 0 <=> Places(store, name) # {}
         /\ Get(name) > 0 => /\ Get(name) \in Places(store, name)
                             /\ \A i \in Places(store, name) : Get(name) =< i
  <1>1. Places(store, name) \subseteq Nat /\ Places(store, name) \subseteq 1..Len(store)
    BY DEF Places
  <1>2. CASE Places(store, name) = {}
    BY <1>2 DEF Get
  <1>3. CASE Places(store, name) # {}
    <2>1. Get(name) = Min(Places(store, name))
      BY <1>3 DEF Get
    <2>2. Get(name) \in Places(store, name) /\ \A i \in Places(store, name) : Get(name) =< i
      BY <2>1, <1>1, <1>3, MinProperty
    <2> QED BY <2>2, <1>1, <1>3
  <1> QED BY <1>2, <1>3

------------------------------------------------------------------------------
(* A name keeps its procedure *)

IsList(s) == \E S : s \in Seq(S)

LEMMA ListAppend ==
  ASSUME NEW s, IsList(s), NEW m
  PROVE  /\ IsList(Append(s, m))
         /\ Len(s) \in Nat /\ Len(Append(s, m)) = Len(s) + 1
         /\ \A i \in 1..Len(s) : Append(s, m)[i] = s[i]
  <1>1. PICK S : s \in Seq(S)
    BY DEF IsList
  <1>2. s \in Seq(S \cup {m}) /\ m \in S \cup {m}
    BY <1>1
  <1>3. Append(s, m) \in Seq(S \cup {m})
    BY <1>2
  <1> QED BY <1>2, <1>3 DEF IsList

\* Before there is a store no procedure is found.
ListInv ==
  /\ IsList(procs) /\ IsList(store)
  /\ phase = "load" => store = <<>>

LEMMA InitListInv == Init => ListInv
  <1>1. IsList(<<>>)
    BY DEF IsList
  <1> QED BY <1>1 DEF Init, InitLoader, ListInv

LEMMA WalkLists ==
  ASSUME IsList(procs), Walk
  PROVE  IsList(procs')
  <1>1. CASE procs' = procs
    BY <1>1
  <1>2. ASSUME NEW m, Found(m) PROVE IsList(procs')
    BY <1>2, ListAppend DEF Found
  <1> QED BY <1>1, <1>2 DEF Walk, Skip, Load, Discover, LoadFails, Finish

LEMMA NextListInv ==
  ASSUME ListInv, [Next]_vars
  PROVE  ListInv'
  <1>1. CASE LoadStep
    BY <1>1, WalkLists DEF LoadStep, ListInv
  <1>2. CASE Build
    BY <1>2 DEF Build, ListInv, loader
  <1>3. ASSUME NEW m \in Manual, Register(m) PROVE ListInv'
    BY <1>3, ListAppend DEF Register, CanRegister, ListInv, loader
  <1>4. CASE procs' = procs /\ store' = store /\ (phase' = phase \/ phase' # "load")
    BY <1>4 DEF ListInv
  <1> QED
    BY <1>1, <1>2, <1>3, <1>4
    DEF Next, vars, loader, BuildFails, Begin, Attach, Return, Reply, Fail, Release, CloseProc, Released

LEMMA RegisterKeeps ==
  ASSUME ListInv, NEW m, Register(m), NEW name, Get(name) > 0
  PROVE  store'[Get(name)'] = store[Get(name)] /\ Get(name)' = Get(name)
  <1>1. /\ Len(store) \in Nat /\ Len(store') = Len(store) + 1
        /\ \A i \in 1..Len(store) : store'[i] = store[i]
    BY ListAppend DEF ListInv, Register
  <1>2. /\ Get(name) \in Places(store, name)
        /\ \A i \in Places(store, name) : Get(name) =< i
    BY <1>1, GetFirst
  <1>3. Get(name) \in Places(store', name)
    BY <1>1, <1>2 DEF Places
  <1>4. \A i \in Places(store', name) : i \in Places(store, name) \/ i = Len(store) + 1
    BY <1>1 DEF Places
  <1>5. \A i \in Places(store', name) : Get(name) =< i
    BY <1>1, <1>2, <1>4 DEF Places
  <1>6. Get(name)' \in Places(store', name) /\ \A i \in Places(store', name) : Get(name)' =< i
    <2>1. Get(name)' = Min(Places(store', name))
      BY <1>3 DEF Get
    <2>2. Places(store', name) \subseteq Nat
      BY <1>1 DEF Places
    <2> QED BY <2>1, <2>2, <1>3, MinProperty
  <1>7. Get(name)' = Get(name)
    BY <1>3, <1>5, <1>6, <1>1, <1>2 DEF Places
  <1> QED BY <1>1, <1>2, <1>7 DEF Places

LEMMA StepFirstWins ==
  ASSUME ListInv, Next, NEW name, Get(name) > 0
  PROVE  store'[Get(name)'] = store[Get(name)] /\ Get(name)' = Get(name)
  <1>1. CASE store' = store
    BY <1>1 DEF Get, Places
  <1>2. ASSUME NEW m \in Manual, Register(m)
        PROVE  store'[Get(name)'] = store[Get(name)] /\ Get(name)' = Get(name)
    BY <1>2, RegisterKeeps
  <1>3. CASE Build
    <2>1. Places(store, name) = {}
      BY <1>3 DEF Build, ListInv, Places
    <2> QED BY <2>1 DEF Get
  <1> QED
    BY <1>1, <1>2, <1>3
    DEF Next, LoadStep, BuildFails, Begin, Attach, Return, Reply, Fail, Release, CloseProc, Released

\* A name never changes the procedure it stands for: whatever is registered
\* after it, a lookup returns the first one (Store.Get, Store.Register).
THEOREM NameKeepsProcedure == Spec => FirstWins
  <1>1. Init => ListInv
    BY InitListInv
  <1>2. ListInv /\ [Next]_vars => ListInv'
    BY NextListInv
  <1>3. ListInv /\ [Next]_vars =>
          [\A name \in Names : Get(name) > 0 => store'[Get(name)'] = store[Get(name)]
                                                /\ Get(name)' = Get(name)]_vars
    BY StepFirstWins
  <1> QED BY <1>1, <1>2, <1>3, PTL DEF Spec, FirstWins

------------------------------------------------------------------------------
(* Release closes all *)

Shape ==
  /\ open \in [Procs -> BOOLEAN]
  /\ calling \subseteq Procs \X Callers
  /\ closing \in Nat /\ releases \in Nat

\* Only what is in the store is called.
Busy(p) == open[p] \/ \E c \in Callers : <<p, c>> \in calling

Used == \A p \in Procs : Busy(p) => p =< Len(store)

\* What Release has passed is closed, or was opened again.
Closed == closing > 0 =>
  \A p \in Procs : open[p] /\ p < closing => p \in reopened

StoreInv == ListInv /\ Shape /\ Used /\ Closed

LEMMA InitStoreInv == Init => StoreInv
  BY InitListInv, StoreAssumption
  DEF Init, StoreInv, Shape, Used, Busy, Closed, Procs

LEMMA NextShape ==
  ASSUME StoreInv, [Next]_vars
  PROVE  Shape'
  <1> USE StoreAssumption DEF StoreInv
  <1>1. ASSUME NEW c \in Callers, NEW name, Begin(c, name) PROVE Shape'
    BY <1>1 DEF Begin, Shape, releasing
  <1>2. ASSUME NEW p \in Procs, NEW c \in Callers, Attach(p, c) PROVE Shape'
    BY <1>2 DEF Attach, Shape
  <1>3. ASSUME NEW p \in Procs, NEW c \in Callers, Reply(p, c) PROVE Shape'
    BY <1>3 DEF Return, Reply, Shape, releasing
  <1>4. ASSUME NEW p \in Procs, NEW c \in Callers, Fail(p, c) PROVE Shape'
    BY <1>4 DEF Return, Fail, Shape, releasing
  <1>5. CASE CloseProc
    <2>1. open' \in [Procs -> BOOLEAN]
      BY <1>5 DEF CloseProc, Shape
    <2>2. closing' \in Nat
      BY <1>5 DEF CloseProc, Shape
    <2> QED BY <1>5, <2>1, <2>2 DEF CloseProc, Shape
  <1>6. CASE UNCHANGED sessions /\ closing' \in {closing, 0, 1} /\ releases' \in {releases, releases + 1}
    BY <1>6 DEF sessions, Shape
  <1> QED
    BY <1>1, <1>2, <1>3, <1>4, <1>5, <1>6
    DEF Next, vars, releasing, LoadStep, Build, BuildFails, Register, Release, Released

\* The store only grows.
LEMMA StoreGrows ==
  ASSUME StoreInv, [Next]_vars
  PROVE  Len(store) \in Nat /\ Len(store') \in Nat /\ Len(store) =< Len(store')
  <1>1. IsList(store) /\ IsList(store')
    BY NextListInv DEF StoreInv, ListInv
  <1>2. Len(store) \in Nat /\ Len(store') \in Nat
    BY <1>1 DEF IsList
  <1>3. CASE store' = store
    BY <1>2, <1>3
  <1>4. ASSUME NEW m \in Manual, Register(m) PROVE Len(store) =< Len(store')
    BY <1>1, <1>2, <1>4, ListAppend DEF Register
  <1>5. CASE Build
    BY <1>2, <1>5 DEF Build, StoreInv, ListInv
  <1> QED
    BY <1>2, <1>3, <1>4, <1>5
    DEF Next, vars, LoadStep, BuildFails, Begin, Attach, Return, Reply, Fail, Release, CloseProc, Released

LEMMA NextUsed ==
  ASSUME StoreInv, [Next]_vars
  PROVE  Used'
  <1>1. Len(store) \in Nat /\ Len(store') \in Nat /\ Len(store) =< Len(store') /\ Procs \subseteq Nat
    BY StoreGrows, StoreAssumption DEF Procs
  <1>2. SUFFICES ASSUME NEW p \in Procs, Busy(p)'
                 PROVE  Busy(p) \/ p =< Len(store)
    BY <1>1 DEF StoreInv, Used
  <1>3. ASSUME NEW c \in Callers, NEW name, Begin(c, name)
        PROVE  Busy(p) \/ p =< Len(store)
    <2>1. Get(name) =< Len(store)
      BY <1>1, GetFirst
    <2>2. CASE p = Get(name)
      BY <2>1, <2>2
    <2>3. CASE p # Get(name)
      BY <1>2, <1>3, <2>3 DEF Begin, Busy
    <2> QED BY <2>2, <2>3
  <1>4. ASSUME NEW q \in Procs, NEW c \in Callers, Attach(q, c)
        PROVE  Busy(p)
    BY <1>2, <1>4 DEF Attach, StoreInv, Shape, Busy
  <1>5. ASSUME NEW q, open' = [open EXCEPT ![q] = FALSE], calling' \subseteq calling
        PROVE  Busy(p)
    BY <1>2, <1>5 DEF StoreInv, Shape, Busy
  <1>6. CASE open' = open /\ calling' \subseteq calling
    BY <1>2, <1>6 DEF Busy
  <1> QED
    BY <1>3, <1>4, <1>5, <1>6
    DEF Next, vars, sessions, LoadStep, Build, BuildFails, Register, Return, Reply, Fail,
        Release, CloseProc, Released

LEMMA NextClosed ==
  ASSUME StoreInv, [Next]_vars
  PROVE  Closed'
  <1> USE DEF StoreInv
  <1>1. Procs \subseteq Nat /\ closing \in Nat
    BY StoreAssumption DEF Procs, Shape
  <1>2. CASE UNCHANGED <<open, closing, reopened>>
    BY <1>2 DEF Closed
  <1>3. ASSUME NEW q \in Procs, NEW c \in Callers, Attach(q, c) PROVE Closed'
    BY <1>1, <1>3 DEF Attach, Closed, Shape
  <1>4. ASSUME NEW q \in Procs, NEW c \in Callers, Fail(q, c) PROVE Closed'
    BY <1>1, <1>4 DEF Return, Fail, Closed, Shape, releasing
  <1>5. CASE Release
    BY <1>1, <1>5 DEF Release, Closed, sessions, Procs
  <1>6. CASE CloseProc
    BY <1>1, <1>6 DEF CloseProc, Closed, Shape
  <1>7. CASE Released
    BY <1>7 DEF Released, Closed
  <1> QED
    BY <1>2, <1>3, <1>4, <1>5, <1>6, <1>7
    DEF Next, vars, sessions, releasing, LoadStep, Build, BuildFails, Register, Begin, Return, Reply

LEMMA NextStoreInv ==
  ASSUME StoreInv, [Next]_vars
  PROVE  StoreInv'
  BY NextListInv, NextShape, NextUsed, NextClosed DEF StoreInv

LEMMA StepReleaseClosesAll ==
  ASSUME StoreInv, Next, releases' > releases, NEW p \in Procs, open'[p]
  PROVE  p \in reopened
  <1>1. Released \/ releases' = releases
    BY DEF Next, releasing, LoadStep, Build, BuildFails, Register, Begin, Attach, Return, Reply, Fail,
           Release, CloseProc
  <1>2. Released /\ open' = open
    BY <1>1 DEF Released, sessions, StoreInv, Shape
  <1>3. p =< Len(store) /\ closing > Len(store) /\ closing \in Nat /\ p \in Nat
    BY <1>2, StoreAssumption DEF Released, StoreInv, Used, Busy, Shape, Procs
  <1>4. p < closing
    BY <1>3, StoreGrows DEF StoreInv
  <1> QED BY <1>2, <1>3, <1>4 DEF StoreInv, Closed

\* When Release returns, every open session was opened behind its back, by a
\* call of a procedure it had already closed (Store.Release).
THEOREM ReleaseLeavesNothing == Spec => ReleaseClosesAll
  <1>1. Init => StoreInv
    BY InitStoreInv
  <1>2. StoreInv /\ [Next]_vars => StoreInv'
    BY NextStoreInv
  <1>3. StoreInv /\ [Next]_vars =>
          [releases' > releases => \A p \in Procs : open'[p] => p \in reopened]_vars
    BY StepReleaseClosesAll
  <1> QED BY <1>1, <1>2, <1>3, PTL DEF Spec, ReleaseClosesAll

------------------------------------------------------------------------------
(* What is in the store *)

\* A store begins with what was loaded, and all of that can be driven.
ServeInv ==
  /\ ListInv /\ WalkInv
  /\ phase = "serve" =>
       /\ outcome = "ok" /\ Len(procs) =< Len(store)
       /\ \A i \in 1..Len(procs) : store[i] = procs[i] /\ Kind(procs[i]) # "none"

LEMMA InitServeInv == Init => ServeInv
  BY InitListInv, InitWalk DEF Init, ServeInv

LEMMA NextServeInv ==
  ASSUME ServeInv, [Next]_vars
  PROVE  ServeInv'
  <1>1. ListInv'
    BY NextListInv DEF ServeInv
  <1>2. [Walk]_loader
    BY DEF Next, vars, LoadStep, Build, BuildFails, Register, Begin, Attach, Return, Reply, Fail,
           Release, CloseProc, Released
  <1>3. WalkInv'
    BY <1>2, NextWalk DEF ServeInv
  <1>4. CASE LoadStep \/ BuildFails
    BY <1>1, <1>3, <1>4 DEF LoadStep, BuildFails, ServeInv
  <1>5. CASE Build
    <2>1. procs' = procs /\ outcome' = "ok" /\ store' = procs
          /\ \A i \in DOMAIN procs : Kind(procs[i]) # "none"
      BY <1>5 DEF Build, Supported, loader
    <2>2. Len(procs) \in Nat /\ DOMAIN procs = 1..Len(procs)
      BY LenProperties DEF ServeInv, WalkInv
    <2> QED BY <1>1, <1>3, <2>1, <2>2 DEF ServeInv
  <1>6. ASSUME NEW m \in Manual, Register(m) PROVE ServeInv'
    <2>1. procs' = procs /\ outcome' = outcome /\ phase' = phase /\ store' = Append(store, m)
      BY <1>6 DEF Register, loader
    <2>2. /\ Len(store) \in Nat /\ Len(store') = Len(store) + 1
          /\ \A i \in 1..Len(store) : store'[i] = store[i]
      BY <2>1, ListAppend DEF ServeInv, ListInv
    <2>3. Len(procs) \in Nat
      BY LenProperties DEF ServeInv, WalkInv
    <2> QED BY <1>1, <1>3, <2>1, <2>2, <2>3 DEF ServeInv
  <1>7. CASE UNCHANGED <<loader, phase, store>>
    BY <1>1, <1>3, <1>7 DEF ServeInv, loader
  <1> QED
    BY <1>4, <1>5, <1>6, <1>7
    DEF Next, vars, Begin, Attach, Return, Reply, Fail, Release, CloseProc, Released

LEMMA ServesAll == ServeInv => AllServed
  <1> SUFFICES ASSUME ServeInv, phase = "serve"
               PROVE  /\ at > Len(source.tree) /\ Len(store) >= Cardinality(Documented)
                      /\ \A j \in Documented :
                           /\ store[Place(j)].directory = source.tree[j].dir
                           /\ Kind(store[Place(j)]) # "none"
                           /\ Get(store[Place(j)].name) \in 1..Place(j)
    BY DEF AllServed
  <1>1. /\ at > Len(source.tree) /\ at \in Nat /\ Len(procs) =< Len(store)
        /\ Len(procs) = Cardinality(Documented) /\ Len(store) \in Nat
    <2>1. Len(source.tree) \in Nat /\ Len(store) \in Nat
      BY LenProperties DEF ServeInv, WalkInv, Source, ListInv, IsList
    <2> QED BY <2>1 DEF ServeInv, WalkInv
  <1>2. ASSUME NEW j \in Documented
        PROVE  /\ store[Place(j)].directory = source.tree[j].dir
               /\ Kind(store[Place(j)]) # "none"
               /\ Get(store[Place(j)].name) \in 1..Place(j)
    <2>1. Place(j) \in 1..Len(procs)
      BY <1>1, PlaceIs
    <2>2. store[Place(j)] = procs[Place(j)] /\ Kind(procs[Place(j)]) # "none"
      BY <2>1 DEF ServeInv
    <2>3. /\ procs[Place(j)] = Result(source.tree[j])
          /\ Result(source.tree[j]).directory = source.tree[j].dir
      BY DocumentedEntry, ResultIs DEF ServeInv
    <2>4. Place(j) \in Places(store, store[Place(j)].name)
      BY <1>1, <2>1 DEF Places
    <2>5. Get(store[Place(j)].name) > 0 /\ Get(store[Place(j)].name) =< Place(j)
          /\ Get(store[Place(j)].name) \in 0..Len(store)
      BY <1>1, <2>4, GetFirst
    <2> QED BY <1>1, <2>1, <2>2, <2>3, <2>5
  <1> QED BY <1>1, <1>2

\* A store that is there serves every documented manifest of the tree: it is in
\* the store, it can be driven, and its name stands for it, or for one before it
\* (NewStoreFromLoader, Store.Get).
THEOREM StoreServesAll == Spec => []AllServed
  BY InitServeInv, NextServeInv, ServesAll, PTL DEF Spec

==============================================================================
