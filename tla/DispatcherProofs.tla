--------------------------- MODULE DispatcherProofs ---------------------------
(***************************************************************************)
(* Proofs about Dispatcher, for any registrations, registries, workflow    *)
(* executions and calls that raise.                                        *)
(***************************************************************************)
EXTENDS Dispatcher, TLAPS

LEMMA TypeInit == Init => TypeOK
BY DispatcherAssumption DEF Init, TypeOK

LEMMA FaultsAreBounded ==
  ASSUME TypeOK, Fault \/ UNCHANGED faults PROVE faults' \in 0..MaxFault
BY DispatcherAssumption DEF TypeOK, Fault

LEMMA RegisterTypes == ASSUME TypeOK, NEW r \in Registration, Register(r) PROVE TypeOK'
<1>1. CASE Reserve(r)
  BY <1>1 DEF Reserve, GoesOn, TypeOK, bindings, executions
<1>2. CASE Construct(r)
  <2>1. faults' \in 0..MaxFault
    BY <1>2, FaultsAreBounded DEF Construct, MayRaise
  <2>2. /\ phase[r] = "RESERVED"
        /\ \/ phase' = [phase EXCEPT ![r] = "BINDING"] /\ release' = release
           \/ /\ phase' = [phase EXCEPT ![r] = "FAILED"]
              /\ release' = [release EXCEPT ![r] = "EXECUTOR"]
        /\ executor' = executor \/ executor' = [executor EXCEPT ![r] = "OPEN"]
        /\ client' = client \/ client' = [client EXCEPT ![r] = "LIVE"]
        /\ UNCHANGED <<owner, bindings, executions>>
    BY <1>2 DEF Construct, GoesOn, Fails
  <2>3. \A q \in Registration :
          /\ release'[q] # "NOTHING" => phase'[q] \in {"CLOSING", "FAILED"}
          /\ phase'[q] = "CLOSING" => release'[q] # "NOTHING"
    BY <2>2 DEF TypeOK
  <2>4. phase' \in [Registration -> {"NEW", "RESERVED", "BINDING", "READY", "CLOSING",
                                   "INTERRUPTED", "CLOSED", "FAILED", "LEAKED"}]
    <3>1. \A p \in {"BINDING", "FAILED"} :
            [phase EXCEPT ![r] = p]
              \in [Registration -> {"NEW", "RESERVED", "BINDING", "READY", "CLOSING",
                                   "INTERRUPTED", "CLOSED", "FAILED", "LEAKED"}]
      BY DEF TypeOK
    <3> QED
      BY <2>2, <3>1
  <2>5. release' \in [Registration -> {"NOTHING", "EXECUTOR", "DRAIN", "CLIENT",
                                     "executor", "store", "OWNERSHIP"}]
    <3>1. [release EXCEPT ![r] = "EXECUTOR"]
            \in [Registration -> {"NOTHING", "EXECUTOR", "DRAIN", "CLIENT",
                                 "executor", "store", "OWNERSHIP"}]
      BY DEF TypeOK
    <3> QED
      BY <2>2, <3>1 DEF TypeOK
  <2>6. /\ executor' \in [Registration -> {"NONE", "OPEN", "CLOSED"}]
        /\ client' \in [Registration -> {"NONE", "LIVE", "DESTROYED"}]
    BY <2>2 DEF TypeOK
  <2> QED
    BY <2>1, <2>2, <2>3, <2>4, <2>5, <2>6 DEF TypeOK, bindings, executions
<1>3. CASE BindWorkflow(r)
  <2>1. PICK a \in Attribute, w \in Workflow :
          /\ previous' = [previous EXCEPT ![a][w] = bound[a][w]]
          /\ bound' = [bound EXCEPT ![a][w] = r]
    BY <1>3, DispatcherAssumption DEF BindWorkflow, Current, Unbound, Targets, Attribute
  <2>2. bound' \in [Attribute -> [Workflow -> Registration \cup {None}]]
    BY <2>1 DEF TypeOK
  <2>3. previous' \in [Attribute -> [Workflow -> Registration \cup {None}]]
    BY <2>1 DEF TypeOK
  <2> QED
    BY <1>3, <2>2, <2>3 DEF BindWorkflow, TypeOK, resources, executions
<1>4. CASE BindRaises(r)
  <2>1. PICK a \in Attribute : bound' = [bound EXCEPT ![a] = Restored(r, a)]
    BY <1>4 DEF BindRaises, Current, Attribute
  <2>2. Restored(r, a) \in [Workflow -> Registration \cup {None}]
    BY DEF Restored, TypeOK
  <2>3. bound' \in [Attribute -> [Workflow -> Registration \cup {None}]]
    BY <2>1, <2>2 DEF TypeOK
  <2>4. faults' \in 0..MaxFault
    BY <1>4, FaultsAreBounded DEF BindRaises, MayRaise
  <2> QED
    BY <1>4, <2>3, <2>4 DEF BindRaises, Fails, TypeOK, resources, executions
<1>5. CASE Schedule(r)
  <2>1. faults' \in 0..MaxFault
    BY <1>5, FaultsAreBounded DEF Schedule
  <2>2. /\ phase[r] = "BINDING"
        /\ \/ phase' = [phase EXCEPT ![r] = "READY"] /\ release' = release
           \/ /\ phase' = [phase EXCEPT ![r] = "FAILED"]
              /\ release' = [release EXCEPT ![r] = "EXECUTOR"]
        /\ UNCHANGED <<resources, bindings, executions>>
    BY <1>5 DEF Schedule, GoesOn, Fails
  <2> QED
    BY <2>1, <2>2 DEF TypeOK, resources, bindings, executions
<1> QED
  BY <1>1, <1>2, <1>3, <1>4, <1>5 DEF Register

LEMMA ReleaseTypes ==
  ASSUME TypeOK, NEW r \in Registration, Close(r) \/ Release(r) PROVE TypeOK'
<1> USE DEF TypeOK, Releases, resources, bindings, executions
<1>1. CASE Close(r)
  BY <1>1 DEF Close
<1>2. CASE CloseExecutor(r)
  BY <1>2 DEF CloseExecutor
<1>3. CASE Drain(r)
  BY <1>3 DEF Drain
<1>4. CASE DestroyRaises(r)
  BY <1>4, DispatcherAssumption DEF DestroyRaises, Fault
<1>5. CASE DestroyClient(r)
  BY <1>5 DEF DestroyClient
<1>6. CASE ReleaseBindings(r)
  <2>1. PICK a \in Attribute : bound' = [bound EXCEPT ![a] = Restored(r, a)]
    BY <1>6 DEF ReleaseBindings, ReleaseBinding, Attribute
  <2>2. Restored(r, a) \in [Workflow -> Registration \cup {None}]
    BY DEF Restored
  <2>3. bound' \in [Attribute -> [Workflow -> Registration \cup {None}]]
    BY <2>1, <2>2
  <2> QED
    BY <1>6, <2>3 DEF ReleaseBindings, ReleaseBinding
<1>7. CASE ReleaseOwnership(r)
  BY <1>7 DEF ReleaseOwnership
<1> QED
  BY <1>1, <1>2, <1>3, <1>4, <1>5, <1>6, <1>7 DEF Release

LEMMA ExecuteTypes == ASSUME TypeOK, NEW x \in Execution, Execute(x) PROVE TypeOK'
<1> USE DEF TypeOK, Moves, resources, bindings
<1>1. CASE Begin(x)
  <2>1. bound["executor"][WorkflowOf[x]] \in Registration \cup {None}
    BY DispatcherAssumption DEF Attribute
  <2> QED
    BY <1>1, <2>1 DEF Begin
<1>2. CASE EndBody(x)
  BY <1>2 DEF EndBody
<1>3. CASE SubmitCheckpoint(x)
  BY <1>3 DEF SubmitCheckpoint
<1>4. CASE Checkpoint(x)
  BY <1>4 DEF Checkpoint
<1>5. CASE Again(x)
  BY <1>5 DEF Again
<1> QED
  BY <1>1, <1>2, <1>3, <1>4, <1>5 DEF Execute

LEMMA TypeStep == TypeOK /\ [Next]_vars => TypeOK'
<1>1. TypeOK /\ UNCHANGED vars => TypeOK'
  BY DEF TypeOK, vars, resources, bindings, executions
<1> QED
  BY <1>1, RegisterTypes, ReleaseTypes, ExecuteTypes DEF Next

\* Every step keeps the types; an execution at work has an executor, and only a
\* close or a call that failed releases anything.
THEOREM TypeCorrect == Spec => []TypeOK
BY TypeInit, TypeStep, PTL DEF Spec
-----------------------------------------------------------------------------
(***************************************************************************)
(* What a registration holds, by how far it is.                            *)
(***************************************************************************)

Free(r, a) == \A w \in Workflow : bound[a][w] # r

Past == {"DRAIN", "CLIENT", "executor", "store", "OWNERSHIP"}

\* In particular one that is being made, is in use or is being released owns
\* the process, and each release leaves nothing of its kind behind.
Life(r) ==
  /\ phase[r] \in {"RESERVED", "BINDING", "READY", "CLOSING", "INTERRUPTED", "LEAKED"}
       \/ release[r] # "NOTHING" => owner = r
  /\ phase[r] \in {"NEW", "RESERVED"} => executor[r] = "NONE" /\ client[r] = "NONE"
  /\ phase[r] \in {"BINDING", "READY"} => executor[r] = "OPEN" /\ client[r] = "LIVE"
  /\ phase[r] = "READY" => Unbound(r, "executor") = {} /\ Unbound(r, "store") = {}
  /\ phase[r] \in {"CLOSED", "INTERRUPTED", "LEAKED"} => executor[r] # "OPEN"
  /\ phase[r] \in {"CLOSED", "FAILED"} /\ release[r] = "NOTHING" => ~Holds(r)
  /\ release[r] \in Past => executor[r] # "OPEN"
  /\ release[r] \in {"executor", "store", "OWNERSHIP"} => client[r] # "LIVE"
  /\ release[r] \in {"store", "OWNERSHIP"} => Free(r, "executor")
  /\ release[r] = "OWNERSHIP" => Free(r, "store")
  /\ executor[r] = "NONE" => Free(r, "executor") /\ Free(r, "store")

LifeInv ==
  /\ \A r \in Registration : Life(r)
  /\ \A a \in Attribute : \A w \in Workflow : previous[a][w] = None

LEMMA LifeInit == Init => LifeInv
BY DispatcherAssumption DEF Init, LifeInv, Life, Free, Attribute, Past

\* Only the owner holds anything.
LEMMA LifeMeansOwner == TypeOK /\ LifeInv => OwnerHoldsAll
<1> SUFFICES ASSUME TypeOK, LifeInv, NEW r \in Registration, Holds(r) PROVE owner = r
  BY DEF OwnerHoldsAll
<1>1. Life(r) /\ phase[r] \in {"NEW", "RESERVED", "BINDING", "READY", "CLOSING",
                               "INTERRUPTED", "CLOSED", "FAILED", "LEAKED"}
  BY DEF LifeInv, TypeOK
<1>2. phase[r] # "NEW"
  <2>1. phase[r] = "NEW" => executor[r] = "NONE" /\ client[r] = "NONE"
                            /\ Free(r, "executor") /\ Free(r, "store")
    BY <1>1 DEF Life
  <2> QED
    BY <2>1 DEF Holds, Free, Attribute
<1>3. phase[r] \in {"CLOSED", "FAILED"} => release[r] # "NOTHING"
  BY <1>1 DEF Life
<1>4. phase[r] = "CLOSED" => release[r] = "NOTHING"
  BY DEF TypeOK
<1> QED
  BY <1>1, <1>2, <1>3, <1>4 DEF Life

\* So a binding never replaces one of another registration.
LEMMA NothingIsReplaced ==
  ASSUME TypeOK, LifeInv, NEW r \in Registration, owner = r,
         NEW a \in Attribute, NEW w \in Workflow
  PROVE  bound[a][w] \in {r, None} /\ previous[a][w] = None
<1>1. ASSUME NEW q \in Registration, bound[a][w] = q PROVE q = r
  BY <1>1, LifeMeansOwner DEF OwnerHoldsAll, Holds
<1> QED
  BY <1>1 DEF TypeOK, LifeInv

\* The steps of the owner leave the other registrations alone.
LEMMA OthersKeep ==
  ASSUME TypeOK, LifeInv, NEW r \in Registration, owner = r, owner' \in {r, None},
         NEW q \in Registration, q # r,
         phase'[q] = phase[q], release'[q] = release[q],
         executor'[q] = executor[q], client'[q] = client[q],
         \A a \in Attribute : \A w \in Workflow : bound'[a][w] \in {bound[a][w], r, None}
  PROVE  Life(q)'
<1>1. Life(q)
  BY DEF LifeInv
<1>2. /\ phase[q] \notin {"RESERVED", "BINDING", "READY", "CLOSING", "INTERRUPTED", "LEAKED"}
      /\ release[q] = "NOTHING"
  BY <1>1 DEF Life
<1>3. \A a \in Attribute : Free(q, a) => Free(q, a)'
  BY DispatcherAssumption DEF Free
<1>4. ~Holds(q) => ~Holds(q)'
  BY DispatcherAssumption DEF Holds
<1> QED
  BY <1>1, <1>2, <1>3, <1>4 DEF Life, Attribute, Past

LEMMA RegisterLife ==
  ASSUME TypeOK, TypeOK', LifeInv, NEW r \in Registration, Register(r) PROVE LifeInv'
<1>1. CASE Reserve(r)
  <2>1. /\ phase[r] = "NEW" /\ owner = None /\ owner' = r
        /\ phase' = [phase EXCEPT ![r] = "RESERVED"]
        /\ UNCHANGED <<release, executor, client, bound, previous>>
    BY <1>1 DEF Reserve, GoesOn, bindings
  <2>2. ASSUME NEW q \in Registration PROVE Life(q)'
    <3>1. Life(q) /\ Unbound(q, "executor")' = Unbound(q, "executor")
          /\ Unbound(q, "store")' = Unbound(q, "store") /\ (Holds(q)' <=> Holds(q))
      BY <2>1 DEF LifeInv, Unbound, Targets, Holds
    <3>2. CASE q = r
      BY <2>1, <3>1, <3>2 DEF Life, TypeOK, Free, Past
    <3>3. CASE q # r
      BY <2>1, <3>1, <3>3, DispatcherAssumption DEF Life, TypeOK, Free, Past
    <3> QED
      BY <3>2, <3>3
  <2> QED
    BY <2>1, <2>2 DEF LifeInv
<1>2. CASE Construct(r)
  <2>1. /\ phase[r] = "RESERVED" /\ owner' = owner /\ UNCHANGED <<bound, previous>>
        /\ \/ /\ phase' = [phase EXCEPT ![r] = "FAILED"]
              /\ release' = [release EXCEPT ![r] = "EXECUTOR"]
              /\ executor' = executor
              /\ client' = client \/ client' = [client EXCEPT ![r] = "LIVE"]
           \/ /\ phase' = [phase EXCEPT ![r] = "BINDING"]
              /\ client' = [client EXCEPT ![r] = "LIVE"]
              /\ executor' = [executor EXCEPT ![r] = "OPEN"]
              /\ release' = release
    BY <1>2 DEF Construct, GoesOn, Fails, bindings
  <2>2. Life(r) /\ owner = r
    BY <2>1 DEF LifeInv, Life
  <2>3. Life(r)'
    BY <2>1, <2>2 DEF Life, TypeOK, Free, Past
  <2>4. ASSUME NEW q \in Registration, q # r PROVE Life(q)'
    <3>1. phase'[q] = phase[q] /\ release'[q] = release[q]
          /\ executor'[q] = executor[q] /\ client'[q] = client[q]
      BY <2>1, <2>4 DEF TypeOK
    <3> QED
      BY <2>1, <2>2, <2>4, <3>1, OthersKeep
  <2> QED
    BY <2>1, <2>3, <2>4 DEF LifeInv
<1>3. CASE BindWorkflow(r)
  <2>1. PICK a \in Attribute, w \in Workflow :
          /\ previous' = [previous EXCEPT ![a][w] = bound[a][w]]
          /\ bound' = [bound EXCEPT ![a][w] = r]
          /\ bound[a][w] # r
    BY <1>3, DispatcherAssumption DEF BindWorkflow, Current, Unbound, Targets, Attribute
  <2>2. phase[r] = "BINDING" /\ UNCHANGED <<phase, release, owner, executor, client>>
    BY <1>3 DEF BindWorkflow, resources
  <2>3. Life(r) /\ owner = r
    BY <2>2 DEF LifeInv, Life
  <2>4. bound[a][w] = None
    BY <2>1, <2>3, NothingIsReplaced
  <2>5. \A b \in Attribute : \A v \in Workflow :
          previous'[b][v] = None /\ bound'[b][v] \in {bound[b][v], r, None}
    BY <2>1, <2>4 DEF LifeInv, TypeOK
  <2>6. Life(r)'
    BY <2>2, <2>3 DEF Life, Past
  <2>7. ASSUME NEW q \in Registration, q # r PROVE Life(q)'
    BY <2>2, <2>3, <2>5, <2>7, OthersKeep
  <2> QED
    BY <2>5, <2>6, <2>7 DEF LifeInv
<1>4. CASE BindRaises(r)
  <2>1. PICK a \in Attribute : bound' = [bound EXCEPT ![a] = Restored(r, a)]
    BY <1>4 DEF BindRaises, Current, Attribute
  <2>2. /\ phase[r] = "BINDING" /\ phase' = [phase EXCEPT ![r] = "FAILED"]
        /\ release' = [release EXCEPT ![r] = "EXECUTOR"]
        /\ UNCHANGED <<owner, executor, client, previous>>
    BY <1>4 DEF BindRaises, Fails, resources
  <2>3. Life(r) /\ owner = r
    BY <2>2 DEF LifeInv, Life
  <2>4. \A b \in Attribute : \A v \in Workflow : bound'[b][v] \in {bound[b][v], r, None}
    BY <2>1 DEF Restored, TypeOK, LifeInv
  <2>5. Life(r)'
    BY <2>2, <2>3 DEF Life, TypeOK, Past
  <2>6. ASSUME NEW q \in Registration, q # r PROVE Life(q)'
    <3>1. phase'[q] = phase[q] /\ release'[q] = release[q]
      BY <2>2, <2>6 DEF TypeOK
    <3> QED
      BY <2>2, <2>3, <2>4, <2>6, <3>1, OthersKeep
  <2> QED
    BY <2>2, <2>5, <2>6 DEF LifeInv
<1>5. CASE Schedule(r)
  <2>1. /\ phase[r] = "BINDING" /\ Unbound(r, "executor") = {} /\ Unbound(r, "store") = {}
        /\ UNCHANGED <<owner, executor, client, bound, previous>>
        /\ \/ phase' = [phase EXCEPT ![r] = "READY"] /\ release' = release
           \/ /\ phase' = [phase EXCEPT ![r] = "FAILED"]
              /\ release' = [release EXCEPT ![r] = "EXECUTOR"]
    BY <1>5 DEF Schedule, GoesOn, Fails, resources, bindings, Attribute
  <2>2. Life(r) /\ owner = r
    BY <2>1 DEF LifeInv, Life
  <2>3. Unbound(r, "executor")' = {} /\ Unbound(r, "store")' = {}
    BY <2>1 DEF Unbound, Targets
  <2>4. Life(r)'
    BY <2>1, <2>2, <2>3 DEF Life, TypeOK, Past, Free
  <2>5. ASSUME NEW q \in Registration, q # r PROVE Life(q)'
    <3>1. phase'[q] = phase[q] /\ release'[q] = release[q]
      BY <2>1, <2>5 DEF TypeOK
    <3> QED
      BY <2>1, <2>2, <2>5, <3>1, OthersKeep
  <2> QED
    BY <2>1, <2>4, <2>5 DEF LifeInv
<1> QED
  BY <1>1, <1>2, <1>3, <1>4, <1>5 DEF Register

\* A release of the owner: it moves on, or ends, or is interrupted.
LEMMA ReleaseLife ==
  ASSUME TypeOK, TypeOK', LifeInv, NEW r \in Registration, Close(r) \/ Release(r)
  PROVE  LifeInv'
<1> DEFINE others ==
      \A q \in Registration : q # r =>
        /\ phase'[q] = phase[q] /\ release'[q] = release[q]
        /\ executor'[q] = executor[q] /\ client'[q] = client[q]
<1>0. Life(r)
  BY DEF LifeInv
<1>1. owner = r
  <2>1. phase[r] \in {"READY", "INTERRUPTED"} \/ release[r] # "NOTHING"
    BY DEF Close, Release, CloseExecutor, Drain, DestroyRaises, DestroyClient,
           ReleaseBindings, ReleaseBinding, ReleaseOwnership, Releases
  <2> QED
    BY <1>0, <2>1 DEF Life
<1>2. ASSUME Life(r)', others, owner' \in {r, None}, previous' = previous,
             \A a \in Attribute : \A w \in Workflow : bound'[a][w] \in {bound[a][w], r, None}
      PROVE  LifeInv'
  <2>1. ASSUME NEW q \in Registration PROVE Life(q)'
    BY <1>1, <1>2, OthersKeep
  <2> QED
    BY <1>2, <2>1 DEF LifeInv
<1>3. CASE Close(r)
  <2>1. /\ phase[r] \in {"READY", "INTERRUPTED"}
        /\ phase' = [phase EXCEPT ![r] = "CLOSING"]
        /\ release' = [release EXCEPT ![r] = "EXECUTOR"]
        /\ UNCHANGED <<owner, executor, client, bound, previous>>
    BY <1>3 DEF Close, resources, bindings
  <2>2. Life(r)'
    BY <1>0, <1>1, <2>1 DEF Life, TypeOK, Past, Free
  <2>3. others
    BY <2>1 DEF TypeOK
  <2> QED
    BY <1>1, <1>2, <2>1, <2>2, <2>3
<1>4. CASE CloseExecutor(r)
  <2>1. /\ release[r] = "EXECUTOR" /\ release' = [release EXCEPT ![r] = "DRAIN"]
        /\ executor' = [executor EXCEPT ![r] = IF @ = "NONE" THEN @ ELSE "CLOSED"]
        /\ UNCHANGED <<owner, client, phase, bound, previous>>
    BY <1>4 DEF CloseExecutor, Releases, bindings
  <2>2. Life(r)'
    BY <1>0, <1>1, <2>1 DEF Life, TypeOK, Past, Free
  <2>3. others
    BY <2>1 DEF TypeOK
  <2> QED
    BY <1>1, <1>2, <2>1, <2>2, <2>3
<1>5. CASE Drain(r)
  <2>1. /\ release[r] = "DRAIN" /\ release' = [release EXCEPT ![r] = "CLIENT"]
        /\ UNCHANGED <<owner, executor, client, phase, bound, previous>>
    BY <1>5 DEF Drain, Releases, resources, bindings
  <2>2. Life(r)'
    BY <1>0, <1>1, <2>1 DEF Life, TypeOK, Past, Free
  <2>3. others
    BY <2>1 DEF TypeOK
  <2> QED
    BY <1>1, <1>2, <2>1, <2>2, <2>3
<1>6. CASE DestroyRaises(r)
  <2>1. /\ release[r] = "CLIENT" /\ release' = [release EXCEPT ![r] = "NOTHING"]
        /\ phase' = [phase EXCEPT ![r] = IF @ = "CLOSING" THEN "INTERRUPTED" ELSE "LEAKED"]
        /\ UNCHANGED <<owner, executor, client, bound, previous>>
    BY <1>6 DEF DestroyRaises, Releases, resources, bindings
  <2>2. Life(r)'
    BY <1>0, <1>1, <2>1 DEF Life, TypeOK, Past, Free
  <2>3. others
    BY <2>1 DEF TypeOK
  <2> QED
    BY <1>1, <1>2, <2>1, <2>2, <2>3
<1>7. CASE DestroyClient(r)
  <2>1. /\ release[r] = "CLIENT" /\ release' = [release EXCEPT ![r] = "executor"]
        /\ client' = [client EXCEPT ![r] = IF @ = "NONE" THEN @ ELSE "DESTROYED"]
        /\ UNCHANGED <<owner, executor, phase, bound, previous>>
    BY <1>7 DEF DestroyClient, Releases, bindings
  <2>2. Life(r)'
    BY <1>0, <1>1, <2>1 DEF Life, TypeOK, Past, Free
  <2>3. others
    BY <2>1 DEF TypeOK
  <2> QED
    BY <1>1, <1>2, <2>1, <2>2, <2>3
<1>8. CASE ReleaseBindings(r)
  <2>1. PICK a \in Attribute :
          /\ bound' = [bound EXCEPT ![a] = Restored(r, a)] /\ release[r] = a
          /\ release' = [release EXCEPT ![r] = IF a = "executor" THEN "store" ELSE "OWNERSHIP"]
          /\ UNCHANGED <<owner, executor, client, phase, previous>>
    <3>1. CASE ReleaseBinding(r, "executor", "store")
      BY <3>1 DEF ReleaseBinding, Releases, resources, Attribute
    <3>2. CASE ReleaseBinding(r, "store", "OWNERSHIP")
      BY <3>2 DEF ReleaseBinding, Releases, resources, Attribute
    <3> QED
      BY <1>8, <3>1, <3>2 DEF ReleaseBindings
  <2>2. \A b \in Attribute : \A v \in Workflow : bound'[b][v] \in {bound[b][v], r, None}
    BY <2>1 DEF Restored, TypeOK, LifeInv
  <2>3. Free(r, a)' /\ \A b \in Attribute : Free(r, b) => Free(r, b)'
    BY <2>1, DispatcherAssumption DEF Free, Restored, TypeOK, LifeInv
  <2>4. Life(r)'
    BY <1>0, <1>1, <2>1, <2>3 DEF Life, TypeOK, Past, Attribute
  <2>5. others
    BY <2>1 DEF TypeOK
  <2> QED
    BY <1>1, <1>2, <2>1, <2>2, <2>4, <2>5
<1>9. CASE ReleaseOwnership(r)
  <2>1. /\ release[r] = "OWNERSHIP" /\ release' = [release EXCEPT ![r] = "NOTHING"]
        /\ phase' = [phase EXCEPT ![r] = IF @ = "CLOSING" THEN "CLOSED" ELSE @]
        /\ owner' = None
        /\ UNCHANGED <<executor, client, bound, previous>>
    BY <1>9 DEF ReleaseOwnership, Releases, bindings
  <2>2. Free(r, "executor") /\ Free(r, "store") /\ executor[r] # "OPEN" /\ client[r] # "LIVE"
    BY <1>0, <2>1 DEF Life, Past
  <2>3. ~Holds(r)'
    BY <2>1, <2>2 DEF Holds, Free, Attribute
  <2>4. Life(r)'
    BY <1>0, <2>1, <2>2, <2>3 DEF Life, TypeOK, Past, Free
  <2>5. others
    BY <2>1 DEF TypeOK
  <2> QED
    BY <1>2, <2>1, <2>4, <2>5
<1> QED
  BY <1>3, <1>4, <1>5, <1>6, <1>7, <1>8, <1>9 DEF Release

LEMMA LifeStep == TypeOK /\ TypeOK' /\ LifeInv /\ [Next]_vars => LifeInv'
<1> SUFFICES ASSUME TypeOK, TypeOK', LifeInv, [Next]_vars PROVE LifeInv'
  OBVIOUS
<1>1. ASSUME UNCHANGED <<owner, phase, release, executor, client, bound, previous>>
      PROVE  LifeInv'
  BY <1>1 DEF LifeInv, Life, Free, Unbound, Targets, Holds
<1>2. CASE UNCHANGED vars
  BY <1>1, <1>2 DEF vars, resources, bindings
<1>3. ASSUME NEW x \in Execution, Execute(x) PROVE LifeInv'
  BY <1>1, <1>3 DEF Execute, Begin, EndBody, SubmitCheckpoint, Checkpoint, Again,
                    Moves, resources, bindings
<1> QED
  BY <1>2, <1>3, RegisterLife, ReleaseLife DEF Next

LEMMA LifeCorrect == Spec => [](TypeOK /\ LifeInv)
BY TypeInit, TypeStep, LifeInit, LifeStep, PTL DEF Spec

\* Nothing is held by a registration that does not own the process.
THEOREM OwnersHoldAll == Spec => []OwnerHoldsAll
BY LifeCorrect, LifeMeansOwner, PTL

\* A handle in use has its executor, its client and its attributes.
THEOREM ReadyIsComplete == Spec => []ReadyIsWhole
<1>1. TypeOK /\ LifeInv => ReadyIsWhole
  <2> SUFFICES ASSUME TypeOK, LifeInv, NEW r \in Registration, phase[r] = "READY"
               PROVE  /\ executor[r] = "OPEN" /\ client[r] = "LIVE"
                      /\ \A w \in Registry[r] :
                           bound["executor"][w] = r /\ (w \in Stage => bound["store"][w] = r)
    BY DEF ReadyIsWhole
  <2>1. /\ executor[r] = "OPEN" /\ client[r] = "LIVE"
        /\ Unbound(r, "executor") = {} /\ Unbound(r, "store") = {}
    BY DEF LifeInv, Life
  <2>2. \A w \in Registry[r] :
          bound["executor"][w] = r /\ (w \in Stage => bound["store"][w] = r)
    BY <2>1 DEF Unbound, Targets
  <2> QED
    BY <2>1, <2>2
<1> QED
  BY <1>1, LifeCorrect, PTL
-----------------------------------------------------------------------------
(***************************************************************************)
(* The shutdown of an executor.                                            *)
(***************************************************************************)

\* A workflow at work holds an executor that was made, open or closed.
WorkInv ==
  \A x \in Execution : run[x] \in {"BODY", "ENDED", "QUEUED"} => executor[uses[x]] # "NONE"

ShutInv == WorkInv /\ ShutdownIsFinal

LEMMA ShutInit == Init => ShutInv
BY DEF Init, ShutInv, WorkInv, ShutdownIsFinal, Accepted

LEMMA ShutStep ==
  TypeOK /\ TypeOK' /\ LifeInv /\ LifeInv' /\ ShutInv /\ [Next]_vars => ShutInv'
<1> SUFFICES ASSUME TypeOK, TypeOK', LifeInv, LifeInv', ShutInv, [Next]_vars PROVE ShutInv'
  OBVIOUS
<1> USE DEF ShutInv
<1>1. ASSUME NEW x \in Execution, Execute(x) PROVE ShutInv'
  <2>1. UNCHANGED <<phase, release, executor>>
    BY <1>1 DEF Execute, Begin, EndBody, SubmitCheckpoint, Checkpoint, Again, Moves, resources
  <2>2. WorkInv'
    <3> SUFFICES ASSUME NEW y \in Execution, run'[y] \in {"BODY", "ENDED", "QUEUED"}
                 PROVE  executor[uses'[y]] # "NONE"
      BY <2>1 DEF WorkInv
    <3>1. CASE run[y] \in {"BODY", "ENDED", "QUEUED"} /\ uses'[y] = uses[y]
      BY <3>1 DEF WorkInv
    <3>2. CASE y = x /\ Begin(x)
      <4>1. /\ uses'[x] = bound["executor"][WorkflowOf[x]] /\ uses'[x] # None
        BY <3>2 DEF Begin, Moves, TypeOK
      <4>2. uses'[x] \in Registration /\ WorkflowOf[x] \in Workflow
        BY <4>1, DispatcherAssumption DEF TypeOK
      <4> QED
        BY <3>2, <4>1, <4>2 DEF LifeInv, Life, Free
    <3> QED
      BY <1>1, <3>1, <3>2
         DEF Execute, Begin, EndBody, SubmitCheckpoint, Checkpoint, Again, Moves, TypeOK
  <2>3. ASSUME NEW y \in Execution, NEW r \in Registration,
               run'[y] = "QUEUED", uses'[y] = r, y \notin Accepted(r)
        PROVE  executor[r] = "OPEN"
    <3>1. y = x /\ SubmitCheckpoint(x)
      BY <1>1, <2>3
         DEF Execute, Begin, EndBody, SubmitCheckpoint, Checkpoint, Again, Moves, TypeOK, Accepted
    <3>2. run[x] = "ENDED" /\ uses[x] = r /\ executor[r] # "CLOSED"
      BY <2>3, <3>1 DEF SubmitCheckpoint, Moves, TypeOK
    <3> QED
      BY <3>2 DEF WorkInv, TypeOK
  <2>4. ASSUME NEW r \in Registration, executor[r] # "OPEN", Accepted(r) = {}
        PROVE  Accepted(r)' = {}
    BY <2>3, <2>4 DEF Accepted
  <2>5. \A r \in Registration :
          release[r] \in {"CLIENT", "executor", "store", "OWNERSHIP"}
            \/ phase[r] \in {"INTERRUPTED", "CLOSED"} => executor[r] # "OPEN"
    BY DEF LifeInv, Life, Past
  <2> QED
    BY <2>1, <2>2, <2>4, <2>5 DEF ShutdownIsFinal
<1>2. ASSUME UNCHANGED <<run, uses>>,
             \A r \in Registration : executor[r] # "NONE" => executor'[r] # "NONE"
      PROVE  WorkInv' /\ \A r \in Registration : Accepted(r)' = Accepted(r)
  BY <1>2 DEF WorkInv, Accepted, TypeOK
<1>3. CASE UNCHANGED vars
  BY <1>3 DEF vars, executions, resources, WorkInv, ShutdownIsFinal, Accepted
<1>4. ASSUME NEW r \in Registration, Register(r) PROVE ShutInv'
  <2>1. UNCHANGED <<run, uses>>
    BY <1>4 DEF Register, Reserve, Construct, BindWorkflow, BindRaises, Schedule, executions
  <2>2. \A q \in Registration : executor[q] # "NONE" => executor'[q] # "NONE"
    BY <1>4 DEF Register, Reserve, Construct, BindWorkflow, BindRaises, Schedule, resources, TypeOK
  <2>3. \A q \in Registration :
          release'[q] \in {release[q], "EXECUTOR"}
            /\ (phase'[q] = phase[q] \/ phase'[q] \in {"RESERVED", "BINDING", "READY", "FAILED"})
    BY <1>4 DEF Register, Reserve, Construct, BindWorkflow, BindRaises, Schedule,
                GoesOn, Fails, TypeOK
  <2> QED
    BY <1>2, <2>1, <2>2, <2>3 DEF ShutdownIsFinal
<1>5. ASSUME NEW r \in Registration, Close(r) \/ Release(r) PROVE ShutInv'
  <2>1. UNCHANGED <<run, uses>>
    BY <1>5 DEF Close, Release, CloseExecutor, Drain, DestroyRaises, DestroyClient,
           ReleaseBindings, ReleaseBinding, ReleaseOwnership, executions
  <2>2. \A q \in Registration : executor[q] # "NONE" => executor'[q] # "NONE"
    BY <1>5 DEF Close, Release, CloseExecutor, Drain, DestroyRaises, DestroyClient,
           ReleaseBindings, ReleaseBinding, ReleaseOwnership, resources, TypeOK
  <2>3. \A q \in Registration : q # r => release'[q] = release[q] /\ phase'[q] = phase[q]
    BY <1>5 DEF Close, Release, CloseExecutor, Drain, DestroyRaises, DestroyClient,
           ReleaseBindings, ReleaseBinding, ReleaseOwnership, Releases, TypeOK
  <2>4. \/ release'[r] \in {"EXECUTOR", "DRAIN"} /\ phase'[r] \in {phase[r], "CLOSING"}
        \/ release[r] \in {"CLIENT", "executor", "store", "OWNERSHIP"}
        \/ Drain(r)
    BY <1>5 DEF Close, Release, CloseExecutor, DestroyRaises, DestroyClient,
           ReleaseBindings, ReleaseBinding, ReleaseOwnership, Releases, TypeOK
  <2>5. CASE Drain(r)
    <3>1. Accepted(r) = {}
      BY <2>5 DEF Drain
    <3> QED
      BY <1>2, <2>1, <2>2, <2>3, <3>1 DEF ShutdownIsFinal
  <2> QED
    BY <1>2, <2>1, <2>2, <2>3, <2>4, <2>5 DEF ShutdownIsFinal
<1> QED
  BY <1>1, <1>3, <1>4, <1>5 DEF Next

\* No checkpoint is waiting or accepted once an executor was shut down.
THEOREM ShutdownsAreFinal == Spec => []ShutdownIsFinal
BY LifeCorrect, ShutInit, TypeStep, LifeStep, ShutStep, PTL DEF Spec, ShutInv
=============================================================================
