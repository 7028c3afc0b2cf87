------------------------------ MODULE Dispatcher ------------------------------
(***************************************************************************)
(* The dispatcher of one process: a registration reserves the process,     *)
(* makes its client and its executor, binds executor and object store to   *)
(* the wrapped workflows one by one, and gives all of it back when it is   *)
(* closed, or when a step of it raises. The workflows run meanwhile: one   *)
(* takes its executor when it begins, its object store when its body has   *)
(* ended, and hands its ledger checkpoint to the executor it took.         *)
(*                                                                         *)
(* A registration is one call of register_scheduled_dispatcher and the     *)
(* handle it returns; a call that the ownership of another refuses changes *)
(* nothing and is no step. The settings are valid.                         *)
(*                                                                         *)
(* The passes that a registration declares in DBOS are the other modules.  *)
(* Nothing in the code withdraws a declaration, not even close, and the    *)
(* model does not have them: it is about what this process holds.          *)
(***************************************************************************)
EXTENDS Integers, FiniteSets

CONSTANTS
  Registration,  \* calls of the application
  Workflow,      \* wrapped workflows
  Stage,         \* those of stages, the others are of run completions
  Registry,      \* registration -> the workflows of its registry
  Execution,     \* workflow executions in this process
  WorkflowOf,    \* execution -> workflow
  MaxFault,      \* bound: calls of the libraries that raise
  None

ASSUME DispatcherAssumption ==
  /\ Stage \subseteq Workflow
  /\ Registry \in [Registration -> SUBSET Workflow]
  /\ WorkflowOf \in [Execution -> Workflow]
  /\ MaxFault \in Nat
  /\ None \notin Registration

VARIABLES
  owner,     \* _DISPATCHER_OWNERSHIP: the registration that holds the token
  phase,     \* registration -> how far the call or its handle is
  release,   \* registration -> what close, or the failed call, releases next
  executor,  \* registration -> its ledger checkpoint executor
  client,    \* registration -> its DBOS client
  bound,     \* attribute, workflow -> registration whose payload it holds
  previous,  \* attribute, workflow -> what its last binding replaced
  run,       \* execution -> where it is
  uses,      \* execution -> registration whose executor it took
  faults

resources == <<owner, executor, client>>
bindings == <<bound, previous>>
executions == <<run, uses>>
vars == <<phase, release, resources, bindings, executions, faults>>

Attribute == {"executor", "store"}

Init ==
  /\ owner = None
  /\ phase = [r \in Registration |-> "NEW"]
  /\ release = [r \in Registration |-> "NOTHING"]
  /\ executor = [r \in Registration |-> "NONE"]
  /\ client = [r \in Registration |-> "NONE"]
  /\ bound = [a \in Attribute |-> [w \in Workflow |-> None]]
  /\ previous = [a \in Attribute |-> [w \in Workflow |-> None]]
  /\ run = [x \in Execution |-> "IDLE"]
  /\ uses = [x \in Execution |-> None]
  /\ faults = 0

Fault == faults < MaxFault /\ faults' = faults + 1

\* A step raises when its test fails, or when a library does.
MayRaise(test) == IF test THEN Fault ELSE UNCHANGED faults
-----------------------------------------------------------------------------
(***************************************************************************)
(* A registration.                                                         *)
(***************************************************************************)

\* Mutant: completions are left out of what the executor is bound to.
StagesOnly(r, a) == Registry[r] \cap Stage

\* The executor goes to stages and completions, the object store to stages.
Targets(r, a) == IF a = "executor" THEN Registry[r] ELSE Registry[r] \cap Stage

\* Only an executor that was closed no longer owns its workflow.
IsLive(a, w) ==
  bound[a][w] # None /\ (a = "store" \/ executor[bound[a][w]] = "OPEN")
Preflight(r, a) == \A w \in Targets(r, a) : ~IsLive(a, w)

Unbound(r, a) == {w \in Targets(r, a) : bound[a][w] # r}

GoesOn(r, next) ==
  /\ phase' = [phase EXCEPT ![r] = next]
  /\ UNCHANGED release

\* An exception: what there is by now is released, from the executor on.
Fails(r) ==
  /\ phase' = [phase EXCEPT ![r] = "FAILED"]
  /\ release' = [release EXCEPT ![r] = "EXECUTOR"]

Reserve(r) ==
  /\ phase[r] = "NEW" /\ owner = None
  /\ owner' = r
  /\ GoesOn(r, "RESERVED")
  /\ UNCHANGED <<executor, client, bindings, executions, faults>>

\* The preflight, the client and the executor; each of them may raise.
Construct(r) ==
  /\ phase[r] = "RESERVED"
  /\ \/ /\ Fails(r) /\ MayRaise(Preflight(r, "executor"))
        /\ UNCHANGED <<executor, client>>
     \/ /\ Preflight(r, "executor")
        /\ client' = [client EXCEPT ![r] = "LIVE"]
        /\ \/ /\ executor' = [executor EXCEPT ![r] = "OPEN"]
              /\ GoesOn(r, "BINDING") /\ UNCHANGED faults
           \/ Fails(r) /\ Fault /\ UNCHANGED executor
  /\ UNCHANGED <<owner, bindings, executions>>

\* The attribute that is bound now: the executor, and then the store.
Current(r) == IF Unbound(r, "executor") # {} THEN "executor" ELSE "store"

\* The preflight of bind comes before the first workflow.
MayBind(r, a) ==
  Unbound(r, a) = Targets(r, a) => Preflight(r, a)

BindWorkflow(r) ==
  /\ phase[r] = "BINDING"
  /\ LET a == Current(r) IN
     /\ MayBind(r, a)
     /\ \E w \in Unbound(r, a) :
          /\ previous' = [previous EXCEPT ![a][w] = bound[a][w]]
          /\ bound' = [bound EXCEPT ![a][w] = r]
  /\ UNCHANGED <<phase, release, resources, executions, faults>>

Restored(r, a) ==
  [w \in Workflow |-> IF bound[a][w] = r THEN previous[a][w] ELSE bound[a][w]]

\* A live owner, or a workflow that takes no attribute: bind undoes its own
\* part, and the call fails with what was bound before.
BindRaises(r) ==
  /\ phase[r] = "BINDING"
  /\ LET a == Current(r) IN
     /\ Unbound(r, a) # {}
     /\ MayRaise(MayBind(r, a))
     /\ bound' = [bound EXCEPT ![a] = Restored(r, a)]
  /\ Fails(r)
  /\ UNCHANGED <<previous, resources, executions>>

\* The scheduled workflows are declared, and the handle is returned. What was
\* declared before one of them raises stays declared, and is left out here.
Schedule(r) ==
  /\ phase[r] = "BINDING" /\ \A a \in Attribute : Unbound(r, a) = {}
  /\ (GoesOn(r, "READY") /\ UNCHANGED faults) \/ (Fails(r) /\ Fault)
  /\ UNCHANGED <<resources, bindings, executions>>
-----------------------------------------------------------------------------
(***************************************************************************)
(* close, and the same releases after a failed call.                       *)
(***************************************************************************)

\* The handle may be closed again and again; once it is closed, that is all.
Close(r) ==
  /\ phase[r] \in {"READY", "INTERRUPTED"}
  /\ phase' = [phase EXCEPT ![r] = "CLOSING"]
  /\ release' = [release EXCEPT ![r] = "EXECUTOR"]
  /\ UNCHANGED <<resources, bindings, executions, faults>>

Releases(r, this, next) ==
  /\ release[r] = this
  /\ release' = [release EXCEPT ![r] = next]

CloseExecutor(r) ==
  /\ Releases(r, "EXECUTOR", "DRAIN")
  /\ executor' = [executor EXCEPT ![r] = IF @ = "NONE" THEN @ ELSE "CLOSED"]
  /\ UNCHANGED <<owner, client, phase, bindings, executions, faults>>

Accepted(r) == {x \in Execution : run[x] = "QUEUED" /\ uses[x] = r}

\* Mutant: the executor is shut down without waiting.
DrainUnawaited(r) ==
  /\ Releases(r, "DRAIN", "CLIENT")
  /\ UNCHANGED <<resources, phase, bindings, executions, faults>>

\* shutdown(wait=True)
Drain(r) ==
  /\ Releases(r, "DRAIN", "CLIENT")
  /\ Accepted(r) = {}
  /\ UNCHANGED <<resources, phase, bindings, executions, faults>>

\* Mutant: the handle counts as closed from the first call on.
DestroyRaisesClosed(r) ==
  /\ Releases(r, "CLIENT", "NOTHING")
  /\ client[r] = "LIVE" /\ Fault
  /\ phase' = [phase EXCEPT ![r] = IF @ = "CLOSING" THEN "CLOSED" ELSE "LEAKED"]
  /\ UNCHANGED <<resources, bindings, executions>>

\* The rest stays as it is: close may be called again, but the call that
\* failed has given nobody a handle.
DestroyRaises(r) ==
  /\ Releases(r, "CLIENT", "NOTHING")
  /\ client[r] = "LIVE" /\ Fault
  /\ phase' = [phase EXCEPT ![r] = IF @ = "CLOSING" THEN "INTERRUPTED" ELSE "LEAKED"]
  /\ UNCHANGED <<resources, bindings, executions>>

\* Mutant: the process is given free before the bindings are.
DestroyClientUnowned(r) ==
  /\ Releases(r, "CLIENT", "executor")
  /\ client' = [client EXCEPT ![r] = IF @ = "NONE" THEN @ ELSE "DESTROYED"]
  /\ owner' = None
  /\ UNCHANGED <<executor, phase, bindings, executions, faults>>

DestroyClient(r) ==
  /\ Releases(r, "CLIENT", "executor")
  /\ client' = [client EXCEPT ![r] = IF @ = "NONE" THEN @ ELSE "DESTROYED"]
  /\ UNCHANGED <<owner, executor, phase, bindings, executions, faults>>

\* Workflows that hold another payload by now are left alone.
ReleaseBinding(r, a, next) ==
  /\ Releases(r, a, next)
  /\ bound' = [bound EXCEPT ![a] = Restored(r, a)]
  /\ UNCHANGED <<previous, phase, resources, executions, faults>>

ReleaseBindings(r) ==
  ReleaseBinding(r, "executor", "store") \/ ReleaseBinding(r, "store", "OWNERSHIP")

\* The token is compared: only the registration that owns the process frees it.
ReleaseOwnership(r) ==
  /\ Releases(r, "OWNERSHIP", "NOTHING")
  /\ owner = r
  /\ owner' = None
  /\ phase' = [phase EXCEPT ![r] = IF @ = "CLOSING" THEN "CLOSED" ELSE @]
  /\ UNCHANGED <<executor, client, bindings, executions, faults>>
-----------------------------------------------------------------------------
(***************************************************************************)
(* A workflow: run_stage, or run_completion.                               *)
(***************************************************************************)
Moves(x, next) ==
  /\ run' = [run EXCEPT ![x] = next]
  /\ UNCHANGED <<phase, release, resources, bindings, faults>>

\* Mutant: a workflow may begin without a dispatcher.
BeginUnchecked(x) ==
  /\ run[x] = "IDLE"
  /\ uses' = [uses EXCEPT ![x] = bound["executor"][WorkflowOf[x]]]
  /\ Moves(x, "BODY")

\* It raises at once if no executor is bound, and else keeps the one it took.
Begin(x) ==
  LET r == bound["executor"][WorkflowOf[x]] IN
  /\ run[x] = "IDLE"
  /\ uses' = [uses EXCEPT ![x] = r]
  /\ Moves(x, IF r = None THEN "RAISED" ELSE "BODY")

EndBody(x) ==
  LET w == WorkflowOf[x] IN
  /\ run[x] = "BODY"
  /\ Moves(x, IF w \in Stage /\ bound["store"][w] = None THEN "RAISED" ELSE "ENDED")
  /\ UNCHANGED uses

SubmitCheckpoint(x) ==
  /\ run[x] = "ENDED"
  /\ Moves(x, IF executor[uses[x]] = "CLOSED" THEN "RAISED" ELSE "QUEUED")
  /\ UNCHANGED uses

Checkpoint(x) ==
  /\ run[x] = "QUEUED"
  /\ Moves(x, "WRITTEN")
  /\ UNCHANGED uses

\* A failed attempt is retried, or another takes the place of the execution.
Again(x) ==
  /\ run[x] \in {"RAISED", "WRITTEN"}
  /\ uses' = [uses EXCEPT ![x] = None]
  /\ Moves(x, "IDLE")
-----------------------------------------------------------------------------
Register(r) ==
  Reserve(r) \/ Construct(r) \/ BindWorkflow(r) \/ BindRaises(r) \/ Schedule(r)

Release(r) ==
  \/ CloseExecutor(r) \/ Drain(r) \/ DestroyRaises(r) \/ DestroyClient(r)
  \/ ReleaseBindings(r) \/ ReleaseOwnership(r)

Execute(x) ==
  Begin(x) \/ EndBody(x) \/ SubmitCheckpoint(x) \/ Checkpoint(x) \/ Again(x)

Next ==
  \/ \E r \in Registration : Register(r) \/ Close(r) \/ Release(r)
  \/ \E x \in Execution : Execute(x)

\* A call goes on to its end, an accepted checkpoint is run, and an
\* application that gets an error from close calls it again.
Fairness ==
  /\ \A r \in Registration :
       WF_vars(Release(r)) /\ WF_vars(phase[r] = "INTERRUPTED" /\ Close(r))
  /\ \A x \in Execution : WF_vars(Checkpoint(x))

Spec == Init /\ [][Next]_vars /\ Fairness
-----------------------------------------------------------------------------
(***************************************************************************)
(* Properties.                                                             *)
(***************************************************************************)

\* Every variable keeps its type; an execution at work has an executor;
\* something is released only in a close or after a failed call, and a close
\* that runs has something left to release.
TypeOK ==
  /\ owner \in Registration \cup {None}
  /\ phase \in [Registration -> {"NEW", "RESERVED", "BINDING", "READY", "CLOSING",
                                 "INTERRUPTED", "CLOSED", "FAILED", "LEAKED"}]
  /\ release \in [Registration -> {"NOTHING", "EXECUTOR", "DRAIN", "CLIENT",
                                   "executor", "store", "OWNERSHIP"}]
  /\ executor \in [Registration -> {"NONE", "OPEN", "CLOSED"}]
  /\ client \in [Registration -> {"NONE", "LIVE", "DESTROYED"}]
  /\ bound \in [Attribute -> [Workflow -> Registration \cup {None}]]
  /\ previous \in [Attribute -> [Workflow -> Registration \cup {None}]]
  /\ run \in [Execution -> {"IDLE", "BODY", "ENDED", "QUEUED", "WRITTEN", "RAISED"}]
  /\ uses \in [Execution -> Registration \cup {None}]
  /\ faults \in 0..MaxFault
  /\ \A x \in Execution : run[x] \in {"BODY", "ENDED", "QUEUED"} => uses[x] # None
  /\ \A r \in Registration :
       /\ release[r] # "NOTHING" => phase[r] \in {"CLOSING", "FAILED"}
       /\ phase[r] = "CLOSING" => release[r] # "NOTHING"

\* Whatever raises while a registration is made or closed: a client that is
\* alive, an executor that is open and an attribute on a workflow belong to the
\* registration that owns the process, so that a next one finds all three free.
\* (The passes an earlier one declared in DBOS may still be called; see above.)
Holds(r) ==
  \/ executor[r] = "OPEN" \/ client[r] = "LIVE"
  \/ \E a \in Attribute, w \in Workflow : bound[a][w] = r
OwnerHoldsAll == \A r \in Registration : Holds(r) => owner = r

\* A handle that was returned and not closed has all that its workflows need:
\* no registration before it takes its attributes away, however late it is
\* released.
ReadyIsWhole ==
  \A r \in Registration : phase[r] = "READY" =>
    /\ executor[r] = "OPEN" /\ client[r] = "LIVE"
    /\ \A w \in Registry[r] :
         bound["executor"][w] = r /\ (w \in Stage => bound["store"][w] = r)

\* No checkpoint is written for a registration that is past its shutdown: one
\* that was accepted has been waited for, and none is accepted any more.
ShutdownIsFinal ==
  \A r \in Registration :
    release[r] \in {"CLIENT", "executor", "store", "OWNERSHIP"} \/ phase[r] \in {"INTERRUPTED", "CLOSED"}
      => Accepted(r) = {}

\* A close that raised half-way can be repeated, and in the end the process is
\* free for another registration, although workflows go on meanwhile.
ClosedIsReleased ==
  \A r \in Registration : phase[r] = "CLOSING" ~> phase[r] = "CLOSED" /\ owner # r
=============================================================================
