# Verification of dr-platform

dr-platform runs work items through the stages of a pipeline. Its state is a
PostgreSQL ledger; the stages run as DBOS workflows; a dispatcher process moves
the ledger forward by short passes it schedules every second. This directory
holds TLA+ models of that system, the TLC configurations that check them, and
proofs that TLAPS checks.

Paths below are relative to `src/src/dr_platform/` unless they start with
another directory of the repository.

## 1. The system

### Components, their state and their operations

| Component | State | Operations | Correct when |
|---|---|---|---|
| Ledger (`_core/ledger/executions.py`, `attempts.py`, `states.py`) | `stage_executions` (state, current attempt, immutable facts), `stage_attempts` (admitted, terminal) | insert, transition, prepare, append, terminal write, always inside a caller's transaction | an execution and its current attempt agree; an outcome is written once |
| Work-item status (`work_item_status.py`) | none: a function of the item's executions | derived status, "a lower stage has not succeeded" | the derived status is terminal only if no execution takes the item away from it |
| Stage handoff (`execution/handoff.py`, `stage_completion.py`) | the DBOS checkpoint of the last transaction | run the body, then succeed with successors, fail, discard, or raise | a success and its successors are one step; a stale workflow changes nothing |
| Admission (`admission/runner.py`) | what a pass holds in its transaction | lock a page, lock controls, count, admit | capacity and pause bind, joins stay open, nothing starves, passes end |
| Stage controls (`admission/controls.py`) | `stage_controls` | set capacity (inserts at first), pause, resume | a change binds every admission that commits after it |
| Sweep (`recovery/sweep.py`) | a page of attempts and statuses in memory | list, read DBOS, project one attempt per transaction | dead attempts are settled, nothing else is touched |
| Cancellation (`recovery/cancellation.py`) | ids to delegate, after the commit | cancel an item, reissue, tell DBOS | the commit is final whatever happens to the delegation |
| Live identity (`recovery/live_identity.py`) | none | resolve which executors and version are alive; judge a PENDING workflow | nothing alive is accused, and what is not known accuses nobody |
| Retry (`recovery/retry.py`) | none | retry a FAILED execution | only a failed execution is retried |
| Priority (`recovery/priority.py`) | what a change holds in its transaction | lock what is open, then the item, look again, write | item, open executions and queue have one priority |
| Run barrier (`completion/barrier.py`) | `run_barrier_cursor`, `released_at`, release counts | one pass: scan, count, release, rotate | a settled run is released once and soon, with true counts |
| Run completion (`completion/execution.py`, `_core/ledger/completion_attempts.py`, `recovery/run_completion_retry.py`) | completion execution and attempts | release, record, sweep, retry | at most one success, no outcome rewritten, none left open |
| Submission (`submission/stream.py`, `runs.py`, `work_items.py`) | runs, items, memberships, closure | register chunks, replay, close | membership is one contiguous list and frozen by the close |
| Inspection (`inspection/`) | none | the deferral episode a join closes, lists and outputs of an item, statuses | separate readings that add up to an answer agree with one reading |
| Dispatcher and bindings (`runtime/dispatcher.py`, `execution/_workflow_binding.py`, `_checkpoint.py`) | ownership, executor, client, bound attributes | register, run passes, close, release after a failure | all that was taken belongs to the owner and is released |
| Registry, configuration, telemetry, migrations, testing | no state that moves, or none | | |

### How they interact

They share rows and never call one another: admission, handoff, sweep,
cancellation, retry and priority all write `stage_executions`, each under a row
lock in a transaction of its own at READ COMMITTED. A workflow enters DBOS in
the transaction that admits or releases it. DBOS tells nothing back: a workflow
writes its own outcome in a last checkpointed transaction, and what becomes of
it when it cannot is read by the sweep. The barrier reads what all of them wrote.

### What is hard in it

* A workflow may end after its execution was cancelled, swept or retried; a
  recovered workflow may run its body again under the same id.
* The sweep acts on a DBOS status it read before its transaction.
* Cancellation commits, then tells DBOS, and may die between the two.
* Every SELECT of a READ COMMITTED transaction sees another state of the rows:
  a barrier pass tests a run and counts its members in two statements, and an
  admission pass selects candidates, locks controls, counts, and asks whether a
  join is open in four.
* A handoff reads its clock before it has its row, and a change of priority
  locks executions, then the item, while a handoff adds executions to it.
* A registration of a dispatcher takes five things one after another, each of
  which may raise, and gives them back the same way, beside running workflows.
* Passes are bounded and repeat: budgets, cursors and the order of candidates
  decide whether something at the end is ever reached.
* Several dispatchers may run passes at once.

`PROJECT.json` lists each of these at its line, under `hazards`.

## 2. The modules

```
StageRows            rows of stage_executions and the questions asked of them
  StageLifecycle     abstract: what the ledger promises
  StageLedger        detailed; refines StageLifecycle     (+ WorkflowRuntime)
  WorkItemStatus     what is read of all executions of an item at once
    RunBarrier       barrier passes over StageLifecycle
    Inspection       the readings of applications, checked beside RunBarrier
  Admission          admission passes over StageLifecycle, which they refine
Priority             changes, cancellations and handoffs, lock by lock;
                     refines StageLifecycle by an explicit mapping
RunRegistry          abstract: what registration promises
  Submission         registration of runs that share work; refines RunRegistry
WorkflowRuntime      DBOS as the package depends on it (external)
  RunCompletion      completions, their sweep and retry
LiveIdentity         which PENDING workflows a sweep takes for dead
Dispatcher           registration, bindings and close beside workflows
*Proofs              theorems about StageLedger, RunCompletion, Submission,
                     RunBarrier (with Inspection), Admission, Priority,
                     Dispatcher and LiveIdentity
MC*                  instances for TLC
```

**StageLifecycle** is the abstract specification of the ledger: legal
transitions, success and successors in one step, a join admitted only over
succeeded lower executions, an item cancelled as a whole. `Admit` takes a set of
executions, since a pass commits all that it has taken at once; one of a single
execution is what StageLedger and Priority have. RunBarrier and Admission let the
executions move by it between their own statements. They may, because
StageLedger, and Priority with its transactions of several statements, are checked
and proved to refine it. So is Admission: its only step on the executions that is
not already one of the lifecycle is the commit of a pass, and that is an `Admit`.

**StageLedger** has one action per transaction, call to DBOS, or step of a
process between them.

| Action | Code |
|---|---|
| `Submit`, `Admit` | `stream._commit_chunk` (a new item), `runner._admit_candidate` |
| `Succeed`, `Fail`, `DiscardLate`, `RejectStale`, `RejectConflict`, `RollBack` | the branches of `handoff._complete_stage_in_transaction` and its errors |
| `SweepList`, `SweepStatus`, `SweepProject`, `SweepInterrupted` | `sweep.sweep_abandoned_stages` |
| `CancelItem`, `Redelegate`, `Delegate`, `LoseDelegation` | `cancellation.cancel_work` |
| `Retry` | `retry.retry_stage` |
| `Workflow` | DBOS: `Dequeue`, `Halt`, `Recover`, `Finish`, and an operator's `OutOfBandCancel` and `OutOfBandResume` |

`state`, `facts` and `current` are columns of `stage_executions`, `admitted` and
`outcome` of `stage_attempts`; `dbos`, `running` and `checkpoint` are DBOS's;
`sweep` and `delegated` are the memory of a process.

**RunCompletion** is its counterpart for released runs. `RecordOutcome` and
`RecordRaises` are the workflow's last transaction, `SweepList` to
`SweepProject` the completion sweep, `Retry` the operator's. It differs from the
stage ledger where the code does: there is no CANCELLED completion, a DBOS
cancellation is no evidence for its sweep, and a retry enqueues at once. A
completion that is cancelled in DBOS therefore stays ENQUEUED, is not swept and
cannot be retried until somebody resumes the workflow; `CompletionsAreDecided`
excludes exactly that case.

**RunBarrier** takes one pass apart into its statements: `PassBegin` (the cursor
lock; a pass that does not get it ends without an effect, and so is no action),
`ScanPage` (the eligibility statement), `Wrap` (the second leg from the first
key up to the old cursor), `ReleaseCandidates` (the counts and one savepoint for
each candidate), `Commit` (which moves the cursor to the last run examined).
`pass` holds what the transaction has written; `Die` drops it.

**Admission** does the same with an admission pass: `LockCandidates` (the page,
FOR UPDATE SKIP LOCKED), `LockControl` (one row at a time, in the order of the
statement, so that two passes can meet), `DeadlockAbort` (PostgreSQL),
`LoadOccupancy`, `Evaluate` (one candidate: blocked, paused, full, taken, or
raised inside its savepoint), `PageDone`, `Commit`. The operator's `SetCapacity`,
`SetPaused` and `Retry` and the lifecycle of the executions run between them;
they wait for a row a pass has locked. The field `inserted` is history, for one
property only.

**Submission** has one action per transaction of `submit`, except that a chunk is
`BeginChunk` (the lock on the run's row and the second look at it), one
`InsertWork` for each item, which waits for other transactions' uncommitted
keys, and `EndChunk`. The arguments of a call are fixed at the start; an IDLE
submitter starts over. `declared`, `closed`, `members` and `items` are the
tables, `process` is a submitter's place with what its transaction inserted.
**RunRegistry** is what the tables alone promise: a run is declared, gains members
together with the items they create, and is closed, each in one step with its own
condition, and by nobody in particular. `process` is what the refinement hides.

**Priority** takes the transactions that lock several rows apart into their
statements: a change of priority or a cancellation (`StartCall`, `LockRow`,
`LockItem`, `Select`, `Reselect`, `CommitChange`, `CommitCancel`, and `NextItem`
when a registration chunk synchronises the items it reuses one by one), and a
handoff (`HandoffBegin`, which reads the clock, `HandoffLock`, `ReadItem`,
`WriteSuccessor`, `Conflict`, `CommitHandoff`). `process` and `handoff` hold what
a transaction is about to lock, has locked and has written; `Holds` and `Wants`
derive the row locks, the uncommitted keys and the foreign-key shares from them;
`DeadlockAbort` is PostgreSQL's. `Submit`, `Admit`, `SweepProject` and `Retry` hold
one row and wait for nothing with it, so they are one step each. `priority`,
`wanted` and `queued` are the three columns a priority is written to. `Facts` maps
this state to the lifecycle.

**WorkItemStatus** and **Inspection** have no state. They translate the derived
status with its precedence, the representative execution, the lists of
executions and outputs, and `resolve_barrier_join_cluster`, as operators on the
ledger; the instance MCRunBarrier brings them together with RunBarrier, so that
they are asked of every state of a ledger that moves.

**LiveIdentity** translates `LiveDbosIdentity.resolve_for_sweep` and the verdict
of the sweep on one PENDING workflow, over texts that `Strip` takes to what they
name. StageLedger and RunCompletion leave that verdict open, so they also cover
a wrong one.

**Dispatcher** has one action for each step of `register_scheduled_dispatcher`
that may raise: `Reserve`, `Construct`, `BindWorkflow` for each workflow and
attribute, `BindRaises`, `Schedule`; one for each release of `close` and of a
failed call (`CloseExecutor`, `Drain`, `DestroyClient` or `DestroyRaises`,
`ReleaseBindings`, `ReleaseOwnership`); and those of a workflow: `Begin`, which
takes the executor it finds bound, `EndBody`, which needs the object store,
`SubmitCheckpoint`, `Checkpoint`.

## 3. What the runs check

| Run | Instance | Properties |
|---|---|---|
| `ledger_retry` | 1 item, 1 stage, 2 attempts, 2 readings of sweeps, 2 faults | `StateMatchesAttempt`, `SuccessIsRecorded`, `OutcomeIsImmutable`, `FinalItemStaysPut`, `DeadAttemptsAreSwept` |
| `ledger_joins` | 1 item, 3 stage indices, 1 attempt | `TypeOK`, `JoinSafe`, `ImplementsLifecycle` |
| `completion` | 1 run, 2 attempts, 3 faults; the rules of LiveIdentity over 5 texts | `TypeOK`, `HistoryIsFailures`, `OutcomeIsImmutable`, `CompletionsAreDecided` |
| `barrier` | 3 runs, the second broken, a member with 3 stage indices, batch 1, budget 2, 1 fault | `TypeOK`, `PassIsBounded`, `RecordedSuccessHolds`, `EpisodeIsComplete`, `SettledRunsAreReleased`, `EpisodeIsStable` |
| `barrier_contract` | 2 runs that share an item | `ReleasesOnlySettledRuns`, which the code violates |
| `admission_race` | 2 passes, an item that fans out to 2 executions of one stage, 3 controls, batches of 2, capacities to 2, 2 faults | `TypeOK`, `AdmissionsRespectControls`, `ImplementsLifecycle` |
| `admission_live` | 1 pass, 2 items over 2 stages, 3 controls, 1 fault | `RoomIsUsed` |
| `admission_deadlock` | 2 passes, 2 pipelines, 4 items, pages of 2, no room | `FirstPagesDoNotDeadlock` |
| `submission` | 2 submitters, 2 runs of 3 and 2 members that share 2, chunks of 2, 2 deaths | `TypeOK`, `ClosedIsDeclared`, `WorkIsAccountedFor`, `RegistrationOnlyAdds`, `RegistrationCompletes`, `ImplementsRegistry` |
| `priority` | 2 items with 3 and 1 stage indices, a cancellation and a chunk that synchronises both, 2 priorities | `TypeOK`, `PrioritiesAgree`, `ImplementsLifecycle`, `CancellationsTakeAll` |
| `priority_handoff` | 1 execution, 1 change | `OnlyStaleCompletionsAreRejected`, which the code violates |
| `dispatcher` | 2 registrations that share a stage, 3 workflows, 2 executions, 2 calls that raise | `TypeOK`, `OwnerHoldsAll`, `ReadyIsWhole`, `ShutdownIsFinal`, `ClosedIsReleased` |

Every property is stated with a comment where it is defined.

### The bounds, and why they are enough

* *Items.* Every rule of the ledger concerns one item; items meet only in the
  capacity of a control and in a run. So the ledger runs take one, the barrier
  one shared by runs, and admission as many as its controls can tell apart.
* *Stage indices.* A join needs a lower execution that is unfinished and one
  that is still to appear, and an episode a step, a row and a join, hence three
  indices. What a workflow, a sweep, a cancellation and a retry do to one
  another concerns one execution, hence one index in `ledger_retry`; the two
  dimensions together are covered by the proofs.
* *Attempts.* One stale and one current attempt meet in two.
* *Sweep.* Two readings in memory: an old one of the first attempt and one of
  the second, or of another pass.
* *Faults* (`MaxFault`) bound deaths and an operator's acts on DBOS, and in
  Admission and RunBarrier also retries, control changes and skipped rows. Each
  property that a fault can threaten can be threatened by one followed by a
  second that meets its effects; the completion run takes three, so that it may
  be cancelled, resumed and die.
* *Budgets.* A batch of 2 in `admission_race` lets one commit admit both branches
  of the fan-out, lets two passes split them, and still makes pages of one: a pass
  that has taken one row goes on with a page for the other, and waits for the
  controls of that page while it holds those of the first.
  In the barrier a budget of 2 with 3 runs makes a pass stop short of the end,
  so the cursor has to rotate.
* *Admission.* `BatchSize + MaxSkips` rows bound what one pass examines, and
  each pass begins at the head of the order. A queue with more rows than that
  which are READY, not paused and not behind a full control and yet cannot be
  admitted (joins that are blocked, above all) hides the rows after it. The
  code accepts that with `MAX_CAPACITY_SKIPS_PER_PASS`; `admission_live`
  has a budget no smaller than the number of rows, so it says nothing of it.
* *Submission.* Chunks of 2 split the longer run, so that it can be interrupted
  between chunks, and fit the shorter one, which lists the shared items in the
  opposite order, so that the two can deadlock. The submitter that varies has
  ten calls: replays, and ones that contradict a run in its members (fewer,
  more, with a gap, twice the same), its facts, its declaration or its
  provenance. Two submitters conflict in each of these ways; more of them are
  covered by the proofs.
* *Priority.* An item of three executions, whose first hands on to any of the
  others, and a second item that the chunk passes by, so that its locks span two
  items. Two priorities tell what was read from what is wanted. A handoff
  transaction exists for each execution, and any subset of what is above it may
  succeed it. Two changes of one item at once need another caller; the instance
  has one change and one cancellation, and the theorems any number of each.
* *Dispatcher.* Two registries that overlap in one stage, of which one has a
  completion, tell every kind of binding apart. Two faults let a call fail and
  its release fail, or a close fail twice.

### Fairness

* The sweeps: strong fairness of list, status and projection for each attempt.
  The dispatcher calls the sweep every second and a sweep visits all that is
  admitted; it may be cut short again and again, not for ever.
* `RunCompletion` also assumes that DBOS workers dequeue, that a worker with the
  same identity starts again and recovers, that a body ends, and that an ended
  workflow is recorded. `StageLedger` needs none of these, since its liveness
  property starts from workflows that are dead.
* Barrier and admission: weak fairness of the steps of a pass. A pass is called
  every second and runs to its end, unless it dies, which the bound ends.
* Submission: each call is made again until its run is closed, and a submitter
  that waits for a row or a key is not passed over for ever. The second part is
  assumed for each key: without it two chunks that list shared work in opposite
  orders can abort each other in turn without end. PostgreSQL wakes the waiter
  when the other transaction ends, and a replay has two transactions to do
  before it is back at the same key, so the waiter loses that race rarely.
* Dispatcher: a release that has begun goes on, a checkpoint that was accepted
  is run, and an application that got an error from `close` calls it again.
  Without the last, an interrupted close stays interrupted.
* Priority: none. Its properties are about what is committed, and PostgreSQL
  may abort a transaction of a circle any number of times.

### The barrier and its contract

`.defs/contracts.toml:191` says that a run is released "when every member has no
READY or ADMITTED execution". The run `barrier_contract` shows that this is not
quite what happens. A pass selects eligible runs in one statement and counts the
outcomes of their members in another, at READ COMMITTED and with no lock on the
executions. Let a member have two executions that failed, or one that failed and
one that was cancelled, and let a retry of a failed one commit between the two
statements: the derived status is still FAILED (or CANCELLED), the counts cover
the membership, and the run is released while the member has a READY execution.
The counts recorded are those of that moment. What does hold, and is checked by
`barrier`, is `RecordedSuccessHolds`: a recorded success is never taken back.

### Deadlocks between admission passes

One statement locks the controls of a whole page in key order, so passes on
their first pages cannot wait for one another in a circle
(`FirstPagesDoNotDeadlock`). A pass keeps its locks when it goes on to its next
page, and two passes that do so over the stages of two pipelines can deadlock;
the run reaches that (`DeadlockAbort`). PostgreSQL then aborts one of them, the
dispatcher logs it and the next second brings another pass.

### Changes of priority

A change of priority locks what is open of an item, then the item, and then
looks again for what was added meanwhile, until nothing is. `PrioritiesAgree`
holds with either half alone. The lock of the item keeps handoffs from inserting,
since an insert takes a share of it, and the second look finds what was inserted
before. A handoff reads the priority of the item without a lock; what keeps that
reading good is the row of the execution it completes, which it holds and which
a change of the item must have.

The comment "Preserve execution-before-work-item ordering used by stage handoff"
(`recovery/priority.py:191`) and two tests (`tests/recovery/test_priority.py:278`
and `:614`) are about circles of waits. They do not rule all of them out. In the
model a handoff that inserts waits for the item of a change which waits for a
row, and a chunk that synchronises two items holds the first while it waits for
the second. PostgreSQL aborts one transaction of each such circle; what the runs
and the theorems show is that this leaves nothing behind.

### Completions that lose to their clock

`.defs/contracts.toml:365` says that a completion is rejected when it is not of
"the persisted current admitted attempt". `priority_handoff` shows another that
is. The handoff reads `completed_at` before it waits for its row
(`execution/handoff.py:201`); a change of priority that commits meanwhile stamps
the row with its own, later clock, and the handoff then raises "updated_at cannot
move backwards". The result of that completion is lost and its workflow ends in
ERROR; the sweep settles the attempt as FAILED, and a retry runs it again. The
test of the two at once passes because it completes with a clock ten seconds
ahead.

### What inspection reads

`resolve_barrier_join_cluster` reads four times, each in a transaction of its
own, while the executions move. It answers only if the evaluation rows of its
third reading fill the interval between the step and the join. `EpisodeIsStable`
says that an episode which resolves once resolves to the same executions for
ever, so the readings agree with a single one. The test that no foreign row lies
in the interval is implied by that. `SuccessesAreFinal` (proved only) says the
same of an item that is reported as succeeded and of its representative.

### Registrations of a dispatcher

* A call that fails after its client was made destroys the client first; if that
  raises too, nobody has a handle, and bindings and ownership stay for the life
  of the process (phase `LEAKED`). `ClosedIsReleased` therefore speaks of handles.
* The preflight of a binding never refuses: the ownership of the process keeps
  others out before it, and a binding never replaces one of another
  registration. The model has the test, and the proof shows it idle.
* `OwnerHoldsAll` is about what the process holds: client, executor and
  attributes. The passes a registration declares in DBOS are not among it. The
  code never withdraws a declaration, neither when a later step raises nor in
  `close`, so DBOS may still call a pass whose client is destroyed.
* `ReadyIsWhole` is about a handle and not about a workflow. One that begins
  between the binding of its executor and of its object store raises when its
  body has ended, if the store is not bound by then, and one that took an
  executor which is closed before its checkpoint raises as well. Both are
  attempts that fail and are settled by the sweep.

### Controls that are inserted under a pass

A pass locks the control rows that exist when it selects them. One that is
inserted later binds from the next page of that stage on. So
`AdmissionsRespectControls` speaks of all controls the pass holds, except those
that were inserted while it ran.

### Registration that cannot complete

What a chunk has accepted is never taken back. A caller who first streams wrong
members under a right declaration therefore spoils its run key: the right
members conflict, or the closure is refused, at every replay.
`RegistrationCompletes` leaves that out by its condition `IsOpenTo`, and
nothing else. A replay of a closed run is answered with the receipt and its
members are not looked at.

## 4. What is proved

Eight modules hold proofs. Each theorem is about every value of the constants
that satisfies the assumption of its module: bounds are natural numbers, chunks
and batches are not empty, what stands for "nothing" is not a value. The
assumptions that say more are `SubmissionAssumption` (a call has a run, and pairs
of ordinal and work), `AdmissionAssumption` (the order of the candidates is
total, a stage has at most one control with an empty selector, as its unique
key demands), `PriorityAssumption` (an item has a bounded number of stages, a
request cancels one item or names distinct ones) and `InspectionAssumption` (the
inputs of steps and of evaluations differ).

| Theorem | States |
|---|---|
| `StageLedgerProofs!TypeCorrect` | `TypeOK` |
| `StateAttemptAgreement` | `StateMatchesAttempt` |
| `JoinsAreSafe` | `JoinSafe` |
| `SuccessRecorded` | `SuccessIsRecorded` |
| `OutcomesAreFinal` | `OutcomeIsImmutable` |
| `FinalItems` | `FinalItemStaysPut` |
| `LedgerAgreesWithRuntime` | `BothSides`, which no run checks |
| `LedgerImplementsLifecycle` | `ImplementsLifecycle` |
| `RunCompletionProofs!TypeCorrect` | `TypeOK` |
| `HistoriesAreFailures` | `HistoryIsFailures` |
| `OutcomesAreFinal` | `OutcomeIsImmutable` |
| `CompletionsAgreeWithRuntime` | `BothSides`, which no run checks |
| `SubmissionProofs!TypeCorrect` | `TypeOK` |
| `OnlyAdds` | `RegistrationOnlyAdds` |
| `ClosedRunsAreDeclared` | `ClosedIsDeclared` |
| `WorkAccounted` | `WorkIsAccountedFor` |
| `RegistrationImplementsRegistry` | `ImplementsRegistry` |
| `OrderedCallsDoNotDeadlock` | no submitters wait in a circle if all calls list works in one order |
| `RunBarrierProofs!TypeCorrect` | `TypeOK` |
| `PassesAreBounded` | `PassIsBounded` |
| `RecordedSuccessesHold` | `RecordedSuccessHolds` |
| `EpisodesAreComplete` | `EpisodeIsComplete` |
| `EpisodesAreStable` | `EpisodeIsStable` |
| `SuccessesAreFinal` | `SucceededIsFinal`, which no run checks |
| `ReleasesAreFinal` | counts that a release recorded never change |
| `ReleasesCoverMembers` | they add up to the members of the run |
| `AdmissionProofs!TypeCorrect` | `TypeOK` |
| `ControlsAreRespected` | `AdmissionsRespectControls` |
| `AdmissionsImplementLifecycle` | `ImplementsLifecycle` |
| `AdmittedJoinsAreFinished` | `JoinInv`, which no run checks |
| `FirstPagesAreFree` | `FirstPagesDoNotDeadlock` |
| `PriorityProofs!TypeCorrect` | `TypeOK` |
| `PrioritiesStayTogether` | `PrioritiesAgree` |
| `CancellationsComplete` | `CancellationsTakeAll` |
| `ChangesImplementLifecycle` | `ImplementsLifecycle` |
| `DispatcherProofs!TypeCorrect` | `TypeOK` |
| `OwnersHoldAll` | `OwnerHoldsAll` |
| `ReadyIsComplete` | `ReadyIsWhole` |
| `ShutdownsAreFinal` | `ShutdownIsFinal` |
| `LiveIdentityProofs!TheLiveAreSpared` | `LiveAreSpared` |
| `IgnoranceIsHarmless` | `IgnoranceAccusesNobody` |
| `TheDeadAreFound` | `DeadAreFound` |

**Ledger.** `StateMatchesAttempt` is not inductive: nothing in it says that the
attempt a retry or an admission is about to use is fresh. The inductive invariant
is `AttemptInv`, which adds `Untouched` (attempts after the current one are
neither admitted nor settled) and `TypeOK`. That all attempts before the current
one have failed (`EarlierFailed`) needs more than the invariant: an outcome, once
written, stays (`OutcomeStep`), and only the retry of a failed execution appends. `JoinSafe` is inductive together with
`AttemptInv`: executions appear only above the one that succeeds, and below an
admitted join all is SUCCEEDED or absent, so nothing there can succeed and add to
it. `SuccessIsRecorded` follows from `ReturnInv`: a workflow returned only if its
attempt was settled in the same transaction, and DBOS records SUCCESS only for one
that returned; outcomes are never taken away (`OutcomeStep`). The refinement takes
each action to an action of StageLifecycle or a stutter; `AttemptInv` gives what a
step of the abstract system requires. `BothSides` relates each attempt to its
workflow: DBOS knows exactly the attempts that were admitted; one that succeeded is
the current attempt of an execution that succeeded, and its workflow has returned;
what is delegated for cancellation is the current attempt of a CANCELLED execution,
so a late delegation never stops an attempt that a retry has begun. The last holds
because nothing leaves CANCELLED: `Retry` wants FAILED, in the code and in the model.

**Completions.** `HistoryIsFailures` with `TypeOK` is inductive by itself: it says
what each attempt holds by its place before, at or after the current one, and
each action moves one attempt or appends one. With it the counterpart of
`BothSides` is inductive: DBOS knows the attempts up to the current one, what it
records as SUCCESS or ERROR is what the last transaction did, and a success is
always recorded by a workflow that returned. So no completion that the sweep must
pass by, its workflow being a SUCCESS, is still open.

**Registration.** `LockInv` says what the locks keep: one chunk of a run at a
time, over a run that is open, and a key that is inserted by one transaction
only. So no step overwrites an item or adds to a closed run, which is
`RegistrationOnlyAdds`. `ChunkInv` follows a chunk through its inserts: each entry
has an item, is inserted, or is still to come; at its end none is to come. With it
`TablesInv` is inductive: in a run ordinals and works are one to one, each member
has an item of its provenance, each item is a member of its origin. The members a
run created and the items it originated are then in bijection, which gives the
counts of the receipt (`ClosedInv`). The refinement of RunRegistry uses all of it:
the one step that adds members is `EndChunk`. That the run is declared and open was
tested when the chunk began, statements and other submitters' commits ago, and that
an item is new when its key was inserted; that ordinals and works are one to one and
that shared items are of the same provenance is what `ChunkFits` looks at. Deadlocks are only shown not to arise under a condition on the
callers, since the code inserts in the order of its stream: if every call lists the
works in ascending order of one key, what a submitter waits for lies above all it
has inserted (`Ascending`). Take the smallest circle of waits and, in it, the
submitter that waits for the least key. Nobody in the circle waits for that
submitter, as their keys would be smaller still, so the circle without it is a
circle too, and smaller.

**Barrier and inspection.** A step of the abstract lifecycle does one of three
things to a row: it leaves it, moves its state along, or makes it READY above a
row that succeeds (`RowStep`). With `JoinInv` (what is below a join that ran is
SUCCEEDED or absent) an episode that resolves has nothing below it that can move
or add to it, which gives `EpisodeIsComplete` and `EpisodeIsStable`; an item that
is all SUCCEEDED can only stay so, which gives `SucceededIsFinal`. `PassIsBounded` is
proved by `LegInv`: what a pass has seen lies between the old cursor and its place
on the first leg, and outside of the gap between its place and the cursor on the
second, so no run is seen twice. `RecordedSuccessHolds` follows from `SuccessInv`:
what is counted, even before it is committed, is no more than the members that have
succeeded (`Winners`), which only grow. That a counted run is closed is needed for
that: an item without executions would count as nothing at all. `ReleaseInv` adds to
it that a pass holds no candidate that is already released, since it keeps the
cursor, and that counts which it accepts cover the membership; `DisjointSum` and
`CountsAddUp` give that the three outcomes counted split the members.

**Admission.** `RowInv`: the rows two passes hold are disjoint, a held row is READY,
and a join that is taken stays open until the commit, since what is below it
cannot be added to. So at the commit all that was taken is READY and not blocked in
that very step (`CommitAdmits`), which is the refinement; and what is below a join
that was admitted stays finished (`AdmittedJoinsAreFinished`). `ControlInv` is about the counts. A pass that takes a row of a
stage, or is to evaluate one, holds the stage's control with the empty selector
(`Claims`). No other pass can hold that, so no other admits in the stage, and the
counts it has read remain upper bounds while executions end (`Counted`). What
else binds a row is held or was inserted under the pass (`Covered`). For the first
pages, a pass waits for a control above all it holds; in a circle each would wait
for one above that of the next, which a finite circle cannot do.

**Priority.** `PriorityInv` says of each caller what it has still to do (`Plan`) and
what it has in hand (`Grip`: of an item it is done with it holds all that is open
and the item), and of each handoff that inserts that its own row stays ADMITTED and
the priority it read is still the item's (`HandoffOK`). The latter is where the row
lock matters: a change of the item needs that row. `HoldsInv` says that locks
exclude one another. Each step makes the locks of one process grow by what nobody
else has, and leaves the tables of what others hold alone (`Gentle`), so the parts
about the others are kept once for all steps (`UntouchedCaller`,
`UntouchedHandoff`). At its commit a cancellation holds exactly what is open of its
item, so it is the one step `CancelItem` of the lifecycle; a handoff's commit is
`Succeed` with the rows it added.

**Dispatcher.** `TypeOK` is inductive by itself; it also says that something is
released only in a close or after a failed call. `Life` says, for each phase of a registration and each step of its
release, what it may still hold; only the owner may hold anything. It has to say that a
binding never replaces another registration's, because a replaced one would
outlive its owner. `ShutdownIsFinal` adds that a workflow at work holds an executor
that was made (`WorkInv`).

**Live identity.** The theorems are about operators and follow from their
definitions: what is named is alive, nothing else is, and an unknown or blank
answer makes the verdict false.

Only the liveness properties are model-checked and not proved, being beyond the
prover: `DeadAttemptsAreSwept`, `CompletionsAreDecided`, `SettledRunsAreReleased`,
`RoomIsUsed`, `RegistrationCompletes` and `ClosedIsReleased`. The two properties that
state a contract (`ReleasesOnlySettledRuns`, `OnlyStaleCompletionsAreRejected`) are
violated.

## 5. What is not modelled

* Time, except for the one reading in Priority. Elsewhere a transaction that
  raises because its clock went backwards (`_core/ledger/executions.py`) is one
  that rolls back or is cut short.
* Changes of priority under an admission pass. The order of candidates is one
  number there and stays, so a row does not move between the pages of a pass.
* The locks that a chunk's synchronisation of priorities takes are those of
  Priority and not in Submission, which has the run's row and the inserted keys.
* The pages, cursors, filters and bulk counts of `inspection/statuses.py` and
  `inspection/work_items.py`: queries of one statement over rows whose derived
  status is WorkItemStatus.
* The bodies of the workflows a dispatcher schedules: they are the passes and
  sweeps of the other modules. Nor that DBOS keeps those workflows declared when
  the registration that declared them has failed or is closed.
* Pipeline definitions and their registry, validation of inputs, DBOS
  configuration, telemetry, migrations and helpers for tests: no state that moves.
* The object store, payloads, texts of failures, summaries and labels, except
  where the code compares them.

## 6. Plan

1. **Platform**: StageLedger, RunBarrier and RunCompletion composed, from the first
   submission to the completion, with one clock of passes. Until then they are
   joined through StageLifecycle, and RunCompletion by its action `Release`.
2. Admission over Priority, so that the order of candidates changes under a pass.
3. The keyset pages of inspection against a ledger that grows.
