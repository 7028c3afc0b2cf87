------------------------- MODULE RunCompletionProofs -------------------------
(***************************************************************************)
(* Proofs about RunCompletion for every set of runs and every bound.       *)
(***************************************************************************)
EXTENDS RunCompletion, TLAPS

\* An attempt is a run and a number; two attempts of a run differ in it.
LEMMA Pairs ==
  /\ \A w \in Attempt : w[1] \in Run /\ w[2] \in 1..MaxAttempt /\ w = <<w[1], w[2]>>
  /\ \A r \in Run, n \in 1..MaxAttempt : <<r, n>> \in Attempt
BY DEF Attempt

(***************************************************************************)
(* What a step does to the ledger, seen from outside the runtime.          *)
(***************************************************************************)
LedgerStep ==
  \/ UNCHANGED ledger
  \/ \E r \in Run : Release(r) \/ Retry(r)
  \/ \E w \in Attempt, o \in {"SUCCEEDED", "FAILED"} : MayRecord(w) /\ Record(w, o)

\* No other step writes the ledger.
LEMMA StepKinds ==
  ASSUME [Next]_vars
  PROVE  LedgerStep
<1>1. ASSUME NEW w \in Attempt,
             \/ Workflow(w) \/ RecordOutcome(w) \/ RecordRaises(w)
             \/ SweepList(w) \/ SweepStatus(w) \/ SweepProject(w)
      PROVE  LedgerStep
  <2>1. CASE Workflow(w) \/ RecordRaises(w) \/ SweepList(w) \/ SweepStatus(w)
    BY <2>1 DEF Workflow, RecordRaises, SweepList, SweepStatus, LedgerStep
  <2>2. CASE RecordOutcome(w)
    BY <2>2 DEF RecordOutcome, LedgerStep
  <2>3. CASE SweepProject(w)
    BY <2>3 DEF SweepProject, LedgerStep
  <2>4. QED
    BY <1>1, <2>1, <2>2, <2>3
<1>2. CASE \E r \in Run : Release(r) \/ Retry(r)
  BY <1>2 DEF LedgerStep
<1>3. CASE SweepInterrupted
  BY <1>3 DEF SweepInterrupted, LedgerStep
<1>4. CASE UNCHANGED vars
  BY <1>4 DEF vars, ledger, LedgerStep
<1>5. QED
  BY <1>1, <1>2, <1>3, <1>4 DEF Next

-----------------------------------------------------------------------------
(***************************************************************************)
(* Type correctness.                                                       *)
(***************************************************************************)

LEMMA TypeInit == Init => TypeOK
BY CompletionAssumption
DEF Init, RuntimeInit, TypeOK, RuntimeTypeOK, DbosStatus

LEMMA TypeStep == TypeOK /\ [Next]_vars => TypeOK'
<1> SUFFICES ASSUME TypeOK, [Next]_vars PROVE TypeOK'
  OBVIOUS
<1> USE DEF TypeOK, RuntimeTypeOK
<1>1. ASSUME NEW r \in Run, Release(r)
      PROVE  TypeOK'
  <2>1. 1 \in 0..MaxAttempt
    BY CompletionAssumption
  <2>2. /\ completion' \in [Run -> {"NONE", "ENQUEUED", "SUCCEEDED", "FAILED"}]
        /\ current' \in [Run -> 0..MaxAttempt]
    BY <1>1, <2>1 DEF Release
  <2>3. dbos' \in [Attempt -> DbosStatus]
    BY <1>1 DEF Release, Enqueue, DbosStatus
  <2>4. QED
    BY <1>1, <2>2, <2>3 DEF Release, Enqueue
<1>2. ASSUME NEW r \in Run, Retry(r)
      PROVE  TypeOK'
  <2>1. current[r] + 1 \in 0..MaxAttempt
    BY <1>2, CompletionAssumption DEF Retry
  <2>2. /\ completion' \in [Run -> {"NONE", "ENQUEUED", "SUCCEEDED", "FAILED"}]
        /\ current' \in [Run -> 0..MaxAttempt]
    BY <1>2, <2>1 DEF Retry
  <2>3. dbos' \in [Attempt -> DbosStatus]
    BY <1>2 DEF Retry, Enqueue, DbosStatus
  <2>4. QED
    BY <1>2, <2>2, <2>3 DEF Retry, Enqueue
<1>3. ASSUME NEW w \in Attempt, Workflow(w)
      PROVE  TypeOK'
  BY <1>3, CompletionAssumption
  DEF Workflow, WorkflowStep, Dequeue, Halt, Recover, Finish, OutOfBandCancel,
      OutOfBandResume, Fault, DbosStatus, ledger
<1>4. ASSUME NEW w \in Attempt, RecordOutcome(w)
      PROVE  TypeOK'
  BY <1>4, Pairs DEF RecordOutcome, Record, Checkpoint
<1>5. ASSUME NEW w \in Attempt, RecordRaises(w)
      PROVE  TypeOK'
  BY <1>5 DEF RecordRaises, Checkpoint, ledger
<1>6. ASSUME NEW w \in Attempt, SweepList(w)
      PROVE  TypeOK'
  BY <1>6 DEF SweepList, ledger, runtime
<1>7. ASSUME NEW w \in Attempt, SweepStatus(w)
      PROVE  TypeOK'
  <2>1. Evidence(dbos[w]) \subseteq {"IDLE", "FAILED"}
    BY DEF Evidence
  <2>2. QED
    BY <1>7, <2>1 DEF SweepStatus, ledger, runtime
<1>8. ASSUME NEW w \in Attempt, SweepProject(w)
      PROVE  TypeOK'
  BY <1>8, Pairs DEF SweepProject, Record, ledger, runtime
<1>9. CASE SweepInterrupted
  BY <1>9 DEF SweepInterrupted, ledger, runtime
<1>10. CASE UNCHANGED vars
  BY <1>10 DEF vars
<1>11. QED
  BY <1>1, <1>2, <1>3, <1>4, <1>5, <1>6, <1>7, <1>8, <1>9, <1>10 DEF Next

\* Every step of every process keeps the types of the ledger, the runtime
\* and the sweep.
THEOREM TypeCorrect == Spec => []TypeOK
<1>1. Init => TypeOK
  BY TypeInit
<1>2. TypeOK /\ [Next]_vars => TypeOK'
  BY TypeStep
<1>3. QED
  BY <1>1, <1>2, PTL DEF Spec

-----------------------------------------------------------------------------
(***************************************************************************)
(* The history of a completion.                                            *)
(***************************************************************************)

LEMMA HistoryInit == Init => HistoryIsFailures
BY CompletionAssumption, Pairs
DEF Init, RuntimeInit, HistoryIsFailures, HistoryMatches

\* The runtime gives a status only to a workflow id that was enqueued.
LEMMA RuntimeTouchesEnqueued ==
  ASSUME TypeOK, NEW w \in Attempt, WorkflowStep(w)
  PROVE  \A v \in Attempt : dbos[v] = "NONE" => dbos'[v] = "NONE"
BY DEF TypeOK, RuntimeTypeOK, WorkflowStep, Dequeue, Halt, Recover, Finish,
   OutOfBandCancel, OutOfBandResume

\* A record of the current attempt of an open completion keeps the history.
LEMMA RecordKeepsHistory ==
  ASSUME TypeOK, HistoryIsFailures, NEW w \in Attempt,
         NEW o \in {"SUCCEEDED", "FAILED"},
         MayRecord(w), Record(w, o), UNCHANGED dbos
  PROVE  HistoryIsFailures'
<1> SUFFICES ASSUME NEW r \in Run PROVE HistoryMatches(r)'
  BY DEF HistoryIsFailures
<1>1. /\ w[1] \in Run /\ w[2] \in 1..MaxAttempt
      /\ w = <<w[1], w[2]>> /\ w[2] = current[w[1]]
  BY Pairs DEF MayRecord
<1>2. HistoryMatches(r)
  BY DEF HistoryIsFailures
<1>3. CASE r # w[1]
  <2>1. \A n \in 1..MaxAttempt : outcome'[<<r, n>>] = outcome[<<r, n>>]
    BY <1>1, <1>3, Pairs DEF Record, TypeOK
  <2>2. completion'[r] = completion[r] /\ current' = current
    BY <1>3 DEF Record, TypeOK
  <2>3. QED
    BY <1>2, <2>1, <2>2 DEF HistoryMatches
<1>4. CASE r = w[1]
  <2>1. /\ outcome'[<<r, current[r]>>] = o
        /\ \A n \in 1..MaxAttempt : n # current[r] =>
             outcome'[<<r, n>>] = outcome[<<r, n>>]
    BY <1>1, <1>4, Pairs DEF Record, TypeOK
  <2>2. completion'[r] = o /\ current' = current
    BY <1>1, <1>4 DEF Record, TypeOK
  <2>3. current[r] # 0
    BY <1>1, <1>4
  <2>4. QED
    BY <1>2, <2>1, <2>2, <2>3 DEF HistoryMatches
<1>5. QED
  BY <1>3, <1>4

\* The first attempt of a release, or the next of a retry, keeps the history.
LEMMA AppendKeepsHistory ==
  ASSUME TypeOK, HistoryIsFailures, NEW r \in Run, Release(r) \/ Retry(r)
  PROVE  HistoryIsFailures'
<1> SUFFICES ASSUME NEW q \in Run PROVE HistoryMatches(q)'
  BY DEF HistoryIsFailures
<1>1. HistoryMatches(q) /\ HistoryMatches(r)
  BY DEF HistoryIsFailures
<1>2. /\ completion' = [completion EXCEPT ![r] = "ENQUEUED"]
      /\ current' = [current EXCEPT ![r] = @ + 1]
      /\ dbos' = [dbos EXCEPT ![<<r, current[r] + 1>>] = "ENQUEUED"]
      /\ outcome' = outcome
      /\ completion[r] \in {"NONE", "FAILED"}
      /\ current[r] + 1 \in 1..MaxAttempt
  <2>1. CASE Release(r)
    <3>1. current[r] = 0
      BY <1>1, <2>1 DEF Release, HistoryMatches
    <3>2. QED
      BY <2>1, <3>1, CompletionAssumption DEF Release, Enqueue, TypeOK
  <2>2. CASE Retry(r)
    BY <2>2, CompletionAssumption DEF Retry, Enqueue, TypeOK
  <2>3. QED
    BY <2>1, <2>2
<1>3. CASE q # r
  <2>1. /\ completion'[q] = completion[q] /\ current'[q] = current[q]
        /\ \A n \in 1..MaxAttempt : dbos'[<<q, n>>] = dbos[<<q, n>>]
    BY <1>2, <1>3, Pairs DEF TypeOK, RuntimeTypeOK
  <2>2. QED
    BY <1>1, <1>2, <2>1 DEF HistoryMatches
<1>4. CASE q = r
  <2>1. /\ completion'[q] = "ENQUEUED" /\ current'[q] = current[q] + 1
        /\ current[q] \in Nat
        /\ \A n \in 1..MaxAttempt : n # current[q] + 1 =>
             dbos'[<<q, n>>] = dbos[<<q, n>>]
    BY <1>2, <1>4, Pairs, CompletionAssumption DEF TypeOK, RuntimeTypeOK
  <2>2. \A n \in 1..MaxAttempt : n < current[q] + 1 => outcome[<<q, n>>] = "FAILED"
    BY <1>1, <1>2, <1>4, <2>1 DEF HistoryMatches
  <2>3. \A n \in 1..MaxAttempt : n > current[q] =>
          outcome[<<q, n>>] = "OPEN" /\ dbos[<<q, n>>] = "NONE"
    BY <1>1 DEF HistoryMatches
  <2>4. QED
    BY <1>2, <2>1, <2>2, <2>3 DEF HistoryMatches
<1>5. QED
  BY <1>3, <1>4

LEMMA HistoryStep == TypeOK /\ HistoryIsFailures /\ [Next]_vars => HistoryIsFailures'
<1> SUFFICES ASSUME TypeOK, HistoryIsFailures, [Next]_vars
             PROVE  HistoryIsFailures'
  OBVIOUS
<1>1. ASSUME NEW r \in Run, Release(r) \/ Retry(r)
      PROVE  HistoryIsFailures'
  BY <1>1, AppendKeepsHistory
<1>2. ASSUME NEW w \in Attempt, RecordOutcome(w) \/ SweepProject(w)
      PROVE  HistoryIsFailures'
  <2>1. UNCHANGED dbos
    BY <1>2 DEF RecordOutcome, Checkpoint, SweepProject, runtime
  <2>2. CASE \E o \in {"SUCCEEDED", "FAILED"} : MayRecord(w) /\ Record(w, o)
    BY <2>1, <2>2, RecordKeepsHistory
  <2>3. CASE UNCHANGED ledger
    BY <2>1, <2>3 DEF ledger, HistoryIsFailures, HistoryMatches
  <2>4. QED
    BY <1>2, <2>2, <2>3 DEF RecordOutcome, SweepProject
<1>3. ASSUME NEW w \in Attempt, Workflow(w)
      PROVE  HistoryIsFailures'
  <2>1. \A v \in Attempt : dbos[v] = "NONE" => dbos'[v] = "NONE"
    BY <1>3, RuntimeTouchesEnqueued DEF Workflow
  <2>2. UNCHANGED ledger
    BY <1>3 DEF Workflow
  <2>3. QED
    BY <2>1, <2>2, Pairs DEF ledger, HistoryIsFailures, HistoryMatches
<1>4. ASSUME NEW w \in Attempt, RecordRaises(w) \/ SweepList(w) \/ SweepStatus(w)
      PROVE  HistoryIsFailures'
  BY <1>4 DEF RecordRaises, Checkpoint, SweepList, SweepStatus, ledger, runtime,
              HistoryIsFailures, HistoryMatches
<1>5. CASE SweepInterrupted \/ UNCHANGED vars
  BY <1>5 DEF SweepInterrupted, vars, ledger, runtime, HistoryIsFailures,
              HistoryMatches
<1>6. QED
  BY <1>1, <1>2, <1>3, <1>4, <1>5 DEF Next

\* Every attempt before the current one failed, the current one agrees with
\* the execution, later ones are unused: a run completes at most once.
THEOREM HistoriesAreFailures == Spec => []HistoryIsFailures
<1>1. Init => TypeOK /\ HistoryIsFailures
  BY TypeInit, HistoryInit
<1>2. (TypeOK /\ HistoryIsFailures) /\ [Next]_vars => (TypeOK /\ HistoryIsFailures)'
  BY TypeStep, HistoryStep
<1>3. QED
  BY <1>1, <1>2, PTL DEF Spec

-----------------------------------------------------------------------------
\* An outcome is written once, by the current attempt of an open completion,
\* and a success is final against stale workflows, sweeps and retries.
THEOREM OutcomesAreFinal == Spec => OutcomeIsImmutable
<1> DEFINE Immutable ==
      /\ \A w \in Attempt : outcome[w] # "OPEN" => outcome'[w] = outcome[w]
      /\ \A r \in Run : completion[r] = "SUCCEEDED" =>
           completion'[r] = "SUCCEEDED" /\ current'[r] = current[r]
<1>1. ASSUME TypeOK, HistoryIsFailures, [Next]_vars
      PROVE  Immutable
  <2>1. LedgerStep
    BY <1>1, StepKinds
  <2>2. CASE UNCHANGED ledger
    BY <2>2 DEF ledger
  <2>3. ASSUME NEW r \in Run, Release(r) \/ Retry(r)
        PROVE  Immutable
    BY <1>1, <2>3 DEF Release, Retry, TypeOK
  <2>4. ASSUME NEW w \in Attempt, NEW o \in {"SUCCEEDED", "FAILED"},
               MayRecord(w), Record(w, o)
        PROVE  Immutable
    <3>1. HistoryMatches(w[1]) /\ w = <<w[1], current[w[1]]>> /\ w[2] \in 1..MaxAttempt
      BY <1>1, <2>4, Pairs DEF HistoryIsFailures, MayRecord
    <3>2. outcome[w] = "OPEN"
      BY <2>4, <3>1 DEF MayRecord, HistoryMatches
    <3>3. QED
      BY <1>1, <2>4, <3>2 DEF MayRecord, Record, TypeOK
  <2>5. QED
    BY <2>1, <2>2, <2>3, <2>4 DEF LedgerStep
<1>2. TypeOK /\ HistoryIsFailures /\ [Next]_vars => [Immutable]_vars
  BY <1>1
<1>3. QED
  BY <1>2, TypeCorrect, HistoriesAreFailures, PTL DEF Spec, OutcomeIsImmutable
-----------------------------------------------------------------------------
(***************************************************************************)
(* The ledger of completions and DBOS.                                     *)
(***************************************************************************)

Started(w) == w[2] <= current[w[1]]

\* An attempt and its workflow.
SidesAgree(w) ==
  /\ Started(w) <=> dbos[w] # "NONE"
  /\ w \in running \/ checkpoint[w] # "NONE" => Started(w)
  /\ dbos[w] = "SUCCESS" => checkpoint[w] = "RETURNED"
  /\ dbos[w] = "ERROR" => checkpoint[w] = "RAISED"
  /\ checkpoint[w] = "RETURNED" => outcome[w] # "OPEN"
  /\ outcome[w] = "SUCCEEDED" => checkpoint[w] = "RETURNED"

BothSides == \A w \in Attempt : SidesAgree(w)

LEMMA BothSidesInit == Init => BothSides
BY Pairs DEF Init, RuntimeInit, BothSides, SidesAgree, Started

LEMMA BothSidesStep ==
  TypeOK /\ HistoryIsFailures /\ BothSides /\ [Next]_vars => BothSides'
<1> SUFFICES ASSUME TypeOK, HistoryIsFailures, BothSides, [Next]_vars,
                    NEW w \in Attempt
             PROVE  SidesAgree(w)'
  BY DEF BothSides
<1>1. SidesAgree(w) /\ w[1] \in Run /\ w[2] \in 1..MaxAttempt /\ w = <<w[1], w[2]>>
  BY Pairs DEF BothSides
<1> USE DEF TypeOK, RuntimeTypeOK
<1>3. ASSUME NEW r \in Run, Release(r) \/ Retry(r)
      PROVE  SidesAgree(w)'
  <2>1. /\ current' = [current EXCEPT ![r] = @ + 1]
        /\ dbos' = [dbos EXCEPT ![<<r, current[r] + 1>>] = "ENQUEUED"]
        /\ UNCHANGED <<outcome, running, checkpoint>>
        /\ current[r] + 1 \in 1..MaxAttempt
    <3>1. CASE Release(r)
      <4>1. current[r] = 0
        BY <3>1 DEF Release, HistoryIsFailures, HistoryMatches
      <4> QED
        BY <3>1, <4>1, CompletionAssumption DEF Release, Enqueue
    <3>2. CASE Retry(r)
      BY <3>2, CompletionAssumption DEF Retry, Enqueue
    <3> QED
      BY <1>3, <3>1, <3>2
  <2>2. CASE w[1] # r
    <3>1. dbos'[w] = dbos[w] /\ current'[w[1]] = current[w[1]]
      BY <1>1, <2>1, <2>2, Pairs
    <3> QED
      BY <1>1, <2>1, <3>1 DEF SidesAgree, Started
  <2>3. CASE w[1] = r /\ w[2] # current[r] + 1
    <3>1. dbos'[w] = dbos[w] /\ current'[w[1]] = current[w[1]] + 1
      BY <1>1, <2>1, <2>3, Pairs
    <3>2. Started(w)' <=> Started(w)
      BY <1>1, <2>1, <2>3, <3>1 DEF Started
    <3> QED
      BY <1>1, <2>1, <3>1, <3>2 DEF SidesAgree
  <2>4. CASE w[1] = r /\ w[2] = current[r] + 1
    <3>1. dbos'[w] = "ENQUEUED" /\ current'[w[1]] = w[2]
      BY <1>1, <2>1, <2>4, Pairs
    <3>2. ~Started(w)
      BY <1>1, <2>4 DEF Started
    <3>3. Started(w)'
      BY <1>1, <3>1 DEF Started
    <3> QED
      BY <1>1, <2>1, <3>1, <3>2, <3>3 DEF SidesAgree
  <2> QED
    BY <2>2, <2>3, <2>4
<1>4. ASSUME NEW v \in Attempt, Workflow(v)
      PROVE  SidesAgree(w)'
  <2>1. UNCHANGED ledger /\ WorkflowStep(v)
    BY <1>4 DEF Workflow
  <2>2. Started(w)' <=> Started(w)
    BY <2>1 DEF Started, ledger
  <2>3. CASE v # w
    <3>1. dbos'[w] = dbos[w] /\ checkpoint'[w] = checkpoint[w]
          /\ (w \in running' <=> w \in running)
      BY <2>1, <2>3
      DEF WorkflowStep, Dequeue, Halt, Recover, Finish, OutOfBandCancel, OutOfBandResume
    <3> QED
      BY <1>1, <2>1, <2>2, <3>1 DEF SidesAgree, ledger
  <2>4. CASE v = w
    BY <1>1, <2>1, <2>2, <2>4
    DEF SidesAgree, WorkflowStep, Dequeue, Halt, Recover, Finish, OutOfBandCancel,
        OutOfBandResume, ledger
  <2> QED
    BY <2>3, <2>4
<1>5. ASSUME NEW v \in Attempt, RecordOutcome(v)
      PROVE  SidesAgree(w)'
  <2>1. v \in running /\ checkpoint' = [checkpoint EXCEPT ![v] = "RETURNED"]
        /\ UNCHANGED <<dbos, running, current>> /\ checkpoint[v] = "NONE"
    BY <1>5 DEF RecordOutcome, Record, Checkpoint, Executing
  <2>2. PICK o \in {"SUCCEEDED", "FAILED"} : outcome' = [outcome EXCEPT ![v] = o]
    BY <1>5 DEF RecordOutcome, Record
  <2>3. Started(w)' <=> Started(w)
    BY <2>1 DEF Started
  <2>4. CASE v = w
    BY <1>1, <2>1, <2>2, <2>3, <2>4 DEF SidesAgree
  <2>5. CASE v # w
    BY <1>1, <2>1, <2>2, <2>3, <2>5 DEF SidesAgree
  <2> QED
    BY <2>4, <2>5
<1>6. ASSUME NEW v \in Attempt, RecordRaises(v)
      PROVE  SidesAgree(w)'
  <2>1. v \in running /\ checkpoint' = [checkpoint EXCEPT ![v] = "RAISED"]
        /\ UNCHANGED <<dbos, running, ledger>> /\ checkpoint[v] = "NONE"
    BY <1>6 DEF RecordRaises, Checkpoint, Executing
  <2> QED
    BY <1>1, <2>1 DEF SidesAgree, Started, ledger
<1>7. ASSUME NEW v \in Attempt, SweepProject(v)
      PROVE  SidesAgree(w)'
  <2>1. UNCHANGED runtime
    BY <1>7 DEF SweepProject
  <2>2. CASE UNCHANGED ledger
    BY <1>1, <2>1, <2>2 DEF SidesAgree, Started, ledger, runtime
  <2>3. CASE MayRecord(v) /\ Record(v, "FAILED")
    <3>1. outcome' = [outcome EXCEPT ![v] = "FAILED"] /\ UNCHANGED current
      BY <2>3 DEF Record
    <3> QED
      BY <1>1, <2>1, <3>1 DEF SidesAgree, Started, runtime
  <2> QED
    BY <1>7, <2>2, <2>3 DEF SweepProject
<1>8. ASSUME NEW v \in Attempt, SweepList(v) \/ SweepStatus(v)
      PROVE  SidesAgree(w)'
  BY <1>1, <1>8 DEF SweepList, SweepStatus, SidesAgree, Started, ledger, runtime
<1>9. CASE SweepInterrupted \/ UNCHANGED vars
  BY <1>1, <1>9 DEF SweepInterrupted, vars, SidesAgree, Started, ledger, runtime
<1> QED
  BY <1>3, <1>4, <1>5, <1>6, <1>7, <1>8, <1>9 DEF Next

\* The completions and DBOS agree on which attempts there are, and what DBOS
\* records as SUCCESS has its outcome, through deaths, recoveries and the acts
\* of operators on either side. So the sweep, which reads nothing from SUCCESS,
\* leaves no completion open that has returned; and a success is always one of
\* a workflow that returned, never one that was projected.
THEOREM CompletionsAgreeWithRuntime == Spec => []BothSides
<1>1. Init => BothSides
  BY BothSidesInit
<1>2. TypeOK /\ HistoryIsFailures /\ BothSides /\ [Next]_vars => BothSides'
  BY BothSidesStep
<1> QED
  BY <1>1, <1>2, TypeCorrect, HistoriesAreFailures, PTL DEF Spec
=============================================================================
