---------------------------- MODULE RunCompletion ----------------------------
(***************************************************************************)
(* The completion of a released run: one execution with an attempt for     *)
(* the release and one for every operator retry, the workflow that runs    *)
(* an attempt, the sweep over enqueued completions and the retry.          *)
(*                                                                         *)
(* As in StageLedger an action is one transaction, one call to DBOS, or a  *)
(* step of a process between them. A completion has no CANCELLED state:    *)
(* nobody cancels it through the platform, and its sweep takes a DBOS      *)
(* cancellation for no evidence at all.                                    *)
(*                                                                         *)
(* Simplification: outcomes carry no output or error; a workflow and the   *)
(* sweep never record the same error, so a second record of an attempt is  *)
(* always the "different terminal outcome" of the code.                    *)
(***************************************************************************)
EXTENDS WorkflowRuntime

CONSTANTS
  Run,         \* runs that declare completion
  MaxAttempt   \* bound: attempts of one completion

ASSUME CompletionAssumption ==
  /\ MaxAttempt \in Nat \ {0}
  /\ MaxFault \in Nat

VARIABLES
  completion,  \* run_completion_executions.state, "NONE" before the release
  current,     \* run_completion_executions.current_attempt
  outcome,     \* run_completion_attempts terminal outcome, "OPEN" before it
  sweep        \* what the sweep holds in memory about an attempt

ledger == <<completion, current, outcome>>
vars == <<completion, current, outcome, sweep, dbos, running, checkpoint, faults>>

\* The workflow id digests the run's identity and the attempt number.
Attempt == Run \X (1..MaxAttempt)
CurrentAttempt(r) == <<r, current[r]>>

Init ==
  /\ completion = [r \in Run |-> "NONE"]
  /\ current = [r \in Run |-> 0]
  /\ outcome = [w \in Attempt |-> "OPEN"]
  /\ sweep = [w \in Attempt |-> "IDLE"]
  /\ RuntimeInit(Attempt)
-----------------------------------------------------------------------------
\* The barrier releases the run with its first attempt.
Release(r) ==
  /\ completion[r] = "NONE"
  /\ completion' = [completion EXCEPT ![r] = "ENQUEUED"]
  /\ current' = [current EXCEPT ![r] = 1]
  /\ Enqueue(<<r, 1>>)
  /\ UNCHANGED <<outcome, sweep>>

\* Only a failed completion is retried, with a new attempt enqueued at once.
Retry(r) ==
  /\ completion[r] = "FAILED"
  /\ outcome[CurrentAttempt(r)] # "OPEN"
  /\ current[r] < MaxAttempt
  /\ completion' = [completion EXCEPT ![r] = "ENQUEUED"]
  /\ current' = [current EXCEPT ![r] = @ + 1]
  /\ Enqueue(<<r, current[r] + 1>>)
  /\ UNCHANGED <<outcome, sweep>>
-----------------------------------------------------------------------------
\* Mutants: the attempt is not compared; the state is not.
MayRecordAnyAttempt(w) == completion[w[1]] = "ENQUEUED"
MayRecordAnyState(w) == w[2] = current[w[1]]

\* An outcome is recorded for the current attempt of an open completion.
MayRecord(w) ==
  /\ w[2] = current[w[1]]
  /\ completion[w[1]] = "ENQUEUED"

Record(w, o) ==
  /\ completion' = [completion EXCEPT ![w[1]] = o]
  /\ outcome' = [outcome EXCEPT ![w] = o]
  /\ UNCHANGED current

\* The application returned an output reference or raised.
RecordOutcome(w) ==
  /\ MayRecord(w)
  /\ \E o \in {"SUCCEEDED", "FAILED"} : Record(w, o)
  /\ Checkpoint(w, "RETURNED")
  /\ UNCHANGED sweep

\* A stale attempt, or one the sweep has failed, ends in an error; so does
\* one whose transaction raises for another reason, as a backwards clock.
RecordRaises(w) ==
  /\ Checkpoint(w, "RAISED")
  /\ UNCHANGED <<ledger, sweep>>
-----------------------------------------------------------------------------
SweepList(w) ==
  /\ MayRecord(w)
  /\ outcome[w] = "OPEN"
  /\ sweep[w] = "IDLE"
  /\ sweep' = [sweep EXCEPT ![w] = "LISTED"]
  /\ UNCHANGED <<ledger, runtime>>

\* Mutant: an errored workflow is taken for one that ended.
EvidenceWithoutError(status) ==
  IF status = "MAX_RECOVERY_ATTEMPTS_EXCEEDED" THEN {"FAILED"} ELSE {"IDLE"}

\* Mutant: the status itself is projected as the outcome.
EvidenceIsStatus(status) ==
  IF status \in {"ERROR", "MAX_RECOVERY_ATTEMPTS_EXCEEDED"} THEN {status}
  ELSE {"IDLE"}

\* A DBOS cancellation is no evidence; a PENDING workflow may be orphaned.
Evidence(status) ==
  IF status \in {"ERROR", "MAX_RECOVERY_ATTEMPTS_EXCEEDED"} THEN {"FAILED"}
  ELSE IF status = "PENDING" THEN {"FAILED", "IDLE"}
  ELSE {"IDLE"}

SweepStatus(w) ==
  /\ sweep[w] = "LISTED"
  /\ \E e \in Evidence(dbos[w]) : sweep' = [sweep EXCEPT ![w] = e]
  /\ UNCHANGED <<ledger, runtime>>

\* A recorded outcome wins: the projection is given up.
SweepProject(w) ==
  /\ sweep[w] = "FAILED"
  /\ sweep' = [sweep EXCEPT ![w] = "IDLE"]
  /\ IF MayRecord(w) THEN Record(w, "FAILED") ELSE UNCHANGED ledger
  /\ UNCHANGED runtime

SweepInterrupted ==
  /\ sweep' = [w \in Attempt |-> "IDLE"]
  /\ UNCHANGED <<ledger, runtime>>
-----------------------------------------------------------------------------
Workflow(w) ==
  /\ WorkflowStep(w)
  /\ UNCHANGED <<ledger, sweep>>

Next ==
  \/ \E r \in Run : Release(r) \/ Retry(r)
  \/ \E w \in Attempt :
       \/ Workflow(w) \/ RecordOutcome(w) \/ RecordRaises(w)
       \/ SweepList(w) \/ SweepStatus(w) \/ SweepProject(w)
  \/ SweepInterrupted

\* Workers take what is queued, a worker with the same identity starts again
\* and recovers what was pending, a body ends, a recorded end is written, and
\* each attempt is swept by some pass that is not cut short.
Fairness ==
  \A w \in Attempt :
    /\ WF_vars(Dequeue(w) /\ UNCHANGED <<ledger, sweep>>)
    /\ WF_vars(Recover(w) /\ UNCHANGED <<ledger, sweep>>)
    /\ WF_vars(Finish(w) /\ UNCHANGED <<ledger, sweep>>)
    /\ WF_vars(RecordOutcome(w) \/ RecordRaises(w))
    /\ SF_vars(SweepList(w))
    /\ SF_vars(SweepStatus(w))
    /\ SF_vars(SweepProject(w))

Spec == Init /\ [][Next]_vars /\ Fairness
-----------------------------------------------------------------------------
\* Every variable keeps the type its column or process memory gives it.
TypeOK ==
  /\ completion \in [Run -> {"NONE", "ENQUEUED", "SUCCEEDED", "FAILED"}]
  /\ current \in [Run -> 0..MaxAttempt]
  /\ outcome \in [Attempt -> {"OPEN", "SUCCEEDED", "FAILED"}]
  /\ sweep \in [Attempt -> {"IDLE", "LISTED", "FAILED"}]
  /\ RuntimeTypeOK(Attempt)

\* The attempts of a completion tell its history: every attempt before the
\* current one failed, the current one carries the state of the execution,
\* and later ones are unused. So a run has at most one success, no retry
\* follows a success, and "has no terminal current attempt" and "attempt is
\* already terminal" are unreachable, whatever stale workflows and sweeps do.
HistoryMatches(r) ==
  /\ completion[r] = "NONE" <=> current[r] = 0
  /\ \A n \in 1..MaxAttempt :
       /\ n < current[r] => outcome[<<r, n>>] = "FAILED"
       /\ n = current[r] =>
            outcome[<<r, n>>] = IF completion[r] = "ENQUEUED" THEN "OPEN"
                                ELSE completion[r]
       /\ n > current[r] => outcome[<<r, n>>] = "OPEN" /\ dbos[<<r, n>>] = "NONE"
HistoryIsFailures == \A r \in Run : HistoryMatches(r)

\* An outcome is written once, and a succeeded completion never changes.
OutcomeIsImmutable ==
  [][/\ \A w \in Attempt : outcome[w] # "OPEN" => outcome'[w] = outcome[w]
     /\ \A r \in Run : completion[r] = "SUCCEEDED" =>
          completion'[r] = "SUCCEEDED" /\ current'[r] = current[r]]_vars

\* An enqueued completion comes to an outcome although executors die, the
\* recovery cap is met and transactions raise; only a workflow cancelled in
\* DBOS holds it, since the sweep reads nothing from that status.
Undecided(r) ==
  /\ completion[r] = "ENQUEUED"
  /\ dbos[CurrentAttempt(r)] # "CANCELLED"
CompletionsAreDecided == \A r \in Run : []<>~Undecided(r)
=============================================================================
