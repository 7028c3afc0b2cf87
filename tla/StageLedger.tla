----------------------------- MODULE StageLedger -----------------------------
(***************************************************************************)
(* The core of the platform: stage executions and their attempts in the    *)
(* PostgreSQL ledger, the DBOS workflows that run them, and everything     *)
(* that may write the same row: admission, the handoff transaction of a    *)
(* workflow that is current, stale or cancelled, the abandonment sweep     *)
(* acting on a status it read earlier, item cancellation with its          *)
(* delegation after the commit, and operator retry.                        *)
(*                                                                         *)
(* One action is one database transaction, one call to DBOS, or one step   *)
(* of a process between them; a process may die between any two.           *)
(*                                                                         *)
(* Simplifications:                                                        *)
(*  - controls, capacity, priority and rank are left out: admission may    *)
(*    pick any READY row whose join is open;                               *)
(*  - timestamps are left out: a transaction that raises because its clock *)
(*    reading went backwards is HandoffRaises or SweepInterrupted;         *)
(*  - the evidence that a PENDING workflow is orphaned is a free choice of *)
(*    the sweep, so it may also be wrong about a workflow that is alive;   *)
(*  - MaxAttempt bounds admissions and retries, MaxSweep the attempts the  *)
(*    sweep holds at once, MaxFault the deaths of an executor and the acts *)
(*    of an operator on DBOS itself.                                       *)
(***************************************************************************)
EXTENDS StageRows, WorkflowRuntime, FiniteSets

CONSTANTS
  MaxAttempt,  \* bound: attempts of one execution
  MaxSweep     \* bound: attempts a sweep holds between two transactions

ASSUME LedgerAssumption ==
  /\ MaxIndex \in Nat
  /\ MaxAttempt \in Nat
  /\ MaxSweep \in Nat
  /\ MaxFault \in Nat
  /\ NoInput \notin Input

VARIABLES
  current,     \* stage_executions.current_attempt
  admitted,    \* stage_attempts.admitted_at is set
  outcome,     \* stage_attempts terminal outcome, "OPEN" before it
  sweep,       \* what the sweep holds in memory about an attempt
  delegated    \* cancellations committed and not yet sent to DBOS

executions == <<state, facts, current>>
attempts == <<admitted, outcome>>
vars == <<state, facts, current, admitted, outcome, dbos, running, checkpoint,
          sweep, delegated, faults>>

\* An attempt is an execution and an attempt number; so is its workflow id.
Attempt == Row \X (1..MaxAttempt)
CurrentAttempt(r) == <<r, current[r]>>

Outcome == {"OPEN", "SUCCEEDED", "FAILED", "CANCELLED"}
SweepStep == {"IDLE", "LISTED", "FAILED", "CANCELLED"}

Init ==
  /\ state = [r \in Row |-> "ABSENT"]
  /\ facts = [r \in Row |-> NoFacts]
  /\ current = [r \in Row |-> 0]
  /\ admitted = [w \in Attempt |-> FALSE]
  /\ outcome = [w \in Attempt |-> "OPEN"]
  /\ RuntimeInit(Attempt)
  /\ sweep = [w \in Attempt |-> "IDLE"]
  /\ delegated = {}
-----------------------------------------------------------------------------
(***************************************************************************)
(* Submission and admission.                                               *)
(***************************************************************************)

\* A registration chunk inserts a new item with its first execution.
Submit(i, input) ==
  /\ \A r \in RowsOf(i) : state[r] = "ABSENT"
  /\ state' = [state EXCEPT ![<<i, 0>>] = "READY"]
  /\ facts' = [facts EXCEPT ![<<i, 0>>] = [barrier |-> FALSE, input |-> input]]
  /\ UNCHANGED <<current, attempts, runtime, sweep, delegated>>

\* A retry leaves a prepared attempt, which admission uses up first.
Prepared(r) ==
  /\ current[r] > 0
  /\ ~admitted[CurrentAttempt(r)]
  /\ outcome[CurrentAttempt(r)] = "OPEN"

AttemptForAdmission(r) == IF Prepared(r) THEN current[r] ELSE current[r] + 1

Admit(r) ==
  LET n == AttemptForAdmission(r) IN
  /\ state[r] = "READY"
  /\ ~Blocked(r)
  /\ n <= MaxAttempt
  /\ state' = [state EXCEPT ![r] = "ADMITTED"]
  /\ current' = [current EXCEPT ![r] = n]
  /\ admitted' = [admitted EXCEPT ![<<r, n>>] = TRUE]
  /\ Enqueue(<<r, n>>)
  /\ UNCHANGED <<facts, outcome, sweep, delegated>>
-----------------------------------------------------------------------------
(***************************************************************************)
(* The handoff transaction of a workflow whose body returned or raised.    *)
(* Its result is checkpointed with it, so it commits at most once.         *)
(***************************************************************************)

IsCurrent(w) == w[2] = current[w[1]]
MayComplete(w) == state[w[1]] = "ADMITTED" /\ IsCurrent(w)

Succeed(w, succ) ==
  LET r == w[1] IN
  /\ MayComplete(w)
  /\ outcome[w] = "OPEN"
  /\ Compatible(r, succ)
  /\ state' = [s \in Row |-> IF s = r THEN "SUCCEEDED"
                             ELSE IF s \in Fresh(r, succ) THEN "READY"
                             ELSE state[s]]
  /\ facts' = [s \in Row |-> IF s \in Fresh(r, succ) THEN succ[s[2]]
                             ELSE facts[s]]
  /\ outcome' = [outcome EXCEPT ![w] = "SUCCEEDED"]
  /\ Checkpoint(w, "RETURNED")
  /\ UNCHANGED <<current, admitted, sweep, delegated>>

Fail(w) ==
  /\ MayComplete(w)
  /\ outcome[w] = "OPEN"
  /\ state' = [state EXCEPT ![w[1]] = "FAILED"]
  /\ outcome' = [outcome EXCEPT ![w] = "FAILED"]
  /\ Checkpoint(w, "RETURNED")
  /\ UNCHANGED <<facts, current, admitted, sweep, delegated>>

\* Cancellation won: the completion of the current attempt is discarded.
DiscardLate(w) ==
  /\ state[w[1]] = "CANCELLED"
  /\ IsCurrent(w)
  /\ Checkpoint(w, "RETURNED")
  /\ UNCHANGED <<executions, attempts, sweep, delegated>>

\* Mutant: the error is swallowed and the workflow returns normally.
HandoffSwallowsError(w) ==
  /\ Checkpoint(w, "RETURNED")
  /\ UNCHANGED <<executions, attempts, sweep, delegated>>

HandoffRaises(w) ==
  /\ Checkpoint(w, "RAISED")
  /\ UNCHANGED <<executions, attempts, sweep, delegated>>

\* Any other completion of a workflow that is not current is an error.
RejectStale(w) ==
  /\ ~MayComplete(w)
  /\ ~(state[w[1]] = "CANCELLED" /\ IsCurrent(w))
  /\ HandoffRaises(w)

\* A successor collides with a row of different facts: all rolls back.
RejectConflict(w, succ) ==
  /\ MayComplete(w)
  /\ ~Compatible(w[1], succ)
  /\ HandoffRaises(w)

\* The transaction raises for another reason, a backwards clock above all.
RollBack(w) ==
  /\ MayComplete(w)
  /\ HandoffRaises(w)
-----------------------------------------------------------------------------
(***************************************************************************)
(* The abandonment sweep: list a page, read DBOS, then project each        *)
(* attempt in a transaction of its own that looks at the row again.        *)
(***************************************************************************)

SweepList(w) ==
  /\ MayComplete(w)
  /\ outcome[w] = "OPEN"
  /\ sweep[w] = "IDLE"
  /\ Cardinality({v \in Attempt : sweep[v] # "IDLE"}) < MaxSweep
  /\ sweep' = [sweep EXCEPT ![w] = "LISTED"]
  /\ UNCHANGED <<executions, attempts, runtime, delegated>>

\* Mutants: the status itself is projected; the recovery cap is forgotten.
EvidenceIsStatus(status) ==
  IF status \in {"CANCELLED", "ERROR", "MAX_RECOVERY_ATTEMPTS_EXCEEDED"}
  THEN {status} ELSE {"IDLE"}
EvidenceWithoutCap(status) ==
  IF status = "CANCELLED" THEN {"CANCELLED"}
  ELSE IF status = "ERROR" THEN {"FAILED"} ELSE {"IDLE"}

\* What a status is evidence of: nothing, for a workflow that is queued,
\* has ended well, or is pending under a live identity.
Evidence(status) ==
  IF status = "CANCELLED" THEN {"CANCELLED"}
  ELSE IF status \in {"ERROR", "MAX_RECOVERY_ATTEMPTS_EXCEEDED"} THEN {"FAILED"}
  ELSE IF status = "PENDING" THEN {"FAILED", "IDLE"}
  ELSE {"IDLE"}

SweepStatus(w) ==
  /\ sweep[w] = "LISTED"
  /\ \E e \in Evidence(dbos[w]) : sweep' = [sweep EXCEPT ![w] = e]
  /\ UNCHANGED <<executions, attempts, runtime, delegated>>

SweepProject(w) ==
  /\ sweep[w] \in {"FAILED", "CANCELLED"}
  /\ sweep' = [sweep EXCEPT ![w] = "IDLE"]
  /\ IF MayComplete(w) /\ outcome[w] = "OPEN"
     THEN /\ state' = [state EXCEPT ![w[1]] = sweep[w]]
          /\ outcome' = [outcome EXCEPT ![w] = sweep[w]]
     ELSE UNCHANGED <<state, outcome>>
  /\ UNCHANGED <<facts, current, admitted, runtime, delegated>>

\* The dispatcher dies, or a projection raises and ends the pass.
SweepInterrupted ==
  /\ sweep' = [w \in Attempt |-> "IDLE"]
  /\ UNCHANGED <<executions, attempts, runtime, delegated>>
-----------------------------------------------------------------------------
(***************************************************************************)
(* Operator actions: cancel an item, then tell DBOS; retry an execution.   *)
(***************************************************************************)

Open(i) == {r \in RowsOf(i) : state[r] \in Nonterminal}
CurrentOf(rows) == {w \in Attempt : w[1] \in rows /\ IsCurrent(w)}

\* Mutants: a prepared attempt is left open; a failed one is settled again.
SettledAdmittedOnly(i) ==
  CurrentOf({r \in Open(i) : state[r] = "ADMITTED"})
SettledFailedToo(i) == CurrentOf(Open(i))

\* The attempts a cancellation settles: the current ones of admitted rows,
\* and the prepared ones of rows made READY by a retry.
Settled(i) == CurrentOf({r \in Open(i) : state[r] # "FAILED"})

\* Mutant: rows that appear while the others are being locked are missed.
CancelSomeRows(i) ==
  \E rows \in SUBSET Open(i) :
    /\ rows # {}
    /\ state' = [r \in Row |-> IF r \in rows THEN "CANCELLED" ELSE state[r]]
    /\ outcome' = [w \in Attempt |->
         IF w[1] \in rows /\ w \in Settled(i) THEN "CANCELLED" ELSE outcome[w]]
    /\ UNCHANGED <<facts, current, admitted, runtime, sweep, delegated>>

CancelItem(i) ==
  /\ Open(i) # {}
  /\ state' = [r \in Row |-> IF r \in Open(i) THEN "CANCELLED" ELSE state[r]]
  /\ outcome' = [w \in Attempt |-> IF w \in Settled(i) THEN "CANCELLED"
                                   ELSE outcome[w]]
  /\ delegated' = delegated \cup
       CurrentOf({r \in Open(i) : state[r] = "ADMITTED"})
  /\ UNCHANGED <<facts, current, admitted, runtime, sweep>>

\* Nothing is open: a repeated call reissues the stored workflow ids.
Redelegate(i) ==
  /\ Open(i) = {}
  /\ delegated' = delegated \cup
       {w \in CurrentOf({r \in RowsOf(i) : state[r] = "CANCELLED"}) : admitted[w]}
  /\ UNCHANGED <<executions, attempts, runtime, sweep>>

Delegate(w) ==
  /\ w \in delegated
  /\ delegated' = delegated \ {w}
  /\ CancelWorkflow(w)
  /\ UNCHANGED <<executions, attempts, sweep>>

\* The process dies, or DBOS refuses the call, after the ledger commit.
LoseDelegation ==
  /\ delegated' = {}
  /\ UNCHANGED <<executions, attempts, runtime, sweep>>

\* Mutant: a cancelled execution may be retried too.
RetryCancelled(r) ==
  /\ state[r] \in {"FAILED", "CANCELLED"}
  /\ current[r] \in 1..(MaxAttempt - 1)
  /\ current' = [current EXCEPT ![r] = @ + 1]
  /\ state' = [state EXCEPT ![r] = "READY"]
  /\ UNCHANGED <<facts, attempts, runtime, sweep, delegated>>

Retry(r) ==
  /\ state[r] = "FAILED"
  /\ outcome[CurrentAttempt(r)] # "OPEN"
  /\ current[r] < MaxAttempt
  /\ current' = [current EXCEPT ![r] = @ + 1]
  /\ state' = [state EXCEPT ![r] = "READY"]
  /\ UNCHANGED <<facts, attempts, runtime, sweep, delegated>>
-----------------------------------------------------------------------------
Successors(r) == UNION {[ks -> Fact] : ks \in SUBSET Above(r)}

Workflow(w) ==
  /\ WorkflowStep(w)
  /\ UNCHANGED <<executions, attempts, sweep, delegated>>

Handoff(w) ==
  \/ Fail(w) \/ DiscardLate(w) \/ RejectStale(w) \/ RollBack(w)
  \/ \E succ \in Successors(w[1]) : Succeed(w, succ) \/ RejectConflict(w, succ)

Sweep ==
  \/ \E w \in Attempt : SweepList(w) \/ SweepStatus(w) \/ SweepProject(w)
  \/ SweepInterrupted

Operator ==
  \/ \E i \in Item : CancelItem(i) \/ Redelegate(i)
  \/ \E w \in Attempt : Delegate(w)
  \/ LoseDelegation
  \/ \E r \in Row : Retry(r)

Next ==
  \/ \E i \in Item, input \in Input : Submit(i, input)
  \/ \E r \in Row : Admit(r)
  \/ \E w \in Attempt : Workflow(w) \/ Handoff(w)
  \/ Sweep
  \/ Operator

\* The dispatcher calls the sweep every second and a pass visits every
\* admitted attempt, so none is passed over or cut short for ever.
Fairness ==
  \A w \in Attempt : /\ SF_vars(SweepList(w))
                      /\ SF_vars(SweepStatus(w))
                      /\ SF_vars(SweepProject(w))

Spec == Init /\ [][Next]_vars /\ Fairness
-----------------------------------------------------------------------------
(***************************************************************************)
(* Properties.                                                             *)
(***************************************************************************)

\* Every variable keeps the type its column or process memory gives it.
TypeOK ==
  /\ state \in [Row -> State]
  /\ facts \in [Row -> Fact \cup {NoFacts}]
  /\ current \in [Row -> 0..MaxAttempt]
  /\ admitted \in [Attempt -> BOOLEAN]
  /\ outcome \in [Attempt -> Outcome]
  /\ RuntimeTypeOK(Attempt)
  /\ sweep \in [Attempt -> SweepStep]
  /\ delegated \subseteq Attempt

\* The state of an execution and its current attempt agree: what the code
\* asserts wherever it says "has no active current attempt", "has no terminal
\* current attempt" or "stage attempt is already terminal", so that those
\* errors are unreachable, whatever the order of handoffs, sweeps,
\* cancellations and retries. All attempts before the current one have failed,
\* so that an execution succeeds at most once, in its last attempt.
EarlierFailed(r) == \A n \in 1..(current[r] - 1) : outcome[<<r, n>>] = "FAILED"
AttemptMatches(r) ==
  LET w == CurrentAttempt(r) IN
  /\ state[r] = "ABSENT" => current[r] = 0
  /\ state[r] = "READY" => current[r] = 0 \/ Prepared(r)
  /\ state[r] = "ADMITTED" => current[r] > 0 /\ admitted[w] /\ outcome[w] = "OPEN"
  /\ state[r] \in {"SUCCEEDED", "FAILED"} =>
       current[r] > 0 /\ outcome[w] = state[r]
  /\ state[r] = "CANCELLED" =>
       current[r] = 0 \/ outcome[w] \in {"FAILED", "CANCELLED"}
  /\ EarlierFailed(r)
StateMatchesAttempt == \A r \in Row : AttemptMatches(r)

\* A join that was ever admitted stands over finished work only: no lower
\* execution of its item is unfinished, and none can still appear, although
\* lower stages fan out while the join is already in the ledger.
JoinSafe ==
  \A r \in Row :
    facts[r].barrier /\ (\E n \in 1..MaxAttempt : admitted[<<r, n>>])
      => \A s \in Below(r) : state[s] \in {"ABSENT", "SUCCEEDED"}

\* A workflow DBOS records as SUCCESS has its attempt settled in the ledger.
\* The sweep reads nothing from SUCCESS, so an attempt without an outcome
\* behind it would stay ADMITTED for ever and hold capacity.
SuccessIsRecorded ==
  \A w \in Attempt : dbos[w] = "SUCCESS" => outcome[w] # "OPEN"

\* An item with nothing open is final: no late completion, no sweep acting on
\* an old status and no recovered workflow changes or adds an execution of it.
\* A cancelled item is such an item from the commit of its cancellation on.
ItemIsFinal(i) == state[<<i, 0>>] # "ABSENT" /\ Open(i) = {}
FinalItemStaysPut ==
  [][\A i \in Item : ItemIsFinal(i) =>
       \A r \in RowsOf(i) : state'[r] = state[r] /\ facts'[r] = facts[r]]_vars

\* A stale workflow (of an attempt that is no longer current) never touches
\* the ledger, and an outcome once written is never rewritten.
OutcomeIsImmutable ==
  [][\A w \in Attempt :
       outcome[w] # "OPEN" \/ w[2] < current[w[1]] =>
         outcome'[w] = outcome[w]]_vars

\* The ledger implements the lifecycle, with attempts, workflows and the sweep
\* hidden: in particular executions appear only in the very step in which a
\* lower one of the item succeeds, and a cancellation takes all of an item.
Lifecycle == INSTANCE StageLifecycle WITH state <- state, facts <- facts
ImplementsLifecycle == Lifecycle!Spec

\* An admitted attempt does not stay behind a workflow that is dead in DBOS:
\* the sweep settles it or the workflow is resumed.
Dead(w) ==
  /\ MayComplete(w)
  /\ dbos[w] \in {"ERROR", "CANCELLED", "MAX_RECOVERY_ATTEMPTS_EXCEEDED"}
DeadAttemptsAreSwept == \A w \in Attempt : []<>~Dead(w)
=============================================================================
