-------------------------- MODULE StageLedgerProofs --------------------------
(***************************************************************************)
(* Proofs about StageLedger for every number of items, stages, attempts,   *)
(* sweeps and faults.                                                      *)
(***************************************************************************)
EXTENDS StageLedger, TLAPS

(***************************************************************************)
(* The steps that write the ledger. Every other step is the workflow       *)
(* runtime's, or one of a process that reads, dies or delegates.           *)
(***************************************************************************)
WritesLedger ==
  \/ \E i \in Item, input \in Input : Submit(i, input)
  \/ \E r \in Row : Admit(r) \/ Retry(r)
  \/ \E w \in Attempt : Fail(w) \/ SweepProject(w)
  \/ \E w \in Attempt : \E succ \in Successors(w[1]) : Succeed(w, succ)
  \/ \E i \in Item : CancelItem(i)

\* Every step writes the ledger by one of these transactions or not at all.
LEMMA StepKinds ==
  ASSUME [Next]_vars
  PROVE  WritesLedger \/ UNCHANGED <<executions, attempts>>
<1>1. CASE \E w \in Attempt : Workflow(w)
  BY <1>1 DEF Workflow
<1>2. CASE \E w \in Attempt : Handoff(w)
  <2>1. ASSUME NEW w \in Attempt, Handoff(w)
        PROVE  WritesLedger \/ UNCHANGED <<executions, attempts>>
    <3>1. CASE Fail(w)
      BY <3>1 DEF WritesLedger
    <3>2. CASE DiscardLate(w) \/ RejectStale(w) \/ RollBack(w)
      BY <3>2 DEF DiscardLate, RejectStale, RollBack, HandoffRaises
    <3>3. CASE \E succ \in Successors(w[1]) : Succeed(w, succ)
      BY <3>3 DEF WritesLedger
    <3>4. CASE \E succ \in Successors(w[1]) : RejectConflict(w, succ)
      BY <3>4 DEF RejectConflict, HandoffRaises
    <3>5. QED
      BY <2>1, <3>1, <3>2, <3>3, <3>4 DEF Handoff
  <2>2. QED
    BY <1>2, <2>1
<1>3. CASE Sweep
  BY <1>3 DEF Sweep, SweepList, SweepStatus, SweepInterrupted, WritesLedger
<1>4. CASE Operator
  BY <1>4 DEF Operator, Redelegate, Delegate, LoseDelegation, WritesLedger
<1>5. CASE \E i \in Item, input \in Input : Submit(i, input)
  BY <1>5 DEF WritesLedger
<1>6. CASE \E r \in Row : Admit(r)
  BY <1>6 DEF WritesLedger
<1>7. CASE UNCHANGED vars
  BY <1>7 DEF vars, executions, attempts
<1>8. QED
  BY <1>1, <1>2, <1>3, <1>4, <1>5, <1>6, <1>7 DEF Next

-----------------------------------------------------------------------------
\* A row is an item and an index, an attempt a row and an attempt number.
LEMMA Pairs ==
  /\ \A r \in Row : r[1] \in Item /\ r[2] \in Index /\ r = <<r[1], r[2]>>
  /\ \A w \in Attempt : /\ w[1] \in Row /\ w[2] \in 1..MaxAttempt
                        /\ w = <<w[1], w[2]>>
  /\ \A i \in Item, k \in Index : <<i, k>> \in Row
  /\ \A r \in Row, n \in 1..MaxAttempt : <<r, n>> \in Attempt
BY DEF Row, Attempt

\* Successors name rows of the ledger and carry complete facts.
LEMMA SuccessorFacts ==
  ASSUME NEW r \in Row, NEW succ \in Successors(r)
  PROVE  /\ DOMAIN succ \subseteq Above(r)
         /\ \A k \in DOMAIN succ : succ[k] \in Fact
         /\ Fresh(r, succ) \subseteq Row
         /\ \A s \in Fresh(r, succ) : /\ s[1] = r[1]
                                      /\ s[2] \in DOMAIN succ
                                      /\ s[2] > r[2]
                                      /\ state[s] = "ABSENT"
<1>1. PICK ks \in SUBSET Above(r) : succ \in [ks -> Fact]
  BY DEF Successors
<1>2. Above(r) \subseteq Index /\ \A k \in Above(r) : k > r[2]
  BY Pairs, LedgerAssumption DEF Above, Index
<1>3. QED
  BY <1>1, <1>2, Pairs DEF Fresh

-----------------------------------------------------------------------------
(***************************************************************************)
(* Type correctness.                                                       *)
(***************************************************************************)

LEMMA TypeInit == Init => TypeOK
BY LedgerAssumption DEF Init, RuntimeInit, TypeOK, RuntimeTypeOK, State, Fact, NoFacts, Outcome,
   DbosStatus, SweepStep

LEMMA TypeStep == TypeOK /\ [Next]_vars => TypeOK'
<1> SUFFICES ASSUME TypeOK, [Next]_vars PROVE TypeOK'
  OBVIOUS
<1> USE DEF TypeOK, RuntimeTypeOK, Checkpoint, Enqueue
<1>1. ASSUME NEW i \in Item, NEW input \in Input, Submit(i, input)
      PROVE  TypeOK'
  <2>1. [barrier |-> FALSE, input |-> input] \in Fact
    BY DEF Fact
  <2>2. QED
    BY <1>1, <2>1 DEF Submit, attempts, runtime, State
<1>2. ASSUME NEW r \in Row, Admit(r)
      PROVE  TypeOK'
  <2>1. AttemptForAdmission(r) \in 1..MaxAttempt
    BY <1>2, LedgerAssumption DEF Admit, AttemptForAdmission, Prepared
  <2>2. QED
    BY <1>2, <2>1, LedgerAssumption, Pairs DEF Admit, State, DbosStatus
<1>3. ASSUME NEW w \in Attempt, Workflow(w)
      PROVE  TypeOK'
  BY <1>3, LedgerAssumption
  DEF Workflow, WorkflowStep, Dequeue, Halt, Recover, Finish, OutOfBandCancel,
      OutOfBandResume, Fault, DbosStatus, executions, attempts
<1>4. ASSUME NEW w \in Attempt, Handoff(w)
      PROVE  TypeOK'
  <2>1. CASE Fail(w)
    BY <2>1, Pairs DEF Fail, State, Outcome
  <2>2. CASE DiscardLate(w) \/ HandoffRaises(w)
    BY <2>2 DEF DiscardLate, HandoffRaises, executions, attempts
  <2>3. ASSUME NEW succ \in Successors(w[1]), Succeed(w, succ)
        PROVE  TypeOK'
    <3>1. w[1] \in Row
      BY Pairs
    <3>2. /\ Fresh(w[1], succ) \subseteq Row
          /\ \A s \in Fresh(w[1], succ) : succ[s[2]] \in Fact
      BY <3>1, SuccessorFacts
    <3>3. state' \in [Row -> State]
      BY <2>3 DEF Succeed, State
    <3>4. facts' \in [Row -> Fact \cup {NoFacts}]
      BY <2>3, <3>2 DEF Succeed
    <3>5. outcome' \in [Attempt -> Outcome]
      BY <2>3 DEF Succeed, Outcome
    <3>6. QED
      BY <2>3, <3>3, <3>4, <3>5 DEF Succeed
  <2>4. QED
    BY <1>4, <2>1, <2>2, <2>3 DEF Handoff, RejectStale, RollBack, RejectConflict
<1>5. CASE Sweep
  <2>1. ASSUME NEW w \in Attempt, SweepList(w)
        PROVE  TypeOK'
    BY <2>1 DEF SweepList, SweepStep, executions, attempts, runtime
  <2>2. ASSUME NEW w \in Attempt, SweepStatus(w)
        PROVE  TypeOK'
    <3>1. Evidence(dbos[w]) \subseteq SweepStep
      BY DEF Evidence, SweepStep
    <3>2. QED
      BY <2>2, <3>1 DEF SweepStatus, executions, attempts, runtime
  <2>3. ASSUME NEW w \in Attempt, SweepProject(w)
        PROVE  TypeOK'
    BY <2>3, Pairs DEF SweepProject, SweepStep, State, Outcome, runtime
  <2>4. CASE SweepInterrupted
    BY <2>4 DEF SweepInterrupted, SweepStep, executions, attempts, runtime
  <2>5. QED
    BY <1>5, <2>1, <2>2, <2>3, <2>4 DEF Sweep
<1>6. CASE Operator
  <2>1. ASSUME NEW i \in Item, CancelItem(i)
        PROVE  TypeOK'
    BY <2>1 DEF CancelItem, CurrentOf, State, Outcome, runtime
  <2>2. ASSUME NEW i \in Item, Redelegate(i)
        PROVE  TypeOK'
    BY <2>2 DEF Redelegate, CurrentOf, executions, attempts, runtime
  <2>3. ASSUME NEW w \in Attempt, Delegate(w)
        PROVE  TypeOK'
    BY <2>3 DEF Delegate, CancelWorkflow, DbosStatus, executions, attempts
  <2>4. CASE LoseDelegation
    BY <2>4 DEF LoseDelegation, executions, attempts, runtime
  <2>5. ASSUME NEW r \in Row, Retry(r)
        PROVE  TypeOK'
    BY <2>5, LedgerAssumption DEF Retry, State, attempts, runtime
  <2>6. QED
    BY <1>6, <2>1, <2>2, <2>3, <2>4, <2>5 DEF Operator
<1>7. QED
  BY <1>1, <1>2, <1>3, <1>4, <1>5, <1>6 DEF Next, vars

\* Every column and every process memory keeps its type, whatever the bounds.
THEOREM TypeCorrect == Spec => []TypeOK
BY TypeInit, TypeStep, PTL DEF Spec

-----------------------------------------------------------------------------
(***************************************************************************)
(* The attempts of an execution. StateMatchesAttempt is not inductive: the *)
(* attempt that a retry prepares or that admission appends must be fresh,  *)
(* so no attempt above the current one has been touched.                   *)
(***************************************************************************)

Untouched ==
  \A w \in Attempt : w[2] > current[w[1]] => ~admitted[w] /\ outcome[w] = "OPEN"

AttemptInv == TypeOK /\ Untouched /\ StateMatchesAttempt

LEMMA AttemptInit == Init => AttemptInv
BY TypeInit, Pairs, LedgerAssumption
DEF Init, AttemptInv, Untouched, StateMatchesAttempt, AttemptMatches, EarlierFailed

\* An execution whose own columns and attempts stay keeps matching.
SameAttempts(r) ==
  /\ state'[r] = state[r]
  /\ current'[r] = current[r]
  /\ \A n \in 1..MaxAttempt : /\ admitted'[<<r, n>>] = admitted[<<r, n>>]
                              /\ outcome'[<<r, n>>] = outcome[<<r, n>>]

LEMMA MatchFrame ==
  ASSUME TypeOK, NEW r \in Row, AttemptMatches(r), SameAttempts(r), EarlierFailed(r)'
  PROVE  AttemptMatches(r)'
<1>1. CASE current[r] = 0
  BY <1>1 DEF AttemptMatches, Prepared, SameAttempts
<1>2. CASE current[r] \in 1..MaxAttempt
  BY <1>2 DEF AttemptMatches, CurrentAttempt, Prepared, SameAttempts
<1>3. QED
  BY <1>1, <1>2, LedgerAssumption DEF TypeOK

\* No step takes an outcome away.
LEMMA OutcomeStep ==
  ASSUME AttemptInv, [Next]_vars, NEW w \in Attempt,
         outcome[w] # "OPEN" \/ w[2] < current[w[1]]
  PROVE  outcome'[w] = outcome[w]
<1> USE Pairs, LedgerAssumption DEF AttemptInv, TypeOK
<1>1. ASSUME NEW i \in Item, CancelItem(i)
      PROVE  outcome'[w] = outcome[w]
  <2>1. CASE w \in Settled(i)
    <3>1. w[2] = current[w[1]] /\ state[w[1]] \in {"READY", "ADMITTED"}
      BY <2>1 DEF Settled, CurrentOf, IsCurrent, Open, Nonterminal
    <3>2. AttemptMatches(w[1]) /\ w = CurrentAttempt(w[1])
      BY <3>1 DEF StateMatchesAttempt, CurrentAttempt
    <3>3. QED
      BY <3>1, <3>2 DEF AttemptMatches, Prepared
  <2>2. CASE w \notin Settled(i)
    BY <1>1, <2>2 DEF CancelItem
  <2>3. QED
    BY <2>1, <2>2
<1>2. ASSUME NEW v \in Attempt, Fail(v) \/ SweepProject(v)
      PROVE  outcome'[w] = outcome[w]
  BY <1>2 DEF Fail, SweepProject, MayComplete, IsCurrent
<1>3. ASSUME NEW v \in Attempt, NEW succ \in Successors(v[1]), Succeed(v, succ)
      PROVE  outcome'[w] = outcome[w]
  BY <1>3 DEF Succeed, MayComplete, IsCurrent
<1>4. QED
  BY StepKinds, <1>1, <1>2, <1>3
  DEF WritesLedger, Submit, Admit, Retry, executions, attempts

\* An execution moves on from a failed attempt only, to the next one.
LEMMA EarlierStep ==
  ASSUME AttemptInv, [Next]_vars, NEW r \in Row
  PROVE  EarlierFailed(r)'
<1>0. \A c \in Nat : \A n \in 1..c : n = c \/ n \in 1..(c - 1)
  OBVIOUS
<1> USE Pairs, LedgerAssumption DEF AttemptInv, TypeOK
<1>1. AttemptMatches(r) /\ EarlierFailed(r)
  BY DEF StateMatchesAttempt, AttemptMatches
<1>2. ASSUME NEW n \in 1..(current[r] - 1)
      PROVE  outcome'[<<r, n>>] = "FAILED"
  <2>1. <<r, n>> \in Attempt
    OBVIOUS
  <2>2. <<r, n>>[1] = r /\ <<r, n>>[2] < current[r] /\ outcome[<<r, n>>] = "FAILED"
    BY <1>1 DEF EarlierFailed
  <2>3. QED
    BY <2>1, <2>2, OutcomeStep
<1>3. CASE current'[r] = current[r]
  BY <1>2, <1>3 DEF EarlierFailed
<1>4. CASE Admit(r) /\ current'[r] # current[r]
  <2>1. current'[r] = AttemptForAdmission(r) /\ state[r] = "READY"
    BY <1>4 DEF Admit
  <2>2. current[r] = 0 /\ current'[r] = 1
    BY <1>1, <1>4, <2>1 DEF AttemptForAdmission, AttemptMatches
  <2>3. QED
    BY <2>2 DEF EarlierFailed
<1>5. CASE Retry(r)
  <2>1. state[r] = "FAILED" /\ current'[r] = current[r] + 1 /\ outcome' = outcome
    BY <1>5 DEF Retry, attempts
  <2>2. current[r] \in 1..MaxAttempt /\ outcome[<<r, current[r]>>] = "FAILED"
    BY <1>1, <2>1 DEF AttemptMatches, CurrentAttempt
  <2>3. current'[r] - 1 = current[r] /\ current[r] \in Nat
    BY <2>1, <2>2
  <2>4. ASSUME NEW n \in 1..current[r]
        PROVE  outcome'[<<r, n>>] = "FAILED"
    <3>1. n = current[r] \/ n \in 1..(current[r] - 1)
      BY <1>0, <2>3
    <3>2. QED
      BY <1>2, <2>1, <2>2, <3>1
  <2>5. QED
    BY <2>3, <2>4 DEF EarlierFailed
<1>6. current'[r] # current[r] => Admit(r) \/ Retry(r)
  BY StepKinds
  DEF WritesLedger, Submit, Admit, Retry, Fail, SweepProject, Succeed, CancelItem,
      executions, attempts
<1>7. QED
  BY <1>3, <1>4, <1>5, <1>6

LEMMA AttemptStep == AttemptInv /\ [Next]_vars => AttemptInv'
<1> SUFFICES ASSUME AttemptInv, [Next]_vars
             PROVE  Untouched' /\ StateMatchesAttempt'
  BY TypeStep DEF AttemptInv
<1>0. \A s \in Row : EarlierFailed(s)'
  BY EarlierStep
<1> USE <1>0, Pairs, LedgerAssumption DEF AttemptInv, TypeOK, StateMatchesAttempt
<1>1. ASSUME NEW i \in Item, NEW input \in Input, Submit(i, input)
      PROVE  Untouched' /\ StateMatchesAttempt'
  <2>1. <<i, 0>> \in Row /\ <<i, 0>> \in RowsOf(i)
    BY DEF Index, RowsOf
  <2>2. ASSUME NEW s \in Row PROVE AttemptMatches(s)'
    <3>1. CASE s = <<i, 0>>
      BY <1>1, <2>1, <3>1 DEF Submit, attempts, AttemptMatches
    <3>2. CASE s # <<i, 0>>
      <4>1. SameAttempts(s)
        BY <1>1, <3>2 DEF SameAttempts, Submit, attempts
      <4>2. QED
        BY <4>1, MatchFrame
    <3>3. QED
      BY <3>1, <3>2
  <2>3. QED
    BY <1>1, <2>2 DEF Submit, attempts, Untouched
<1>2. ASSUME NEW r \in Row, Admit(r)
      PROVE  Untouched' /\ StateMatchesAttempt'
  <2> DEFINE n == AttemptForAdmission(r)
  <2>1. n \in 1..MaxAttempt /\ n >= current[r] /\ <<r, n>> \in Attempt
    BY <1>2 DEF Admit, AttemptForAdmission, Prepared
  <2>2. outcome[<<r, n>>] = "OPEN"
    <3>1. CASE Prepared(r)
      BY <3>1 DEF AttemptForAdmission, Prepared, CurrentAttempt
    <3>2. CASE ~Prepared(r)
      BY <2>1, <3>2 DEF AttemptForAdmission, Untouched
    <3>3. QED
      BY <3>1, <3>2
  <2>3. Untouched'
    BY <1>2, <2>1 DEF Admit, Untouched
  <2>4. ASSUME NEW s \in Row PROVE AttemptMatches(s)'
    <3>1. CASE s = r
      BY <1>2, <2>1, <2>2, <3>1 DEF Admit, AttemptMatches, CurrentAttempt
    <3>2. CASE s # r
      <4>1. SameAttempts(s)
        BY <1>2, <2>1, <3>2 DEF SameAttempts, Admit
      <4>2. QED
        BY <4>1, MatchFrame
    <3>3. QED
      BY <3>1, <3>2
  <2>5. QED
    BY <2>3, <2>4
<1>3. ASSUME NEW r \in Row, Retry(r)
      PROVE  Untouched' /\ StateMatchesAttempt'
  <2>1. <<r, current[r] + 1>> \in Attempt /\ current[r] + 1 > current[r]
    BY <1>3 DEF Retry
  <2>2. ASSUME NEW s \in Row PROVE AttemptMatches(s)'
    <3>1. CASE s = r
      BY <1>3, <2>1, <3>1
      DEF Retry, attempts, AttemptMatches, CurrentAttempt, Prepared, Untouched
    <3>2. CASE s # r
      <4>1. SameAttempts(s)
        BY <1>3, <3>2 DEF SameAttempts, Retry, attempts
      <4>2. QED
        BY <4>1, MatchFrame
    <3>3. QED
      BY <3>1, <3>2
  <2>3. QED
    BY <1>3, <2>2 DEF Retry, attempts, Untouched
<1>4. ASSUME NEW w \in Attempt, Fail(w)
      PROVE  Untouched' /\ StateMatchesAttempt'
  <2>1. w = <<w[1], current[w[1]]>> /\ current[w[1]] > 0
    BY <1>4 DEF Fail, MayComplete, IsCurrent
  <2>2. ASSUME NEW s \in Row PROVE AttemptMatches(s)'
    <3>1. CASE s = w[1]
      BY <1>4, <2>1, <3>1 DEF Fail, AttemptMatches, CurrentAttempt
    <3>2. CASE s # w[1]
      <4>1. SameAttempts(s)
        BY <1>4, <2>1, <3>2 DEF SameAttempts, Fail
      <4>2. QED
        BY <4>1, MatchFrame
    <3>3. QED
      BY <3>1, <3>2
  <2>3. QED
    BY <1>4, <2>1, <2>2 DEF Fail, Untouched
<1>5. ASSUME NEW w \in Attempt, SweepProject(w)
      PROVE  Untouched' /\ StateMatchesAttempt'
  <2>1. CASE MayComplete(w) /\ outcome[w] = "OPEN"
    <3>1. w = <<w[1], current[w[1]]>> /\ current[w[1]] > 0
      BY <2>1 DEF MayComplete, IsCurrent
    <3>2. ASSUME NEW s \in Row PROVE AttemptMatches(s)'
      <4>1. CASE s = w[1]
        <5>1. state'[s] = sweep[w] /\ outcome'[w] = sweep[w]
          BY <1>5, <2>1, <4>1 DEF SweepProject
        <5>2. w = <<s, current'[s]>> /\ current'[s] > 0
          BY <1>5, <3>1, <4>1 DEF SweepProject
        <5>3. QED
          BY <1>5, <5>1, <5>2 DEF SweepProject, AttemptMatches, CurrentAttempt
      <4>2. CASE s # w[1]
        <5>1. SameAttempts(s)
          BY <1>5, <2>1, <3>1, <4>2 DEF SameAttempts, SweepProject
        <5>2. QED
          BY <5>1, MatchFrame
      <4>3. QED
        BY <4>1, <4>2
    <3>3. QED
      BY <1>5, <2>1, <3>1, <3>2 DEF SweepProject, Untouched
  <2>2. CASE ~(MayComplete(w) /\ outcome[w] = "OPEN")
    <3>1. UNCHANGED <<state, current, admitted, outcome>>
      BY <1>5, <2>2 DEF SweepProject
    <3>2. \A s \in Row : SameAttempts(s)
      BY <3>1 DEF SameAttempts
    <3>3. QED
      BY <3>1, <3>2, MatchFrame DEF Untouched
  <2>3. QED
    BY <2>1, <2>2
<1>6. ASSUME NEW w \in Attempt, NEW succ \in Successors(w[1]), Succeed(w, succ)
      PROVE  Untouched' /\ StateMatchesAttempt'
  <2>1. w = <<w[1], current[w[1]]>> /\ current[w[1]] > 0
    BY <1>6 DEF Succeed, MayComplete, IsCurrent
  <2>2. ASSUME NEW s \in Row PROVE AttemptMatches(s)'
    <3>1. CASE s = w[1]
      BY <1>6, <2>1, <3>1 DEF Succeed, AttemptMatches, CurrentAttempt
    <3>2. CASE s # w[1] /\ s \in Fresh(w[1], succ)
      <4>1. state[s] = "ABSENT"
        BY <3>2, SuccessorFacts
      <4>2. state'[s] = "READY" /\ current'[s] = 0
        BY <1>6, <3>2, <4>1 DEF Succeed, AttemptMatches
      <4>3. QED
        BY <4>2 DEF AttemptMatches
    <3>3. CASE s # w[1] /\ s \notin Fresh(w[1], succ)
      <4>1. SameAttempts(s)
        BY <1>6, <2>1, <3>3 DEF SameAttempts, Succeed
      <4>2. QED
        BY <4>1, MatchFrame
    <3>4. QED
      BY <3>1, <3>2, <3>3
  <2>3. QED
    BY <1>6, <2>1, <2>2 DEF Succeed, Untouched
<1>7. ASSUME NEW i \in Item, CancelItem(i)
      PROVE  Untouched' /\ StateMatchesAttempt'
  <2>1. Untouched'
    BY <1>7 DEF CancelItem, Settled, CurrentOf, IsCurrent, Untouched
  <2>2. ASSUME NEW s \in Row PROVE AttemptMatches(s)'
    <3>1. CASE s \in Open(i)
      <4>1. CASE current[s] = 0
        BY <1>7, <3>1, <4>1 DEF CancelItem, AttemptMatches
      <4>2. CASE current[s] > 0
        <5>1. <<s, current[s]>> \in Attempt /\ state[s] \in Nonterminal
          BY <3>1, <4>2 DEF Open
        <5>2. outcome'[<<s, current[s]>>] \in {"FAILED", "CANCELLED"}
          <6>1. CASE state[s] = "FAILED"
            <7>1. <<s, current[s]>> \notin Settled(i)
              BY <6>1 DEF Settled, CurrentOf
            <7>2. outcome[<<s, current[s]>>] = "FAILED"
              BY <6>1 DEF AttemptMatches, CurrentAttempt
            <7>3. QED
              BY <1>7, <5>1, <7>1, <7>2 DEF CancelItem
          <6>2. CASE state[s] # "FAILED"
            <7>1. <<s, current[s]>> \in Settled(i)
              BY <3>1, <5>1, <6>2 DEF Settled, CurrentOf, IsCurrent
            <7>2. QED
              BY <1>7, <5>1, <7>1 DEF CancelItem
          <6>3. QED
            BY <6>1, <6>2
        <5>3. state'[s] = "CANCELLED" /\ current'[s] = current[s]
          BY <1>7, <3>1 DEF CancelItem
        <5>4. QED
          BY <5>2, <5>3 DEF AttemptMatches, CurrentAttempt
      <4>3. QED
        BY <4>1, <4>2
    <3>2. CASE s \notin Open(i)
      <4>1. SameAttempts(s)
        BY <1>7, <3>2 DEF SameAttempts, CancelItem, Settled, CurrentOf
      <4>2. QED
        BY <4>1, MatchFrame
    <3>3. QED
      BY <3>1, <3>2
  <2>3. QED
    BY <2>1, <2>2
<1>8. CASE UNCHANGED <<executions, attempts>>
  BY <1>8 DEF executions, attempts, Untouched, AttemptMatches, CurrentAttempt, Prepared
<1>9. QED
  BY StepKinds, <1>1, <1>2, <1>3, <1>4, <1>5, <1>6, <1>7, <1>8 DEF WritesLedger

LEMMA AttemptCorrect == Spec => []AttemptInv
BY AttemptInit, AttemptStep, PTL DEF Spec

\* The state of every execution agrees with its current attempt, so the
\* errors the code raises for a mismatch cannot happen.
THEOREM StateAttemptAgreement == Spec => []StateMatchesAttempt
<1>1. AttemptInv => StateMatchesAttempt
  BY DEF AttemptInv
<1>2. QED
  BY AttemptCorrect, <1>1, PTL

-----------------------------------------------------------------------------
(***************************************************************************)
(* Joins. The rows below an admitted join are finished, so nothing below   *)
(* it is ADMITTED, so no success can hand on to a row below it. A row that *)
(* does not exist yet has no admitted attempt, by the attempt invariant.   *)
(***************************************************************************)

EverAdmitted(r) == \E n \in 1..MaxAttempt : admitted[<<r, n>>]
BelowFinished(r) == \A s \in Below(r) : state[s] \in {"ABSENT", "SUCCEEDED"}

\* The rows below a row are rows of the same item with a smaller index.
LEMMA BelowRows ==
  ASSUME NEW r \in Row
  PROVE  \A s : s \in Below(r) <=> s \in Row /\ s[1] = r[1] /\ s[2] < r[2]
BY Pairs, LedgerAssumption DEF Below, Row, Index

LEMMA AbsentNeverAdmitted ==
  ASSUME AttemptInv, NEW r \in Row, state[r] = "ABSENT"
  PROVE  ~EverAdmitted(r)
<1>1. current[r] = 0
  BY DEF AttemptInv, StateMatchesAttempt, AttemptMatches
<1>2. ASSUME NEW n \in 1..MaxAttempt PROVE ~admitted[<<r, n>>]
  <2>1. <<r, n>> \in Attempt /\ n > current[<<r, n>>[1]]
    BY <1>1, Pairs, LedgerAssumption
  <2>2. QED
    BY <2>1 DEF AttemptInv, Untouched
<1>3. QED
  BY <1>2 DEF EverAdmitted

LEMMA JoinStep == AttemptInv /\ JoinSafe /\ [Next]_vars => JoinSafe'
<1> SUFFICES ASSUME AttemptInv, JoinSafe, [Next]_vars,
                    NEW r \in Row, facts'[r].barrier, EverAdmitted(r)'
             PROVE  BelowFinished(r)'
  BY DEF JoinSafe, EverAdmitted, BelowFinished
<1> USE Pairs, LedgerAssumption DEF AttemptInv, TypeOK
<1>a. ASSUME facts[r].barrier, EverAdmitted(r)
      PROVE  BelowFinished(r)
  BY <1>a DEF JoinSafe, EverAdmitted, BelowFinished
<1>1. ASSUME NEW i \in Item, NEW input \in Input, Submit(i, input)
      PROVE  BelowFinished(r)'
  <2>1. EverAdmitted(r)
    BY <1>1 DEF Submit, attempts, EverAdmitted
  <2>2. state[r] # "ABSENT"
    BY <2>1, AbsentNeverAdmitted
  <2>3. r[1] # i
    BY <1>1, <2>2 DEF Submit, RowsOf
  <2>4. facts[r].barrier
    BY <1>1, <2>3 DEF Submit, Index
  <2>5. QED
    BY <1>1, <1>a, <2>1, <2>3, <2>4, BelowRows DEF Submit, BelowFinished
<1>2. ASSUME NEW q \in Row, Admit(q)
      PROVE  BelowFinished(r)'
  <2>1. facts[r].barrier
    BY <1>2 DEF Admit
  <2>2. CASE q = r
    <3>1. BelowFinished(r)
      BY <1>2, <2>1, <2>2 DEF Admit, Blocked, BelowFinished
    <3>2. QED
      BY <1>2, <2>2, <3>1, BelowRows DEF Admit, BelowFinished
  <2>3. CASE q # r
    <3>1. EverAdmitted(r)
      <4>1. AttemptForAdmission(q) \in 1..MaxAttempt
        BY <1>2 DEF Admit, AttemptForAdmission, Prepared
      <4>2. QED
        BY <1>2, <2>3, <4>1 DEF Admit, EverAdmitted
    <3>2. BelowFinished(r)
      BY <1>a, <2>1, <3>1
    <3>3. q \notin Below(r)
      BY <1>2, <3>2 DEF Admit, BelowFinished
    <3>4. QED
      BY <1>2, <3>2, <3>3, BelowRows DEF Admit, BelowFinished
  <2>4. QED
    BY <2>2, <2>3
<1>3. ASSUME NEW q \in Row, Retry(q)
      PROVE  BelowFinished(r)'
  <2>1. BelowFinished(r)
    BY <1>3, <1>a DEF Retry, attempts, EverAdmitted
  <2>2. QED
    BY <1>3, <2>1, BelowRows DEF Retry, BelowFinished
<1>4. ASSUME NEW w \in Attempt, Fail(w)
      PROVE  BelowFinished(r)'
  <2>1. BelowFinished(r)
    BY <1>4, <1>a DEF Fail, EverAdmitted
  <2>2. QED
    BY <1>4, <2>1, BelowRows DEF Fail, MayComplete, BelowFinished
<1>5. ASSUME NEW w \in Attempt, SweepProject(w)
      PROVE  BelowFinished(r)'
  <2>1. BelowFinished(r)
    BY <1>5, <1>a DEF SweepProject, EverAdmitted
  <2>2. QED
    BY <1>5, <2>1, BelowRows DEF SweepProject, MayComplete, BelowFinished
<1>6. ASSUME NEW w \in Attempt, NEW succ \in Successors(w[1]), Succeed(w, succ)
      PROVE  BelowFinished(r)'
  <2>1. EverAdmitted(r)
    BY <1>6 DEF Succeed, EverAdmitted
  <2>2. state[r] # "ABSENT"
    BY <2>1, AbsentNeverAdmitted
  <2>3. facts[r].barrier
    BY <1>6, <2>2, SuccessorFacts DEF Succeed
  <2>4. BelowFinished(r)
    BY <1>a, <2>1, <2>3
  <2>5. w[1] \notin Below(r)
    BY <1>6, <2>4 DEF Succeed, MayComplete, BelowFinished
  <2>6. ASSUME NEW s \in Below(r) PROVE s \notin Fresh(w[1], succ)
    <3>1. SUFFICES ASSUME s \in Fresh(w[1], succ) PROVE FALSE
      OBVIOUS
    <3>2. s[1] = w[1][1] /\ s[2] > w[1][2] /\ w[1] \in Row
      BY <3>1, SuccessorFacts
    <3>3. s[1] = r[1] /\ s[2] < r[2] /\ s \in Row
      BY BelowRows
    <3>4. w[1][2] < r[2]
      BY <3>2, <3>3 DEF Index
    <3>5. QED
      BY <2>5, <3>2, <3>3, <3>4, BelowRows
  <2>7. QED
    BY <1>6, <2>4, <2>6, BelowRows DEF Succeed, BelowFinished
<1>7. ASSUME NEW i \in Item, CancelItem(i)
      PROVE  BelowFinished(r)'
  <2>1. BelowFinished(r)
    BY <1>7, <1>a DEF CancelItem, EverAdmitted
  <2>2. QED
    BY <1>7, <2>1, BelowRows DEF CancelItem, Open, Nonterminal, BelowFinished
<1>8. CASE UNCHANGED <<executions, attempts>>
  BY <1>8, <1>a DEF executions, attempts, EverAdmitted, BelowFinished
<1>9. QED
  BY StepKinds, <1>1, <1>2, <1>3, <1>4, <1>5, <1>6, <1>7, <1>8 DEF WritesLedger

\* A join that was ever admitted has only finished work below it, for ever.
THEOREM JoinsAreSafe == Spec => []JoinSafe
<1>1. Init => JoinSafe
  BY Pairs, LedgerAssumption DEF Init, JoinSafe, NoFacts
<1>2. QED
  BY <1>1, JoinStep, AttemptCorrect, PTL DEF Spec

-----------------------------------------------------------------------------
(***************************************************************************)
(* The runtime's view. SUCCESS is recorded only behind a handoff that      *)
(* returned, and a handoff returns only when its attempt has an outcome:   *)
(* it wrote one, or found the row cancelled, whose attempt has one.        *)
(***************************************************************************)

ReturnInv ==
  \A w \in Attempt :
    /\ dbos[w] = "SUCCESS" => checkpoint[w] = "RETURNED"
    /\ checkpoint[w] = "RETURNED" => outcome[w] # "OPEN"

\* An outcome once written is never rewritten, by anyone, and the outcome of
\* an attempt that a retry replaced is not written any more.
THEOREM OutcomesAreFinal == Spec => OutcomeIsImmutable
<1>1. AttemptInv /\ [Next]_vars =>
        [\A w \in Attempt : outcome[w] # "OPEN" \/ w[2] < current[w[1]] =>
           outcome'[w] = outcome[w]]_vars
  BY OutcomeStep
<1>2. QED
  BY <1>1, AttemptCorrect, PTL DEF Spec, OutcomeIsImmutable

LEMMA ReturnStep == AttemptInv /\ ReturnInv /\ [Next]_vars => ReturnInv'
<1> SUFFICES ASSUME AttemptInv, ReturnInv, [Next]_vars, NEW w \in Attempt
             PROVE  /\ dbos'[w] = "SUCCESS" => checkpoint'[w] = "RETURNED"
                    /\ checkpoint'[w] = "RETURNED" => outcome'[w] # "OPEN"
  BY DEF ReturnInv
<1> DEFINE Goal == /\ dbos'[w] = "SUCCESS" => checkpoint'[w] = "RETURNED"
                   /\ checkpoint'[w] = "RETURNED" => outcome'[w] # "OPEN"
<1> USE DEF AttemptInv, TypeOK, RuntimeTypeOK, Checkpoint, Enqueue
<1>1. outcome[w] # "OPEN" => outcome'[w] # "OPEN"
  BY OutcomeStep
<1>2. /\ dbos[w] = "SUCCESS" => checkpoint[w] = "RETURNED"
      /\ checkpoint[w] = "RETURNED" => outcome[w] # "OPEN"
  BY DEF ReturnInv
<1>3. ASSUME NEW r \in Row, Admit(r) PROVE Goal
  BY <1>1, <1>2, <1>3 DEF Admit
<1>4. ASSUME NEW v \in Attempt, Workflow(v) PROVE Goal
  BY <1>1, <1>2, <1>4
  DEF Workflow, WorkflowStep, Dequeue, Halt, Recover, Finish, OutOfBandCancel,
      OutOfBandResume
<1>5. ASSUME NEW v \in Attempt, DiscardLate(v) PROVE Goal
  <2>1. v = CurrentAttempt(v[1]) /\ current[v[1]] > 0 /\ AttemptMatches(v[1])
    BY <1>5, Pairs, LedgerAssumption
    DEF DiscardLate, IsCurrent, CurrentAttempt, StateMatchesAttempt
  <2>2. outcome[v] # "OPEN"
    BY <1>5, <2>1 DEF DiscardLate, AttemptMatches
  <2>3. QED
    BY <1>1, <1>2, <1>5, <2>2 DEF DiscardLate
<1>6. ASSUME NEW v \in Attempt, HandoffRaises(v) PROVE Goal
  BY <1>1, <1>2, <1>6 DEF HandoffRaises, Executing
<1>7. ASSUME NEW v \in Attempt, Fail(v) PROVE Goal
  BY <1>1, <1>2, <1>7 DEF Fail
<1>8. ASSUME NEW v \in Attempt, NEW succ \in Successors(v[1]), Succeed(v, succ)
      PROVE  Goal
  BY <1>1, <1>2, <1>8 DEF Succeed
<1>9. CASE Sweep
  BY <1>1, <1>2, <1>9
  DEF Sweep, SweepList, SweepStatus, SweepProject, SweepInterrupted, runtime
<1>10. CASE Operator
  BY <1>1, <1>2, <1>10
  DEF Operator, CancelItem, Redelegate, Delegate, LoseDelegation, Retry,
      CancelWorkflow, runtime
<1>11. CASE UNCHANGED vars
  BY <1>2, <1>11 DEF vars
<1>12. ASSUME NEW i \in Item, NEW input \in Input, Submit(i, input) PROVE Goal
  BY <1>1, <1>2, <1>12 DEF Submit, runtime
<1>13. ASSUME NEW v \in Attempt, Handoff(v) PROVE Goal
  BY <1>5, <1>6, <1>7, <1>8, <1>13 DEF Handoff, RejectStale, RollBack, RejectConflict
<1>14. QED
  BY <1>3, <1>4, <1>9, <1>10, <1>11, <1>12, <1>13 DEF Next

\* What the runtime records as SUCCESS is settled in the ledger, so the sweep
\* may read nothing from that status.
THEOREM SuccessRecorded == Spec => []SuccessIsRecorded
<1>1. Init => ReturnInv
  BY DEF Init, RuntimeInit, ReturnInv
<1>2. ReturnInv => SuccessIsRecorded
  BY DEF ReturnInv, SuccessIsRecorded
<1>3. QED
  BY <1>1, <1>2, ReturnStep, AttemptCorrect, PTL DEF Spec

-----------------------------------------------------------------------------
(***************************************************************************)
(* Finality of an item and the lifecycle refinement. Both need no more     *)
(* than the guards: every writing step acts on a row that is open, and a   *)
(* row appears only beside one that is ADMITTED.                           *)
(***************************************************************************)

\* An item with nothing open never changes again, so cancellation is final.
THEOREM FinalItems == Spec => FinalItemStaysPut
<1> DEFINE Goal == \A i \in Item : ItemIsFinal(i) =>
             \A r \in RowsOf(i) : state'[r] = state[r] /\ facts'[r] = facts[r]
<1>1. ASSUME TypeOK, [Next]_vars PROVE Goal
  <2> SUFFICES ASSUME NEW i \in Item, ItemIsFinal(i), NEW r \in RowsOf(i)
               PROVE  state'[r] = state[r] /\ facts'[r] = facts[r]
    OBVIOUS
  <2> USE Pairs, LedgerAssumption DEF TypeOK
  <2>1. /\ r \in Row
        /\ r[1] = i
        /\ <<i, 0>> \in RowsOf(i)
        /\ \A s \in Row : s[1] = i => s \in RowsOf(i)
    BY DEF RowsOf, Row, Index
  <2>2. \A s \in Row : s[1] = i => state[s] \notin Nonterminal
    BY <2>1 DEF ItemIsFinal, Open
  <2>3. ASSUME NEW j \in Item, NEW input \in Input, Submit(j, input)
        PROVE  state'[r] = state[r] /\ facts'[r] = facts[r]
    <3>1. j # i
      BY <2>1, <2>3 DEF Submit, ItemIsFinal
    <3>2. QED
      BY <2>1, <2>3, <3>1 DEF Submit
  <2>4. ASSUME NEW q \in Row, Admit(q) \/ Retry(q)
        PROVE  state'[r] = state[r] /\ facts'[r] = facts[r]
    <3>1. state[q] \in Nonterminal
      BY <2>4 DEF Admit, Retry, Nonterminal
    <3>2. q # r
      BY <2>1, <2>2, <3>1
    <3>3. CASE Admit(q)
      BY <2>1, <3>2, <3>3 DEF Admit
    <3>4. CASE Retry(q)
      BY <2>1, <3>2, <3>4 DEF Retry
    <3>5. QED
      BY <2>4, <3>3, <3>4
  <2>5. ASSUME NEW w \in Attempt, Fail(w) \/ SweepProject(w)
        PROVE  state'[r] = state[r] /\ facts'[r] = facts[r]
    <3>1. w[1] \in Row
      OBVIOUS
    <3>2. MayComplete(w) => w[1] # r
      BY <2>1, <2>2, <3>1 DEF MayComplete, Nonterminal
    <3>3. CASE Fail(w)
      BY <2>1, <3>1, <3>2, <3>3 DEF Fail
    <3>4. CASE SweepProject(w)
      <4>1. facts' = facts
        BY <3>4 DEF SweepProject
      <4>2. \/ MayComplete(w) /\ state' = [state EXCEPT ![w[1]] = sweep[w]]
            \/ state' = state
        BY <3>4 DEF SweepProject
      <4>3. QED
        <5>1. CASE state' = state
          BY <4>1, <5>1
        <5>2. CASE MayComplete(w) /\ state' = [state EXCEPT ![w[1]] = sweep[w]]
          BY <2>1, <3>1, <3>2, <4>1, <5>2
        <5>3. QED
          BY <4>2, <5>1, <5>2
    <3>5. QED
      BY <2>5, <3>3, <3>4
  <2>6. ASSUME NEW w \in Attempt, NEW succ \in Successors(w[1]), Succeed(w, succ)
        PROVE  state'[r] = state[r] /\ facts'[r] = facts[r]
    <3>1. w[1][1] # i
      BY <2>2, <2>6 DEF Succeed, MayComplete, Nonterminal
    <3>2. r # w[1] /\ r \notin Fresh(w[1], succ)
      BY <2>1, <3>1, SuccessorFacts
    <3>3. QED
      BY <2>1, <2>6, <3>2 DEF Succeed
  <2>7. ASSUME NEW j \in Item, CancelItem(j)
        PROVE  state'[r] = state[r] /\ facts'[r] = facts[r]
    BY <2>1, <2>2, <2>7 DEF CancelItem, Open
  <2>8. CASE UNCHANGED <<executions, attempts>>
    BY <2>8 DEF executions
  <2>9. QED
    BY StepKinds, <1>1, <2>3, <2>4, <2>5, <2>6, <2>7, <2>8 DEF WritesLedger
<1>2. TypeOK /\ [Next]_vars => [Goal]_vars
  BY <1>1
<1>3. QED
  BY <1>2, TypeCorrect, PTL DEF Spec, FinalItemStaysPut

\* The two specifications read the same rows in the same way.
LEMMA SameVocabulary ==
  /\ Lifecycle!Index = Index /\ Lifecycle!Row = Row
  /\ Lifecycle!Fact = Fact /\ Lifecycle!NoFacts = NoFacts
  /\ Lifecycle!Nonterminal = Nonterminal
  /\ \A i : Lifecycle!RowsOf(i) = RowsOf(i)
  /\ \A r : /\ Lifecycle!Above(r) = Above(r)
           /\ Lifecycle!Blocked(r) <=> Blocked(r)
  /\ \A r, succ : /\ Lifecycle!Compatible(r, succ) <=> Compatible(r, succ)
                 /\ Lifecycle!Fresh(r, succ) = Fresh(r, succ)
BY DEF Lifecycle!Index, Lifecycle!Row, Lifecycle!Fact, Lifecycle!NoFacts,
       Lifecycle!Nonterminal, Lifecycle!RowsOf, Lifecycle!Above,
       Lifecycle!Blocked, Lifecycle!Below, Lifecycle!Compatible,
       Lifecycle!Fresh, Index, Row, Fact, NoFacts, Nonterminal, RowsOf, Above,
       Blocked, Below, Compatible, Fresh

\* One admission is the admission of a set of one.
LEMMA AdmitOne ==
  ASSUME NEW r, state \in [Row -> State], state' = [state EXCEPT ![r] = "ADMITTED"]
  PROVE  state' = [s \in Row |-> IF s \in {r} THEN "ADMITTED" ELSE state[s]]
OBVIOUS

\* The ledger implements the lifecycle of StageLifecycle: attempts, workflows,
\* stale completions, the sweep's old readings and lost delegations add no
\* behaviour that the lifecycle does not have.
THEOREM LedgerImplementsLifecycle == Spec => ImplementsLifecycle
<1>1. Init => Lifecycle!Init
  BY SameVocabulary DEF Init, Lifecycle!Init
<1>2. ASSUME TypeOK, [Next]_vars
      PROVE  Lifecycle!Next \/ UNCHANGED <<state, facts>>
  <2> USE Pairs, LedgerAssumption, SameVocabulary DEF TypeOK
  <2>1. ASSUME NEW i \in Item, NEW input \in Input, Submit(i, input)
        PROVE  Lifecycle!Next
    <3>1. [barrier |-> FALSE, input |-> input] \in Fact
      BY DEF Fact
    <3>2. Lifecycle!Submit(i, [barrier |-> FALSE, input |-> input])
      BY <2>1 DEF Submit, Lifecycle!Submit
    <3>3. QED
      BY <3>1, <3>2 DEF Lifecycle!Next
  <2>2. ASSUME NEW r \in Row, Admit(r) PROVE Lifecycle!Next
    <3>1. {r} \in SUBSET Lifecycle!Admissible
      <4>1. ~Lifecycle!Blocked(r)
        BY <2>2 DEF Admit, Blocked, Below, Lifecycle!Blocked, Lifecycle!Below
      <4>2. QED
        BY <2>2, <4>1 DEF Admit, Lifecycle!Admissible
    <3>2. Lifecycle!Admit({r})
      <4>1. state' = [s \in Row |-> IF s \in {r} THEN "ADMITTED" ELSE state[s]]
        BY <1>2, <2>2, AdmitOne DEF Admit
      <4>2. UNCHANGED facts
        BY <2>2 DEF Admit
      <4>3. QED
        BY <4>1, <4>2 DEF Lifecycle!Admit
    <3>3. QED
      BY <3>1, <3>2, Zenon DEF Lifecycle!Next
  <2>3. ASSUME NEW r \in Row, Retry(r) PROVE Lifecycle!Next
    BY <2>3 DEF Retry, Lifecycle!Retry, Lifecycle!Next
  <2>4. ASSUME NEW w \in Attempt, Fail(w) PROVE Lifecycle!Next
    <3>1. Lifecycle!Abandon(w[1])
      BY <2>4 DEF Fail, MayComplete, Lifecycle!Abandon
    <3>2. QED
      BY <3>1 DEF Lifecycle!Next
  <2>5. ASSUME NEW w \in Attempt, SweepProject(w)
        PROVE  Lifecycle!Next \/ UNCHANGED <<state, facts>>
    <3>1. Lifecycle!Abandon(w[1]) \/ UNCHANGED <<state, facts>>
      BY <2>5 DEF SweepProject, MayComplete, Lifecycle!Abandon
    <3>2. QED
      BY <3>1 DEF Lifecycle!Next
  <2>6. ASSUME NEW w \in Attempt, NEW succ \in Successors(w[1]), Succeed(w, succ)
        PROVE  Lifecycle!Next
    <3>1. Lifecycle!Succeed(w[1], succ)
      BY <2>6 DEF Succeed, MayComplete, Lifecycle!Succeed
    <3>2. \E ks \in SUBSET Above(w[1]) : succ \in [ks -> Fact]
      BY DEF Successors
    <3>3. w[1] \in Lifecycle!Row
      OBVIOUS
    <3>4. \E ks \in SUBSET Lifecycle!Above(w[1]) : succ \in [ks -> Lifecycle!Fact]
      <4>1. Lifecycle!Above(w[1]) = Above(w[1]) /\ Lifecycle!Fact = Fact
        BY DEF Above, Fact, Lifecycle!Above, Lifecycle!Fact
      <4>2. QED
        BY <3>2, <4>1
    <3>5. \E ks \in SUBSET Lifecycle!Above(w[1]) :
            \E sc \in [ks -> Lifecycle!Fact] : Lifecycle!Succeed(w[1], sc)
      BY <3>1, <3>4, Zenon
    <3>6. QED
      BY <3>3, <3>5, Zenon DEF Lifecycle!Next
  <2>7. ASSUME NEW i \in Item, CancelItem(i) PROVE Lifecycle!Next
    <3>1. \A r \in Row : r \in Open(i) <=> r[1] = i /\ state[r] \in Nonterminal
      BY DEF Open, RowsOf, Row
    <3>2. Lifecycle!CancelItem(i)
      BY <2>7, <3>1 DEF CancelItem, Lifecycle!CancelItem
    <3>3. QED
      BY <3>2 DEF Lifecycle!Next
  <2>8. QED
    BY StepKinds, <1>2, <2>1, <2>2, <2>3, <2>4, <2>5, <2>6, <2>7
    DEF WritesLedger, executions
<1>3. TypeOK /\ [Next]_vars => [Lifecycle!Next]_<<state, facts>>
  BY <1>2
<1>4. QED
  BY <1>1, <1>3, TypeCorrect, PTL DEF Spec, ImplementsLifecycle, Lifecycle!Spec
-----------------------------------------------------------------------------
(***************************************************************************)
(* The two sides of an attempt: the ledger and DBOS.                       *)
(***************************************************************************)

\* DBOS has a workflow for the attempts that were admitted, and no others.
\* What ended by a handoff was admitted; a success is the current attempt's,
\* of an execution that succeeded, and its handoff has returned. A cancellation
\* is sent for the admitted, current attempt of a cancelled execution only.
SidesAgree(w) ==
  /\ admitted[w] <=> dbos[w] # "NONE"
  /\ w \in running \/ checkpoint[w] # "NONE" => admitted[w]
  /\ outcome[w] \in {"SUCCEEDED", "FAILED"} => admitted[w]
  /\ outcome[w] = "SUCCEEDED" =>
       state[w[1]] = "SUCCEEDED" /\ IsCurrent(w) /\ checkpoint[w] = "RETURNED"
  /\ w \in delegated => state[w[1]] = "CANCELLED" /\ IsCurrent(w) /\ admitted[w]

BothSides == \A w \in Attempt : SidesAgree(w)

\* A row that has ended well or was cancelled keeps its state and its attempt.
LEMMA EndedRows ==
  ASSUME TypeOK, [Next]_vars, NEW r \in Row, state[r] \in {"SUCCEEDED", "CANCELLED"}
  PROVE  state'[r] = state[r] /\ current'[r] = current[r]
<1> USE Pairs, LedgerAssumption DEF TypeOK
<1>1. ASSUME NEW i \in Item, NEW input \in Input, Submit(i, input)
      PROVE  state'[r] = state[r] /\ current'[r] = current[r]
  <2>1. r = <<i, 0>> => r \in RowsOf(i)
    BY DEF RowsOf, Index
  <2>2. QED
    BY <1>1, <2>1 DEF Submit
<1>2. ASSUME NEW w \in Attempt, NEW succ \in Successors(w[1]), Succeed(w, succ)
      PROVE  state'[r] = state[r] /\ current'[r] = current[r]
  BY <1>2, SuccessorFacts DEF Succeed, MayComplete
<1>3. ASSUME NEW i \in Item, CancelItem(i)
      PROVE  state'[r] = state[r] /\ current'[r] = current[r]
  BY <1>3 DEF CancelItem, Open, Nonterminal
<1>4. ASSUME NEW w \in Attempt, Fail(w) \/ SweepProject(w)
      PROVE  state'[r] = state[r] /\ current'[r] = current[r]
  BY <1>4 DEF Fail, SweepProject, MayComplete
<1>5. ASSUME NEW q \in Row, Admit(q) \/ Retry(q)
      PROVE  state'[r] = state[r] /\ current'[r] = current[r]
  BY <1>5 DEF Admit, Retry
<1>6. QED
  BY StepKinds, <1>1, <1>2, <1>3, <1>4, <1>5 DEF WritesLedger, executions

LEMMA SidesStep == AttemptInv /\ BothSides /\ [Next]_vars => BothSides'
<1> SUFFICES ASSUME AttemptInv, BothSides, [Next]_vars, NEW w \in Attempt
             PROVE  SidesAgree(w)'
  BY DEF BothSides
<1> USE Pairs, LedgerAssumption
    DEF AttemptInv, TypeOK, RuntimeTypeOK, Checkpoint, Enqueue, Executing
<1>1. SidesAgree(w) /\ w[1] \in Row
  BY DEF BothSides
<1>2. state[w[1]] \in {"SUCCEEDED", "CANCELLED"} =>
        state'[w[1]] = state[w[1]] /\ current'[w[1]] = current[w[1]]
  BY <1>1, EndedRows
<1>3. CASE UNCHANGED <<admitted, outcome, delegated, runtime>>
  BY <1>1, <1>2, <1>3 DEF SidesAgree, IsCurrent, runtime
<1>4. ASSUME NEW r \in Row, Admit(r) PROVE SidesAgree(w)'
  BY <1>1, <1>2, <1>4 DEF Admit, SidesAgree, IsCurrent
<1>5. ASSUME NEW v \in Attempt, Workflow(v) PROVE SidesAgree(w)'
  BY <1>1, <1>5
  DEF Workflow, WorkflowStep, Dequeue, Halt, Recover, Finish, OutOfBandCancel,
      OutOfBandResume, SidesAgree, IsCurrent, executions, attempts
<1>6. ASSUME NEW v \in Attempt, DiscardLate(v) \/ HandoffRaises(v) PROVE SidesAgree(w)'
  BY <1>1, <1>6 DEF DiscardLate, HandoffRaises, SidesAgree, IsCurrent, executions, attempts
<1>7. ASSUME NEW v \in Attempt, Fail(v) PROVE SidesAgree(w)'
  BY <1>1, <1>2, <1>7 DEF Fail, MayComplete, SidesAgree, IsCurrent
<1>8. ASSUME NEW v \in Attempt, NEW succ \in Successors(v[1]), Succeed(v, succ)
      PROVE  SidesAgree(w)'
  <2>1. CASE w = v
    BY <1>1, <1>8, <2>1 DEF Succeed, MayComplete, SidesAgree, IsCurrent
  <2>2. CASE w # v
    BY <1>1, <1>2, <1>8, <2>2 DEF Succeed, SidesAgree, IsCurrent
  <2>3. QED
    BY <2>1, <2>2
<1>9. ASSUME NEW v \in Attempt, SweepProject(v) PROVE SidesAgree(w)'
  <2>1. CASE MayComplete(v) /\ outcome[v] = "OPEN"
    <3>1. admitted[v]
      <4>1. v = CurrentAttempt(v[1]) /\ AttemptMatches(v[1]) /\ state[v[1]] = "ADMITTED"
        BY <2>1 DEF MayComplete, IsCurrent, StateMatchesAttempt, CurrentAttempt
      <4>2. QED
        BY <4>1 DEF AttemptMatches
    <3>2. sweep[v] \in {"FAILED", "CANCELLED"} /\ outcome' = [outcome EXCEPT ![v] = sweep[v]]
      BY <1>9, <2>1 DEF SweepProject
    <3>3. UNCHANGED <<current, admitted, delegated, runtime>>
      BY <1>9 DEF SweepProject
    <3>4. QED
      BY <1>1, <1>2, <3>1, <3>2, <3>3 DEF SidesAgree, IsCurrent, runtime
  <2>2. CASE ~(MayComplete(v) /\ outcome[v] = "OPEN")
    BY <1>3, <1>9, <2>2 DEF SweepProject
  <2>3. QED
    BY <2>1, <2>2
<1>10. ASSUME NEW i \in Item, CancelItem(i) PROVE SidesAgree(w)'
  <2>1. UNCHANGED <<current, admitted, runtime>>
    BY <1>10 DEF CancelItem
  <2>2. outcome'[w] \in {outcome[w], "CANCELLED"}
    BY <1>10 DEF CancelItem
  <2>3. ASSUME w \in CurrentOf({r \in Open(i) : state[r] = "ADMITTED"})
        PROVE  state'[w[1]] = "CANCELLED" /\ IsCurrent(w) /\ admitted[w]
    <3>1. w[1] \in Open(i) /\ state[w[1]] = "ADMITTED" /\ IsCurrent(w)
      BY <2>3 DEF CurrentOf
    <3>2. w = CurrentAttempt(w[1]) /\ AttemptMatches(w[1])
      BY <1>1, <3>1 DEF IsCurrent, StateMatchesAttempt, CurrentAttempt
    <3>3. QED
      BY <1>1, <1>10, <3>1, <3>2 DEF CancelItem, AttemptMatches
  <2>4. w \in delegated' =>
          w \in delegated \/ w \in CurrentOf({r \in Open(i) : state[r] = "ADMITTED"})
    BY <1>10 DEF CancelItem
  <2>5. QED
    BY <1>1, <1>2, <2>1, <2>2, <2>3, <2>4 DEF SidesAgree, IsCurrent, runtime
<1>11. ASSUME NEW i \in Item, Redelegate(i) PROVE SidesAgree(w)'
  <2>1. w \in delegated' =>
          w \in delegated \/ (state[w[1]] = "CANCELLED" /\ IsCurrent(w) /\ admitted[w])
    BY <1>11 DEF Redelegate, CurrentOf
  <2>2. UNCHANGED <<executions, attempts, runtime>>
    BY <1>11 DEF Redelegate
  <2>3. QED
    BY <1>1, <2>1, <2>2 DEF SidesAgree, IsCurrent, executions, attempts, runtime
<1>12. ASSUME NEW v \in Attempt, Delegate(v) PROVE SidesAgree(w)'
  BY <1>1, <1>12
  DEF Delegate, CancelWorkflow, BothSides, SidesAgree, IsCurrent, executions, attempts
<1>13. CASE LoseDelegation
  BY <1>1, <1>13
  DEF LoseDelegation, SidesAgree, IsCurrent, executions, attempts, runtime
<1>14. ASSUME NEW v \in Attempt, Handoff(v) PROVE SidesAgree(w)'
  BY <1>6, <1>7, <1>8, <1>14 DEF Handoff, RejectStale, RollBack, RejectConflict
<1>15. ASSUME NEW v \in Attempt, SweepList(v) \/ SweepStatus(v) PROVE SidesAgree(w)'
  BY <1>3, <1>15 DEF SweepList, SweepStatus, attempts
<1>16. CASE SweepInterrupted \/ UNCHANGED vars
  BY <1>3, <1>16 DEF SweepInterrupted, attempts, vars, runtime
<1>17. ASSUME NEW r \in Row, Retry(r) PROVE SidesAgree(w)'
  BY <1>3, <1>17 DEF Retry, attempts
<1>18. ASSUME NEW i \in Item, NEW input \in Input, Submit(i, input) PROVE SidesAgree(w)'
  BY <1>3, <1>18 DEF Submit, attempts
<1>19. QED
  BY <1>4, <1>5, <1>9, <1>10, <1>11, <1>12, <1>13, <1>14, <1>15, <1>16, <1>17, <1>18
  DEF Next, Sweep, Operator

\* The ledger and DBOS agree on which attempts there are, on what succeeded,
\* and on what may be cancelled, through the death of executors, recoveries,
\* lost delegations and the acts of operators on either side.
THEOREM LedgerAgreesWithRuntime == Spec => []BothSides
<1>1. Init => BothSides
  BY DEF Init, RuntimeInit, BothSides, SidesAgree
<1>2. QED
  BY <1>1, SidesStep, AttemptCorrect, PTL DEF Spec

=============================================================================
