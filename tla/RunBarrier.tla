------------------------------ MODULE RunBarrier ------------------------------
(***************************************************************************)
(* The run barrier: a pass that holds the persisted cursor walks the       *)
(* closed, unreleased runs in key order, takes the ones whose members are  *)
(* settled, counts the outcomes of their members, and releases them.       *)
(*                                                                         *)
(* A pass is one transaction at READ COMMITTED, so each of its statements  *)
(* sees the executions as they are when it starts: an action is one such   *)
(* statement, what the pass has written is in "pass" until the commit, and *)
(* the executions move between two actions as StageLifecycle lets them. A  *)
(* second pass finds the cursor locked and does nothing at all.            *)
(*                                                                         *)
(* Simplification: every run declares completion; a run is its place in    *)
(* key order, and 0 stands for no key.                                     *)
(***************************************************************************)
EXTENDS WorkItemStatus, FiniteSets

CONSTANTS
  RunCount,         \* runs, named 1..RunCount in key order
  Member,           \* run -> its work items
  Broken,           \* runs whose release raises, as one the registry lost
  BatchSize,        \* releases of one pass
  CandidateBudget,  \* runs one pass examines
  MaxFault          \* bound: passes that die and pages that skip locked runs

Run == 1..RunCount

ASSUME BarrierAssumption ==
  /\ MaxIndex \in Nat
  /\ RunCount \in Nat
  /\ Member \in [Run -> SUBSET Item]
  /\ IsFiniteSet(Item)
  /\ Broken \subseteq Run
  /\ BatchSize \in Nat \ {0}
  /\ CandidateBudget \in Nat /\ CandidateBudget >= BatchSize
  /\ MaxFault \in Nat
  /\ NoInput \notin Input

VARIABLES
  closed,     \* runs whose registration is closed
  released,   \* run -> release_terminal_state_counts, NoCounts before it
  cursor,     \* run_barrier_cursor.last_run_key
  pass,       \* the transaction of the pass that holds the cursor
  faults

executions == <<state, facts>>
vars == <<state, facts, closed, released, cursor, pass, faults>>

Terminal == {"SUCCEEDED", "FAILED", "CANCELLED"}
NoCounts == [s \in Terminal |-> -1]

Idle == [step |-> "IDLE", after |-> 0, upper |-> 0, wrapped |-> FALSE,
         seen |-> {}, examined |-> 0, last |-> 0, candidates |-> {},
         pending |-> [r \in Run |-> NoCounts]]

Lifecycle == INSTANCE StageLifecycle WITH state <- state, facts <- facts

Init ==
  /\ Lifecycle!Init
  /\ closed = {}
  /\ released = [r \in Run |-> NoCounts]
  /\ cursor = 0
  /\ pass = Idle
  /\ faults = 0
-----------------------------------------------------------------------------
(***************************************************************************)
(* The members of a run, through the derived status of a work item.        *)
(***************************************************************************)

Settled(r) ==
  \A i \in Member[r] : \A s \in RowsOf(i) : state[s] \notin {"READY", "ADMITTED"}

\* Mutant: executions are counted, not members.
CountsOfRows(r) ==
  [s \in Terminal |-> Cardinality({q \in Row : q[1] \in Member[r] /\ state[q] = s})]

Counts(r) ==
  [s \in Terminal |-> Cardinality({i \in Member[r] : Status(i) = s})]

\* A release is refused when a member has no terminal status.
CoversMembership(r) == \A i \in Member[r] : Status(i) \in Terminal
-----------------------------------------------------------------------------
(***************************************************************************)
(* Registration and the stages of the members.                             *)
(***************************************************************************)

\* A run is closed when all its members are registered.
Close(r) ==
  /\ r \notin closed
  /\ \A i \in Member[r] : state[<<i, 0>>] # "ABSENT"
  /\ closed' = closed \cup {r}
  /\ UNCHANGED <<executions, released, cursor, pass, faults>>

Stages ==
  /\ Lifecycle!Next
  /\ UNCHANGED <<closed, released, cursor, pass, faults>>
-----------------------------------------------------------------------------
(***************************************************************************)
(* A pass.                                                                 *)
(***************************************************************************)

Releases == {r \in Run : pass.pending[r] # NoCounts}

\* Closed and unreleased, also by this very transaction.
Candidate(r) ==
  /\ r \in closed
  /\ released[r] = NoCounts
  /\ pass.pending[r] = NoCounts

InRange(r) == r > pass.after /\ r <= pass.upper

First(n, S) == {r \in S : Cardinality({q \in S : q < r}) < n}

Page ==
  LET batch == BatchSize - Cardinality(Releases)
      budget == CandidateBudget - pass.examined
      limit == IF batch < budget THEN batch ELSE budget
  IN First(limit, {r \in Run : Candidate(r) /\ InRange(r)})

MayGoOn == Cardinality(Releases) < BatchSize /\ pass.examined < CandidateBudget

PassBegin ==
  /\ pass.step = "IDLE"
  /\ pass' = [Idle EXCEPT !.step = "SCAN", !.after = cursor, !.upper = RunCount]
  /\ UNCHANGED <<executions, closed, released, cursor, faults>>

\* Some eligible runs may be locked elsewhere; they are examined and skipped.
ScanPage ==
  /\ pass.step = "SCAN" /\ MayGoOn
  /\ Page # {}
  /\ \E taken \in SUBSET {r \in Page : Settled(r)} :
       /\ pass' = [pass EXCEPT
            !.step = IF taken = {} THEN "SCAN" ELSE "RELEASE",
            !.after = CHOOSE r \in Page : \A q \in Page : q <= r,
            !.last = CHOOSE r \in Page : \A q \in Page : q <= r,
            !.seen = @ \cup Page,
            !.examined = @ + Cardinality(Page),
            !.candidates = taken]
       /\ IF \A r \in Page : Settled(r) => r \in taken THEN UNCHANGED faults
          ELSE faults < MaxFault /\ faults' = faults + 1
  /\ UNCHANGED <<executions, closed, released, cursor>>

\* Mutant: the second leg of a pass is not bounded by where it began.
WrapUnbounded ==
  /\ pass.step = "SCAN" /\ MayGoOn
  /\ Page = {} /\ ~pass.wrapped /\ cursor # 0
  /\ pass' = [pass EXCEPT !.after = 0, !.upper = RunCount, !.wrapped = TRUE]
  /\ UNCHANGED <<executions, closed, released, cursor, faults>>

Wrap ==
  /\ pass.step = "SCAN" /\ MayGoOn
  /\ Page = {} /\ ~pass.wrapped /\ cursor # 0
  /\ pass' = [pass EXCEPT !.after = 0, !.upper = cursor, !.wrapped = TRUE]
  /\ UNCHANGED <<executions, closed, released, cursor, faults>>

\* The counts of all candidates are one statement; then each is released in
\* a savepoint of its own, which rolls back when the release raises.
ReleaseCandidates ==
  /\ pass.step = "RELEASE"
  /\ pass' = [pass EXCEPT
       !.step = "SCAN",
       !.candidates = {},
       !.pending = [r \in Run |->
          IF r \in pass.candidates \ Broken /\ CoversMembership(r)
          THEN Counts(r) ELSE @[r]]]
  /\ UNCHANGED <<executions, closed, released, cursor, faults>>

\* Mutant: the cursor stays at the last run that was released.
CommitAtReleased ==
  /\ pass.step = "SCAN"
  /\ ~MayGoOn \/ (Page = {} /\ (pass.wrapped \/ cursor = 0))
  /\ released' = [r \in Run |-> IF r \in Releases THEN pass.pending[r] ELSE released[r]]
  /\ cursor' = IF Releases = {} THEN cursor
               ELSE CHOOSE r \in Releases : \A q \in Releases : q <= r
  /\ pass' = Idle
  /\ UNCHANGED <<executions, closed, faults>>

\* The cursor moves to the last run that was examined, whatever became of it.
Commit ==
  /\ pass.step = "SCAN"
  /\ ~MayGoOn \/ (Page = {} /\ (pass.wrapped \/ cursor = 0))
  /\ released' = [r \in Run |-> IF r \in Releases THEN pass.pending[r] ELSE released[r]]
  /\ cursor' = IF pass.last = 0 THEN cursor ELSE pass.last
  /\ pass' = Idle
  /\ UNCHANGED <<executions, closed, faults>>

\* The process dies or a statement raises outside of a savepoint.
Die ==
  /\ pass.step # "IDLE"
  /\ pass' = Idle
  /\ faults < MaxFault /\ faults' = faults + 1
  /\ UNCHANGED <<executions, closed, released, cursor>>

Pass == PassBegin \/ ScanPage \/ Wrap \/ ReleaseCandidates \/ Commit

Next ==
  \/ Stages
  \/ \E r \in Run : Close(r)
  \/ Pass \/ Die

\* The dispatcher starts a pass every second, and a pass runs to its end. Each
\* of its statements changes "pass".
Spec == Init /\ [][Next]_vars /\ WF_pass(Pass)
-----------------------------------------------------------------------------
(***************************************************************************)
(* Properties.                                                             *)
(***************************************************************************)

ReleaseCounts == {NoCounts} \cup [Terminal -> 0..Cardinality(Item)]

\* Every variable and every field of a pass keeps its type.
TypeOK ==
  /\ closed \subseteq Run
  /\ released \in [Run -> ReleaseCounts]
  /\ cursor \in 0..RunCount
  /\ faults \in 0..MaxFault
  /\ pass \in [step : {"IDLE", "SCAN", "RELEASE"}, after : 0..RunCount,
               upper : 0..RunCount, last : 0..RunCount, wrapped : BOOLEAN,
               seen : SUBSET Run, examined : 0..CandidateBudget,
               candidates : SUBSET Run, pending : [Run -> ReleaseCounts]]

\* A pass evaluates no run twice, also when it wraps around and runs close
\* behind it, and it stays within its budget and its batch. So one pass is
\* bounded work however many runs wait.
PassIsBounded ==
  /\ pass.examined = Cardinality(pass.seen)
  /\ pass.examined <= CandidateBudget
  /\ Cardinality(Releases \cup pass.candidates) <= BatchSize

\* The successes a release records stand for ever: at least that many members
\* have nothing but succeeded executions at every later time, although their
\* siblings are retried and fan out while the pass reads them.
Succeeded(i) ==
  /\ state[<<i, 0>>] = "SUCCEEDED"
  /\ \A r \in RowsOf(i) : state[r] \in {"ABSENT", "SUCCEEDED"}
RecordedSuccessHolds ==
  \A r \in Run :
    released[r]["SUCCEEDED"] <= Cardinality({i \in Member[r] : Succeeded(i)})

\* A run whose members stay settled is released, although runs before it
\* stay open or fail to release, pages skip it and passes die.
Waiting(r) == r \in closed /\ Settled(r) /\ released[r] = NoCounts
SettledRunsAreReleased == \A r \in Run \ Broken : []<>~Waiting(r)

\* What the contract of the barrier says: a release happens when every member
\* has no READY or ADMITTED execution. It is stated of the statement that
\* writes the release, before other processes move on.
ReleasesOnlySettledRuns ==
  [][\A r \in Run : pass.pending[r] = NoCounts /\ pass'.pending[r] # NoCounts
       => Settled(r)]_vars
=============================================================================
