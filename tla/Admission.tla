------------------------------ MODULE Admission ------------------------------
(***************************************************************************)
(* Admission passes: each is one transaction at READ COMMITTED that locks  *)
(* pages of READY executions in rank order, locks the controls of their    *)
(* stages, counts what is admitted under each, and admits the candidates   *)
(* that every matching control lets through. Several dispatchers may run   *)
(* passes at once, and operators change controls under them.               *)
(*                                                                         *)
(* An action is one SQL statement of a pass, or the evaluation of one      *)
(* candidate with its savepoint. What a pass has written is in its record  *)
(* until it commits; the executions move in between as StageLifecycle lets *)
(* them, except that a locked row waits for its pass.                      *)
(*                                                                         *)
(* Simplifications: labels are the sets of items a selector matches, the   *)
(* order of priority, rank and id is one number, and the attempt and the   *)
(* enqueue of an admission are in StageLedger.                             *)
(***************************************************************************)
EXTENDS StageRows, FiniteSets

CONSTANTS
  Pass,          \* dispatchers that may run a pass at the same time
  Rank,          \* Row -> its place in the order of admission
  StageAt,       \* Row -> stage, of its pipeline and version
  ControlCount,  \* controls, named in the order they are locked in
  StageOf,       \* control -> stage
  Selects,       \* control -> items its selector matches
  Wide,          \* controls with the empty selector
  MaxCapacity,   \* bound: capacities an operator sets
  BatchSize,
  MaxSkips,      \* MAX_CAPACITY_SKIPS_PER_PASS
  MaxFault       \* bound: operator acts, retries, passes that die or raise

Control == 1..ControlCount
Stage == {StageAt[r] : r \in Row}

\* A stage has one control of each selector (uq_stage_controls_stage_selector),
\* so one that is empty.
ASSUME AdmissionAssumption ==
  /\ MaxIndex \in Nat
  /\ IsFiniteSet(Item)
  /\ Rank \in [Row -> Nat \ {0}]
  /\ \A r, s \in Row : Rank[r] = Rank[s] => r = s
  /\ ControlCount \in Nat
  /\ StageOf \in [Control -> Stage]
  /\ Selects \in [Control -> SUBSET Item]
  /\ Wide \subseteq Control /\ \A c \in Wide : Selects[c] = Item
  /\ \A c, d \in Wide : StageOf[c] = StageOf[d] => c = d
  /\ MaxCapacity \in Nat /\ MaxSkips \in Nat /\ MaxFault \in Nat
  /\ BatchSize \in Nat \ {0}
  /\ NoInput \notin Input

VARIABLES
  capacity,  \* stage_controls.capacity, -1 before the row is inserted
  paused,    \* stage_controls.paused
  pass,      \* the transaction of each pass
  faults

executions == <<state, facts>>
controls == <<capacity, paused>>
vars == <<state, facts, capacity, paused, pass, faults>>

Idle == [step |-> "SCAN", after |-> 0, considered |-> 0, locked |-> {},
         page |-> {}, taken |-> {}, failed |-> {}, unconfigured |-> {},
         full |-> {}, known |-> {}, held |-> {}, inserted |-> {},
         occupancy |-> [c \in Control |-> 0]]

Lifecycle == INSTANCE StageLifecycle WITH state <- state, facts <- facts

\* Controls may be set before the first submission.
Init ==
  /\ Lifecycle!Init
  /\ capacity \in [Control -> -1..MaxCapacity]
  /\ paused = [c \in Control |-> FALSE]
  /\ pass = [p \in Pass |-> Idle]
  /\ faults = 0

Fault == faults < MaxFault /\ faults' = faults + 1

Locked == UNION {pass[p].locked : p \in Pass}
Held == UNION {pass[p].held : p \in Pass}
Exists(c) == capacity[c] >= 0
Matches(c, r) == StageOf[c] = StageAt[r] /\ r[1] \in Selects[c]
-----------------------------------------------------------------------------
(***************************************************************************)
(* The executions between two statements, and the operator's controls.     *)
(***************************************************************************)

\* A cancellation of an item waits for a pass that has locked a row of it.
Stages ==
  /\ \/ \E i \in Item : \E f \in Fact : Lifecycle!Submit(i, f)
     \/ \E i \in Item : RowsOf(i) \cap Locked = {} /\ Lifecycle!CancelItem(i)
     \/ \E r \in Row : Lifecycle!Abandon(r)
     \/ \E r \in Row : \E ks \in SUBSET Above(r) : \E succ \in [ks -> Fact] :
          Lifecycle!Succeed(r, succ)
  /\ UNCHANGED <<controls, pass, faults>>

Retry(r) ==
  /\ Lifecycle!Retry(r)
  /\ Fault
  /\ UNCHANGED <<controls, pass>>

\* The first call inserts the control, later ones keep its pause flag. The
\* field "inserted" is history: the controls inserted under a running pass.
SetCapacity(c, n) ==
  /\ c \notin Held
  /\ capacity' = [capacity EXCEPT ![c] = n]
  /\ pass' = [p \in Pass |-> IF Exists(c) \/ pass[p] = Idle THEN pass[p]
                             ELSE [pass[p] EXCEPT !.inserted = @ \cup {c}]]
  /\ Fault
  /\ UNCHANGED <<executions, paused>>

SetPaused(c) ==
  /\ Exists(c) /\ c \notin Held
  /\ paused' = [paused EXCEPT ![c] = ~@]
  /\ Fault
  /\ UNCHANGED <<executions, capacity, pass>>
-----------------------------------------------------------------------------
(***************************************************************************)
(* A page of candidates and its controls.                                  *)
(***************************************************************************)

\* Mutant: one full control holds back its whole stage.
StageAtCapacity(p, r) == \E c \in pass[p].full : StageOf[c] = StageAt[r]

AtCapacity(p, r) == \E c \in pass[p].full : Matches(c, r)

Candidate(p, r) ==
  /\ state[r] = "READY"
  /\ Rank[r] > pass[p].after
  /\ \A c \in Control : Matches(c, r) => ~paused[c]
  /\ ~AtCapacity(p, r)
  /\ StageAt[r] \notin pass[p].unconfigured
  /\ r \notin pass[p].failed
  /\ r \notin pass[p].taken

\* Mutant: rows that another pass has locked are taken all the same.
AvailableAnyhow(p) == {r \in Row : Candidate(p, r)}

\* Rows that another pass has locked are skipped.
Available(p) ==
  {r \in Row : Candidate(p, r) /\ \A q \in Pass \ {p} : r \notin pass[q].locked}

Limit(p) ==
  LET batch == BatchSize - Cardinality(pass[p].taken)
      left == BatchSize + MaxSkips - pass[p].considered
  IN IF batch < left THEN batch ELSE left

MayGoOn(p) == Limit(p) > 0

NextPage(p) ==
  {r \in Available(p) :
     Cardinality({s \in Available(p) : Rank[s] < Rank[r]}) < Limit(p)}

LockCandidates(p) ==
  LET page == NextPage(p) IN
  /\ pass[p].step = "SCAN" /\ MayGoOn(p)
  /\ page # {}
  /\ pass' = [pass EXCEPT
       ![p].step = "CONTROLS",
       ![p].page = page,
       ![p].locked = @ \cup page,
       ![p].considered = @ + Cardinality(page),
       ![p].after = CHOOSE n \in {Rank[r] : r \in page} : \A r \in page : Rank[r] <= n,
       ![p].known = {c \in Control : Exists(c) /\ \E r \in page : StageOf[c] = StageAt[r]}]
  /\ UNCHANGED <<executions, controls, faults>>

\* Mutant: the stages are locked in the order of their candidates.
NextControlOfCandidates(p) ==
  CHOOSE c \in pass[p].known \ pass[p].held :
    \A d \in pass[p].known \ pass[p].held : \A s \in pass[p].page :
      StageOf[d] = StageAt[s] =>
        \E r \in pass[p].page : StageOf[c] = StageAt[r] /\ Rank[r] <= Rank[s]

\* All stages of the page are locked by one statement, in the order of the keys.
NextControl(p) ==
  CHOOSE c \in pass[p].known \ pass[p].held :
    \A d \in pass[p].known \ pass[p].held : c <= d

Waits(p) == pass[p].step = "CONTROLS" /\ ~(pass[p].known \subseteq pass[p].held)

\* Mutant: the control rows are read and not locked.
FreeAlways(p, c) == TRUE

Free(p, c) == \A q \in Pass \ {p} : c \notin pass[q].held

LockControl(p) ==
  /\ Waits(p)
  /\ Free(p, NextControl(p))
  /\ pass' = [pass EXCEPT ![p].held = @ \cup {NextControl(p)}]
  /\ UNCHANGED <<executions, controls, faults>>

\* Each of the passes S waits for a control that another of them holds.
Circle(S) ==
  \A q \in S : Waits(q) /\ \E h \in S \ {q} : NextControl(q) \in pass[h].held

\* The database aborts a transaction of a circle that waits for itself.
DeadlockAbort(p) ==
  /\ \E S \in SUBSET Pass : p \in S /\ Circle(S)
  /\ pass' = [pass EXCEPT ![p] = Idle]
  /\ UNCHANGED <<executions, controls, faults>>

Occupancy(p, c) ==
  Cardinality({r \in Row : Matches(c, r) /\ (state[r] = "ADMITTED" \/ r \in pass[p].taken)})

\* The counts are read when all controls of the page are locked; a stage
\* without an empty selector is left out of the rest of the pass.
LoadOccupancy(p) ==
  LET out == {StageAt[r] : r \in {s \in pass[p].page :
                \A c \in pass[p].known \cap Wide : StageOf[c] # StageAt[s]}} IN
  /\ pass[p].step = "CONTROLS" /\ pass[p].known \subseteq pass[p].held
  /\ pass' = [pass EXCEPT
       ![p].step = "EVALUATE",
       ![p].unconfigured = @ \cup out,
       ![p].page = {r \in @ : StageAt[r] \notin out},
       ![p].occupancy = [c \in Control |->
          IF c \in pass[p].known THEN Occupancy(p, c) ELSE 0]]
  /\ UNCHANGED <<executions, controls, faults>>
-----------------------------------------------------------------------------
(***************************************************************************)
(* The candidates of a page, in order.                                     *)
(***************************************************************************)

Matching(p, r) == {c \in pass[p].known : Matches(c, r)}
Full(p, r) == {c \in Matching(p, r) : pass[p].occupancy[c] >= capacity[c]}

Skip(p, r, full) ==
  pass' = [pass EXCEPT ![p].page = @ \ {r}, ![p].full = @ \cup full]

\* Admitting one more may fill its controls for the pages to come.
Take(p, r) ==
  LET occupied == [c \in Control |-> pass[p].occupancy[c] +
                     (IF c \in Matching(p, r) THEN 1 ELSE 0)] IN
  pass' = [pass EXCEPT
    ![p].page = @ \ {r},
    ![p].taken = @ \cup {r},
    ![p].occupancy = occupied,
    ![p].full = @ \cup {c \in Matching(p, r) : occupied[c] >= capacity[c]}]

\* Mutant: what a failing candidate has written is not rolled back.
RaiseWithoutSavepoint(p, r) ==
  pass' = [pass EXCEPT ![p].page = @ \ {r}, ![p].failed = @ \cup {r}, ![p].taken = @ \cup {r}]

\* The candidate is rolled back to its savepoint and left out of the pass.
Raise(p, r) ==
  pass' = [pass EXCEPT ![p].page = @ \ {r}, ![p].failed = @ \cup {r}]

\* The next of the page is blocked, paused, full, admitted, or fails.
Evaluate(p) ==
  LET r == CHOOSE s \in pass[p].page : \A t \in pass[p].page : Rank[s] <= Rank[t] IN
  /\ pass[p].step = "EVALUATE" /\ pass[p].page # {}
  /\ Cardinality(pass[p].taken) < BatchSize
  /\ \/ /\ Blocked(r) \/ \E c \in Matching(p, r) : paused[c]
        /\ Skip(p, r, {}) /\ UNCHANGED faults
     \/ /\ ~Blocked(r) /\ \A c \in Matching(p, r) : ~paused[c]
        /\ Full(p, r) # {}
        /\ Skip(p, r, Full(p, r)) /\ UNCHANGED faults
     \/ /\ ~Blocked(r) /\ \A c \in Matching(p, r) : ~paused[c]
        /\ Full(p, r) = {}
        /\ (Take(p, r) /\ UNCHANGED faults) \/ (Raise(p, r) /\ Fault)
  /\ UNCHANGED <<executions, controls>>

PageDone(p) ==
  /\ pass[p].step = "EVALUATE"
  /\ pass[p].page = {} \/ Cardinality(pass[p].taken) = BatchSize
  /\ pass' = [pass EXCEPT ![p].step = "SCAN", ![p].page = {}, ![p].known = {}]
  /\ UNCHANGED <<executions, controls, faults>>

Commit(p) ==
  /\ pass[p].step = "SCAN" /\ pass[p] # Idle
  /\ ~MayGoOn(p) \/ NextPage(p) = {}
  /\ state' = [r \in Row |-> IF r \in pass[p].taken THEN "ADMITTED" ELSE state[r]]
  /\ pass' = [pass EXCEPT ![p] = Idle]
  /\ UNCHANGED <<facts, controls, faults>>

Die(p) ==
  /\ pass[p] # Idle
  /\ pass' = [pass EXCEPT ![p] = Idle]
  /\ Fault
  /\ UNCHANGED <<executions, controls>>

Step(p) ==
  \/ LockCandidates(p) \/ LockControl(p) \/ DeadlockAbort(p)
  \/ LoadOccupancy(p) \/ Evaluate(p) \/ PageDone(p) \/ Commit(p)

Next ==
  \/ Stages
  \/ \E r \in Row : Retry(r)
  \/ \E c \in Control : SetPaused(c) \/ \E n \in 0..MaxCapacity : SetCapacity(c, n)
  \/ \E p \in Pass : Step(p) \/ Die(p)

\* Every dispatcher starts a pass every second and a pass runs to its end.
Spec == Init /\ [][Next]_vars /\ \A p \in Pass : WF_vars(Step(p))
-----------------------------------------------------------------------------
(***************************************************************************)
(* Properties.                                                             *)
(***************************************************************************)

\* Every variable keeps its type, and a pass its sets and bounds: it writes to
\* rows it has locked and never keeps the writes of a candidate that failed.
TypeOK ==
  /\ state \in [Row -> State]
  /\ capacity \in [Control -> -1..MaxCapacity]
  /\ paused \in [Control -> BOOLEAN]
  /\ faults \in 0..MaxFault
  /\ \A p \in Pass :
       /\ pass[p].step \in {"SCAN", "CONTROLS", "EVALUATE"}
       /\ pass[p].considered \in 0..(BatchSize + MaxSkips)
       /\ Cardinality(pass[p].taken) <= BatchSize
       /\ pass[p].taken \cap pass[p].failed = {}
       /\ pass[p].page \cup pass[p].taken \subseteq pass[p].locked

\* What an operator may rely on, whatever passes run and however their pages,
\* lock waits and the operator's own changes fall: at the commit of a pass
\* what it admits was READY, its stage has an empty selector, and no matching
\* control is paused or over its capacity. A control that is inserted while
\* the pass runs is the exception: it binds later pages and passes only.
Admitted(r) == state[r] # "ADMITTED" /\ state'[r] = "ADMITTED"
CountOf(c) == Cardinality({r \in Row : Matches(c, r) /\ state[r] = "ADMITTED"})
Binding(p, r) == {c \in pass[p].held \ pass[p].inserted : Matches(c, r)}
AdmissionsRespectControls ==
  [][\A p \in Pass : \A r \in pass[p].taken : Admitted(r) =>
       /\ state[r] = "READY"
       /\ \E c \in Wide \cap pass[p].held : StageOf[c] = StageAt[r]
       /\ \A c \in Binding(p, r) : ~paused[c] /\ CountOf(c)' <= capacity[c]]_vars

\* Passes, with their pages, locks, waits and savepoints hidden, implement the
\* lifecycle: what commits was admissible all together in that very step,
\* although the test for a join read lower executions without a lock on them,
\* and other passes, handoffs and cancellations came between.
ImplementsLifecycle == Lifecycle!Spec

\* A READY execution that every control has room for does not wait for ever,
\* although executions ahead of it are blocked, full, paused or failing. This is
\* asked where the budget of a pass, BatchSize + MaxSkips, covers all the rows:
\* blocked joins that use a budget up would hide what comes after them.
HasRoom(r) ==
  /\ state[r] = "READY" /\ ~Blocked(r)
  /\ \E c \in Wide : StageOf[c] = StageAt[r] /\ Exists(c)
  /\ \A c \in Control : Matches(c, r) /\ Exists(c) => ~paused[c] /\ CountOf(c) < capacity[c]
RoomIsUsed == \A r \in Row : []<>~HasRoom(r)

\* Passes deadlock only by the pages behind them: two passes on the first
\* pages of theirs never wait for one another, whatever stages these mix and in
\* whatever order their candidates come.
OnFirstPage(p) == pass[p].considered = Cardinality(pass[p].page)
FirstPagesDoNotDeadlock ==
  \A S \in (SUBSET Pass) \ {{}} : Circle(S) => \E p \in S : ~OnFirstPage(p)
=============================================================================
