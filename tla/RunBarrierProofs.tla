--------------------------- MODULE RunBarrierProofs ---------------------------
(***************************************************************************)
(* Proofs about RunBarrier and about what Inspection reads beside it, for  *)
(* every number of runs, items, stages and budgets.                        *)
(***************************************************************************)
EXTENDS RunBarrier, Inspection, WellFoundedInduction, NaturalsInduction,
        FiniteSetTheorems, TLAPS

(***************************************************************************)
(* Extreme elements and bounds of finite sets of numbers.                  *)
(***************************************************************************)

LEMMA MinExists ==
  ASSUME NEW S, S \subseteq Nat, S # {}
  PROVE  \E n \in S : \A m \in S : n <= m
<1>1. PICK n \in S : \A m \in S : <<m, n>> \notin OpToRel(<, Nat)
  BY WFMin, NatLessThanWellFounded, Zenon
<1>2. \A m \in S : ~(m < n)
  BY <1>1, Zenon DEF OpToRel
<1> QED
  BY <1>2

LEMMA MaxExists ==
  ASSUME NEW N \in Nat, NEW S, S \subseteq 0..N, S # {}
  PROVE  \E n \in S : \A m \in S : m <= n
<1> DEFINE T == {N - n : n \in S}
<1>1. T \subseteq Nat
  OBVIOUS
<1>0. T # {}
  OBVIOUS
<1>2. PICK t \in T : \A u \in T : t <= u
  BY <1>0, <1>1, MinExists
<1>3. PICK n \in S : t = N - n
  OBVIOUS
<1>4. ASSUME NEW m \in S PROVE m <= n
  <2>1. N - n <= N - m
    BY <1>2, <1>3
  <2>2. n \in Int /\ m \in Int
    OBVIOUS
  <2> QED
    BY <2>1, <2>2
<1> QED
  BY <1>4

\* A page of at most n elements has at most n elements.
LEMMA FirstIsBounded ==
  ASSUME NEW n \in Nat, NEW S, S \subseteq Nat, IsFiniteSet(S)
  PROVE  IsFiniteSet(First(n, S)) /\ Cardinality(First(n, S)) <= n
<1> DEFINE Lower(r) == {q \in S : q < r}
           place == [r \in First(n, S) |-> Cardinality(Lower(r))]
<1>1. \A r \in S : IsFiniteSet(Lower(r)) /\ Cardinality(Lower(r)) \in Nat
  BY FS_Subset, FS_CardinalityType
<1>2. ASSUME NEW r \in First(n, S)
      PROVE  r \in S /\ Cardinality(Lower(r)) \in 0..(n - 1)
  <2>1. r \in S /\ Cardinality(Lower(r)) < n
    BY DEF First
  <2> QED
    BY <1>1, <2>1
<1>3. ASSUME NEW r \in First(n, S), NEW q \in First(n, S), q < r
      PROVE  place[q] # place[r]
  <2>1. q \in S /\ r \in S
    BY DEF First
  <2>2. Lower(q) \in SUBSET Lower(r)
    <3>1. ASSUME NEW x \in Lower(q) PROVE x \in Lower(r)
      <4>1. x \in S /\ x < q /\ x \in Nat /\ q \in Nat /\ r \in Nat
        BY <2>1
      <4> QED
        BY <1>3, <4>1
    <3> QED
      BY <3>1
  <2>4. q \in Lower(r) /\ ~(q < q)
    BY <1>3, <2>1
  <2>3. Cardinality(Lower(q)) # Cardinality(Lower(r))
    BY <1>1, <2>1, <2>2, <2>4, FS_Subset
  <2> QED
    BY <2>3
<1>4. place \in Injection(First(n, S), 0..(n - 1))
  <2>1. ASSUME NEW r \in First(n, S), NEW q \in First(n, S), place[q] = place[r]
        PROVE  q = r
    <3>1. q \in Nat /\ r \in Nat
      BY DEF First
    <3> QED
      BY <1>3, <2>1, <3>1
  <2> QED
    BY <1>2, <2>1 DEF Injection, IsInjective
<1>5. IsFiniteSet(0..(n - 1)) /\ Cardinality(0..(n - 1)) = n
  BY FS_Interval
<1> QED
  BY <1>4, <1>5, FS_Injection
-----------------------------------------------------------------------------
(***************************************************************************)
(* The executions, row by row.                                             *)
(***************************************************************************)

ExecutionsOK == state \in [Row -> State] /\ facts \in [Row -> Fact \cup {NoFacts}]

Born(r) ==
  /\ state[r] = "ABSENT" /\ state'[r] = "READY"
  /\ \/ \A s \in RowsOf(r[1]) : state[s] = "ABSENT"
     \/ \E s \in Below(r) : state[s] = "ADMITTED"

Moves(r) ==
  /\ facts'[r] = facts[r]
  /\ \/ state[r] = "READY" /\ state'[r] = "ADMITTED" /\ ~Blocked(r)
     \/ state[r] = "ADMITTED" /\ state'[r] \in {"SUCCEEDED", "FAILED", "CANCELLED"}
     \/ state[r] \in Nonterminal /\ state'[r] = "CANCELLED"
     \/ state[r] = "FAILED" /\ state'[r] = "READY"

Stays(r) == state'[r] = state[r] /\ facts'[r] = facts[r]

RowStep(r) == Stays(r) \/ Born(r) \/ Moves(r)

\* A row is an item and an index; the rows below it are its lower indices.
LEMMA Rows ==
  /\ \A r \in Row : r[1] \in Item /\ r[2] \in 0..MaxIndex /\ r = <<r[1], r[2]>>
  /\ \A i \in Item : \A k \in 0..MaxIndex : <<i, k>> \in Row
  /\ \A r \in Row : \A s : s \in Below(r) <=> s \in Row /\ s[1] = r[1] /\ s[2] < r[2]
  /\ \A i \in Item : \A s : s \in RowsOf(i) <=> s \in Row /\ s[1] = i
BY BarrierAssumption DEF Row, Index, Below, RowsOf

\* Lifecycle speaks of the same rows as RunBarrier.
LEMMA SameVocabulary ==
  /\ Lifecycle!Row = Row /\ Lifecycle!Fact = Fact
  /\ Lifecycle!NoFacts = NoFacts /\ Lifecycle!Nonterminal = Nonterminal
  /\ \A i : Lifecycle!RowsOf(i) = RowsOf(i)
  /\ \A r : Lifecycle!Above(r) = Above(r) /\ (Lifecycle!Blocked(r) <=> Blocked(r))
  /\ \A r, succ : Lifecycle!Fresh(r, succ) = Fresh(r, succ)
BY DEF Lifecycle!Index, Lifecycle!Row, Lifecycle!Fact, Lifecycle!NoFacts,
       Lifecycle!Nonterminal, Lifecycle!RowsOf, Lifecycle!Above,
       Lifecycle!Blocked, Lifecycle!Below, Lifecycle!Fresh,
       Index, Row, Fact, NoFacts, Nonterminal, RowsOf, Above, Blocked, Below, Fresh

\* The executions of RunBarrier move by steps of the lifecycle only.
LEMMA ExecutionSteps ==
  ASSUME [Next]_vars
  PROVE  Lifecycle!Next \/ UNCHANGED executions
BY DEF Next, Stages, Close, Pass, PassBegin, ScanPage, Wrap, ReleaseCandidates,
       Commit, Die, vars, executions

LEMMA EachRow ==
  ASSUME ExecutionsOK, Lifecycle!Next \/ UNCHANGED executions
  PROVE  ExecutionsOK' /\ \A r \in Row : RowStep(r)
<1> USE DEF ExecutionsOK
<1>1. ASSUME NEW i \in Item, Lifecycle!CancelItem(i)
      PROVE  ExecutionsOK' /\ \A r \in Row : RowStep(r)
  BY <1>1, SameVocabulary DEF Lifecycle!CancelItem, RowStep, Stays, Moves, State
<1>2. ASSUME NEW i \in Item, NEW f \in Fact, Lifecycle!Submit(i, f)
      PROVE  ExecutionsOK' /\ \A r \in Row : RowStep(r)
  <2>1. \A s \in RowsOf(i) : state[s] = "ABSENT"
    BY <1>2, SameVocabulary DEF Lifecycle!Submit
  <2>2. <<i, 0>> \in RowsOf(i) /\ <<i, 0>> \in Row /\ <<i, 0>>[1] = i
    BY Rows, BarrierAssumption
  <2>3. Born(<<i, 0>>)
    BY <1>2, <2>1, <2>2 DEF Lifecycle!Submit, Born
  <2>4. \A r \in Row : r # <<i, 0>> => Stays(r)
    BY <1>2 DEF Lifecycle!Submit, Stays
  <2> QED
    BY <1>2, <2>3, <2>4 DEF Lifecycle!Submit, RowStep, State
<1>3. ASSUME NEW R \in SUBSET Lifecycle!Admissible, Lifecycle!Admit(R)
      PROVE  ExecutionsOK' /\ \A r \in Row : RowStep(r)
  <2>1. \A q \in R : q \in Row /\ state[q] = "READY" /\ ~Blocked(q)
    BY SameVocabulary DEF Lifecycle!Admissible
  <2>2. /\ state' = [r \in Row |-> IF r \in R THEN "ADMITTED" ELSE state[r]]
        /\ facts' = facts
    BY <1>3, SameVocabulary DEF Lifecycle!Admit
  <2> QED
    BY <2>1, <2>2 DEF RowStep, Stays, Moves, State
<1>4. ASSUME NEW q \in Row, Lifecycle!Abandon(q)
      PROVE  ExecutionsOK' /\ \A r \in Row : RowStep(r)
  BY <1>4 DEF Lifecycle!Abandon, RowStep, Stays, Moves, State
<1>5. ASSUME NEW q \in Row, Lifecycle!Retry(q)
      PROVE  ExecutionsOK' /\ \A r \in Row : RowStep(r)
  BY <1>5 DEF Lifecycle!Retry, RowStep, Stays, Moves, State
<1>6. ASSUME NEW q \in Row, NEW ks \in SUBSET Above(q), NEW succ \in [ks -> Fact],
             Lifecycle!Succeed(q, succ)
      PROVE  ExecutionsOK' /\ \A r \in Row : RowStep(r)
  <2>1. /\ state[q] = "ADMITTED"
        /\ state' = [s \in Row |-> IF s = q THEN "SUCCEEDED"
                                  ELSE IF s \in Fresh(q, succ) THEN "READY" ELSE state[s]]
        /\ facts' = [s \in Row |-> IF s \in Fresh(q, succ) THEN succ[s[2]] ELSE facts[s]]
    BY <1>6, SameVocabulary DEF Lifecycle!Succeed
  <2>2. ASSUME NEW s \in Fresh(q, succ)
        PROVE  s \in Row /\ state[s] = "ABSENT" /\ q \in Below(s) /\ succ[s[2]] \in Fact
    <3>1. s[1] = q[1] /\ s[2] \in ks /\ state[s] = "ABSENT" /\ s = <<s[1], s[2]>>
      BY DEF Fresh
    <3>2. s[2] \in 0..MaxIndex /\ q[2] < s[2]
      BY <3>1, Rows, BarrierAssumption DEF Above
    <3> QED
      BY <3>1, <3>2, Rows
  <2>3. ASSUME NEW r \in Row PROVE RowStep(r)
    <3>1. CASE r = q
      BY <2>1, <2>2, <3>1 DEF RowStep, Moves
    <3>2. CASE r \in Fresh(q, succ)
      BY <2>1, <2>2, <3>2 DEF RowStep, Born
    <3>3. CASE r # q /\ r \notin Fresh(q, succ)
      BY <2>1, <3>3 DEF RowStep, Stays
    <3> QED
      BY <3>1, <3>2, <3>3
  <2> QED
    BY <2>1, <2>2, <2>3 DEF State
<1>7. CASE UNCHANGED executions
  BY <1>7 DEF executions, RowStep, Stays
<1> QED
  BY <1>1, <1>2, <1>3, <1>4, <1>5, <1>6, <1>7, SameVocabulary DEF Lifecycle!Next

LEMMA ExecutionsInit == Init => ExecutionsOK
BY SameVocabulary DEF Init, Lifecycle!Init, ExecutionsOK, State

LEMMA ExecutionsStep == ExecutionsOK /\ [Next]_vars => ExecutionsOK'
BY ExecutionSteps, EachRow

LEMMA ExecutionsCorrect == Spec => []ExecutionsOK
BY ExecutionsInit, ExecutionsStep, PTL DEF Spec
-----------------------------------------------------------------------------
(***************************************************************************)
(* Joins, and the episodes they close.                                     *)
(***************************************************************************)

Finished(r) == \A s \in Below(r) : state[s] \in {"ABSENT", "SUCCEEDED"}

\* Below a join that has been admitted nothing is left to do.
JoinInv == \A r \in Row : facts[r].barrier /\ state[r] \in Ran => Finished(r)

\* Finished lower rows stay as they are while their join exists: a row that
\* appeared among them would come from an admitted one still further below.
LEMMA FinishedStays ==
  ASSUME ExecutionsOK, \A q \in Row : RowStep(q),
         NEW r \in Row, state[r] # "ABSENT", Finished(r)
  PROVE  Finished(r)'
<1> SUFFICES ASSUME NEW s \in Below(r)
             PROVE  state'[s] \in {"ABSENT", "SUCCEEDED"}
  BY DEF Finished, Below
<1>1. s \in Row /\ s[1] = r[1] /\ s[2] < r[2] /\ state[s] \in {"ABSENT", "SUCCEEDED"}
  BY Rows DEF Finished
<1>2. ~Moves(s)
  BY <1>1 DEF Moves, Nonterminal
<1>3. ASSUME Born(s) PROVE FALSE
  <2>1. r \in RowsOf(s[1])
    BY <1>1, Rows
  <2>2. PICK q \in Below(s) : state[q] = "ADMITTED"
    BY <1>3, <2>1 DEF Born
  <2>3. q \in Row /\ q[1] = s[1] /\ q[2] < s[2]
    BY <1>1, Rows, <2>2
  <2>4. q \in Below(r)
    <3>1. q[2] \in Int /\ s[2] \in Int /\ r[2] \in Int
      BY <1>1, <2>3, Rows, BarrierAssumption
    <3> QED
      BY <1>1, <2>3, <3>1, Rows
  <2> QED
    BY <2>2, <2>4 DEF Finished
<1> QED
  BY <1>1, <1>2, <1>3 DEF RowStep, Stays

LEMMA JoinStep == ExecutionsOK /\ JoinInv /\ [Next]_vars => JoinInv'
<1> SUFFICES ASSUME ExecutionsOK, JoinInv, [Next]_vars,
                    NEW r \in Row, facts'[r].barrier, state'[r] \in Ran
             PROVE  Finished(r)'
  BY DEF JoinInv, Finished, Ran
<1>1. \A q \in Row : RowStep(q)
  BY ExecutionSteps, EachRow
<1>2. state[r] # "ABSENT" /\ facts'[r] = facts[r]
  BY <1>1 DEF RowStep, Stays, Born, Moves, Ran, Nonterminal
<1>3. Finished(r)
  <2>1. CASE state[r] \in Ran
    BY <1>2, <2>1 DEF JoinInv
  <2>2. CASE state[r] \notin Ran
    <3>1. ~Blocked(r)
      BY <1>1, <2>2 DEF RowStep, Stays, Born, Moves, Ran, Nonterminal
    <3> QED
      BY <1>2, <3>1 DEF Blocked, Finished
  <2> QED
    BY <2>1, <2>2
<1> QED
  BY <1>1, <1>2, <1>3, FinishedStays

LEMMA JoinCorrect == Spec => []JoinInv
<1>1. Init => JoinInv
  BY SameVocabulary DEF Init, Lifecycle!Init, JoinInv, Ran
<1> QED
  BY <1>1, JoinStep, ExecutionsCorrect, PTL DEF Spec

\* The body of an admitted join reads its episode and all of it.
THEOREM EpisodesAreComplete == Spec => []EpisodeIsComplete
<1>1. ExecutionsOK /\ JoinInv => EpisodeIsComplete
  <2> SUFFICES ASSUME ExecutionsOK, JoinInv, NEW r \in Row, Resolves(r), state[r] \in Ran
               PROVE  EpisodeOutputs(r) = EvalRows(r)
    BY DEF EpisodeIsComplete
  <2>1. Finished(r)
    BY DEF JoinInv, Resolves, IsJoin
  <2>2. ASSUME NEW s \in EvalRows(r) PROVE state[s] = "SUCCEEDED"
    <3>1. s \in Held(r[1]) /\ s[2] < r[2]
      BY DEF EvalRows, Executions
    <3>2. s \in Below(r) /\ state[s] # "ABSENT"
      BY <3>1, Rows DEF Held
    <3> QED
      BY <2>1, <3>2 DEF Finished
  <2> QED
    BY <2>2 DEF EpisodeOutputs, Outputs, EvalRows
<1> QED
  BY <1>1, ExecutionsCorrect, JoinCorrect, PTL

-----------------------------------------------------------------------------
\* What exists goes on to exist with the same facts.
LEMMA HeldStays ==
  ASSUME ExecutionsOK, \A q \in Row : RowStep(q),
         NEW r \in Row, state[r] # "ABSENT"
  PROVE  state'[r] # "ABSENT" /\ facts'[r] = facts[r]
BY DEF RowStep, Stays, Born, Moves, Nonterminal

LEMMA ExecutionsGrow ==
  ASSUME ExecutionsOK, \A q \in Row : RowStep(q), NEW i \in Item,
         NEW key, NEW min, NEW max, NEW s \in Executions(i, key, min, max)
  PROVE  s \in Executions(i, key, min, max)'
BY HeldStays, Rows DEF Executions, Held, RowsOf, Index

\* The origin is the last deferring step below the join.
LEMMA OriginIsLast ==
  ASSUME NEW r \in Row, Candidates(r) # {}
  PROVE  /\ Origin(r) \in {s[2] : s \in Candidates(r)}
         /\ \A s \in Candidates(r) : s[2] <= Origin(r)
<1> DEFINE S == {s[2] : s \in Candidates(r)}
<1>1. S \subseteq 0..MaxIndex
  BY Rows DEF Candidates, Executions, Held
<1>2. \E n \in S : \A m \in S : m <= n
  BY <1>1, MaxExists, BarrierAssumption
<1> QED
  BY <1>2 DEF Origin

\* All the indices between an origin and its join are taken, so nothing new
\* appears among them: the last deferring step and the rows stay the same.
LEMMA EpisodeStays ==
  ASSUME ExecutionsOK, ExecutionsOK', \A q \in Row : RowStep(q),
         NEW r \in Row, Resolves(r)
  PROVE  Resolves(r)' /\ Cluster(r)' = Cluster(r)
<1> USE Rows, BarrierAssumption
<1>0. r[1] \in Item /\ r[2] \in Int
  OBVIOUS
<1>1. IsJoin(r)'
  BY HeldStays DEF Resolves, IsJoin
<1>2. /\ Origin(r) \in {s[2] : s \in Candidates(r)}
      /\ \A s \in Candidates(r) : s[2] <= Origin(r)
  BY OriginIsLast DEF Resolves
<1>3. PICK o \in Candidates(r) : o[2] = Origin(r)
  BY <1>2
<1>4. o \in Candidates(r)'
  BY <1>0, ExecutionsGrow DEF Candidates
<1>5. Origin(r) \in 0..MaxIndex /\ Origin(r) < r[2]
  BY <1>3 DEF Candidates, Executions, Held
<1>6. ASSUME NEW s \in Row, s[1] = r[1], Origin(r) < s[2], s[2] < r[2]
      PROVE  s \in EvalRows(r)
  <2>1. s[2] \in (Origin(r) + 1)..(r[2] - 1)
    BY <1>5, <1>6
  <2>2. PICK q \in EvalRows(r) : q[2] = s[2]
    BY <2>1 DEF Resolves
  <2>3. q \in Row /\ q[1] = r[1]
    BY DEF EvalRows, Executions, Held
  <2>4. q = s
    BY <1>6, <2>2, <2>3
  <2> QED
    BY <2>2, <2>4
<1>7. ASSUME NEW s \in Candidates(r)' PROVE s[2] <= Origin(r)
  <2>1. /\ s \in Row /\ s[1] = r[1] /\ s[2] < r[2] /\ s[2] \in Int
        /\ facts'[s].input \in OptimStep
    BY DEF Candidates, Executions, Held
  <2>2. ASSUME Origin(r) < s[2] PROVE FALSE
    <3>1. s \in EvalRows(r)
      BY <1>6, <2>1, <2>2
    <3>2. state[s] # "ABSENT" /\ facts[s].input \in EvalRow
      BY <3>1 DEF EvalRows, Executions, Held
    <3> QED
      BY <2>1, <3>2, HeldStays, InspectionAssumption
  <2> QED
    BY <1>5, <2>1, <2>2
<1>8. Origin(r)' = Origin(r)
  <2>1. /\ Origin(r)' \in {s[2] : s \in Candidates(r)'}
        /\ \A s \in Candidates(r)' : s[2] <= Origin(r)'
    <3> DEFINE S == {s[2] : s \in Candidates(r)'}
    <3>1. S \subseteq 0..MaxIndex
      BY DEF Candidates, Executions, Held
    <3>2. S # {}
      BY <1>4
    <3>3. \E n \in S : \A m \in S : m <= n
      BY <3>1, <3>2, MaxExists
    <3> QED
      BY <3>3 DEF Origin
  <2>2. PICK s \in Candidates(r)' : s[2] = Origin(r)'
    BY <2>1
  <2>3. s[2] \in Int
    BY DEF Candidates, Executions, Held
  <2>4. Origin(r)' <= Origin(r)
    BY <1>7, <2>2
  <2>5. Origin(r) <= Origin(r)'
    BY <1>3, <1>4, <2>1
  <2> QED
    BY <1>5, <2>2, <2>3, <2>4, <2>5
<1>9. EvalRows(r)' = EvalRows(r)
  <2>1. ASSUME NEW s \in EvalRows(r) PROVE s \in EvalRows(r)'
    BY <1>0, <1>8, ExecutionsGrow DEF EvalRows
  <2>2. ASSUME NEW s \in EvalRows(r)' PROVE s \in EvalRows(r)
    BY <1>6, <1>8 DEF EvalRows, Executions, Held
  <2> QED
    BY <2>1, <2>2
<1>10. Candidates(r)' # {}
  BY <1>4
<1> QED
  BY <1>1, <1>8, <1>9, <1>10 DEF Resolves, Cluster

\* An episode, once it resolves, is the same for ever.
THEOREM EpisodesAreStable == Spec => EpisodeIsStable
<1>1. ExecutionsOK /\ ExecutionsOK' /\ [Next]_vars
        => [\A r \in Row : Resolves(r) => Resolves(r)' /\ Cluster(r)' = Cluster(r)]_<<state, facts>>
  BY ExecutionSteps, EachRow, EpisodeStays
<1> QED
  BY <1>1, ExecutionsCorrect, PTL DEF Spec, EpisodeIsStable
-----------------------------------------------------------------------------
(***************************************************************************)
(* The derived status.                                                     *)
(***************************************************************************)

\* An item with an execution has the status SUCCEEDED when all it has did.
LEMMA StatusSucceeded ==
  ASSUME ExecutionsOK, NEW i \in Item, Held(i) # {}
  PROVE  Status(i) = "SUCCEEDED" <=> \A r \in RowsOf(i) : state[r] \in {"ABSENT", "SUCCEEDED"}
<1> DEFINE held == {n \in 1..5 : \E r \in RowsOf(i) : state[r] = Precedence[n]}
<1>0. DOMAIN Precedence = 1..5
  BY DEF Precedence
<1>1. ASSUME NEW r \in Held(i) PROVE \E n \in held : state[r] = Precedence[n]
  <2>1. r \in RowsOf(i) /\ r \in Row /\ state[r] # "ABSENT"
    BY Rows DEF Held
  <2>2. state[r] \in State \ {"ABSENT"}
    BY <2>1 DEF ExecutionsOK
  <2>3. \E n \in 1..5 : state[r] = Precedence[n]
    BY <2>2 DEF State, Precedence
  <2> QED
    BY <2>1, <2>3
<1>2. PICK n \in held : \A m \in held : n <= m
  <2>1. held \subseteq Nat
    OBVIOUS
  <2>2. held # {}
    BY <1>1
  <2> QED
    BY <2>1, <2>2, MinExists
<1>3. (CHOOSE k \in held : \A m \in held : k <= m) = n
  <2>1. \A k \in held : (\A m \in held : k <= m) => k = n
    BY <1>2
  <2> QED
    BY <1>2, <2>1
<1>4. Status(i) = Precedence[n]
  BY <1>0, <1>3 DEF Status
<1>5. ASSUME n = 5, NEW r \in RowsOf(i), state[r] # "ABSENT"
      PROVE  state[r] = "SUCCEEDED"
  <2>1. PICK m \in held : state[r] = Precedence[m]
    BY <1>1, <1>5 DEF Held
  <2>2. m = 5
    BY <1>2, <1>5, <2>1
  <2> QED
    BY <2>1, <2>2 DEF Precedence
<1>6. ASSUME n # 5 PROVE \E r \in RowsOf(i) : state[r] \notin {"ABSENT", "SUCCEEDED"}
  <2>1. PICK r \in RowsOf(i) : state[r] = Precedence[n]
    OBVIOUS
  <2>2. n \in {1, 2, 3, 4}
    BY <1>6
  <2> QED
    BY <2>1, <2>2 DEF Precedence
<1>7. Status(i) = "SUCCEEDED" <=> n = 5
  <2>1. n \in {1, 2, 3, 4, 5}
    OBVIOUS
  <2> QED
    BY <1>4, <2>1 DEF Precedence
<1> QED
  BY <1>5, <1>6, <1>7

AllSucceeded(i) == \A r \in RowsOf(i) : state[r] \in {"ABSENT", "SUCCEEDED"}

\* An item whose executions all succeeded has nothing left that could move.
LEMMA AllSucceededStays ==
  ASSUME ExecutionsOK, \A q \in Row : RowStep(q),
         NEW i \in Item, Held(i) # {}, AllSucceeded(i)
  PROVE  \A r \in RowsOf(i) : Stays(r)
<1> SUFFICES ASSUME NEW r \in RowsOf(i) PROVE Stays(r)
  OBVIOUS
<1>1. r \in Row /\ r[1] = i /\ state[r] \in {"ABSENT", "SUCCEEDED"}
  BY Rows DEF AllSucceeded
<1>2. ~Moves(r)
  BY <1>1 DEF Moves, Nonterminal
<1>3. ASSUME Born(r) PROVE FALSE
  <2>1. ~\A s \in RowsOf(r[1]) : state[s] = "ABSENT"
    BY <1>1 DEF Held
  <2>2. PICK q \in Below(r) : state[q] = "ADMITTED"
    BY <1>3, <2>1 DEF Born
  <2>3. q \in RowsOf(i)
    BY <1>1, <2>2, Rows
  <2> QED
    BY <2>2, <2>3 DEF AllSucceeded
<1> QED
  BY <1>1, <1>2, <1>3 DEF RowStep

\* What an item is reported to have ended with is not superseded.
THEOREM SuccessesAreFinal == Spec => SucceededIsFinal
<1>1. ExecutionsOK /\ ExecutionsOK' /\ [Next]_vars
        => [\A i \in Item : Reported(i) =>
              Reported(i)' /\ Representative(i)' = Representative(i)]_<<state, facts>>
  <2> SUFFICES ASSUME ExecutionsOK, ExecutionsOK', [Next]_vars, NEW i \in Item, Reported(i)
               PROVE  Reported(i)' /\ Representative(i)' = Representative(i)
    OBVIOUS
  <2>1. \A r \in RowsOf(i) : Stays(r)
    <3>1. AllSucceeded(i)
      BY StatusSucceeded DEF Reported, AllSucceeded
    <3> QED
      BY <3>1, ExecutionSteps, EachRow, AllSucceededStays DEF Reported
  <2>2. RowsOf(i)' = RowsOf(i)
    BY DEF RowsOf, Index
  <2>3. Held(i)' = Held(i)
    BY <2>1, <2>2 DEF Held, Stays
  <2>4. Status(i)' = Status(i)
    <3> DEFINE held == {n \in DOMAIN Precedence : \E r \in RowsOf(i) : state[r] = Precedence[n]}
    <3>1. held' = held
      BY <2>1, <2>2 DEF Stays
    <3> QED
      BY <3>1 DEF Status
  <2>5. {r \in RowsOf(i) : state[r] = Status(i)}' = {r \in RowsOf(i) : state[r] = Status(i)}
    BY <2>1, <2>2, <2>4 DEF Stays
  <2>6. Representative(i)' = Representative(i)
    BY <2>4, <2>5 DEF Representative
  <2> QED
    BY <2>3, <2>4, <2>6 DEF Reported
<1> QED
  BY <1>1, ExecutionsCorrect, PTL DEF Spec, SucceededIsFinal
-----------------------------------------------------------------------------
(***************************************************************************)
(* The types, and how much one pass does.                                  *)
(***************************************************************************)

LEMMA CountsAreCounts == ASSUME NEW r \in Run PROVE Counts(r) \in ReleaseCounts
<1>1. ASSUME NEW t \in Terminal
      PROVE  Cardinality({i \in Member[r] : Status(i) = t}) \in 0..Cardinality(Item)
  <2>1. {i \in Member[r] : Status(i) = t} \in SUBSET Item
    BY BarrierAssumption
  <2> QED
    BY <2>1, BarrierAssumption, FS_Subset, FS_CardinalityType
<1> QED
  BY <1>1 DEF Counts, ReleaseCounts

LEMMA RunIsFinite == IsFiniteSet(Run) /\ \A S \in SUBSET Run : IsFiniteSet(S) /\ Cardinality(S) \in Nat
<1>1. IsFiniteSet(Run)
  BY FS_Interval, BarrierAssumption DEF Run
<1> QED
  BY <1>1, FS_Subset, FS_CardinalityType

\* A page holds candidates of the current leg, no more than the pass may take,
\* and there is a last one among them.
LEMMA PageFacts ==
  ASSUME TypeOK, PassIsBounded, MayGoOn
  PROVE  /\ Page \in SUBSET Run
         /\ \A r \in Page : Candidate(r) /\ InRange(r)
         /\ Cardinality(Page) <= BatchSize - Cardinality(Releases)
         /\ Cardinality(Page) <= CandidateBudget - pass.examined
<1> DEFINE batch == BatchSize - Cardinality(Releases)
           budget == CandidateBudget - pass.examined
           limit == IF batch < budget THEN batch ELSE budget
           S == {r \in Run : Candidate(r) /\ InRange(r)}
<1>1. Releases \in SUBSET Run
  BY DEF Releases
<1>2. Cardinality(Releases) \in Nat /\ pass.examined \in Nat
  BY <1>1, RunIsFinite, BarrierAssumption DEF TypeOK
<1>3. limit \in Nat /\ limit <= batch /\ limit <= budget
  BY <1>2, BarrierAssumption DEF MayGoOn
<1>4. S \in SUBSET Run /\ S \subseteq Nat /\ IsFiniteSet(S)
  BY RunIsFinite DEF Run
<1>5. Page = First(limit, S)
  BY DEF Page
<1>6. Cardinality(Page) <= limit /\ IsFiniteSet(Page)
  BY <1>3, <1>4, <1>5, FirstIsBounded
<1>7. Page \subseteq S
  BY <1>5 DEF First
<1>8. Cardinality(Page) \in Nat /\ batch \in Int /\ budget \in Int
  BY <1>2, <1>6, FS_CardinalityType, BarrierAssumption
<1> QED
  BY <1>3, <1>4, <1>6, <1>7, <1>8

LEMMA LastOfPage ==
  ASSUME NEW S, S \subseteq Run, S # {}
  PROVE  /\ (CHOOSE r \in S : \A q \in S : q <= r) \in S
         /\ \A q \in S : q <= (CHOOSE r \in S : \A p \in S : p <= r)
<1>1. S \subseteq 0..RunCount
  BY DEF Run
<1>2. \E r \in S : \A q \in S : q <= r
  BY <1>1, MaxExists, BarrierAssumption
<1> QED
  BY <1>2

\* Where a pass has been: on its first leg between the cursor and "after", on
\* the second also behind the start. So no page meets a run it has seen.
LegInv ==
  /\ pass.step = "IDLE" => pass = Idle
  /\ pass.step # "IDLE" /\ ~pass.wrapped =>
       /\ pass.upper = RunCount /\ cursor <= pass.after
       /\ \A q \in pass.seen : cursor < q /\ q <= pass.after
  /\ pass.step # "IDLE" /\ pass.wrapped =>
       /\ pass.upper = cursor
       /\ \A q \in pass.seen : q <= pass.after \/ cursor < q
  /\ pass.candidates \subseteq pass.seen
  /\ pass.step # "RELEASE" => pass.candidates = {}
  /\ Releases \cap pass.candidates = {}

PassInv == TypeOK /\ PassIsBounded /\ LegInv

LEMMA PassInit == Init => PassInv
<1> SUFFICES ASSUME Init PROVE PassInv
  OBVIOUS
<1>1. NoCounts \in ReleaseCounts
  BY DEF ReleaseCounts
<1>2. TypeOK
  BY <1>1, BarrierAssumption DEF Init, TypeOK, Idle, Run
<1>3. Releases = {}
  BY DEF Init, Idle, Releases
<1>4. PassIsBounded
  BY <1>3, FS_EmptySet, BarrierAssumption DEF Init, Idle, PassIsBounded
<1> QED
  BY <1>2, <1>3, <1>4 DEF Init, Idle, PassInv, LegInv

\* A pass that begins, ends or dies leaves no trace in what bounds the next.
LEMMA EmptyPass ==
  ASSUME pass'.seen = {}, pass'.examined = 0, pass'.candidates = {},
         pass'.pending = [r \in Run |-> NoCounts]
  PROVE  PassIsBounded' /\ Releases' = {}
<1>1. Releases' = {}
  BY DEF Releases
<1> QED
  BY <1>1, FS_EmptySet, BarrierAssumption DEF PassIsBounded

LEMMA ScanStep == PassInv /\ ScanPage => PassInv'
<1> SUFFICES ASSUME PassInv, ScanPage PROVE PassInv'
  OBVIOUS
<1> USE DEF PassInv
<1> DEFINE n == CHOOSE r \in Page : \A q \in Page : q <= r
<1>1. PICK taken \in SUBSET {r \in Page : Settled(r)} :
        pass' = [pass EXCEPT
            !.step = IF taken = {} THEN "SCAN" ELSE "RELEASE",
            !.after = n, !.last = n,
            !.seen = @ \cup Page,
            !.examined = @ + Cardinality(Page),
            !.candidates = taken]
  BY DEF ScanPage
<1>2. /\ Page \in SUBSET Run
      /\ \A r \in Page : Candidate(r) /\ InRange(r)
      /\ Cardinality(Page) <= BatchSize - Cardinality(Releases)
      /\ Cardinality(Page) <= CandidateBudget - pass.examined
  BY PageFacts DEF ScanPage
<1>3. n \in Page /\ \A q \in Page : q <= n
  BY <1>2, LastOfPage DEF ScanPage
<1>4. /\ pass'.step = (IF taken = {} THEN "SCAN" ELSE "RELEASE")
      /\ pass'.after = n /\ pass'.last = n
      /\ pass'.upper = pass.upper /\ pass'.wrapped = pass.wrapped
      /\ pass'.seen = pass.seen \cup Page
      /\ pass'.examined = pass.examined + Cardinality(Page)
      /\ pass'.candidates = taken /\ pass'.pending = pass.pending
  BY <1>1 DEF TypeOK
<1>5. n \in Nat /\ n \in 0..RunCount /\ cursor \in Nat /\ pass.after \in Nat /\ pass.upper \in Nat
  <2>1. n \in Run
    BY <1>2, <1>3
  <2> HIDE DEF n
  <2> QED
    BY <2>1, BarrierAssumption DEF TypeOK, Run
<1> HIDE DEF n
<1>6. pass.seen \in SUBSET Run /\ pass.seen \cap Page = {}
  <2>1. ASSUME NEW q \in pass.seen, q \in Page PROVE FALSE
    <3>1. q > pass.after /\ q <= pass.upper /\ q \in Nat
      BY <1>2, <2>1 DEF InRange, Run
    <3> QED
      BY <1>5, <2>1, <3>1 DEF LegInv, ScanPage
  <2> QED
    BY <2>1 DEF TypeOK
<1>7. Cardinality(pass.seen \cup Page) = Cardinality(pass.seen) + Cardinality(Page)
  <2>1. IsFiniteSet(pass.seen) /\ IsFiniteSet(Page) /\ Cardinality(pass.seen) \in Nat /\ Cardinality(Page) \in Nat
    BY <1>2, <1>6, RunIsFinite
  <2>2. Cardinality(pass.seen \cap Page) = 0
    BY <1>6, FS_EmptySet
  <2>3. Cardinality(pass.seen \cup Page)
          = Cardinality(pass.seen) + Cardinality(Page) - Cardinality(pass.seen \cap Page)
    BY <2>1, FS_Union
  <2> QED
    BY <2>1, <2>2, <2>3
<1>8. /\ Cardinality(Page) \in Nat /\ Cardinality(Releases) \in Nat
      /\ IsFiniteSet(Page) /\ IsFiniteSet(Releases)
      /\ pass.examined \in Nat
  BY <1>2, RunIsFinite DEF Releases, TypeOK
<1>9. faults' \in 0..MaxFault
  BY BarrierAssumption DEF ScanPage, TypeOK
<1>10. TypeOK'
  <2>1. pass'.examined \in 0..CandidateBudget
    BY <1>2, <1>4, <1>8, BarrierAssumption
  <2>2. pass'.seen \in SUBSET Run /\ pass'.candidates \in SUBSET Run
    BY <1>2, <1>4, <1>6
  <2>3. pass' \in [step : {"IDLE", "SCAN", "RELEASE"}, after : 0..RunCount,
               upper : 0..RunCount, last : 0..RunCount, wrapped : BOOLEAN,
               seen : SUBSET Run, examined : 0..CandidateBudget,
               candidates : SUBSET Run, pending : [Run -> ReleaseCounts]]
    BY <1>1, <1>4, <1>5, <2>1, <2>2 DEF TypeOK
  <2> QED
    BY <1>9, <2>3 DEF TypeOK, ScanPage, ReleaseCounts
<1>11. Releases' = Releases
  BY <1>4 DEF Releases
<1>12. PassIsBounded'
  <2>1. taken \subseteq Page /\ IsFiniteSet(taken)
    BY <1>8, FS_Subset
  <2>2. Cardinality(Releases \cup taken) <= BatchSize
    <3>1. IsFiniteSet(Releases \cup Page) /\ Cardinality(Releases \cup Page) <= Cardinality(Releases) + Cardinality(Page)
      <4>1. Cardinality(Releases \cap Page) \in Nat
        BY <1>8, FS_Intersection, FS_CardinalityType
      <4>2. /\ IsFiniteSet(Releases \cup Page)
            /\ Cardinality(Releases \cup Page)
                 = Cardinality(Releases) + Cardinality(Page) - Cardinality(Releases \cap Page)
        BY <1>8, FS_Union
      <4> QED
        BY <1>8, <4>1, <4>2
    <3>2. Releases \cup taken \in SUBSET (Releases \cup Page)
      BY <2>1
    <3>3. Cardinality(Releases \cup taken) <= Cardinality(Releases \cup Page)
      BY <3>1, <3>2, FS_Subset
    <3>4. Cardinality(Releases \cup taken) \in Nat /\ Cardinality(Releases \cup Page) \in Nat
      BY <3>1, <3>2, FS_Subset, FS_CardinalityType
    <3> QED
      BY <1>2, <1>8, <3>1, <3>3, <3>4, BarrierAssumption
  <2>3. pass'.examined = Cardinality(pass'.seen) /\ pass'.examined <= CandidateBudget
    BY <1>2, <1>4, <1>7, <1>8, BarrierAssumption DEF PassIsBounded
  <2> QED
    BY <1>4, <1>11, <2>2, <2>3 DEF PassIsBounded
<1>13. LegInv'
  <2>1. taken \cap Releases = {}
    BY <1>2 DEF Candidate, Releases
  <2>2. cursor' = cursor
    BY DEF ScanPage
  <2>3. \A q \in Page : q > pass.after /\ q <= pass.upper /\ q \in Nat /\ q <= n
    BY <1>2, <1>3 DEF InRange, Run
  <2>4. \A q \in pass.seen : q \in Nat
    BY <1>6 DEF Run
  <2>5. pass.after < n
    BY <1>3, <2>3
  <2>6. pass.step = "SCAN"
    BY DEF ScanPage
  <2>9. /\ ~pass.wrapped => /\ pass.upper = RunCount /\ cursor <= pass.after
                           /\ \A q \in pass.seen : cursor < q /\ q <= pass.after
        /\ pass.wrapped => /\ pass.upper = cursor
                          /\ \A q \in pass.seen : q <= pass.after \/ cursor < q
    BY <2>6 DEF LegInv
  <2>7. ~pass'.wrapped => /\ pass'.upper = RunCount /\ cursor <= n
                         /\ \A q \in pass'.seen : cursor < q /\ q <= n
    BY <1>4, <1>5, <2>3, <2>4, <2>5, <2>9
  <2>8. pass'.wrapped => /\ pass'.upper = cursor
                        /\ \A q \in pass'.seen : q <= n \/ cursor < q
    BY <1>4, <1>5, <2>3, <2>4, <2>5, <2>9
  <2> QED
    BY <1>4, <1>11, <2>1, <2>2, <2>7, <2>8 DEF LegInv
<1> QED
  BY <1>10, <1>12, <1>13

\* The other steps of a pass take nothing up; a release moves its candidates.
LEMMA PassStep == PassInv /\ [Next]_vars => PassInv'
<1> SUFFICES ASSUME PassInv, [Next]_vars PROVE PassInv'
  OBVIOUS
<1> USE DEF PassInv
<1>1. CASE Stages \/ UNCHANGED vars
  BY <1>1 DEF Stages, vars, TypeOK, ReleaseCounts, PassIsBounded, LegInv, Releases
<1>2. ASSUME NEW r \in Run, Close(r) PROVE PassInv'
  BY <1>2 DEF Close, TypeOK, ReleaseCounts, PassIsBounded, LegInv, Releases
<1>3. CASE PassBegin
  <2>1. pass' = [Idle EXCEPT !.step = "SCAN", !.after = cursor, !.upper = RunCount]
    BY <1>3 DEF PassBegin
  <2>2. /\ pass'.step = "SCAN" /\ pass'.after = cursor /\ pass'.upper = RunCount
        /\ pass'.seen = {} /\ pass'.examined = 0 /\ pass'.candidates = {}
        /\ pass'.wrapped = FALSE /\ pass'.last = 0
        /\ pass'.pending = [r \in Run |-> NoCounts]
    BY <2>1 DEF Idle
  <2>3. PassIsBounded' /\ Releases' = {}
    BY <2>2, EmptyPass
  <2>4. TypeOK'
    <3>1. pass' \in [step : {"IDLE", "SCAN", "RELEASE"}, after : 0..RunCount,
               upper : 0..RunCount, last : 0..RunCount, wrapped : BOOLEAN,
               seen : SUBSET Run, examined : 0..CandidateBudget,
               candidates : SUBSET Run, pending : [Run -> ReleaseCounts]]
      <4>1. pass'.pending \in [Run -> ReleaseCounts]
        BY <2>2 DEF ReleaseCounts
      <4>2. cursor \in 0..RunCount /\ RunCount \in 0..RunCount /\ 0 \in 0..CandidateBudget
        BY BarrierAssumption DEF TypeOK
      <4>3. pass' = [step |-> "SCAN", after |-> cursor, upper |-> RunCount, wrapped |-> FALSE,
                     seen |-> {}, examined |-> 0, last |-> 0, candidates |-> {},
                     pending |-> [r \in Run |-> NoCounts]]
        BY <2>1 DEF Idle
      <4>4. [r \in Run |-> NoCounts] \in [Run -> ReleaseCounts]
        BY <2>2, <4>1
      <4>5. 0 \in 0..RunCount
        BY BarrierAssumption
      <4> QED
        BY <4>2, <4>3, <4>4, <4>5, Zenon
    <3> QED
      BY <1>3, <3>1 DEF PassBegin, TypeOK, ReleaseCounts
  <2>5. LegInv'
    <3>1. cursor' = cursor /\ cursor <= cursor
      BY <1>3, BarrierAssumption DEF PassBegin, TypeOK
    <3> QED
      BY <2>2, <2>3, <3>1 DEF LegInv
  <2> QED
    BY <2>3, <2>4, <2>5
<1>4. CASE Wrap
  <2>1. pass' = [pass EXCEPT !.after = 0, !.upper = cursor, !.wrapped = TRUE]
    BY <1>4 DEF Wrap
  <2>2. /\ pass'.step = "SCAN" /\ pass.step = "SCAN" /\ pass'.after = 0 /\ pass'.upper = cursor
        /\ pass'.seen = pass.seen /\ pass'.examined = pass.examined
        /\ pass'.candidates = pass.candidates /\ pass'.wrapped = TRUE /\ ~pass.wrapped
        /\ pass'.pending = pass.pending
    BY <1>4, <2>1 DEF Wrap, TypeOK
  <2>3. TypeOK'
    <3>1. cursor \in 0..RunCount /\ 0 \in 0..RunCount /\ TRUE \in BOOLEAN
      BY BarrierAssumption DEF TypeOK
    <3>2. pass' \in [step : {"IDLE", "SCAN", "RELEASE"}, after : 0..RunCount,
               upper : 0..RunCount, last : 0..RunCount, wrapped : BOOLEAN,
               seen : SUBSET Run, examined : 0..CandidateBudget,
               candidates : SUBSET Run, pending : [Run -> ReleaseCounts]]
      BY <2>1, <3>1 DEF TypeOK
    <3> QED
      BY <1>4, <3>2 DEF Wrap, TypeOK, ReleaseCounts
  <2>4. Releases' = Releases
    BY <2>2 DEF Releases
  <2>5. PassIsBounded'
    BY <2>2, <2>4 DEF PassIsBounded
  <2>6. LegInv'
    BY <1>4, <2>2, <2>4 DEF LegInv, Wrap
  <2> QED
    BY <2>3, <2>5, <2>6
<1>5. CASE ReleaseCandidates
  <2> DEFINE New(r) == r \in pass.candidates \ Broken /\ CoversMembership(r)
  <2>1. pass' = [pass EXCEPT !.step = "SCAN", !.candidates = {},
           !.pending = [r \in Run |-> IF New(r) THEN Counts(r) ELSE pass.pending[r]]]
    BY <1>5 DEF ReleaseCandidates
  <2>2. /\ pass'.step = "SCAN" /\ pass.step = "RELEASE" /\ pass'.after = pass.after
        /\ pass'.upper = pass.upper /\ pass'.wrapped = pass.wrapped
        /\ pass'.seen = pass.seen /\ pass'.examined = pass.examined
        /\ pass'.candidates = {}
        /\ pass'.pending = [r \in Run |-> IF New(r) THEN Counts(r) ELSE pass.pending[r]]
    BY <1>5, <2>1 DEF ReleaseCandidates, TypeOK
  <2>3. TypeOK'
    <3>1. pass'.pending \in [Run -> ReleaseCounts]
      BY <2>2, CountsAreCounts DEF TypeOK
    <3> QED
      BY <1>5, <2>1, <3>1 DEF ReleaseCandidates, TypeOK, ReleaseCounts
  <2>4. Releases' \in SUBSET (Releases \cup pass.candidates)
    BY <2>2 DEF Releases, TypeOK
  <2>5. Cardinality(Releases' \cup pass'.candidates) <= BatchSize
    <3>1. Releases \cup pass.candidates \in SUBSET Run
      BY DEF Releases, TypeOK
    <3>2. /\ Cardinality(Releases') <= Cardinality(Releases \cup pass.candidates)
          /\ Cardinality(Releases') \in Nat /\ Cardinality(Releases \cup pass.candidates) \in Nat
      <4>1. IsFiniteSet(Releases \cup pass.candidates)
        BY <3>1, RunIsFinite
      <4> QED
        BY <2>4, <4>1, FS_Subset, FS_CardinalityType
    <3>3. Releases' \cup pass'.candidates = Releases'
      BY <2>2
    <3>4. Cardinality(Releases \cup pass.candidates) <= BatchSize
      BY DEF PassIsBounded
    <3>5. BatchSize \in Nat
      BY BarrierAssumption
    <3>6. Cardinality(Releases') <= BatchSize
      BY <3>2, <3>4, <3>5
    <3> QED
      BY <3>3, <3>6, Zenon
  <2>6. PassIsBounded'
    BY <2>2, <2>5 DEF PassIsBounded
  <2>7. LegInv'
    BY <1>5, <2>2 DEF LegInv, ReleaseCandidates
  <2> QED
    BY <2>3, <2>6, <2>7
<1>6. ASSUME Commit \/ Die PROVE PassInv'
  <2>1. pass' = Idle
    BY <1>6 DEF Commit, Die
  <2>2. PassIsBounded' /\ Releases' = {}
    BY <2>1, EmptyPass DEF Idle
  <2>3. TypeOK'
    <3>1. /\ Idle \in [step : {"IDLE", "SCAN", "RELEASE"}, after : 0..RunCount,
               upper : 0..RunCount, last : 0..RunCount, wrapped : BOOLEAN,
               seen : SUBSET Run, examined : 0..CandidateBudget,
               candidates : SUBSET Run, pending : [Run -> ReleaseCounts]]
      <4>1. [r \in Run |-> NoCounts] \in [Run -> ReleaseCounts]
        BY DEF ReleaseCounts
      <4> QED
        BY <4>1, BarrierAssumption DEF Idle
    <3>2. released' \in [Run -> ReleaseCounts] /\ cursor' \in 0..RunCount
      BY <1>6 DEF Commit, Die, TypeOK
    <3>3. closed' = closed /\ faults' \in 0..MaxFault
      BY <1>6, BarrierAssumption DEF Commit, Die, TypeOK
    <3> QED
      BY <2>1, <3>1, <3>2, <3>3 DEF TypeOK, ReleaseCounts
  <2>4. LegInv'
    BY <2>1, <2>2 DEF LegInv, Idle
  <2> QED
    BY <2>2, <2>3, <2>4
<1> QED
  BY <1>1, <1>2, <1>3, <1>4, <1>5, <1>6, ScanStep DEF Next, Pass

LEMMA PassCorrect == Spec => []PassInv
BY PassInit, PassStep, PTL DEF Spec

\* A pass and the tables keep their types.
THEOREM TypeCorrect == Spec => []TypeOK
BY PassCorrect, PTL DEF PassInv

\* A pass looks at no run twice and stays within its budget and its batch.
THEOREM PassesAreBounded == Spec => []PassIsBounded
BY PassCorrect, PTL DEF PassInv
-----------------------------------------------------------------------------
(***************************************************************************)
(* The counts a release records.                                           *)
(***************************************************************************)

Winners(r) == {i \in Member[r] : Succeeded(i)}

\* Also what a pass has counted and not yet committed stands for ever. A run
\* that is counted is closed, so that its members exist: an item without an
\* execution would have no status at all.
SuccessInv ==
  /\ \A r \in closed : \A i \in Member[r] : state[<<i, 0>>] # "ABSENT"
  /\ pass.candidates \subseteq closed
  /\ \A r \in Run : /\ released[r]["SUCCEEDED"] <= Cardinality(Winners(r))
                    /\ pass.pending[r]["SUCCEEDED"] <= Cardinality(Winners(r))

LEMMA WinnersAreFinite ==
  ASSUME NEW r \in Run
  PROVE  /\ IsFiniteSet(Member[r]) /\ IsFiniteSet(Winners(r))
         /\ Cardinality(Winners(r)) \in Nat
         /\ Member[r] \subseteq Item
<1>1. Member[r] \in SUBSET Item
  BY BarrierAssumption
<1>2. IsFiniteSet(Member[r]) /\ Winners(r) \in SUBSET Member[r]
  BY <1>1, BarrierAssumption, FS_Subset DEF Winners
<1> QED
  BY <1>1, <1>2, FS_Subset, FS_CardinalityType

\* An item whose executions all succeeded keeps them, so the winners only grow.
LEMMA WinnersGrow ==
  ASSUME ExecutionsOK, ExecutionsOK', \A q \in Row : RowStep(q), NEW r \in Run
  PROVE  Cardinality(Winners(r)) <= Cardinality(Winners(r)')
<1>1. ASSUME NEW i \in Item, Succeeded(i) PROVE Succeeded(i)'
  <2>1. <<i, 0>> \in RowsOf(i)
    BY Rows, BarrierAssumption
  <2>2. Held(i) # {} /\ AllSucceeded(i)
    BY <1>1, <2>1 DEF Held, AllSucceeded, Succeeded
  <2>3. \A q \in RowsOf(i) : Stays(q)
    BY <2>2, AllSucceededStays
  <2> QED
    BY <1>1, <2>1, <2>3 DEF Succeeded, Stays, RowsOf, Index
<1>2. Winners(r)' \in SUBSET Member[r] /\ IsFiniteSet(Winners(r)')
  <2>1. Winners(r)' \in SUBSET Member[r]
    BY DEF Winners
  <2> QED
    BY <2>1, WinnersAreFinite, FS_Subset
<1>3. Winners(r) \in SUBSET Winners(r)'
  BY <1>1, WinnersAreFinite DEF Winners
<1> QED
  BY <1>2, <1>3, FS_Subset

\* What the counting statement finds is what later readings are held to.
LEMMA CountsAreWinners ==
  ASSUME ExecutionsOK, NEW r \in Run, \A i \in Member[r] : state[<<i, 0>>] # "ABSENT"
  PROVE  Counts(r)["SUCCEEDED"] <= Cardinality(Winners(r))
<1>1. ASSUME NEW i \in Member[r], Status(i) = "SUCCEEDED" PROVE Succeeded(i)
  <2>1. i \in Item
    BY BarrierAssumption
  <2>2. <<i, 0>> \in Held(i) /\ <<i, 0>> \in RowsOf(i)
    BY <2>1, Rows, BarrierAssumption DEF Held
  <2>3. \A q \in RowsOf(i) : state[q] \in {"ABSENT", "SUCCEEDED"}
    BY <1>1, <2>1, <2>2, StatusSucceeded
  <2> QED
    BY <2>2, <2>3 DEF Held, Succeeded
<1>2. {i \in Member[r] : Status(i) = "SUCCEEDED"} \in SUBSET Winners(r)
  BY <1>1 DEF Winners
<1>3. Cardinality({i \in Member[r] : Status(i) = "SUCCEEDED"}) <= Cardinality(Winners(r))
  BY <1>2, WinnersAreFinite, FS_Subset
<1> QED
  BY <1>3 DEF Counts, Terminal

LEMMA SuccessInit == Init => SuccessInv
<1> SUFFICES ASSUME Init, NEW r \in Run
             PROVE  SuccessInv
  BY DEF Init, SuccessInv, Idle
<1>1. \A q \in Run : Cardinality(Winners(q)) >= -1
  BY WinnersAreFinite
<1> QED
  BY <1>1 DEF Init, SuccessInv, Idle, NoCounts, Terminal

LEMMA SuccessStep ==
  TypeOK /\ ExecutionsOK /\ ExecutionsOK' /\ SuccessInv /\ [Next]_vars => SuccessInv'
<1> SUFFICES ASSUME TypeOK, ExecutionsOK, ExecutionsOK', SuccessInv, [Next]_vars
             PROVE  SuccessInv'
  OBVIOUS
<1>1. \A q \in Row : RowStep(q)
  BY ExecutionSteps, EachRow
<1>2. \A r \in Run : Cardinality(Winners(r)) <= Cardinality(Winners(r)')
  BY <1>1, WinnersGrow
<1>3. \A r \in Run : Cardinality(Winners(r)) \in Nat /\ Cardinality(Winners(r)') \in Nat
  <2> SUFFICES ASSUME NEW r \in Run
               PROVE  Cardinality(Winners(r)) \in Nat /\ Cardinality(Winners(r)') \in Nat
    OBVIOUS
  <2>1. Winners(r)' \in SUBSET Member[r]
    BY DEF Winners
  <2> QED
    BY <2>1, WinnersAreFinite, FS_Subset, FS_CardinalityType
<1>4. \A r \in Run : /\ released[r]["SUCCEEDED"] \in Int
                     /\ pass.pending[r]["SUCCEEDED"] \in Int
  <2>1. \A c \in ReleaseCounts : c["SUCCEEDED"] \in Int
    <3>1. Cardinality(Item) \in Nat
      BY BarrierAssumption, FS_CardinalityType
    <3> QED
      BY <3>1 DEF ReleaseCounts, NoCounts, Terminal
  <2> QED
    BY <2>1 DEF TypeOK
<1>5. \A r \in closed : \A i \in Member[r] : state'[<<i, 0>>] # "ABSENT"
  <2> SUFFICES ASSUME NEW r \in closed, NEW i \in Member[r]
               PROVE  state'[<<i, 0>>] # "ABSENT"
    OBVIOUS
  <2>1. <<i, 0>> \in Row /\ state[<<i, 0>>] # "ABSENT"
    BY Rows, BarrierAssumption DEF SuccessInv, TypeOK
  <2> QED
    BY <1>1, <2>1 DEF RowStep, Stays, Born, Moves
<1>6. ASSUME released' = released, pass'.pending = pass.pending
      PROVE  \A r \in Run : /\ released'[r]["SUCCEEDED"] <= Cardinality(Winners(r)')
                            /\ pass'.pending[r]["SUCCEEDED"] <= Cardinality(Winners(r)')
  BY <1>2, <1>3, <1>4, <1>6 DEF SuccessInv
<1>7. ASSUME closed' = closed, pass'.candidates \subseteq closed,
             released' = released, pass'.pending = pass.pending
      PROVE  SuccessInv'
  BY <1>5, <1>6, <1>7 DEF SuccessInv
<1>8. CASE Stages \/ UNCHANGED vars
  BY <1>7, <1>8 DEF Stages, vars, SuccessInv
<1>9. ASSUME NEW r \in Run, Close(r) PROVE SuccessInv'
  <2>1. /\ closed' = closed \cup {r} /\ pass' = pass /\ released' = released
        /\ \A i \in Member[r] : state'[<<i, 0>>] # "ABSENT"
    BY <1>9 DEF Close, executions
  <2> QED
    BY <1>5, <1>6, <2>1 DEF SuccessInv
<1>10. CASE PassBegin
  <2>1. pass'.pending = [r \in Run |-> NoCounts] /\ pass'.candidates = {}
    BY <1>10 DEF PassBegin, Idle
  <2>2. \A r \in Run : pass'.pending[r]["SUCCEEDED"] <= Cardinality(Winners(r)')
    BY <1>3, <2>1 DEF NoCounts, Terminal
  <2> QED
    BY <1>2, <1>3, <1>4, <1>5, <1>10, <2>1, <2>2 DEF PassBegin, SuccessInv
<1>11. CASE ScanPage
  <2>1. pass'.candidates \subseteq Page /\ pass'.pending = pass.pending
    BY <1>11 DEF ScanPage, TypeOK
  <2>2. Page \subseteq closed
    BY DEF Page, First, Candidate
  <2> QED
    BY <1>7, <1>11, <2>1, <2>2 DEF ScanPage
<1>12. CASE Wrap
  BY <1>7, <1>12 DEF Wrap, TypeOK, SuccessInv
<1>13. CASE ReleaseCandidates
  <2>1. /\ pass'.candidates = {} /\ closed' = closed /\ released' = released
        /\ UNCHANGED state
        /\ pass'.pending = [r \in Run |->
             IF r \in pass.candidates \ Broken /\ CoversMembership(r)
             THEN Counts(r) ELSE pass.pending[r]]
    BY <1>13 DEF ReleaseCandidates, TypeOK, executions
  <2>2. ASSUME NEW r \in pass.candidates
        PROVE  Counts(r)["SUCCEEDED"] <= Cardinality(Winners(r))
    BY CountsAreWinners DEF SuccessInv, TypeOK
  <2>3. \A r \in Run : Winners(r)' = Winners(r)
    BY <2>1 DEF Winners, Succeeded, RowsOf, Index
  <2>4. \A r \in Run : /\ released'[r]["SUCCEEDED"] <= Cardinality(Winners(r)')
                       /\ pass'.pending[r]["SUCCEEDED"] <= Cardinality(Winners(r)')
    BY <2>1, <2>2, <2>3 DEF SuccessInv
  <2> QED
    BY <1>5, <2>1, <2>4 DEF SuccessInv
<1>14. CASE Commit
  <2>1. /\ pass' = Idle /\ closed' = closed
        /\ released' = [r \in Run |-> IF r \in Releases THEN pass.pending[r] ELSE released[r]]
    BY <1>14 DEF Commit
  <2>2. \A r \in Run : released'[r]["SUCCEEDED"] <= Cardinality(Winners(r)')
    <3> SUFFICES ASSUME NEW r \in Run
                 PROVE  released'[r]["SUCCEEDED"] <= Cardinality(Winners(r)')
      OBVIOUS
    <3>1. released'[r] = pass.pending[r] \/ released'[r] = released[r]
      BY <2>1
    <3> QED
      BY <1>2, <1>3, <1>4, <3>1 DEF SuccessInv
  <2>3. \A r \in Run : pass'.pending[r]["SUCCEEDED"] <= Cardinality(Winners(r)')
    BY <1>3, <2>1 DEF Idle, NoCounts, Terminal
  <2> QED
    BY <1>5, <2>1, <2>2, <2>3 DEF SuccessInv, Idle
<1>15. CASE Die
  <2>1. pass' = Idle /\ closed' = closed /\ released' = released
    BY <1>15 DEF Die
  <2>2. \A r \in Run : pass'.pending[r]["SUCCEEDED"] <= Cardinality(Winners(r)')
    BY <1>3, <2>1 DEF Idle, NoCounts, Terminal
  <2>3. \A r \in Run : released'[r]["SUCCEEDED"] <= Cardinality(Winners(r)')
    BY <1>2, <1>3, <1>4, <2>1 DEF SuccessInv
  <2> QED
    BY <1>5, <2>1, <2>2, <2>3 DEF SuccessInv, Idle
<1> QED
  BY <1>8, <1>9, <1>10, <1>11, <1>12, <1>13, <1>14, <1>15 DEF Next, Pass

\* The successes recorded in a release are never taken back.
THEOREM RecordedSuccessesHold == Spec => []RecordedSuccessHolds
<1>1. SuccessInv => RecordedSuccessHolds
  BY DEF SuccessInv, RecordedSuccessHolds, Winners
<1> QED
  BY <1>1, PassCorrect, ExecutionsCorrect, SuccessInit, SuccessStep, PTL DEF Spec, PassInv
-----------------------------------------------------------------------------
(***************************************************************************)
(* A release is recorded once, for the whole membership.                   *)
(***************************************************************************)

AccountsFor(counts, r) ==
  counts["SUCCEEDED"] + counts["FAILED"] + counts["CANCELLED"] = Cardinality(Member[r])

\* What a pass takes and what it releases is not released yet; what it counts,
\* and what is recorded, is the whole membership.
ReleaseInv ==
  /\ \A r \in pass.candidates : released[r] = NoCounts /\ pass.pending[r] = NoCounts
  /\ \A r \in Run :
       /\ released[r] # NoCounts => AccountsFor(released[r], r)
       /\ pass.pending[r] # NoCounts =>
            released[r] = NoCounts /\ AccountsFor(pass.pending[r], r)

LEMMA DisjointSum ==
  ASSUME NEW S, NEW T, IsFiniteSet(S), IsFiniteSet(T), S \cap T = {}
  PROVE  /\ IsFiniteSet(S \cup T)
         /\ Cardinality(S \cup T) = Cardinality(S) + Cardinality(T)
<1>1. Cardinality(S \cap T) = 0
  BY FS_EmptySet
<1>2. /\ IsFiniteSet(S \cup T)
      /\ Cardinality(S \cup T) = Cardinality(S) + Cardinality(T) - Cardinality(S \cap T)
  BY FS_Union
<1>3. Cardinality(S) \in Nat /\ Cardinality(T) \in Nat
  BY FS_CardinalityType
<1> QED
  BY <1>1, <1>2, <1>3

\* Members that all have a terminal status are counted once each.
LEMMA CountsAddUp ==
  ASSUME NEW r \in Run, CoversMembership(r)
  PROVE  AccountsFor(Counts(r), r)
<1> DEFINE Of(s) == {i \in Member[r] : Status(i) = s}
           S == Of("SUCCEEDED")
           F == Of("FAILED")
           C == Of("CANCELLED")
<1>1. /\ IsFiniteSet(S) /\ IsFiniteSet(F) /\ IsFiniteSet(C)
      /\ Cardinality(S) \in Nat /\ Cardinality(F) \in Nat /\ Cardinality(C) \in Nat
  <2>1. \A T \in SUBSET Member[r] : IsFiniteSet(T) /\ Cardinality(T) \in Nat
    BY WinnersAreFinite, FS_Subset, FS_CardinalityType
  <2> QED
    BY <2>1
<1>2. /\ IsFiniteSet(S \cup F) /\ Cardinality(S \cup F) = Cardinality(S) + Cardinality(F)
      /\ Cardinality((S \cup F) \cup C) = Cardinality(S \cup F) + Cardinality(C)
  <2>1. S \cap F = {} /\ (S \cup F) \cap C = {}
    OBVIOUS
  <2> HIDE DEF S, F, C
  <2> QED
    BY <1>1, <2>1, DisjointSum
<1>3. Member[r] = (S \cup F) \cup C
  BY DEF CoversMembership, Terminal
<1>4. /\ Counts(r)["SUCCEEDED"] = Cardinality(S) /\ Counts(r)["FAILED"] = Cardinality(F)
      /\ Counts(r)["CANCELLED"] = Cardinality(C)
  BY DEF Counts, Terminal
<1> HIDE DEF S, F, C
<1> QED
  BY <1>2, <1>3, <1>4 DEF AccountsFor

LEMMA ReleaseInit == Init => ReleaseInv
BY DEF Init, Idle, ReleaseInv

\* A transaction that ends leaves nothing taken and nothing pending.
LEMMA NothingPending ==
  ASSUME TypeOK, ReleaseInv, pass'.candidates = {},
         \A r \in Run : pass'.pending[r] = NoCounts,
         \A r \in Run : released'[r] = released[r] \/ AccountsFor(released'[r], r)
  PROVE  ReleaseInv'
BY DEF ReleaseInv, AccountsFor

LEMMA ReleaseStep == TypeOK /\ ReleaseInv /\ [Next]_vars =>
  /\ ReleaseInv'
  /\ \A r \in Run : released[r] # NoCounts => released'[r] = released[r]
<1> SUFFICES ASSUME TypeOK, ReleaseInv, [Next]_vars
             PROVE  /\ ReleaseInv'
                    /\ \A r \in Run : released[r] # NoCounts => released'[r] = released[r]
  OBVIOUS
<1>1. CASE /\ released' = released /\ pass'.pending = pass.pending
           /\ pass'.candidates \subseteq pass.candidates
  BY <1>1 DEF ReleaseInv, AccountsFor
<1>2. CASE PassBegin \/ Die
  <2>1. /\ pass'.candidates = {} /\ released' = released
        /\ \A r \in Run : pass'.pending[r] = NoCounts
    <3>1. CASE PassBegin
      BY <3>1 DEF PassBegin, Idle
    <3>2. CASE Die
      BY <3>2 DEF Die, Idle
    <3> QED
      BY <1>2, <3>1, <3>2
  <2> QED
    BY <2>1, NothingPending
<1>3. CASE ScanPage
  <2>1. /\ pass'.candidates \subseteq Page /\ pass'.pending = pass.pending
        /\ released' = released
    BY <1>3 DEF ScanPage, TypeOK
  <2>2. \A r \in Page : released[r] = NoCounts /\ pass.pending[r] = NoCounts
    BY DEF Page, First, Candidate
  <2> QED
    BY <2>1, <2>2 DEF ReleaseInv, AccountsFor
<1>4. CASE ReleaseCandidates
  <2>1. /\ pass'.candidates = {} /\ released' = released
        /\ pass'.pending = [r \in Run |->
             IF r \in pass.candidates \ Broken /\ CoversMembership(r)
             THEN Counts(r) ELSE pass.pending[r]]
    BY <1>4 DEF ReleaseCandidates, TypeOK
  <2>2. ASSUME NEW r \in Run, pass'.pending[r] # NoCounts
        PROVE  released[r] = NoCounts /\ AccountsFor(pass'.pending[r], r)
    <3>1. CASE r \in pass.candidates \ Broken /\ CoversMembership(r)
      <4>1. pass'.pending[r] = Counts(r) /\ AccountsFor(Counts(r), r)
        BY <2>1, <3>1, CountsAddUp
      <4> QED
        BY <3>1, <4>1 DEF ReleaseInv
    <3>2. CASE ~(r \in pass.candidates \ Broken /\ CoversMembership(r))
      BY <2>1, <2>2, <3>2 DEF ReleaseInv
    <3> QED
      BY <3>1, <3>2
  <2> QED
    BY <2>1, <2>2 DEF ReleaseInv, AccountsFor
<1>5. CASE Commit
  <2>1. /\ pass'.candidates = {} /\ \A r \in Run : pass'.pending[r] = NoCounts
        /\ released' = [r \in Run |-> IF r \in Releases THEN pass.pending[r] ELSE released[r]]
    BY <1>5 DEF Commit, Idle
  <2>2. ASSUME NEW r \in Releases
        PROVE  released[r] = NoCounts /\ AccountsFor(pass.pending[r], r)
    BY DEF Releases, ReleaseInv
  <2>3. \A r \in Run : released'[r] = released[r] \/ AccountsFor(released'[r], r)
    BY <2>1, <2>2
  <2> QED
    BY <2>1, <2>2, <2>3, NothingPending
<1>6. CASE Wrap
  BY <1>1, <1>6 DEF Wrap, TypeOK
<1>7. CASE Stages \/ (\E r \in Run : Close(r)) \/ UNCHANGED vars
  BY <1>1, <1>7 DEF Stages, Close, vars
<1> QED
  BY <1>2, <1>3, <1>4, <1>5, <1>6, <1>7 DEF Next, Pass

LEMMA ReleaseCorrect == Spec => []ReleaseInv
BY PassCorrect, ReleaseInit, ReleaseStep, PTL DEF Spec, PassInv

\* What a run is released with is written once: no later pass, also not one
\* that scanned the run before another committed, takes or counts it again.
THEOREM ReleasesAreFinal ==
  Spec => [][\A r \in Run : released[r] # NoCounts => released'[r] = released[r]]_vars
BY PassCorrect, ReleaseCorrect, ReleaseStep, PTL DEF Spec, PassInv

\* A release counts each member of its run once, although its members move
\* between the statements of the pass.
THEOREM ReleasesCoverMembers ==
  Spec => [](\A r \in Run : released[r] # NoCounts => AccountsFor(released[r], r))
<1>1. ReleaseInv => \A r \in Run : released[r] # NoCounts => AccountsFor(released[r], r)
  BY DEF ReleaseInv
<1> QED
  BY <1>1, ReleaseCorrect, PTL

=============================================================================
