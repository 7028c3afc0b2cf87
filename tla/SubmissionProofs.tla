-------------------------- MODULE SubmissionProofs --------------------------
(***************************************************************************)
(* Proofs about Submission for any submitters, runs, works and calls.      *)
(***************************************************************************)
EXTENDS Submission, SequenceTheorems, FiniteSetTheorems, WellFoundedInduction,
        NaturalsInduction, TLAPS

\* The arguments are those of a call, and members are finitely many.
Basics ==
  /\ call \in [Submitter -> AnyCall]
  /\ \A r \in Run : IsFiniteSet(members[r])

Typed == TypeOK /\ Basics

LEMMA CallType ==
  ASSUME Typed, NEW s \in Submitter
  PROVE  /\ call[s] \in AnyCall
         /\ RunOf(s) \in Run
         /\ call[s].members \in Seq(Nat \X Work)
BY SubmissionAssumption DEF Typed, Basics, RunOf

\* A chunk is a part of the members of its call.
LEMMA ChunkType ==
  ASSUME Typed, NEW s \in Submitter
  PROVE  /\ Chunk(s) \in Seq(Nat \X Work)
         /\ process[s].next + Len(Chunk(s)) \in 1..(Len(call[s].members) + 1)
         /\ Entries(s) \subseteq Nat \X Work
         /\ IsFiniteSet(Entries(s))
<1> DEFINE all == call[s].members
           from == process[s].next
           last == IF from + ChunkSize - 1 < Len(all)
                   THEN from + ChunkSize - 1 ELSE Len(all)
<1>1. all \in Seq(Nat \X Work) /\ Len(all) \in Nat
  BY CallType
<1>2. from \in 1..(Len(all) + 1)
  BY DEF Typed, TypeOK
<1>3. last \in Int /\ last <= Len(all) /\ from <= last + 1
  BY <1>1, <1>2, SubmissionAssumption
<1>4. \A i \in from..last : all[i] \in Nat \X Work
  BY <1>1, <1>2, <1>3
<1>5. Chunk(s) = SubSeq(all, from, last)
  BY DEF Chunk
<1>6. /\ Chunk(s) \in Seq(Nat \X Work)
      /\ Len(Chunk(s)) = IF from <= last THEN last - from + 1 ELSE 0
  <2> HIDE DEF all, from, last
  <2>1. from \in Int /\ last \in Int
    BY <1>1, <1>2, <1>3
  <2>2. /\ SubSeq(all, from, last) \in Seq(Nat \X Work)
        /\ Len(SubSeq(all, from, last)) = IF from <= last THEN last - from + 1 ELSE 0
    BY <2>1, <1>4, SubSeqProperties
  <2>3. QED
    BY <2>2, <1>5
<1>7. process[s].next + Len(Chunk(s)) \in 1..(Len(call[s].members) + 1)
  <2>1. \A n \in Nat : \A f \in 1..(n + 1), l \in Int : l <= n /\ f <= l + 1 =>
          f + (IF f <= l THEN l - f + 1 ELSE 0) \in 1..(n + 1)
    OBVIOUS
  <2> HIDE DEF all, from, last
  <2>2. from + Len(Chunk(s)) \in 1..(Len(all) + 1)
    BY <2>1, <1>1, <1>2, <1>3, <1>6
  <2>3. QED
    BY <2>2 DEF all, from
<1>8. Entries(s) \subseteq Nat \X Work
  BY <1>6 DEF Entries
<1>9. IsFiniteSet(Entries(s))
  <2>1. DOMAIN Chunk(s) = 1..Len(Chunk(s)) /\ Len(Chunk(s)) \in Nat
    BY <1>6
  <2>2. IsFiniteSet(DOMAIN Chunk(s))
    BY <2>1, FS_Interval
  <2>3. Chunk(s) \in Surjection(DOMAIN Chunk(s), Entries(s))
    BY <1>6 DEF Entries, Surjection
  <2>4. QED
    BY <2>2, <2>3, FS_Surjection
<1>10. QED
  BY <1>6, <1>7, <1>8, <1>9

Works(s) == [n \in DOMAIN Chunk(s) |-> Chunk(s)[n][2]]

LEMMA WorksType ==
  ASSUME Typed, NEW s \in Submitter
  PROVE  Works(s) \in Seq(Work)
<1>1. /\ DOMAIN Chunk(s) = 1..Len(Chunk(s)) /\ Len(Chunk(s)) \in Nat
      /\ \A n \in DOMAIN Chunk(s) : Chunk(s)[n] \in Nat \X Work
  BY ChunkType
<1>2. Works(s) \in [1..Len(Chunk(s)) -> Work]
  BY <1>1 DEF Works
<1>3. QED
  BY <1>1, <1>2, SeqDef

\* In a chunk without repetitions an ordinal belongs to one work.
LEMMA Distinct ==
  ASSUME Typed, NEW s \in Submitter, IsDistinct(s)
  PROVE  \A e, f \in Entries(s) : e[1] = f[1] <=> e[2] = f[2]
<1> DEFINE D == DOMAIN Chunk(s)
           ordinal == [n \in D |-> Chunk(s)[n][1]]
           work == [n \in D |-> Chunk(s)[n][2]]
           O == {e[1] : e \in Entries(s)}
           W == {e[2] : e \in Entries(s)}
<1>1. D = 1..Len(Chunk(s)) /\ Len(Chunk(s)) \in Nat
  BY ChunkType
<1>2. IsFiniteSet(D) /\ Cardinality(D) = Len(Chunk(s))
  <2> HIDE DEF D
  <2>1. QED
    BY <1>1, FS_Interval
<1>3. ordinal \in Surjection(D, O) /\ work \in Surjection(D, W)
  BY DEF Entries, Surjection
<1>4. Cardinality(O) = Cardinality(D) /\ Cardinality(W) = Cardinality(D)
  BY <1>2 DEF IsDistinct
<1>5. ordinal \in Injection(D, O) /\ work \in Injection(D, W)
  <2> HIDE DEF D, O, W, ordinal, work
  <2>1. QED
    BY <1>2, <1>3, <1>4, FS_Surjection
<1>6. \A m, n \in D : /\ Chunk(s)[m][1] = Chunk(s)[n][1] => m = n
                      /\ Chunk(s)[m][2] = Chunk(s)[n][2] => m = n
  BY <1>5 DEF Injection, IsInjective
<1>7. QED
  BY <1>6 DEF Entries

-----------------------------------------------------------------------------
(***************************************************************************)
(* Type correctness.                                                       *)
(***************************************************************************)

ProcessesTyped ==
  /\ process \in [Submitter -> [phase : {"IDLE", "STREAM", "CHUNK"}, next : Nat,
                                todo : Seq(Work), inserted : SUBSET Work]]
  /\ \A s \in Submitter :
       /\ process[s].next \in 1..(Len(call[s].members) + 1)
       /\ ~InChunk(s) => process[s].inserted = {} /\ process[s].todo = <<>>

LEMMA TypeInit == Init => Typed
<1> SUFFICES ASSUME Init PROVE Typed
  OBVIOUS
<1>1. Basics
  BY FS_EmptySet DEF Init, Basics
<1>2. \A s \in Submitter : call[s].members \in Seq(Nat \X Work)
  BY <1>1, SubmissionAssumption DEF Basics
<1>3. TypeOK
  BY <1>2, SubmissionAssumption DEF Init, TypeOK, Idle, InChunk
<1>4. QED
  BY <1>1, <1>3 DEF Typed

Process == [phase : {"IDLE", "STREAM", "CHUNK"}, next : Nat,
            todo : Seq(Work), inserted : SUBSET Work]

\* One process moves to a place that is typed.
LEMMA Move ==
  ASSUME Typed, NEW s \in Submitter, NEW p \in Process,
         p.next \in 1..(Len(call[s].members) + 1),
         p.phase = "CHUNK" \/ (p.inserted = {} /\ p.todo = <<>>),
         process' = [process EXCEPT ![s] = p], call' = call
  PROVE  ProcessesTyped'
<1>1. process \in [Submitter -> Process]
  BY DEF Typed, TypeOK, Process
<1>2. process' \in [Submitter -> Process] /\ process'[s] = p
  BY <1>1
<1>3. ASSUME NEW t \in Submitter
      PROVE  (/\ process[t].next \in 1..(Len(call[t].members) + 1)
              /\ ~InChunk(t) => process[t].inserted = {} /\ process[t].todo = <<>>)'
  <2>1. CASE t = s
    BY <2>1, <1>2 DEF InChunk
  <2>2. CASE t # s
    <3>1. process'[t] = process[t]
      BY <1>1, <2>2
    <3>2. QED
      BY <3>1 DEF Typed, TypeOK, InChunk
  <2>3. QED
    BY <2>1, <2>2
<1>4. QED
  BY <1>2, <1>3 DEF ProcessesTyped, Process

LEMMA PlaceType ==
  ASSUME Typed, NEW s \in Submitter
  PROVE  /\ process[s] \in Process
         /\ process[s].next \in 1..(Len(call[s].members) + 1)
         /\ Len(call[s].members) \in Nat
BY CallType DEF Typed, TypeOK, Process

\* A transaction that is rolled back leaves a process that is idle.
LEMMA RaiseTyped ==
  ASSUME Typed, NEW s \in Submitter, Raise(s), call' = call
  PROVE  ProcessesTyped'
<1>1. Idle \in Process /\ Idle.phase = "IDLE" /\ Idle.inserted = {} /\ Idle.todo = <<>>
  BY DEF Idle, Process
<1>2. Idle.next \in 1..(Len(call[s].members) + 1)
  BY PlaceType DEF Idle
<1>3. QED
  BY <1>1, <1>2, Move DEF Raise

LEMMA ProcessStep ==
  ASSUME Typed, NEW s \in Submitter, Step(s) \/ Die(s)
  PROVE  ProcessesTyped' /\ call' = call
<1> DEFINE p == process[s]
           n == p.next + Len(Chunk(s))
<1>1. p \in Process /\ p.next \in 1..(Len(call[s].members) + 1)
  BY PlaceType
<1>2. process \in [Submitter -> Process]
  BY DEF Typed, TypeOK, Process
<1>3. call' = call
  BY DEF Step, Open, BeginChunk, InsertWork, DeadlockAbort, EndChunk, Close, Die
<1>4. CASE Raise(s)
  BY <1>3, <1>4, RaiseTyped
<1>5. CASE Open(s)
  <2>1. p.phase = "IDLE" /\ process' = [process EXCEPT ![s] = [p EXCEPT !.phase = "STREAM"]]
    BY <1>2, <1>5 DEF Open
  <2>2. p.inserted = {} /\ p.todo = <<>>
    BY <2>1 DEF Typed, TypeOK, InChunk
  <2>3. [p EXCEPT !.phase = "STREAM"] \in Process
    BY <1>1 DEF Process
  <2>4. /\ [p EXCEPT !.phase = "STREAM"].next = p.next
        /\ [p EXCEPT !.phase = "STREAM"].inserted = {}
        /\ [p EXCEPT !.phase = "STREAM"].todo = <<>>
    BY <1>1, <2>2 DEF Process
  <2> HIDE DEF p
  <2>5. QED
    BY <1>1, <1>3, <2>1, <2>3, <2>4, Move
<1>6. CASE BeginChunk(s) /\ MayRegister(s)
  <2> DEFINE q == [p EXCEPT !.phase = "CHUNK", !.todo = Works(s)]
  <2>1. process' = [process EXCEPT ![s] = q]
    BY <1>2, <1>6 DEF BeginChunk, Works
  <2>2. q \in Process /\ q.next = p.next /\ q.phase = "CHUNK"
    BY <1>1, WorksType DEF Process
  <2> HIDE DEF p, q
  <2>3. QED
    BY <1>1, <1>3, <2>1, <2>2, Move
<1>7. CASE InsertWork(s)
  <2> DEFINE w == Head(p.todo)
             q == [p EXCEPT !.todo = Tail(@),
                            !.inserted = IF items[w] = None THEN @ \cup {w} ELSE @]
  <2>1. p.phase = "CHUNK" /\ p.todo # <<>> /\ process' = [process EXCEPT ![s] = q]
    BY <1>2, <1>7 DEF InsertWork, InChunk
  <2>2. Tail(p.todo) \in Seq(Work) /\ w \in Work
    BY <1>1, <2>1, HeadTailProperties DEF Process
  <2>3. q \in Process /\ q.next = p.next /\ q.phase = "CHUNK"
    BY <1>1, <2>1, <2>2 DEF Process
  <2> HIDE DEF p, q
  <2>4. QED
    BY <1>1, <1>3, <2>1, <2>3, Move
<1>8. CASE EndChunk(s) /\ ChunkFits(s)
  <2> DEFINE q == [Idle EXCEPT !.phase = "STREAM", !.next = n]
  <2>1. n \in 1..(Len(call[s].members) + 1) /\ n \in Nat
    BY ChunkType, PlaceType
  <2>2. process' = [process EXCEPT ![s] = q]
    BY <1>8 DEF EndChunk
  <2> HIDE DEF n
  <2>3. q \in Process /\ q.next = n /\ q.inserted = {} /\ q.todo = <<>>
    <3>1. Idle \in Process /\ Idle.inserted = {} /\ Idle.todo = <<>>
      BY DEF Idle, Process
    <3>2. QED
      BY <2>1, <3>1 DEF Process
  <2> HIDE DEF q
  <2>4. QED
    BY <1>3, <2>1, <2>2, <2>3, Move
<1>9. QED
  BY <1>3, <1>4, <1>5, <1>6, <1>7, <1>8
  DEF Step, BeginChunk, DeadlockAbort, EndChunk, Close, Die, Raise

\* What the receipt of a run counts are numbers.
LEMMA ReceiptType ==
  ASSUME Typed, NEW r \in Run
  PROVE  /\ Cardinality(members[r]) \in Nat
         /\ Cardinality(Created(r)) \in Nat
         /\ Cardinality(members[r]) - Cardinality(Created(r)) \in Nat
<1>1. IsFiniteSet(members[r]) /\ Created(r) \in SUBSET members[r]
  BY DEF Typed, Basics, Created
<1>2. Cardinality(members[r]) \in Nat
  BY <1>1, FS_CardinalityType
<1>3. IsFiniteSet(Created(r)) /\ Cardinality(Created(r)) <= Cardinality(members[r])
  BY <1>1, FS_Subset
<1>4. Cardinality(Created(r)) \in Nat
  BY <1>3, FS_CardinalityType
<1>5. QED
  BY <1>2, <1>3, <1>4

LEMMA TypeStep == Typed /\ [Next]_vars => Typed'
<1>1. ASSUME Typed, NEW s \in Submitter, Step(s) \/ Die(s)
      PROVE  Typed'
  <2> USE DEF Typed, TypeOK, Basics
  <2>1. ProcessesTyped' /\ call' = call
    BY <1>1, ProcessStep
  <2>2. RunOf(s) \in Run /\ call[s] \in AnyCall
    BY <1>1, CallType
  <2>3. declared' \in [Run -> {None} \cup {Declaration(t) : t \in Submitter}]
    <3>1. Declaration(s) \in {Declaration(t) : t \in Submitter}
      OBVIOUS
    <3>2. CASE Open(s)
      BY <1>1, <2>2, <3>1, <3>2 DEF Open
    <3>3. QED
      BY <1>1, <3>2 DEF Step, BeginChunk, InsertWork, DeadlockAbort, EndChunk, Close, Die
  <2>4. members' \in [Run -> SUBSET (Nat \X Work)] /\ \A r \in Run : IsFiniteSet(members'[r])
    <3>1. CASE UNCHANGED members
      BY <1>1, <3>1
    <3>2. CASE members' = [members EXCEPT ![RunOf(s)] = @ \cup Entries(s)]
      <4>1. Entries(s) \subseteq Nat \X Work /\ IsFiniteSet(Entries(s))
        BY <1>1, ChunkType
      <4>2. IsFiniteSet(members[RunOf(s)] \cup Entries(s))
        BY <1>1, <2>2, <4>1, FS_Union
      <4>3. QED
        BY <1>1, <2>2, <3>2, <4>1, <4>2
    <3>3. QED
      BY <1>1, <3>1, <3>2
      DEF Step, Open, BeginChunk, InsertWork, DeadlockAbort, EndChunk, Close, Die
  <2>5. closed' \in [Run -> {None} \cup Receipt]
    <3>1. CASE UNCHANGED closed
      BY <1>1, <3>1
    <3>2. CASE Close(s)
      <4>1. [count |-> Cardinality(members[RunOf(s)]),
             created |-> Cardinality(Created(RunOf(s))),
             reused |-> Cardinality(members[RunOf(s)]) - Cardinality(Created(RunOf(s)))]
            \in Receipt
        BY <1>1, <2>2, ReceiptType DEF Receipt
      <4>2. QED
        BY <1>1, <3>2, <4>1 DEF Close
    <3>3. QED
      BY <1>1, <3>1, <3>2
      DEF Step, Open, BeginChunk, InsertWork, DeadlockAbort, EndChunk, Die
  <2>6. items' \in [Work -> {None} \cup Item]
    <3>1. [origin |-> RunOf(s), input |-> call[s].input] \in Item
      BY <2>2 DEF Item
    <3>2. QED
      BY <1>1, <3>1
      DEF Step, Open, BeginChunk, InsertWork, DeadlockAbort, EndChunk, Close, Die
  <2>7. faults' \in 0..MaxFault
    BY <1>1, SubmissionAssumption
    DEF Step, Open, BeginChunk, InsertWork, DeadlockAbort, EndChunk, Close, Die
  <2>8. {Declaration(t) : t \in Submitter}' = {Declaration(t) : t \in Submitter}
    BY <2>1 DEF Declaration
  <2>9. call' \in [Submitter -> AnyCall]
    BY <1>1, <2>1
  <2>10. QED
    BY <2>1, <2>3, <2>4, <2>5, <2>6, <2>7, <2>8, <2>9 DEF ProcessesTyped
<1>2. ASSUME Typed, UNCHANGED vars
      PROVE  Typed'
  BY <1>2 DEF vars, Typed, TypeOK, Basics, InChunk, Declaration
<1>3. QED
  BY <1>1, <1>2 DEF Next

LEMMA AlwaysTyped == Spec => []Typed
BY TypeInit, TypeStep, PTL DEF Spec

\* Every variable of a registration keeps its type, and a process holds
\* uncommitted items only in the transaction of a chunk.
THEOREM TypeCorrect == Spec => []TypeOK
<1>1. Typed => TypeOK
  BY DEF Typed
<1>2. QED
  BY <1>1, AlwaysTyped, PTL

-----------------------------------------------------------------------------
(***************************************************************************)
(* What the locks on runs and keys keep.                                   *)
(***************************************************************************)

\* One transaction at a time holds the row of a run.
Exclusive ==
  \A s, t \in Submitter : InChunk(s) /\ InChunk(t) /\ RunOf(s) = RunOf(t) => s = t

\* A call that goes on has found its declaration, and a chunk an open run.
RunsAreOpen ==
  \A s \in Submitter :
    /\ process[s].phase # "IDLE" => declared[RunOf(s)] = Declaration(s)
    /\ InChunk(s) => closed[RunOf(s)] = None

\* A key is inserted by one transaction, which has not committed.
KeysAreApart ==
  \A s \in Submitter : \A w \in process[s].inserted :
    /\ items[w] = None
    /\ \A t \in Submitter : w \in process[t].inserted => t = s

LockInv == Exclusive /\ RunsAreOpen /\ KeysAreApart

\* What each step does to the place of its process, and to no other.
LEMMA Others ==
  ASSUME Typed, NEW s \in Submitter, Step(s) \/ Die(s)
  PROVE  /\ call' = call
         /\ \A t \in Submitter \ {s} : process'[t] = process[t]
         /\ \A t \in Submitter : RunOf(t)' = RunOf(t) /\ Declaration(t)' = Declaration(t)
<1>1. call' = call
  BY DEF Step, Open, BeginChunk, InsertWork, DeadlockAbort, EndChunk, Close, Die
<1>2. \A t \in Submitter \ {s} : process'[t] = process[t]
  BY DEF Typed, TypeOK, Step, Open, BeginChunk, InsertWork, DeadlockAbort, EndChunk, Close,
         Die, Raise
<1>3. QED
  BY <1>1, <1>2 DEF RunOf, Declaration

LEMMA RaiseKeepsLocks ==
  ASSUME Typed, LockInv, NEW s \in Submitter, Step(s) \/ Die(s),
         process'[s].phase = "IDLE", process'[s].inserted = {},
         UNCHANGED <<declared, items>>,
         \A t \in Submitter \ {s} : InChunk(t) => closed'[RunOf(t)] = closed[RunOf(t)]
  PROVE  LockInv'
<1>1. /\ \A t \in Submitter \ {s} : process'[t] = process[t]
      /\ \A t \in Submitter : RunOf(t)' = RunOf(t) /\ Declaration(t)' = Declaration(t)
  BY Others
<1>2. \A t \in Submitter : InChunk(t)' => t # s /\ InChunk(t)
  BY <1>1 DEF InChunk
<1>3. Exclusive'
  BY <1>1, <1>2 DEF LockInv, Exclusive
<1>4. RunsAreOpen'
  BY <1>1, <1>2 DEF LockInv, RunsAreOpen, InChunk
<1>5. KeysAreApart'
  BY <1>1 DEF LockInv, KeysAreApart
<1>6. QED
  BY <1>3, <1>4, <1>5 DEF LockInv

LEMMA DeclarationIsNotNone ==
  ASSUME Typed, NEW s \in Submitter
  PROVE  Declaration(s) # None
BY SubmissionAssumption, CallType DEF Declaration

LEMMA LockInit == Init => LockInv
BY DEF Init, Idle, LockInv, Exclusive, RunsAreOpen, KeysAreApart, InChunk

LEMMA LockStep == Typed /\ LockInv /\ [Next]_vars => LockInv'
<1>1. ASSUME Typed, LockInv, NEW s \in Submitter, Step(s) \/ Die(s)
      PROVE  LockInv'
  <2>1. /\ \A t \in Submitter \ {s} : process'[t] = process[t]
        /\ \A t \in Submitter : RunOf(t)' = RunOf(t) /\ Declaration(t)' = Declaration(t)
    BY <1>1, Others
  <2>2. process \in [Submitter -> Process] /\ RunOf(s) \in Run
    BY <1>1, CallType DEF Typed, TypeOK, Process
  <2>3. CASE Open(s)
    <3>1. /\ process'[s].phase = "STREAM" /\ process'[s].inserted = process[s].inserted
          /\ declared'[RunOf(s)] = Declaration(s)
          /\ \A t \in Submitter : process[t].phase # "IDLE" =>
               declared'[RunOf(t)] = declared[RunOf(t)]
      <4>1. process'[s] = [process[s] EXCEPT !.phase = "STREAM"]
        BY <2>2, <2>3 DEF Open
      <4>2. declared \in [Run -> {None} \cup {Declaration(t) : t \in Submitter}]
        BY <1>1 DEF Typed, TypeOK
      <4>3. ASSUME NEW t \in Submitter, process[t].phase # "IDLE"
            PROVE  declared'[RunOf(t)] = declared[RunOf(t)]
        <5>1. declared[RunOf(t)] = Declaration(t) /\ RunOf(t) \in Run
          BY <1>1, <4>3, CallType DEF LockInv, RunsAreOpen
        <5>2. CASE RunOf(t) # RunOf(s)
          BY <2>3, <4>2, <5>1, <5>2 DEF Open
        <5>3. CASE RunOf(t) = RunOf(s)
          <6>1. declared[RunOf(s)] = Declaration(s) \/ declared[RunOf(s)] = None
            BY <2>3 DEF Open
          <6>2. declared[RunOf(s)] # None
            BY <1>1, <5>1, <5>3, DeclarationIsNotNone
          <6>3. QED
            BY <2>2, <2>3, <4>2, <5>3, <6>1, <6>2 DEF Open
        <5>4. QED
          BY <5>2, <5>3
      <4>4. QED
        BY <2>2, <2>3, <4>1, <4>2, <4>3 DEF Open, Process
    <3>2. UNCHANGED <<items, closed>>
      BY <2>3 DEF Open
    <3>3. \A t \in Submitter : InChunk(t)' => t # s /\ InChunk(t)
      BY <2>1, <3>1 DEF InChunk
    <3>4. Exclusive'
      BY <1>1, <2>1, <3>3 DEF LockInv, Exclusive
    <3>5. RunsAreOpen'
      BY <1>1, <2>1, <3>1, <3>2, <3>3 DEF LockInv, RunsAreOpen
    <3>6. KeysAreApart'
      BY <1>1, <2>1, <3>1, <3>2 DEF LockInv, KeysAreApart
    <3>7. QED
      BY <3>4, <3>5, <3>6 DEF LockInv
  <2>4. CASE BeginChunk(s) /\ MayRegister(s)
    <3>1. /\ process[s].phase = "STREAM" /\ process'[s].phase = "CHUNK"
          /\ process'[s].inserted = process[s].inserted
          /\ closed[RunOf(s)] = None /\ ~RowLocked(RunOf(s))
          /\ UNCHANGED <<declared, closed, items>>
      BY <2>2, <2>4 DEF BeginChunk, MayRegister, Process
    <3>2. Exclusive'
      BY <1>1, <2>1, <3>1 DEF LockInv, Exclusive, RowLocked, InChunk
    <3>3. RunsAreOpen'
      BY <1>1, <2>1, <3>1 DEF LockInv, RunsAreOpen, InChunk
    <3>4. KeysAreApart'
      BY <1>1, <2>1, <3>1 DEF LockInv, KeysAreApart
    <3>5. QED
      BY <3>2, <3>3, <3>4 DEF LockInv
  <2>5. CASE InsertWork(s)
    <3>1. /\ InChunk(s) /\ process'[s].phase = "CHUNK"
          /\ UNCHANGED <<declared, closed, items>>
          /\ \A w \in process'[s].inserted \ process[s].inserted :
               /\ items[w] = None
               /\ \A t \in Submitter \ {s} : w \notin process[t].inserted
      BY <2>2, <2>5 DEF InsertWork, WaitsFor, InChunk, Process
    <3>2. Exclusive'
      BY <1>1, <2>1, <3>1 DEF LockInv, Exclusive, InChunk
    <3>3. RunsAreOpen'
      BY <1>1, <2>1, <3>1 DEF LockInv, RunsAreOpen, InChunk
    <3>4. KeysAreApart'
      BY <1>1, <2>1, <3>1 DEF LockInv, KeysAreApart
    <3>5. QED
      BY <3>2, <3>3, <3>4 DEF LockInv
  <2>6. CASE EndChunk(s) /\ ChunkFits(s)
    <3>1. /\ InChunk(s) /\ process'[s].phase = "STREAM" /\ process'[s].inserted = {}
          /\ UNCHANGED <<declared, closed>>
          /\ \A w \in Work : w \notin process[s].inserted => items'[w] = items[w]
      BY <2>2, <2>6 DEF EndChunk, Process, Idle
    <3>2. \A t \in Submitter : InChunk(t)' => t # s /\ InChunk(t)
      BY <2>1, <3>1 DEF InChunk
    <3>3. Exclusive'
      BY <1>1, <2>1, <3>2 DEF LockInv, Exclusive
    <3>4. RunsAreOpen'
      BY <1>1, <2>1, <3>1, <3>2 DEF LockInv, RunsAreOpen, InChunk
    <3>5. KeysAreApart'
      BY <1>1, <2>1, <2>2, <3>1 DEF LockInv, KeysAreApart, Process
    <3>6. QED
      BY <3>3, <3>4, <3>5 DEF LockInv
  <2>7. CASE Close(s)
    <3>1. /\ process'[s].phase = "IDLE" /\ process'[s].inserted = {}
          /\ UNCHANGED <<declared, items>> /\ ~RowLocked(RunOf(s))
      BY <2>2, <2>7 DEF Close, Idle, Process
    <3>2. \A r \in Run \ {RunOf(s)} : closed'[r] = closed[r]
      BY <1>1, <2>7 DEF Close, Typed, TypeOK
    <3>3. \A t \in Submitter : InChunk(t) => closed'[RunOf(t)] = closed[RunOf(t)]
      BY <1>1, <3>1, <3>2, CallType DEF RowLocked
    <3>4. QED
      BY <1>1, <3>1, <3>3, RaiseKeepsLocks
  <2>8. CASE Raise(s) /\ UNCHANGED <<declared, items, closed>>
    <3>1. process'[s].phase = "IDLE" /\ process'[s].inserted = {}
      BY <2>2, <2>8 DEF Raise, Idle
    <3>2. \A t \in Submitter \ {s} : InChunk(t) => closed'[RunOf(t)] = closed[RunOf(t)]
      BY <2>8
    <3>3. QED
      BY <1>1, <2>8, <3>1, <3>2, RaiseKeepsLocks
  <2>9. QED
    BY <1>1, <2>3, <2>4, <2>5, <2>6, <2>7, <2>8
    DEF Step, BeginChunk, DeadlockAbort, EndChunk, Die
<1>2. ASSUME LockInv, UNCHANGED vars
      PROVE  LockInv'
  BY <1>2 DEF vars, LockInv, Exclusive, RunsAreOpen, KeysAreApart, InChunk, RunOf, Declaration
<1>3. QED
  BY <1>1, <1>2 DEF Next

LEMMA AlwaysLocked == Spec => [](Typed /\ LockInv)
BY TypeInit, TypeStep, LockInit, LockStep, PTL DEF Spec

Adds ==
  /\ \A r \in Run : declared[r] # None => declared'[r] = declared[r]
  /\ \A w \in Work : items[w] # None => items'[w] = items[w]
  /\ \A r \in Run : members[r] \subseteq members'[r]
  /\ \A r \in Run : closed[r] # None => closed'[r] = closed[r] /\ members'[r] = members[r]

LEMMA AddsStep == Typed /\ LockInv /\ [Next]_vars => Adds
<1>1. ASSUME Typed, LockInv, NEW s \in Submitter, Step(s) \/ Die(s)
      PROVE  Adds
  <2>1. CASE Open(s)
    BY <1>1, <2>1 DEF Open, Adds, Typed, TypeOK
  <2>2. CASE EndChunk(s) /\ ChunkFits(s)
    <3>1. closed[RunOf(s)] = None /\ \A w \in process[s].inserted : items[w] = None
      BY <1>1, <2>2 DEF LockInv, RunsAreOpen, KeysAreApart, EndChunk
    <3>2. QED
      BY <1>1, <2>2, <3>1 DEF EndChunk, Adds, Typed, TypeOK
  <2>3. CASE Close(s)
    BY <1>1, <2>3 DEF Close, Adds, Typed, TypeOK
  <2>4. CASE UNCHANGED <<declared, items, members, closed>>
    BY <2>4 DEF Adds
  <2>5. QED
    BY <1>1, <2>1, <2>2, <2>3, <2>4
    DEF Step, BeginChunk, InsertWork, DeadlockAbort, EndChunk, Die
<1>2. ASSUME UNCHANGED vars
      PROVE  Adds
  BY <1>2 DEF vars, Adds
<1>3. QED
  BY <1>1, <1>2 DEF Next

\* Registration only adds, whoever registers at the same time, dies or starts
\* over: a declaration, an item and a membership stay as they were accepted,
\* and a closed run is frozen.
THEOREM OnlyAdds == Spec => RegistrationOnlyAdds
<1>1. Typed /\ LockInv /\ [Next]_vars => [Adds]_vars
  BY AddsStep
<1>2. [][Adds]_vars => RegistrationOnlyAdds
  BY DEF Adds, RegistrationOnlyAdds
<1>3. QED
  BY <1>1, <1>2, AlwaysLocked, PTL DEF Spec

-----------------------------------------------------------------------------
(***************************************************************************)
(* What a chunk has resolved when it ends.                                 *)
(***************************************************************************)

\* Each entry of a chunk has an item, has been inserted, or is still to come,
\* and nothing else is inserted.
Resolved(s) ==
  /\ IsDistinct(s)
  /\ \A e \in Entries(s) : \/ items[e[2]] # None
                           \/ e[2] \in process[s].inserted
                           \/ \E n \in DOMAIN process[s].todo : process[s].todo[n] = e[2]
  /\ \A w \in process[s].inserted : \E e \in Entries(s) : e[2] = w
  /\ \A n \in DOMAIN process[s].todo : \E e \in Entries(s) : e[2] = process[s].todo[n]

ChunkInv == \A s \in Submitter : InChunk(s) => Resolved(s)

\* A chunk that has not moved is the same.
LEMMA SameChunk ==
  ASSUME NEW s \in Submitter, call' = call, process'[s].next = process[s].next
  PROVE  Chunk(s)' = Chunk(s) /\ Entries(s)' = Entries(s) /\ IsDistinct(s)' = IsDistinct(s)
BY DEF Chunk, Entries, IsDistinct

LEMMA OthersResolved ==
  ASSUME Typed, Adds, NEW s \in Submitter, Step(s) \/ Die(s),
         NEW t \in Submitter \ {s}, InChunk(t), Resolved(t)
  PROVE  Resolved(t)'
<1>1. process'[t] = process[t] /\ call' = call
  BY Others
<1>2. Entries(t)' = Entries(t) /\ IsDistinct(t)' = IsDistinct(t)
  BY <1>1, SameChunk
<1>3. \A e \in Entries(t) : items[e[2]] # None => items'[e[2]] # None
  BY ChunkType DEF Adds
<1>4. QED
  BY <1>1, <1>2, <1>3 DEF Resolved

LEMMA ChunkStep == Typed /\ LockInv /\ ChunkInv /\ [Next]_vars => ChunkInv'
<1>1. ASSUME Typed, LockInv, ChunkInv, NEW s \in Submitter, Step(s) \/ Die(s)
      PROVE  ChunkInv'
  <2>1. Adds
    BY <1>1, AddsStep DEF Next
  <2>2. \A t \in Submitter \ {s} : InChunk(t)' => Resolved(t)'
    BY <1>1, <2>1, Others, OthersResolved DEF ChunkInv, InChunk
  <2>3. process \in [Submitter -> Process] /\ call' = call
    BY <1>1, Others DEF Typed, TypeOK, Process
  <2>4. CASE ~InChunk(s)'
    BY <2>2, <2>4 DEF ChunkInv
  <2>5. CASE BeginChunk(s) /\ MayRegister(s)
    <3>1. /\ IsDistinct(s) /\ process'[s].next = process[s].next
          /\ process'[s].todo = Works(s) /\ process'[s].inserted = {}
      <4>1. process[s].phase = "STREAM" /\ IsDistinct(s)
        BY <2>5 DEF BeginChunk, MayRegister
      <4>2. process[s].inserted = {}
        BY <1>1, <4>1 DEF Typed, TypeOK, InChunk
      <4>3. process' = [process EXCEPT ![s].phase = "CHUNK", ![s].todo = Works(s)]
        BY <2>5 DEF BeginChunk, Works
      <4>4. QED
        BY <2>3, <4>1, <4>2, <4>3 DEF Process
    <3>2. Entries(s)' = Entries(s) /\ IsDistinct(s)' = IsDistinct(s)
      BY <2>3, <3>1, SameChunk
    <3>3. /\ \A e \in Entries(s) : \E n \in DOMAIN Works(s) : Works(s)[n] = e[2]
          /\ \A n \in DOMAIN Works(s) : \E e \in Entries(s) : e[2] = Works(s)[n]
      BY DEF Entries, Works
    <3>4. Resolved(s)'
      BY <3>1, <3>2, <3>3 DEF Resolved
    <3>5. QED
      BY <2>2, <3>4 DEF ChunkInv
  <2>6. CASE InsertWork(s)
    <3> DEFINE p == process[s]
               w == Head(p.todo)
    <3>1. p \in Process /\ p.todo # <<>> /\ Resolved(s)
      BY <1>1, <2>3, <2>6 DEF InsertWork, ChunkInv
    <3>2. /\ process'[s].next = p.next /\ process'[s].todo = Tail(p.todo)
          /\ process'[s].inserted = IF items[w] = None THEN p.inserted \cup {w} ELSE p.inserted
          /\ items' = items
      BY <2>3, <2>6 DEF InsertWork, Process
    <3>3. Entries(s)' = Entries(s) /\ IsDistinct(s)' = IsDistinct(s)
      BY <2>3, <3>2, SameChunk
    <3>4. p.todo \in Seq(Work)
      BY <3>1 DEF Process
    <3>5. /\ w = p.todo[1] /\ 1 \in DOMAIN p.todo
          /\ \A n \in DOMAIN p.todo : n = 1 \/ (n - 1 \in DOMAIN Tail(p.todo)
                                                 /\ Tail(p.todo)[n - 1] = p.todo[n])
          /\ \A n \in DOMAIN Tail(p.todo) : n + 1 \in DOMAIN p.todo
                                             /\ Tail(p.todo)[n] = p.todo[n + 1]
      <4> HIDE DEF p
      <4>1. QED
        BY <3>1, <3>4, HeadTailProperties DEF w
    <3>6. \E e \in Entries(s) : e[2] = w
      BY <3>1, <3>5 DEF Resolved
    <3>7. Resolved(s)'
      <4>1. ASSUME NEW e \in Entries(s)
            PROVE  \/ items[e[2]] # None
                   \/ e[2] \in process'[s].inserted
                   \/ \E n \in DOMAIN Tail(p.todo) : Tail(p.todo)[n] = e[2]
        <5>1. CASE \E n \in DOMAIN p.todo : p.todo[n] = e[2]
          <6>1. PICK n \in DOMAIN p.todo : p.todo[n] = e[2]
            BY <5>1
          <6>2. CASE n = 1
            BY <3>2, <3>5, <6>1, <6>2
          <6>3. CASE n # 1
            BY <3>5, <6>1, <6>3
          <6>4. QED
            BY <6>2, <6>3
        <5>2. CASE e[2] \in p.inserted
          BY <3>2, <5>2
        <5>3. QED
          BY <3>1, <5>1, <5>2 DEF Resolved
      <4>2. \A v \in process'[s].inserted : \E e \in Entries(s) : e[2] = v
        BY <3>1, <3>2, <3>6 DEF Resolved
      <4>3. \A n \in DOMAIN Tail(p.todo) : \E e \in Entries(s) : e[2] = Tail(p.todo)[n]
        BY <3>1, <3>5 DEF Resolved
      <4> HIDE DEF p
      <4>4. IsDistinct(s)
        BY <3>1 DEF Resolved
      <4>5. QED
        BY <3>2, <3>3, <4>1, <4>2, <4>3, <4>4 DEF Resolved
    <3>8. QED
      BY <2>2, <3>7 DEF ChunkInv
  <2>7. CASE Open(s) \/ (EndChunk(s) /\ ChunkFits(s))
    <3>1. process'[s].phase = "STREAM"
      BY <2>3, <2>7 DEF Open, EndChunk, Idle, Process
    <3>2. QED
      BY <2>4, <3>1 DEF InChunk
  <2>8. CASE Raise(s)
    <3>1. process'[s].phase = "IDLE"
      BY <2>3, <2>8 DEF Raise, Idle
    <3>2. QED
      BY <2>4, <3>1 DEF InChunk
  <2>9. QED
    BY <1>1, <2>5, <2>6, <2>7, <2>8
    DEF Step, BeginChunk, DeadlockAbort, EndChunk, Close, Die, Raise
<1>2. ASSUME ChunkInv, UNCHANGED vars
      PROVE  ChunkInv'
  <2>1. /\ call' = call /\ process' = process /\ items' = items
    BY <1>2 DEF vars
  <2>2. ASSUME NEW s \in Submitter, InChunk(s)'
        PROVE  Resolved(s)'
    <3>1. Entries(s)' = Entries(s) /\ IsDistinct(s)' = IsDistinct(s)
      BY <2>1, SameChunk
    <3>2. Resolved(s)
      BY <1>2, <2>1, <2>2 DEF ChunkInv, InChunk
    <3>3. QED
      BY <2>1, <3>1, <3>2 DEF Resolved
  <2>3. QED
    BY <2>2 DEF ChunkInv
<1>3. QED
  BY <1>1, <1>2 DEF Next

-----------------------------------------------------------------------------
(***************************************************************************)
(* Members and items.                                                      *)
(***************************************************************************)

OneToOne(r) == \A m, n \in members[r] : m[1] = n[1] <=> m[2] = n[2]

MemberInv(r) ==
  /\ OneToOne(r)
  /\ \A m \in members[r] :
       /\ items[m[2]] # None
       /\ declared[items[m[2]].origin].provenance = declared[r].provenance

ItemInv(w) ==
  items[w] # None =>
    /\ \E m \in members[items[w].origin] : m[2] = w
    /\ declared[items[w].origin] # None

TablesInv ==
  /\ \A r \in Run : MemberInv(r)
  /\ \A w \in Work : ItemInv(w)
  /\ \A r \in Run : members[r] # {} => declared[r] # None

LEMMA TablesInit == Init => TablesInv
BY SubmissionAssumption DEF Init, TablesInv, MemberInv, OneToOne, ItemInv

\* What was there before a step, and is not written by it, is as it was.
LEMMA TablesKept ==
  ASSUME Typed, Typed', TablesInv, Adds
  PROVE  /\ \A r \in Run : members'[r] = members[r] => MemberInv(r)'
         /\ \A w \in Work : items'[w] = items[w] => ItemInv(w)'
         /\ \A r \in Run : members'[r] = members[r] =>
              (members'[r] # {} => declared'[r] # None)
<1>1. ASSUME NEW w \in Work, items[w] # None
      PROVE  /\ items'[w] = items[w] /\ items[w].origin \in Run
             /\ declared'[items[w].origin] = declared[items[w].origin]
             /\ declared[items[w].origin] # None
             /\ members[items[w].origin] \subseteq members'[items[w].origin]
  <2>1. items[w] \in Item
    BY <1>1 DEF Typed, TypeOK
  <2>2. items[w].origin \in Run
    BY <2>1 DEF Item
  <2>3. QED
    BY <1>1, <2>2 DEF Adds, TablesInv, ItemInv
<1>2. ASSUME NEW r \in Run, members'[r] = members[r]
      PROVE  MemberInv(r)'
  <2>1. ASSUME NEW m \in members[r]
        PROVE  /\ items'[m[2]] # None
               /\ declared'[items'[m[2]].origin].provenance = declared'[r].provenance
    <3>1. m[2] \in Work
      BY DEF Typed, TypeOK
    <3>2. /\ items[m[2]] # None
          /\ declared[items[m[2]].origin].provenance = declared[r].provenance
          /\ declared[r] # None
      BY DEF TablesInv, MemberInv
    <3>3. declared'[r] = declared[r]
      BY <3>2 DEF Adds
    <3>4. QED
      BY <1>1, <3>1, <3>2, <3>3
  <2>2. OneToOne(r)'
    BY <1>2 DEF TablesInv, MemberInv, OneToOne
  <2>3. QED
    BY <1>2, <2>1, <2>2 DEF MemberInv
<1>3. ASSUME NEW w \in Work, items'[w] = items[w]
      PROVE  ItemInv(w)'
  BY <1>1, <1>3 DEF TablesInv, ItemInv
<1>4. ASSUME NEW r \in Run, members'[r] = members[r], members'[r] # {}
      PROVE  declared'[r] # None
  BY <1>4 DEF TablesInv, Adds
<1>5. QED
  BY <1>2, <1>3, <1>4

LEMMA EndChunkTables ==
  ASSUME Typed, Typed', LockInv, ChunkInv, TablesInv, Adds,
         NEW s \in Submitter, EndChunk(s), ChunkFits(s),
         NEW r \in Run, r = RunOf(s)
  PROVE  TablesInv'
<1> DEFINE ins == process[s].inserted
<1>1. /\ Entries(s) \subseteq Nat \X Work /\ ins \subseteq Work
      /\ call[s] \in AnyCall
  BY CallType, ChunkType DEF Typed, TypeOK
<1>2. Resolved(s) /\ process[s].todo = <<>> /\ declared[r] = Declaration(s)
  BY DEF EndChunk, ChunkInv, LockInv, RunsAreOpen, InChunk
<1>3. /\ items' = [w \in Work |-> IF w \in ins THEN [origin |-> r, input |-> call[s].input]
                                  ELSE items[w]]
      /\ members'[r] = members[r] \cup Entries(s)
      /\ \A q \in Run \ {r} : members'[q] = members[q]
      /\ declared' = declared
  BY <1>1 DEF EndChunk, Typed, TypeOK
<1>4. declared[r] # None
  BY <1>2, DeclarationIsNotNone
<1>5. [origin |-> r, input |-> call[s].input] # None
  <2>1. [origin |-> r, input |-> call[s].input] \in Item
    BY <1>1 DEF Item
  <2>2. QED
    BY <2>1, SubmissionAssumption
<1>6. ASSUME NEW w \in Work
      PROVE  ItemInv(w)'
  <2>1. CASE w \in ins
    <3>1. PICK e \in Entries(s) : e[2] = w
      BY <1>2, <2>1 DEF Resolved
    <3>2. items'[w].origin = r /\ e \in members'[r] /\ declared'[r] # None
      BY <1>3, <1>4, <2>1, <3>1
    <3>3. QED
      BY <3>1, <3>2 DEF ItemInv
  <2>2. CASE w \notin ins
    BY <1>3, <2>2, TablesKept
  <2>3. QED
    BY <2>1, <2>2
<1>7. ASSUME NEW e \in Entries(s)
      PROVE  /\ items'[e[2]] # None
             /\ declared'[items'[e[2]].origin].provenance = declared'[r].provenance
  <2>1. e[2] \in Work
    BY <1>1
  <2>2. CASE e[2] \in ins
    BY <1>3, <1>5, <2>1, <2>2
  <2>3. CASE e[2] \notin ins
    <3>1. items'[e[2]] = items[e[2]]
      BY <1>3, <2>1, <2>3
    <3>2. items[e[2]] # None
      BY <1>2, <2>3 DEF Resolved
    <3>3. Reusable(s, e[2])
      BY <2>3 DEF ChunkFits
    <3>4. QED
      BY <1>3, <3>1, <3>2, <3>3 DEF Reusable
  <2>4. QED
    BY <2>2, <2>3
<1>8. OneToOne(r)'
  <2>1. IsDistinct(s)
    BY <1>2 DEF Resolved
  <2>2. \A e, f \in Entries(s) : e[1] = f[1] <=> e[2] = f[2]
    BY <2>1, Distinct
  <2>3. \A m \in members[r], e \in Entries(s) :
          m[1] = e[1] \/ m[2] = e[2] => m \in Entries(s)
    BY DEF ChunkFits, MembershipFits, Touching
  <2>4. \A m, n \in members[r] : m[1] = n[1] <=> m[2] = n[2]
    BY <1>1 DEF TablesInv, MemberInv, OneToOne
  <2>5. \A m \in members[r], e \in Entries(s) : m[1] = e[1] <=> m[2] = e[2]
    BY <2>2, <2>3
  <2>6. \A m, n \in members[r] \cup Entries(s) : m[1] = n[1] <=> m[2] = n[2]
    BY <2>2, <2>4, <2>5
  <2>7. QED
    BY <1>3, <2>6 DEF OneToOne
<1>9. MemberInv(r)'
  <2>1. ASSUME NEW m \in members[r]
        PROVE  /\ items'[m[2]] # None
               /\ declared'[items'[m[2]].origin].provenance = declared'[r].provenance
    <3>1. m[2] \in Work
      BY <1>1 DEF Typed, TypeOK
    <3>2. /\ items[m[2]] # None
          /\ declared[items[m[2]].origin].provenance = declared[r].provenance
      BY <1>1 DEF TablesInv, MemberInv
    <3>3. items'[m[2]] = items[m[2]]
      BY <3>1, <3>2 DEF Adds
    <3>4. QED
      BY <1>3, <3>2, <3>3
  <2>2. QED
    BY <1>3, <1>7, <1>8, <2>1 DEF MemberInv
<1>10. ASSUME NEW q \in Run \ {r}
       PROVE  MemberInv(q)' /\ (members'[q] # {} => declared'[q] # None)
  BY <1>3, TablesKept
<1>11. QED
  BY <1>3, <1>4, <1>6, <1>9, <1>10 DEF TablesInv

LEMMA TablesStep ==
  Typed /\ LockInv /\ ChunkInv /\ TablesInv /\ [Next]_vars => TablesInv'
<1> SUFFICES ASSUME Typed, LockInv, ChunkInv, TablesInv, [Next]_vars
             PROVE  TablesInv'
  OBVIOUS
<1>1. Typed' /\ Adds
  BY TypeStep, AddsStep
<1>2. ASSUME NEW s \in Submitter, EndChunk(s), ChunkFits(s)
      PROVE  TablesInv'
  BY <1>1, <1>2, CallType, EndChunkTables
<1>3. CASE UNCHANGED <<items, members>>
  BY <1>1, <1>3, TablesKept DEF TablesInv
<1>4. QED
  BY <1>2, <1>3
  DEF Next, vars, Step, Open, BeginChunk, InsertWork, DeadlockAbort, EndChunk, Close, Die

-----------------------------------------------------------------------------
(***************************************************************************)
(* Closed runs.                                                            *)
(***************************************************************************)

Originated(r) == {w \in Work : items[w] # None /\ items[w].origin = r}

ClosedInv(r) ==
  closed[r] # None =>
    /\ declared[r] # None
    /\ IsContiguous(r)
    /\ Cardinality(members[r]) = declared[r].count
    /\ declared[r].digest \in {NoDigest, Digest(r)}
    /\ closed[r].created = Cardinality(Originated(r))
    /\ closed[r].created + closed[r].reused = closed[r].count

\* The members of a run that were created by it are as many as the items that
\* it originated.
LEMMA CreatedAreOriginated ==
  ASSUME Typed, TablesInv, NEW r \in Run
  PROVE  Cardinality(Created(r)) = Cardinality(Originated(r))
<1> DEFINE work == [m \in Created(r) |-> m[2]]
<1>1. IsFiniteSet(Created(r))
  <2>1. IsFiniteSet(members[r]) /\ Created(r) \in SUBSET members[r]
    BY DEF Typed, Basics, Created
  <2>2. QED
    BY <2>1, FS_Subset
<1>2. \A m \in Created(r) : m \in Nat \X Work /\ m[2] \in Originated(r)
  BY DEF Created, Originated, TablesInv, MemberInv, Typed, TypeOK
<1>3. \A w \in Originated(r) : \E m \in Created(r) : m[2] = w
  BY DEF Created, Originated, TablesInv, ItemInv
<1>4. \A m, n \in Created(r) : m[2] = n[2] => m = n
  <2>1. \A m, n \in members[r] : m[2] = n[2] => m[1] = n[1]
    BY DEF TablesInv, MemberInv, OneToOne
  <2>2. \A m, n \in Nat \X Work : m[1] = n[1] /\ m[2] = n[2] => m = n
    OBVIOUS
  <2>3. QED
    BY <1>2, <2>1, <2>2 DEF Created
<1>5. work \in Bijection(Created(r), Originated(r))
  BY <1>2, <1>3, <1>4 DEF Bijection, Injection, IsInjective, Surjection
<1>6. ExistsBijection(Created(r), Originated(r))
  BY <1>5 DEF ExistsBijection
<1>7. QED
  BY <1>1, <1>6, FS_Bijection

\* A run that has been closed stays as it was closed.
LEMMA ClosedKept ==
  ASSUME Typed, Typed', TablesInv, TablesInv', Adds,
         NEW r \in Run, closed[r] # None, ClosedInv(r)
  PROVE  ClosedInv(r)'
<1>1. members'[r] = members[r] /\ closed'[r] = closed[r] /\ declared'[r] = declared[r]
  BY DEF Adds, ClosedInv
<1>2. \A m \in members[r] : m[2] \in Work /\ items[m[2]] # None /\ items'[m[2]] = items[m[2]]
  BY DEF Adds, TablesInv, MemberInv, Typed, TypeOK
<1>3. IsContiguous(r)' = IsContiguous(r)
  BY <1>1 DEF IsContiguous
<1>4. Digest(r)' = Digest(r)
  BY <1>1, <1>2 DEF Digest
<1>5. Originated(r)' = Originated(r)
  <2>1. ASSUME NEW w \in Work, items'[w] # None, items'[w].origin = r
        PROVE  items[w] # None /\ items'[w] = items[w]
    <3>1. \E m \in members'[r] : m[2] = w
      BY <2>1 DEF TablesInv, ItemInv
    <3>2. QED
      BY <1>1, <1>2, <3>1
  <2>2. \A w \in Work : items[w] # None => items'[w] = items[w]
    BY DEF Adds
  <2>3. QED
    BY <2>1, <2>2 DEF Originated
<1>6. QED
  BY <1>1, <1>3, <1>4, <1>5 DEF ClosedInv

\* A run is closed as it is declared, and its receipt counts what it created.
LEMMA CloseDeclared ==
  ASSUME Typed, LockInv, TablesInv, NEW s \in Submitter, Close(s),
         NEW r \in Run, r = RunOf(s), closed[r] = None, closed'[r] # None
  PROVE  ClosedInv(r)'
<1>1. IsDeclared(s) /\ process[s].phase = "STREAM"
  BY DEF Close, Typed, TypeOK
<1>2. closed'[r] = [count |-> Cardinality(members[r]),
                    created |-> Cardinality(Created(r)),
                    reused |-> Cardinality(members[r]) - Cardinality(Created(r))]
  BY DEF Close, Typed, TypeOK
<1>3. UNCHANGED <<declared, members, items>>
  BY DEF Close
<1>4. declared[r] = Declaration(s) /\ declared[r] # None
  BY <1>1, DeclarationIsNotNone DEF LockInv, RunsAreOpen
<1>5. declared[r].digest = call[s].digest
  BY <1>4 DEF Declaration, DeclarationOf
<1>6. /\ IsContiguous(r)
      /\ Cardinality(members[r]) = declared[r].count
      /\ declared[r].digest \in {NoDigest, Digest(r)}
  BY <1>1, <1>5 DEF IsDeclared
<1>7. /\ closed'[r].created = Cardinality(Originated(r))
      /\ closed'[r].created + closed'[r].reused = closed'[r].count
  BY <1>2, CreatedAreOriginated, ReceiptType
<1>8. /\ IsContiguous(r)' = IsContiguous(r) /\ Digest(r)' = Digest(r)
      /\ Originated(r)' = Originated(r)
  BY <1>3 DEF IsContiguous, Digest, Originated
<1>9. QED
  BY <1>3, <1>4, <1>6, <1>7, <1>8 DEF ClosedInv

LEMMA ClosedStep ==
  Typed /\ LockInv /\ ChunkInv /\ TablesInv /\ (\A r \in Run : ClosedInv(r)) /\ [Next]_vars
    => (\A r \in Run : ClosedInv(r))'
<1> SUFFICES ASSUME Typed, LockInv, ChunkInv, TablesInv, \A r \in Run : ClosedInv(r),
                    [Next]_vars, NEW r \in Run, closed'[r] # None
             PROVE  ClosedInv(r)'
  BY DEF ClosedInv
<1>1. Typed' /\ TablesInv' /\ Adds
  BY TypeStep, TablesStep, AddsStep
<1>2. CASE closed[r] # None
  BY <1>1, <1>2, ClosedKept
<1>3. CASE closed[r] = None
  <2>1. \E s \in Submitter : Close(s)
    BY <1>3
    DEF Next, vars, Step, Open, BeginChunk, InsertWork, DeadlockAbort, EndChunk, Die
  <2>2. PICK s \in Submitter : Close(s)
    BY <2>1
  <2>3. r = RunOf(s)
    BY <1>3, <2>2 DEF Close, Typed, TypeOK
  <2>4. QED
    BY <1>3, <2>2, <2>3, CloseDeclared
<1>4. QED
  BY <1>2, <1>3

RegistrationInv ==
  /\ Typed /\ LockInv /\ ChunkInv /\ TablesInv
  /\ \A r \in Run : ClosedInv(r)

LEMMA RegistrationInvariant == Spec => []RegistrationInv
<1>1. Init => RegistrationInv
  <2>1. Init => ChunkInv /\ \A r \in Run : ClosedInv(r)
    BY DEF Init, Idle, ChunkInv, InChunk, ClosedInv
  <2>2. QED
    BY <2>1, TypeInit, LockInit, TablesInit DEF RegistrationInv
<1>2. RegistrationInv /\ [Next]_vars => RegistrationInv'
  BY TypeStep, LockStep, ChunkStep, TablesStep, ClosedStep DEF RegistrationInv
<1>3. QED
  BY <1>1, <1>2, PTL DEF Spec

\* Whoever else has written to a run, between or before the chunks of the call
\* that closes it, a closed run has the declared members, in order and once.
THEOREM ClosedRunsAreDeclared == Spec => []ClosedIsDeclared
<1>1. RegistrationInv => ClosedIsDeclared
  BY DEF RegistrationInv, ClosedIsDeclared, ClosedInv, TablesInv, MemberInv, OneToOne
<1>2. QED
  BY <1>1, RegistrationInvariant, PTL

\* Runs that race to create shared work agree on who created it: every item is
\* counted by one run as created, and reused under one provenance.
THEOREM WorkAccounted == Spec => []WorkIsAccountedFor
<1>1. RegistrationInv => WorkIsAccountedFor
  BY DEF RegistrationInv, WorkIsAccountedFor, ClosedInv, TablesInv, MemberInv, ItemInv,
         Originated
<1>2. QED
  BY <1>1, RegistrationInvariant, PTL

-----------------------------------------------------------------------------
(***************************************************************************)
(* Registration implements the registry of runs.                           *)
(***************************************************************************)

\* A chunk names entries of its call.
LEMMA EntriesAreListed ==
  ASSUME Typed, NEW s \in Submitter
  PROVE  Entries(s) \subseteq Listed
<1> DEFINE all == call[s].members
           from == process[s].next
           last == IF from + ChunkSize - 1 < Len(all)
                   THEN from + ChunkSize - 1 ELSE Len(all)
<1>1. all \in Seq(Nat \X Work) /\ Len(all) \in Nat /\ call[s] \in AnyCall
  BY CallType
<1>2. from \in 1..(Len(all) + 1)
  BY DEF Typed, TypeOK
<1>3. last \in Int /\ last <= Len(all) /\ from \in Int
  BY <1>1, <1>2, SubmissionAssumption
<1>4. \A i \in from..last : all[i] \in Listed
  <2>1. \A i \in from..last : i \in DOMAIN all
    BY <1>1, <1>2, <1>3
  <2>2. QED
    BY <1>1, <2>1 DEF Listed
<1>5. SubSeq(all, from, last) \in Seq(Listed)
  <2> HIDE DEF all, from, last
  <2>1. QED
    BY <1>3, <1>4, SubSeqProperties
<1>6. Chunk(s) = SubSeq(all, from, last)
  BY DEF Chunk
<1>7. \A n \in DOMAIN Chunk(s) : Chunk(s)[n] \in Listed
  <2> HIDE DEF all, from, last
  <2>1. QED
    BY <1>5, <1>6
<1>8. QED
  BY <1>7 DEF Entries

\* The registry counts as the submission does.
LEMMA SameCount ==
  ASSUME NEW S
  PROVE  Registry!Cardinality(S) = Cardinality(S)
BY DEF Registry!Cardinality, Cardinality

LEMMA RegistryInit == Init => Registry!Init
BY DEF Init, Registry!Init

\* The first opening of a run declares it, and the others find it declared.
LEMMA OpenDeclares ==
  ASSUME RegistrationInv, NEW s \in Submitter, Open(s)
  PROVE  Registry!Next \/ UNCHANGED Registry!registry
<1> DEFINE r == RunOf(s)
<1>1. r \in Run /\ Declaration(s) \in Declarations
  BY CallType DEF RegistrationInv, Declaration, Declarations
<1>2. CASE declared[r] = None
  <2>1. Registry!Declare(r, Declaration(s))
    BY <1>2 DEF Open, Registry!Declare
  <2>2. QED
    BY <1>1, <2>1 DEF Registry!Next
<1>3. CASE declared[r] = Declaration(s)
  <2>1. declared' = declared
    BY <1>1, <1>3 DEF Open, RegistrationInv, Typed, TypeOK
  <2>2. QED
    BY <2>1 DEF Open, Registry!registry
<1>4. QED
  BY <1>2, <1>3 DEF Open

\* A chunk that commits registers those of its entries that are not members.
LEMMA ChunkRegisters ==
  ASSUME RegistrationInv, RegistrationInv', NEW s \in Submitter, EndChunk(s), ChunkFits(s)
  PROVE  Registry!Next
<1> DEFINE r == RunOf(s)
           input == call[s].input
           ins == process[s].inserted
           new == Entries(s) \ members[r]
<1>1. /\ r \in Run /\ call[s] \in AnyCall /\ input \in Inputs
      /\ Entries(s) \subseteq Nat \X Work /\ ins \subseteq Work
  BY CallType, ChunkType DEF RegistrationInv, Typed, TypeOK, Inputs
<1>2. new \in SUBSET Listed
  BY EntriesAreListed DEF RegistrationInv
<1>3. InChunk(s) /\ process[s].todo = <<>> /\ Resolved(s)
  BY DEF EndChunk, RegistrationInv, ChunkInv
<1>4. declared[r] # None /\ closed[r] = None
  <2>1. declared[r] = Declaration(s) /\ closed[r] = None
    BY <1>3 DEF InChunk, RegistrationInv, LockInv, RunsAreOpen
  <2>2. QED
    BY <2>1, DeclarationIsNotNone DEF RegistrationInv
<1>5. /\ members' = [members EXCEPT ![r] = @ \cup Entries(s)]
      /\ items' = [w \in Work |-> IF w \in ins THEN [origin |-> r, input |-> input]
                                  ELSE items[w]]
      /\ UNCHANGED <<declared, closed>>
  BY DEF EndChunk
<1>6. members[r] \cup Entries(s) = members[r] \cup new
  OBVIOUS
<1>7. new \cap members[r] = {} /\ Registry!OneToOne(members[r] \cup new)
  <2>1. members'[r] = members[r] \cup new
    BY <1>1, <1>5, <1>6 DEF RegistrationInv, Typed, TypeOK
  <2>2. \A m, n \in members'[r] : m[1] = n[1] <=> m[2] = n[2]
    BY <1>1 DEF RegistrationInv, TablesInv, MemberInv, OneToOne
  <2>3. QED
    BY <2>1, <2>2 DEF Registry!OneToOne
<1>8. ASSUME NEW m \in new
      PROVE  Registry!Shareable(r, input, m[2])
  <2>1. CASE m[2] \in ins
    BY <2>1 DEF RegistrationInv, LockInv, KeysAreApart, Registry!Shareable
  <2>2. CASE m[2] \notin ins
    BY <2>2 DEF ChunkFits, Reusable, Registry!Shareable
  <2>3. QED
    BY <2>1, <2>2
<1>9. ASSUME NEW w \in Work
      PROVE  w \in ins <=> items[w] = None /\ \E m \in new : m[2] = w
  <2>1. ASSUME w \in ins
        PROVE  items[w] = None /\ \E m \in new : m[2] = w
    <3>1. items[w] = None
      BY <2>1 DEF RegistrationInv, LockInv, KeysAreApart
    <3>2. PICK m \in Entries(s) : m[2] = w
      BY <1>3, <2>1 DEF Resolved
    <3>3. m \notin members[r]
      BY <1>1, <3>1, <3>2 DEF RegistrationInv, TablesInv, MemberInv
    <3>4. QED
      BY <3>1, <3>2, <3>3
  <2>2. ASSUME items[w] = None, NEW m \in new, m[2] = w
        PROVE  w \in ins
    BY <1>3, <2>2 DEF Resolved
  <2>3. QED
    BY <2>1, <2>2
<1>10. items' = [w \in Work |->
         IF items[w] = None /\ \E m \in new : m[2] = w
         THEN [origin |-> r, input |-> input] ELSE items[w]]
  BY <1>5, <1>9
<1>11. members' = [members EXCEPT ![r] = @ \cup new]
  BY <1>5, <1>6
<1>12. Registry!Register(r, input, new)
  <2> HIDE DEF r, input, new
  <2>1. QED
    BY <1>4, <1>5, <1>7, <1>8, <1>10, <1>11 DEF Registry!Register
<1>13. QED
  <2> HIDE DEF r, input, new
  <2>1. QED
    BY <1>1, <1>2, <1>12 DEF Registry!Next

\* A run is closed with the members that its declaration counts.
LEMMA CloseCloses ==
  ASSUME RegistrationInv, NEW s \in Submitter, Close(s)
  PROVE  Registry!Next \/ UNCHANGED Registry!registry
<1> DEFINE r == RunOf(s)
<1>1. r \in Run /\ process[s].phase = "STREAM" /\ UNCHANGED <<declared, members, items>>
  BY CallType DEF RegistrationInv, Close
<1>2. CASE closed[r] # None \/ ~IsDeclared(s)
  BY <1>1, <1>2 DEF Close, Registry!registry
<1>3. CASE closed[r] = None /\ IsDeclared(s)
  <2>1. declared[r] = Declaration(s) /\ declared[r] # None
    BY <1>1, DeclarationIsNotNone DEF RegistrationInv, LockInv, RunsAreOpen
  <2>2. /\ {m[1] : m \in members[r]} = 0..(declared[r].count - 1)
        /\ Cardinality(members[r]) = declared[r].count
    BY <1>3 DEF IsDeclared, IsContiguous
  <2>3. Registry!Digest(r) = Digest(r) /\ Registry!Created(r) = Created(r)
    BY DEF Registry!Digest, Digest, Registry!Created, Created
  <2>4. declared[r].digest \in {NoDigest, Digest(r)}
    BY <1>3, <2>1 DEF IsDeclared, Declaration, DeclarationOf
  <2>5. Cardinality(members[r] \ Created(r)) = Cardinality(members[r]) - Cardinality(Created(r))
    <3>1. /\ IsFiniteSet(members[r]) /\ Created(r) \subseteq members[r]
          /\ members[r] \cap Created(r) = Created(r)
      BY <1>1 DEF RegistrationInv, Typed, Basics, Created
    <3>2. QED
      BY <3>1, FS_Difference
  <2>6. closed' = [closed EXCEPT ![r] =
          [count |-> declared[r].count,
           created |-> Cardinality(Created(r)),
           reused |-> Cardinality(members[r] \ Created(r))]]
    BY <1>3, <2>2, <2>5 DEF Close
  <2>7. Registry!Close(r)
    <3> HIDE DEF r
    <3>1. QED
      BY <1>1, <1>3, <2>1, <2>2, <2>3, <2>4, <2>6, SameCount DEF Registry!Close
  <2>8. QED
    BY <1>1, <2>7 DEF Registry!Next
<1>4. QED
  BY <1>2, <1>3

\* Seen from the tables, any number of submitters that race, wait for keys,
\* deadlock, die and replay take the single steps of a registry, which declares
\* a run once, adds members together with their items, and closes it.
THEOREM RegistrationImplementsRegistry == Spec => ImplementsRegistry
<1>1. Init => Registry!Init
  BY RegistryInit
<1>2. ASSUME RegistrationInv, RegistrationInv', [Next]_vars
      PROVE  [Registry!Next]_(Registry!registry)
  <2>1. CASE \E s \in Submitter : Open(s)
    BY <1>2, <2>1, OpenDeclares
  <2>2. CASE \E s \in Submitter : EndChunk(s) /\ ChunkFits(s)
    BY <1>2, <2>2, ChunkRegisters
  <2>3. CASE \E s \in Submitter : Close(s)
    BY <1>2, <2>3, CloseCloses
  <2>4. CASE UNCHANGED <<declared, members, closed, items>>
    BY <2>4 DEF Registry!registry
  <2>5. QED
    BY <1>2, <2>1, <2>2, <2>3, <2>4
    DEF Next, vars, Step, BeginChunk, InsertWork, DeadlockAbort, EndChunk, Die
<1>3. QED
  BY <1>1, <1>2, RegistrationInvariant, PTL DEF Spec, ImplementsRegistry, Registry!Spec

-----------------------------------------------------------------------------
(***************************************************************************)
(* Calls that list shared work in one order.                               *)
(***************************************************************************)

LEMMA LeastNumber ==
  ASSUME NEW S, S \subseteq Nat, S # {}
  PROVE  \E n \in S : \A m \in S : n <= m
<1>1. PICK n \in S : \A m \in S : <<m, n>> \notin OpToRel(<, Nat)
  BY WFMin, NatLessThanWellFounded, Zenon
<1>2. \A m \in S : ~(m < n)
  BY <1>1, Zenon DEF OpToRel
<1>3. QED
  BY <1>2

\* There is an order of the works that the members of every call follow.
InOrder(Key) ==
  \A c \in AnyCall : \A m, n \in DOMAIN c.members :
    m < n => Key[c.members[m][2]] < Key[c.members[n][2]]

\* What is still to insert ascends, from above what has been inserted.
Ascends(Key, s) ==
  LET p == process[s] IN
  /\ \A m, n \in DOMAIN p.todo : m < n => Key[p.todo[m]] < Key[p.todo[n]]
  /\ \A w \in p.inserted : \A n \in DOMAIN p.todo : Key[w] < Key[p.todo[n]]

Ascending(Key) == \A s \in Submitter : Ascends(Key, s)

LEMMA ChunkAscends ==
  ASSUME Typed, NEW s \in Submitter, NEW Key \in [Work -> Nat], InOrder(Key)
  PROVE  \A m, n \in DOMAIN Works(s) : m < n => Key[Works(s)[m]] < Key[Works(s)[n]]
<1> DEFINE all == call[s].members
           from == process[s].next
           last == IF from + ChunkSize - 1 < Len(all)
                   THEN from + ChunkSize - 1 ELSE Len(all)
<1>1. all \in Seq(Nat \X Work) /\ Len(all) \in Nat /\ call[s] \in AnyCall
  BY CallType
<1>2. from \in 1..(Len(all) + 1)
  BY DEF Typed, TypeOK
<1>3. last \in Int /\ last <= Len(all) /\ from \in Int /\ 1 <= from
  BY <1>1, <1>2, SubmissionAssumption
<1>4. DOMAIN all = 1..Len(all)
  BY <1>1
<1>5. \A m, n \in DOMAIN all : m < n => Key[all[m][2]] < Key[all[n][2]]
  BY <1>1 DEF InOrder
<1>6. Chunk(s) = SubSeq(all, from, last)
  BY DEF Chunk
<1> HIDE DEF all, from, last
<1>7. \A i \in from..last : all[i] \in Nat \X Work
  BY <1>1, <1>3, <1>4
<1>8. /\ DOMAIN Chunk(s) = 1..Len(Chunk(s))
      /\ Len(Chunk(s)) = IF from <= last THEN last - from + 1 ELSE 0
      /\ \A n \in 1..(last - from + 1) : Chunk(s)[n] = all[from + n - 1]
  BY <1>3, <1>6, <1>7, SubSeqProperties
<1>9. SUFFICES ASSUME NEW m \in DOMAIN Works(s), NEW n \in DOMAIN Works(s), m < n
               PROVE  Key[Works(s)[m]] < Key[Works(s)[n]]
  OBVIOUS
<1>10. m \in 1..(last - from + 1) /\ n \in 1..(last - from + 1)
  BY <1>3, <1>8 DEF Works
<1>11. Works(s)[m] = all[from + m - 1][2] /\ Works(s)[n] = all[from + n - 1][2]
  BY <1>8, <1>10 DEF Works
<1>12. /\ from + m - 1 \in DOMAIN all /\ from + n - 1 \in DOMAIN all
       /\ from + m - 1 < from + n - 1
  BY <1>3, <1>4, <1>9, <1>10
<1>13. QED
  BY <1>5, <1>11, <1>12

LEMMA AscendingStep ==
  ASSUME NEW Key \in [Work -> Nat], InOrder(Key)
  PROVE  Typed /\ Ascending(Key) /\ [Next]_vars => Ascending(Key)'
<1>1. ASSUME Typed, Ascending(Key), NEW s \in Submitter, Step(s) \/ Die(s)
      PROVE  Ascending(Key)'
  <2>1. \A t \in Submitter \ {s} : process'[t] = process[t]
    BY <1>1, Others
  <2>2. process \in [Submitter -> Process]
    BY <1>1 DEF Typed, TypeOK, Process
  <2>3. Ascends(Key, s)'
    <3>1. CASE process'[s].todo = <<>>
      BY <3>1 DEF Ascends
    <3>2. CASE Open(s)
      <4>1. process'[s].todo = <<>>
        BY <1>1, <2>2, <3>2 DEF Open, Typed, TypeOK, InChunk, Process
      <4>2. QED
        BY <3>1, <4>1
    <3>3. CASE BeginChunk(s) /\ MayRegister(s)
      <4>1. process'[s].todo = Works(s) /\ process'[s].inserted = process[s].inserted
        BY <2>2, <3>3 DEF BeginChunk, Works, Process
      <4>2. process[s].inserted = {}
        BY <1>1, <3>3 DEF BeginChunk, Typed, TypeOK, InChunk
      <4>3. QED
        BY <1>1, <4>1, <4>2, ChunkAscends DEF Ascends
    <3>4. CASE InsertWork(s)
      <4> DEFINE p == process[s]
      <4>1. p.todo \in Seq(Work) /\ p.todo # <<>> /\ p.inserted \subseteq Work
        BY <2>2, <3>4 DEF InsertWork, Process
      <4>2. /\ process'[s].todo = Tail(p.todo)
            /\ process'[s].inserted \subseteq p.inserted \cup {p.todo[1]}
        BY <2>2, <3>4, <4>1 DEF InsertWork, Process
      <4>3. /\ 1 \in DOMAIN p.todo
            /\ \A n \in DOMAIN Tail(p.todo) : /\ n + 1 \in DOMAIN p.todo /\ n + 1 > 1
                                              /\ Tail(p.todo)[n] = p.todo[n + 1]
            /\ DOMAIN Tail(p.todo) \subseteq Nat
        <5> HIDE DEF p
        <5>1. QED
          BY <4>1, HeadTailProperties
      <4>4. /\ \A m, n \in DOMAIN p.todo : m < n => Key[p.todo[m]] < Key[p.todo[n]]
            /\ \A w \in p.inserted : \A n \in DOMAIN p.todo : Key[w] < Key[p.todo[n]]
        BY <1>1 DEF Ascending, Ascends
      <4> HIDE DEF p
      <4>5. \A m, n \in DOMAIN Tail(p.todo) :
              m < n => Key[Tail(p.todo)[m]] < Key[Tail(p.todo)[n]]
        <5>1. ASSUME NEW m \in DOMAIN Tail(p.todo), NEW n \in DOMAIN Tail(p.todo), m < n
              PROVE  Key[Tail(p.todo)[m]] < Key[Tail(p.todo)[n]]
          <6>1. /\ m + 1 \in DOMAIN p.todo /\ n + 1 \in DOMAIN p.todo
                /\ Tail(p.todo)[m] = p.todo[m + 1] /\ Tail(p.todo)[n] = p.todo[n + 1]
            BY <4>3
          <6>2. m + 1 < n + 1
            BY <4>3, <5>1
          <6>3. QED
            BY <4>4, <6>1, <6>2
        <5>2. QED
          BY <5>1
      <4>6. \A w \in p.inserted \cup {p.todo[1]} : \A n \in DOMAIN Tail(p.todo) :
              Key[w] < Key[Tail(p.todo)[n]]
        BY <4>3, <4>4
      <4>7. QED
        BY <4>2, <4>5, <4>6 DEF Ascends
    <3>5. CASE (EndChunk(s) /\ ChunkFits(s)) \/ Raise(s)
      <4>1. Idle.todo = <<>> /\ \A n : [Idle EXCEPT !.phase = "STREAM", !.next = n].todo = <<>>
        BY DEF Idle
      <4>2. process'[s].todo = <<>>
        <5>1. CASE EndChunk(s) /\ ChunkFits(s)
          <6>1. process'[s] = [Idle EXCEPT !.phase = "STREAM",
                                           !.next = process[s].next + Len(Chunk(s))]
            BY <2>2, <5>1 DEF EndChunk
          <6>2. QED
            BY <4>1, <6>1
        <5>2. CASE Raise(s)
          <6>1. process'[s] = Idle
            BY <2>2, <5>2 DEF Raise
          <6>2. QED
            BY <4>1, <6>1
        <5>3. QED
          BY <3>5, <5>1, <5>2
      <4>3. QED
        BY <3>1, <4>2
    <3>6. QED
      BY <1>1, <3>2, <3>3, <3>4, <3>5
      DEF Step, BeginChunk, DeadlockAbort, EndChunk, Close, Die, Raise
  <2>4. \A t \in Submitter \ {s} : Ascends(Key, t)'
    BY <1>1, <2>1 DEF Ascending, Ascends
  <2>5. QED
    BY <2>3, <2>4 DEF Ascending
<1>2. ASSUME Ascending(Key), UNCHANGED vars
      PROVE  Ascending(Key)'
  BY <1>2 DEF vars, Ascending, Ascends
<1>3. QED
  BY <1>1, <1>2 DEF Next

Waited(S) == \A t \in S : \E u \in S \ {t} : WaitsFor(t, u)

\* In a circle, the one whose next key is the least is waited for by nobody, so
\* the others are a circle too; a smallest circle there is not.
LEMMA NoCircle ==
  ASSUME Typed, NEW Key \in [Work -> Nat], Ascending(Key), IsFiniteSet(Submitter),
         NEW S \in (SUBSET Submitter) \ {{}}
  PROVE  ~Waited(S)
<1> DEFINE Circles == {C \in (SUBSET Submitter) \ {{}} : Waited(C)}
           next(t) == Key[Head(process[t].todo)]
<1>1. \A C \in SUBSET Submitter : IsFiniteSet(C) /\ Cardinality(C) \in Nat
  BY FS_Subset, FS_CardinalityType
<1>2. SUFFICES ASSUME Waited(S) PROVE FALSE
  OBVIOUS
<1>3. PICK C \in Circles : \A D \in Circles : Cardinality(C) <= Cardinality(D)
  <2>1. {Cardinality(D) : D \in Circles} \subseteq Nat /\ S \in Circles
    BY <1>1, <1>2
  <2>2. PICK n \in {Cardinality(D) : D \in Circles} :
          \A m \in {Cardinality(D) : D \in Circles} : n <= m
    <3> HIDE DEF Circles
    <3>1. {Cardinality(D) : D \in Circles} # {}
      BY <2>1
    <3>2. QED
      BY <2>1, <3>1, LeastNumber
  <2>3. QED
    BY <2>2
<1>4. ASSUME NEW t \in C, NEW u \in C, WaitsFor(t, u)
      PROVE  next(t) \in Nat /\ next(u) \in Nat /\ next(t) < next(u)
  <2>1. t \in Submitter /\ u \in Submitter
    BY <1>3
  <2>2. process[t].todo \in Seq(Work) /\ process[u].todo \in Seq(Work)
    BY <2>1 DEF Typed, TypeOK
  <2>3. process[t].todo # <<>> /\ process[u].todo # <<>>
    BY <1>3, <1>4 DEF Waited, WaitsFor
  <2>4. /\ Head(process[t].todo) \in Work /\ Head(process[u].todo) \in Work
        /\ Head(process[u].todo) = process[u].todo[1] /\ 1 \in DOMAIN process[u].todo
    BY <2>2, <2>3, HeadTailProperties
  <2>5. Head(process[t].todo) \in process[u].inserted
    BY <1>4 DEF WaitsFor
  <2>6. next(t) < next(u)
    BY <2>1, <2>4, <2>5 DEF Ascending, Ascends
  <2>7. QED
    BY <2>4, <2>6
<1>5. \A t \in C : next(t) \in Nat
  BY <1>3, <1>4 DEF Waited
<1>6. PICK t \in C : \A u \in C : next(t) <= next(u)
  <2> DEFINE N == {next(u) : u \in C}
  <2>1. N \subseteq Nat /\ N # {}
    BY <1>3, <1>5
  <2>2. PICK n \in N : \A m \in N : n <= m
    <3> HIDE DEF N
    <3>1. QED
      BY <2>1, LeastNumber
  <2>3. QED
    BY <2>2
<1>7. \A u \in C : ~WaitsFor(u, t)
  BY <1>4, <1>6
<1>8. C \ {t} \in Circles
  <2>1. C \ {t} # {}
    BY <1>3 DEF Waited
  <2>2. Waited(C \ {t})
    BY <1>3, <1>7 DEF Waited
  <2>3. QED
    BY <1>3, <2>1, <2>2
<1>9. Cardinality(C \ {t}) = Cardinality(C) - 1 /\ Cardinality(C) \in Nat
  BY <1>1, <1>3, FS_RemoveElement
<1>10. Cardinality(C) <= Cardinality(C \ {t})
  BY <1>3, <1>8
<1>11. QED
  BY <1>9, <1>10

\* Submitters whose calls list the works that they share in one order, whatever
\* that order is, do not wait for each other's keys in a circle.
THEOREM OrderedCallsDoNotDeadlock ==
  ASSUME IsFiniteSet(Submitter), NEW Key \in [Work -> Nat], InOrder(Key)
  PROVE  Spec => [](\A S \in (SUBSET Submitter) \ {{}} : ~Waited(S))
<1>1. Init => Ascending(Key)
  BY DEF Init, Idle, Ascending, Ascends
<1>2. Typed /\ Ascending(Key) /\ [Next]_vars => Ascending(Key)'
  BY AscendingStep
<1>3. Typed /\ Ascending(Key) => \A S \in (SUBSET Submitter) \ {{}} : ~Waited(S)
  BY NoCircle
<1>4. QED
  BY <1>1, <1>2, <1>3, AlwaysTyped, PTL DEF Spec

=============================================================================
