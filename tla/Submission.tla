----------------------------- MODULE Submission -----------------------------
(***************************************************************************)
(* Registration of runs: a submitter opens or replays a run, streams its   *)
(* members in chunks of one transaction each, and closes the run when what *)
(* is persisted is what was declared. Submitters of one run, and of runs   *)
(* that share work, do so at the same time; they die, and start over.      *)
(*                                                                         *)
(* A chunk is one transaction under the lock of its run's row. Its insert  *)
(* of work items waits, item by item, for other transactions that have     *)
(* inserted the same key, so it is a step for each item; all that follows  *)
(* reads immutable rows, or rows under the lock, and is one step with the  *)
(* commit. The close is one step under the same lock.                      *)
(*                                                                         *)
(* Simplifications: a digest is what it digests; all members of a call     *)
(* carry one input, which stands for the immutable facts of an item; the   *)
(* priorities that a chunk synchronises are left out; the first execution  *)
(* of an item, inserted with it, is Submit in StageLedger.                 *)
(***************************************************************************)
EXTENDS Integers, Sequences, FiniteSets

CONSTANTS
  Submitter,  \* processes that call submit
  Run,
  Work,       \* work keys of the campaign
  Calls,      \* submitter -> the arguments it may have been given
  NoDigest,   \* a declaration without a manifest
  None,       \* no declaration, no item, no receipt
  ChunkSize,
  MaxFault    \* bound: deaths of a submitter

AnyCall == UNION {Calls[s] : s \in Submitter}
DeclarationOf(c) == [provenance |-> c.provenance, count |-> c.count, digest |-> c.digest]
Item == [origin : Run, input : {c.input : c \in AnyCall}]

ASSUME SubmissionAssumption ==
  /\ ChunkSize \in Nat \ {0}
  /\ MaxFault \in Nat
  /\ \A c \in AnyCall : c.run \in Run /\ c.members \in Seq(Nat \X Work)
  /\ None \notin Item \cup {DeclarationOf(c) : c \in AnyCall}

VARIABLES
  call,      \* submitter -> its arguments, the same whenever it starts over
  declared,  \* pipeline_runs: provenance, expected count and digest
  members,   \* run_memberships: run -> set of <<ordinal, work>>
  closed,    \* pipeline_runs: the facts of the closure
  items,     \* work_items: work -> origin run and input
  process,   \* submitter -> where it is, and its open transaction
  faults

vars == <<call, declared, members, closed, items, process, faults>>

Declaration(s) == DeclarationOf(call[s])

Idle == [phase |-> "IDLE", next |-> 1, todo |-> <<>>, inserted |-> {}]

Init ==
  /\ call \in [Submitter -> AnyCall]
  /\ \A s \in Submitter : call[s] \in Calls[s]
  /\ declared = [r \in Run |-> None]
  /\ members = [r \in Run |-> {}]
  /\ closed = [r \in Run |-> None]
  /\ items = [w \in Work |-> None]
  /\ process = [s \in Submitter |-> Idle]
  /\ faults = 0

RunOf(s) == call[s].run
InChunk(s) == process[s].phase = "CHUNK"
RowLocked(r) == \E s \in Submitter : InChunk(s) /\ RunOf(s) = r

\* Mutant: what a transaction inserted outlives it.
RaiseWithoutRollback(s) ==
  process' = [process EXCEPT ![s] = [Idle EXCEPT !.inserted = process[s].inserted]]

\* The call raises; its open transaction is rolled back.
Raise(s) == process' = [process EXCEPT ![s] = Idle]
-----------------------------------------------------------------------------
\* The run is inserted, or found with the same declaration; another one
\* raises and leaves nothing. A closed run ends the call with its receipt.
Open(s) ==
  /\ process[s].phase = "IDLE"
  /\ declared[RunOf(s)] \in {None, Declaration(s)}
  /\ closed[RunOf(s)] = None
  /\ declared' = [declared EXCEPT ![RunOf(s)] = Declaration(s)]
  /\ process' = [process EXCEPT ![s].phase = "STREAM"]
  /\ UNCHANGED <<call, members, closed, items, faults>>
-----------------------------------------------------------------------------
Chunk(s) ==
  LET from == process[s].next
      last == IF from + ChunkSize - 1 < Len(call[s].members)
              THEN from + ChunkSize - 1 ELSE Len(call[s].members)
  IN SubSeq(call[s].members, from, last)

Entries(s) == {Chunk(s)[n] : n \in DOMAIN Chunk(s)}

\* A chunk names no work and no ordinal twice.
IsDistinct(s) ==
  /\ Cardinality({e[1] : e \in Entries(s)}) = Len(Chunk(s))
  /\ Cardinality({e[2] : e \in Entries(s)}) = Len(Chunk(s))

\* Mutant: only the test at the start of the call sees that the run is closed.
MayRegisterClosed(s) == IsDistinct(s)

MayRegister(s) == IsDistinct(s) /\ closed[RunOf(s)] = None

\* The row of the run is locked, and looked at again.
BeginChunk(s) ==
  /\ process[s].phase = "STREAM"
  /\ process[s].next <= Len(call[s].members)
  /\ ~RowLocked(RunOf(s))
  /\ IF MayRegister(s)
     THEN process' = [process EXCEPT ![s].phase = "CHUNK",
            ![s].todo = [n \in DOMAIN Chunk(s) |-> Chunk(s)[n][2]]]
     ELSE Raise(s)
  /\ UNCHANGED <<call, declared, members, closed, items, faults>>

WaitsFor(s, t) ==
  /\ InChunk(s) /\ process[s].todo # <<>>
  /\ Head(process[s].todo) \in process[t].inserted

\* INSERT .. ON CONFLICT DO NOTHING, in the order of the chunk.
InsertWork(s) ==
  /\ InChunk(s) /\ process[s].todo # <<>>
  /\ \A t \in Submitter \ {s} : ~WaitsFor(s, t)
  /\ process' = [process EXCEPT
       ![s].todo = Tail(@),
       ![s].inserted = IF items[Head(process[s].todo)] = None
                       THEN @ \cup {Head(process[s].todo)} ELSE @]
  /\ UNCHANGED <<call, declared, members, closed, items, faults>>

\* The database aborts a transaction of a circle that waits for itself.
DeadlockAbort(s) ==
  /\ \E S \in SUBSET Submitter :
       s \in S /\ \A t \in S : \E u \in S \ {t} : WaitsFor(t, u)
  /\ Raise(s)
  /\ UNCHANGED <<call, declared, members, closed, items, faults>>

\* Mutant: only the facts of a reused item are compared.
ReusableByFacts(s, w) == items[w].input = call[s].input

\* An item of before was created with the same facts, by a run with the same
\* pipeline, version and configuration.
Reusable(s, w) ==
  /\ items[w].input = call[s].input
  /\ declared[items[w].origin].provenance = declared[RunOf(s)].provenance

\* Mutant: a work that moves to another ordinal is not looked for.
TouchingOrdinals(s, pairs) == {m \in pairs : \E e \in Entries(s) : m[1] = e[1]}

Touching(s, pairs) ==
  {m \in pairs : \E e \in Entries(s) : m[1] = e[1] \/ m[2] = e[2]}

\* Mutant: members that were registered before are taken for a conflict.
MembershipFitsOnce(s) == Touching(s, members[RunOf(s)]) = {}

\* The members that share an ordinal or a work with the chunk are in it.
MembershipFits(s) == Touching(s, members[RunOf(s)]) \subseteq Entries(s)

ChunkFits(s) ==
  /\ \A e \in Entries(s) : e[2] \in process[s].inserted \/ Reusable(s, e[2])
  /\ MembershipFits(s)

EndChunk(s) ==
  /\ InChunk(s) /\ process[s].todo = <<>>
  /\ IF ChunkFits(s)
     THEN /\ items' = [w \in Work |->
               IF w \in process[s].inserted
               THEN [origin |-> RunOf(s), input |-> call[s].input] ELSE items[w]]
          /\ members' = [members EXCEPT ![RunOf(s)] = @ \cup Entries(s)]
          /\ process' = [process EXCEPT ![s] =
               [Idle EXCEPT !.phase = "STREAM", !.next = process[s].next + Len(Chunk(s))]]
     ELSE Raise(s) /\ UNCHANGED <<items, members>>
  /\ UNCHANGED <<call, declared, closed, faults>>
-----------------------------------------------------------------------------
IsContiguous(r) == {m[1] : m \in members[r]} = 0..(Cardinality(members[r]) - 1)

Digest(r) == {<<m[1], m[2], items[m[2]].input>> : m \in members[r]}

\* Mutant: the members are counted and not compared with the digest.
IsDeclaredCount(s) ==
  /\ IsContiguous(RunOf(s))
  /\ Cardinality(members[RunOf(s)]) = declared[RunOf(s)].count

\* The persisted members are contiguous, as many as declared, and digest to
\* what the caller declares.
IsDeclared(s) ==
  /\ IsContiguous(RunOf(s))
  /\ Cardinality(members[RunOf(s)]) = declared[RunOf(s)].count
  /\ call[s].digest \in {NoDigest, Digest(RunOf(s))}

Created(r) == {m \in members[r] : items[m[2]].origin = r}

Close(s) ==
  LET r == RunOf(s) IN
  /\ process[s].phase = "STREAM"
  /\ process[s].next > Len(call[s].members)
  /\ ~RowLocked(r)
  /\ closed' = IF closed[r] # None \/ ~IsDeclared(s) THEN closed
               ELSE [closed EXCEPT ![r] =
                       [count |-> Cardinality(members[r]),
                        created |-> Cardinality(Created(r)),
                        reused |-> Cardinality(members[r]) - Cardinality(Created(r))]]
  /\ process' = [process EXCEPT ![s] = Idle]
  /\ UNCHANGED <<call, declared, members, items, faults>>
-----------------------------------------------------------------------------
\* The process dies, or its stream of members raises.
Die(s) ==
  /\ process[s].phase # "IDLE"
  /\ Raise(s)
  /\ faults < MaxFault /\ faults' = faults + 1
  /\ UNCHANGED <<call, declared, members, closed, items>>

Step(s) ==
  \/ Open(s) \/ BeginChunk(s) \/ InsertWork(s) \/ DeadlockAbort(s)
  \/ EndChunk(s) \/ Close(s)

Next == \E s \in Submitter : Step(s) \/ Die(s)

InsertKey(s, w) == InsertWork(s) /\ Head(process[s].todo) = w

\* Every call is made again until its run is closed. The database wakes those
\* that wait for a row or for a key: none of them is passed over for ever.
Fairness ==
  \A s \in Submitter :
    SF_vars(Step(s)) /\ (\A w \in Work : SF_vars(InsertKey(s, w)))

Spec == Init /\ [][Next]_vars /\ Fairness
-----------------------------------------------------------------------------
(***************************************************************************)
(* Properties.                                                             *)
(***************************************************************************)

Receipt == [count : Nat, created : Nat, reused : Nat]

\* Every variable keeps its type, and a process holds uncommitted items only
\* while it is in the transaction of a chunk.
TypeOK ==
  /\ declared \in [Run -> {None} \cup {Declaration(s) : s \in Submitter}]
  /\ members \in [Run -> SUBSET (Nat \X Work)]
  /\ closed \in [Run -> {None} \cup Receipt]
  /\ items \in [Work -> {None} \cup Item]
  /\ faults \in 0..MaxFault
  /\ process \in [Submitter -> [phase : {"IDLE", "STREAM", "CHUNK"}, next : Nat,
                                todo : Seq(Work), inserted : SUBSET Work]]
  /\ \A s \in Submitter :
       /\ process[s].next \in 1..(Len(call[s].members) + 1)
       /\ ~InChunk(s) => process[s].inserted = {} /\ process[s].todo = <<>>

\* A closed run has what it declares, also when submitters with other members
\* have written to it before and between: contiguous ordinals, each for a work
\* of its own, the declared count and, with a manifest, the digested list.
ClosedIsDeclared ==
  \A r \in Run : closed[r] # None =>
    /\ IsContiguous(r)
    /\ \A m, n \in members[r] : m[1] = n[1] <=> m[2] = n[2]
    /\ Cardinality(members[r]) = declared[r].count
    /\ declared[r].digest \in {NoDigest, Digest(r)}

\* Every work item is a member of the run that created it, and a member of
\* other runs only with the provenance of that one. So each item is counted
\* as created by one run and as reused by all others, whichever of the
\* transactions that raced to create it came first, died or deadlocked.
WorkIsAccountedFor ==
  /\ \A w \in Work : items[w] # None => \E m \in members[items[w].origin] : m[2] = w
  /\ \A r \in Run : \A m \in members[r] :
       /\ items[m[2]] # None
       /\ declared[items[m[2]].origin].provenance = declared[r].provenance
  /\ \A r \in Run : closed[r] # None =>
       /\ closed[r].created = Cardinality({w \in Work : items[w] # None /\ items[w].origin = r})
       /\ closed[r].created + closed[r].reused = closed[r].count

\* Registration only adds: a declaration, an item and a membership stay as
\* they were accepted first, and nothing is added to a closed run.
RegistrationOnlyAdds ==
  [][/\ \A r \in Run : declared[r] # None => declared'[r] = declared[r]
     /\ \A w \in Work : items[w] # None => items'[w] = items[w]
     /\ \A r \in Run : members[r] \subseteq members'[r]
     /\ \A r \in Run : closed[r] # None =>
          closed'[r] = closed[r] /\ members'[r] = members[r]]_vars

\* Seen from the tables, submitters that insert key by key, wait, deadlock, die
\* and replay in any mixture are the single steps of the registry: members
\* appear together with the items they create and no others, each item once,
\* and a run is closed in the step that counts it.
Declarations == {DeclarationOf(c) : c \in AnyCall}
Inputs == {c.input : c \in AnyCall}
Listed == UNION {{c.members[n] : n \in DOMAIN c.members} : c \in AnyCall}
Registry == INSTANCE RunRegistry
  WITH Entry <- Listed, Input <- Inputs, Declarable <- Declarations
ImplementsRegistry == Registry!Spec

\* What is persisted does not contradict the call, and the call is complete.
Entry(s) == {call[s].members[n] : n \in DOMAIN call[s].members}
IsOpenTo(s) ==
  /\ declared[RunOf(s)] = Declaration(s)
  /\ call[s].digest = {<<e[1], e[2], call[s].input>> : e \in Entry(s)}
  /\ members[RunOf(s)] \subseteq Entry(s)
  /\ \A e \in Entry(s) : items[e[2]] = None \/ Reusable(s, e[2])

\* A registration that was interrupted, and may have been joined by others,
\* is completed by its replay: as long as nothing contradicts a complete call,
\* the run comes to be closed, through deaths, deadlocks and lost chunks.
RegistrationCompletes ==
  \A s \in Submitter : []<>(closed[RunOf(s)] # None \/ ~IsOpenTo(s))
=============================================================================
