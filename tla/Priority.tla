------------------------------- MODULE Priority -------------------------------
(***************************************************************************)
(* Changes of priority, cancellations and handoffs, as the transactions of *)
(* several statements they are, each statement locking the rows of         *)
(* stage_executions and work_items it meets: which orders they lock in,    *)
(* what they read before a lock and use after it, and what they can do to  *)
(* one another. A change is set_work_priority, or the part of a            *)
(* registration chunk that synchronises the items it reuses, one by one.   *)
(* Admission, the projection of a sweep and retry each lock one row and    *)
(* wait for nothing with it, so they are one step.                         *)
(*                                                                         *)
(* Locks. FOR UPDATE of a row; FOR UPDATE of an item; the KEY SHARE of the *)
(* item that its foreign key takes for an inserted execution, which other  *)
(* inserts share and FOR UPDATE excludes; and the key of an execution that *)
(* is inserted and not committed. Rows are visible to a statement as they  *)
(* were committed when it began, and a row that it had to wait for is      *)
(* looked at again (READ COMMITTED).                                       *)
(*                                                                         *)
(* Simplifications: execution ids are in the order of the stage indices;   *)
(* all clocks agree, so what a clock reading can be overtaken by is the    *)
(* stamp of a change that commits after it; joins and attempts are in      *)
(* StageLedger, and a workflow that a sweep found dead does not come back. *)
(***************************************************************************)
EXTENDS Integers, Sequences, FiniteSets

CONSTANTS
  Item,
  Last,       \* item -> its highest stage index
  Level,      \* priorities
  Caller,     \* processes that change priorities or cancel
  Cancel,     \* in a request, instead of a priority
  Requests,   \* caller -> the sequences of <<item, priority>> it may ask for
  None

Highest == CHOOSE n \in {Last[i] : i \in Item} : \A i \in Item : Last[i] <= n
Row == Item \X (0..Highest)

\* Stage indices have a bound. A request cancels one item, or gives priorities
\* to items that differ.
ASSUME PriorityAssumption ==
  /\ Last \in [Item -> Nat]
  /\ \E n \in {Last[i] : i \in Item} : \A i \in Item : Last[i] <= n
  /\ Cancel \notin Level /\ None \notin Level \cup Row
  /\ Caller \cap Row = {}
  /\ \A c \in Caller : \A q \in Requests[c] :
       /\ q \in Seq(Item \X (Level \cup {Cancel})) \ {<<>>}
       /\ \A n \in DOMAIN q : q[n][2] = Cancel => DOMAIN q = {n}
       /\ \A n, m \in DOMAIN q : q[n][1] = q[m][1] => n = m

VARIABLES
  state,     \* stage_executions.state, "ABSENT" before the insert
  priority,  \* stage_executions.priority
  wanted,    \* work_items.priority
  queued,    \* dbos workflow_status.priority of the workflow of an admitted row
  process,   \* caller -> its open transaction
  handoff    \* row -> the completion transaction of its current attempt

tables == <<state, priority, wanted, queued>>
vars == <<state, priority, wanted, queued, process, handoff>>

Nonterminal == {"READY", "ADMITTED", "FAILED"}
Open(i) == {r \in Row : r[1] = i /\ state[r] \in Nonterminal}
Above(r) == {r[1]} \X ((r[2] + 1)..Last[r[1]])

Idle == [phase |-> "IDLE", request |-> <<>>, due |-> {}, next |-> 1, todo |-> {},
         held |-> {}, items |-> {}, stamped |-> {}]
NoHandoff == [phase |-> "NONE", todo |-> {}, now |-> None, seen |-> None,
              written |-> {}, late |-> FALSE]

Init ==
  /\ state = [r \in Row |-> "ABSENT"]
  /\ priority = [r \in Row |-> None]
  /\ wanted = [i \in Item |-> None]
  /\ queued = [r \in Row |-> None]
  /\ process = [c \in Caller |-> Idle]
  /\ handoff = [r \in Row |-> NoHandoff]
-----------------------------------------------------------------------------
(***************************************************************************)
(* Locks: what a transaction holds and what it waits for.                  *)
(***************************************************************************)
ItemOf(c) == process[c].request[process[c].next][1]
Asked(c) == process[c].request[process[c].next][2]
NextRow(c) == CHOOSE r \in process[c].todo : \A s \in process[c].todo : r[2] <= s[2]
Locking(c) == process[c].phase \in {"BLOCK", "LOCK"} /\ process[c].todo # {}
AtItem(c) == process[c].phase = "BLOCK" /\ process[c].todo = {}

Inserting(h) == handoff[h].phase = "INSERT" /\ handoff[h].now # None
Written(h) == {e[1] : e \in handoff[h].written}
Added(h) == {s \in Written(h) : state[s] = "ABSENT"}

CallerHolds(c) ==
  ({"row"} \X process[c].held) \cup ({"item"} \X process[c].items)

HandoffHolds(h) ==
  IF handoff[h].phase # "INSERT" THEN {}
  ELSE ({"row"} \X ({h} \cup (Written(h) \ Added(h))))
         \cup ({"key"} \X Added(h))
         \cup (IF Added(h) = {} THEN {} ELSE {<<"share", h[1]>>})

\* Mutant: a change or a cancellation selects its executions without FOR UPDATE.
CallerWantsUnlocked(c) ==
  IF AtItem(c) THEN {<<"item", ItemOf(c)>>, <<"share", ItemOf(c)>>} ELSE {}

CallerWants(c) ==
  IF Locking(c) THEN {<<"row", NextRow(c)>>}
  ELSE IF AtItem(c) THEN {<<"item", ItemOf(c)>>, <<"share", ItemOf(c)>>}
  ELSE {}

\* Mutant: the execution that completes is read and not locked.
HandoffWantsUnlocked(h) ==
  IF ~Inserting(h) \/ state[handoff[h].now] # "ABSENT" THEN {}
  ELSE {<<"key", handoff[h].now>>, <<"item", h[1]>>}

\* The successor that is written next: a key to insert under a key share of
\* the item, or a row to update when it has another priority.
HandoffWants(h) ==
  IF handoff[h].phase = "BEGUN" THEN {<<"row", h>>}
  ELSE IF ~Inserting(h) THEN {}
  ELSE LET s == handoff[h].now IN
       IF state[s] = "ABSENT" THEN {<<"key", s>>, <<"item", s[1]>>}
       ELSE IF priority[s] = handoff[h].seen THEN {} ELSE {<<"row", s>>}

Holds(p) == IF p \in Caller THEN CallerHolds(p) ELSE HandoffHolds(p)
Wants(p) == IF p \in Caller THEN CallerWants(p) ELSE HandoffWants(p)

Process == Caller \cup {r \in Row : r[2] <= Last[r[1]]}
WaitsFor(p, q) == p # q /\ Wants(p) \cap Holds(q) # {}
Waits(p) == Wants(p) # {} /\ \E q \in Process : WaitsFor(p, q)
RowFree(r) == \A q \in Process : <<"row", r>> \notin Holds(q)
-----------------------------------------------------------------------------
(***************************************************************************)
(* A change of priority, or a cancellation.                                *)
(***************************************************************************)

\* A change first locks what is open, and then the item; a cancellation begins
\* with what a change does after that.
Enter(p, n) ==
  LET q == [p EXCEPT !.due = @ \ {n}, !.next = n] IN
  IF p.request[n][2] = Cancel THEN [q EXCEPT !.phase = "SELECT"]
  ELSE [q EXCEPT !.phase = "BLOCK", !.todo = Open(p.request[n][1])]

\* A chunk reads its items in one statement, and synchronises those that have
\* another priority.
Differing(q) ==
  IF Len(q) = 1 THEN {1} ELSE {n \in DOMAIN q : wanted[q[n][1]] # q[n][2]}

FirstDue(p) == CHOOSE n \in p.due : \A m \in p.due : n <= m

StartCall(c) ==
  /\ process[c].phase = "IDLE"
  /\ \E q \in Requests[c] :
       LET p == [Idle EXCEPT !.request = q, !.due = Differing(q)] IN
       /\ \A n \in DOMAIN q : wanted[q[n][1]] # None
       /\ p.due # {}
       /\ process' = [process EXCEPT ![c] = Enter(p, FirstDue(p))]
  /\ UNCHANGED <<tables, handoff>>

\* Mutant: what was selected is locked by its ids and not looked at again.
LockRowSelected(c) ==
  /\ Locking(c)
  /\ ~Waits(c)
  /\ LET r == NextRow(c) IN
     process' = [process EXCEPT ![c].todo = @ \ {r}, ![c].held = @ \cup {r}]
  /\ UNCHANGED <<tables, handoff>>

\* SELECT .. ORDER BY id FOR UPDATE takes its rows one by one, and leaves out
\* one that is terminal by the time it gets the lock.
LockRow(c) ==
  /\ Locking(c)
  /\ ~Waits(c)
  /\ LET r == NextRow(c) IN
     process' = [process EXCEPT
       ![c].todo = @ \ {r},
       ![c].held = IF state[r] \in Nonterminal THEN @ \cup {r} ELSE @]
  /\ UNCHANGED <<tables, handoff>>

LockItem(c) ==
  /\ AtItem(c)
  /\ ~Waits(c)
  /\ process' = [process EXCEPT ![c].phase = "SELECT", ![c].items = @ \cup {ItemOf(c)}]
  /\ UNCHANGED <<tables, handoff>>

Select(c) ==
  /\ process[c].phase = "SELECT"
  /\ process' = [process EXCEPT ![c].phase = "LOCK", ![c].todo = Open(ItemOf(c))]
  /\ UNCHANGED <<tables, handoff>>

\* Mutant: what was locked is not compared with what is open.
SelectedLocked(c) == process[c].phase = "LOCK" /\ process[c].todo = {}

AllLocked(c) ==
  /\ process[c].phase = "LOCK" /\ process[c].todo = {}
  /\ Open(ItemOf(c)) \subseteq process[c].held

\* An execution was missed: the statement is repeated.
Reselect(c) ==
  /\ process[c].phase = "LOCK" /\ process[c].todo = {}
  /\ ~AllLocked(c)
  /\ process' = [process EXCEPT ![c].phase = "SELECT"]
  /\ UNCHANGED <<tables, handoff>>

\* The clock is read when all is locked: a handoff that has read its own by
\* then, and waits for one of these rows, will find a later stamp on it.
Stamped(c) ==
  process[c].stamped \cup
    {r \in process[c].held : r[1] = ItemOf(c) /\ handoff[r].phase = "BEGUN"}

\* A chunk goes on to the next item that it synchronises.
NextItem(c) ==
  /\ AllLocked(c)
  /\ process[c].due # {}
  /\ process' = [process EXCEPT
       ![c] = Enter([@ EXCEPT !.stamped = Stamped(c)], FirstDue(@))]
  /\ UNCHANGED <<tables, handoff>>

Given(c, i) ==
  process[c].request[CHOOSE n \in DOMAIN process[c].request :
    process[c].request[n][1] = i][2]

CommitChange(c) ==
  /\ AllLocked(c)
  /\ process[c].due = {}
  /\ Asked(c) # Cancel
  /\ wanted' = [i \in Item |-> IF i \in process[c].items THEN Given(c, i) ELSE wanted[i]]
  /\ priority' = [r \in Row |-> IF r \in process[c].held THEN Given(c, r[1]) ELSE priority[r]]
  /\ queued' = [r \in Row |->
       IF r \in process[c].held /\ state[r] = "ADMITTED" THEN Given(c, r[1]) ELSE queued[r]]
  /\ handoff' = [r \in Row |-> IF r \in Stamped(c) THEN [handoff[r] EXCEPT !.late = TRUE]
                               ELSE handoff[r]]
  /\ process' = [process EXCEPT ![c] = Idle]
  /\ UNCHANGED state

CommitCancel(c) ==
  /\ AllLocked(c)
  /\ Asked(c) = Cancel
  /\ state' = [r \in Row |-> IF r \in process[c].held THEN "CANCELLED" ELSE state[r]]
  /\ queued' = [r \in Row |-> IF r \in process[c].held THEN None ELSE queued[r]]
  /\ process' = [process EXCEPT ![c] = Idle]
  /\ UNCHANGED <<priority, wanted, handoff>>
-----------------------------------------------------------------------------
(***************************************************************************)
(* A handoff: the clock is read, the row is locked, and each successor is  *)
(* inserted with the priority its item was read to have.                   *)
(***************************************************************************)
HandoffBegin(h) ==
  /\ handoff[h].phase = "NONE" /\ state[h] = "ADMITTED"
  /\ handoff' = [handoff EXCEPT ![h].phase = "BEGUN"]
  /\ UNCHANGED <<tables, process>>

Return(h) == handoff' = [handoff EXCEPT ![h] = NoHandoff]
Raise(h) == handoff' = [handoff EXCEPT ![h] = [NoHandoff EXCEPT !.phase = "RAISED"]]

\* A completion that lost to a cancellation returns; one that is not current,
\* or whose clock is behind its row, raises.
HandoffLock(h) ==
  /\ handoff[h].phase = "BEGUN"
  /\ ~Waits(h)
  /\ \/ /\ state[h] = "CANCELLED"
        /\ Return(h) /\ UNCHANGED tables
     \/ /\ state[h] # "CANCELLED" /\ (state[h] # "ADMITTED" \/ handoff[h].late)
        /\ Raise(h) /\ UNCHANGED tables
     \/ /\ state[h] = "ADMITTED" /\ ~handoff[h].late
        /\ \/ /\ state' = [state EXCEPT ![h] = "FAILED"]
              /\ queued' = [queued EXCEPT ![h] = None]
              /\ Return(h) /\ UNCHANGED <<priority, wanted>>
           \/ /\ \E succ \in SUBSET Above(h) :
                   handoff' = [handoff EXCEPT ![h].phase = "INSERT", ![h].todo = succ]
              /\ UNCHANGED tables
  /\ UNCHANGED process

\* The next successor, in an order of the application's.
ReadItem(h) ==
  /\ handoff[h].phase = "INSERT" /\ handoff[h].now = None
  /\ \E s \in handoff[h].todo :
       handoff' = [handoff EXCEPT ![h].todo = @ \ {s}, ![h].now = s, ![h].seen = wanted[h[1]]]
  /\ UNCHANGED <<tables, process>>

\* INSERT .. ON CONFLICT DO NOTHING; an execution that is there already gets
\* the priority that was read, if it has another.
WriteSuccessor(h) ==
  /\ Inserting(h)
  /\ ~Waits(h)
  /\ LET s == handoff[h].now IN
     handoff' = [handoff EXCEPT
       ![h].now = None, ![h].seen = None,
       ![h].written = IF priority[s] = handoff[h].seen THEN @
                      ELSE @ \cup {<<s, handoff[h].seen>>}]
  /\ UNCHANGED <<tables, process>>

\* The successor is there with other facts: all rolls back.
Conflict(h) ==
  /\ Inserting(h)
  /\ state[handoff[h].now] # "ABSENT"
  /\ Raise(h)
  /\ UNCHANGED <<tables, process>>

CommitHandoff(h) ==
  /\ handoff[h].phase = "INSERT" /\ handoff[h].todo = {} /\ handoff[h].now = None
  /\ state' = [r \in Row |-> IF r = h THEN "SUCCEEDED"
                             ELSE IF r \in Added(h) THEN "READY" ELSE state[r]]
  /\ priority' = [r \in Row |->
       IF r \in Written(h) THEN (CHOOSE e \in handoff[h].written : e[1] = r)[2]
       ELSE priority[r]]
  /\ queued' = [queued EXCEPT ![h] = None]
  /\ Return(h)
  /\ UNCHANGED <<wanted, process>>
-----------------------------------------------------------------------------
(***************************************************************************)
(* The transactions that hold one row and wait for nothing else.           *)
(***************************************************************************)

\* A chunk inserts an item that is new, and its first execution.
Submit(i, p) ==
  /\ wanted[i] = None
  /\ state' = [state EXCEPT ![<<i, 0>>] = "READY"]
  /\ wanted' = [wanted EXCEPT ![i] = p]
  /\ priority' = [priority EXCEPT ![<<i, 0>>] = p]
  /\ UNCHANGED <<queued, process, handoff>>

\* The workflow is enqueued with the priority of the row, in the transaction.
Admit(r) ==
  /\ state[r] = "READY" /\ RowFree(r)
  /\ state' = [state EXCEPT ![r] = "ADMITTED"]
  /\ queued' = [queued EXCEPT ![r] = priority[r]]
  /\ UNCHANGED <<priority, wanted, process, handoff>>

\* The sweep finds the workflow dead: it raised, or never got that far.
SweepProject(r) ==
  /\ state[r] = "ADMITTED" /\ RowFree(r)
  /\ \E s \in {"FAILED", "CANCELLED"} : state' = [state EXCEPT ![r] = s]
  /\ queued' = [queued EXCEPT ![r] = None]
  /\ Return(r)
  /\ UNCHANGED <<priority, wanted, process>>

Retry(r) ==
  /\ state[r] = "FAILED" /\ RowFree(r)
  /\ state' = [state EXCEPT ![r] = "READY"]
  /\ UNCHANGED <<priority, wanted, queued, process, handoff>>

\* The database aborts a transaction of a circle that waits for itself.
InCircle(p) ==
  /\ Waits(p)
  /\ \E S \in SUBSET {q \in Process : Waits(q)} :
       /\ p \in S
       /\ \A t \in S : \E u \in S : WaitsFor(t, u)
       /\ \A u \in S : \E t \in S : WaitsFor(t, u)

DeadlockAbort(p) ==
  /\ InCircle(p)
  /\ IF p \in Caller THEN process' = [process EXCEPT ![p] = Idle] /\ UNCHANGED handoff
     ELSE Raise(p) /\ UNCHANGED process
  /\ UNCHANGED tables
-----------------------------------------------------------------------------
Advance(c) ==
  \/ LockRow(c) \/ LockItem(c) \/ Select(c) \/ Reselect(c)
  \/ NextItem(c) \/ CommitChange(c) \/ CommitCancel(c)

Handoff(h) ==
  \/ HandoffLock(h) \/ ReadItem(h) \/ WriteSuccessor(h)
  \/ Conflict(h) \/ CommitHandoff(h)

Next ==
  \/ \E i \in Item, p \in Level : Submit(i, p)
  \/ \E c \in Caller : StartCall(c) \/ Advance(c)
  \/ \E r \in Row : HandoffBegin(r) \/ Handoff(r)
  \/ \E r \in Row : Admit(r) \/ SweepProject(r) \/ Retry(r)
  \/ \E p \in Process : DeadlockAbort(p)

Spec == Init /\ [][Next]_vars
-----------------------------------------------------------------------------
(***************************************************************************)
(* Properties.                                                             *)
(***************************************************************************)

\* Every variable keeps its type, and no two transactions hold one lock.
TypeOK ==
  /\ state \in [Row -> Nonterminal \cup {"ABSENT", "SUCCEEDED", "CANCELLED"}]
  /\ priority \in [Row -> Level \cup {None}]
  /\ wanted \in [Item -> Level \cup {None}]
  /\ queued \in [Row -> Level \cup {None}]
  /\ \A c \in Caller :
       /\ process[c].phase \in {"IDLE", "BLOCK", "SELECT", "LOCK"}
       /\ process[c].request \in Seq(Item \X (Level \cup {Cancel}))
       /\ process[c].due \subseteq Nat /\ process[c].next \in Nat
       /\ process[c].todo \subseteq Row /\ process[c].held \subseteq Row
       /\ process[c].items \subseteq Item
       /\ process[c].stamped \subseteq process[c].held
  /\ handoff \in [Row -> [phase : {"NONE", "BEGUN", "INSERT", "RAISED"},
                          todo : SUBSET Row, now : Row \cup {None},
                          seen : Level \cup {None}, written : SUBSET (Row \X Level),
                          late : BOOLEAN]]
  /\ \A p \in Process :
       LET own == Holds(p) \ ({"share"} \X Item) IN
       own # {} => \A q \in Process \ {p} : own \cap Holds(q) = {}

\* What is committed agrees: an execution that is still to be worked on has
\* the priority of its item, and its workflow in the queue has it too. No
\* execution that a handoff inserts beside a change, or that is admitted,
\* failed or retried between two statements of it, keeps the priority of before.
PrioritiesAgree ==
  \A r \in Row :
    /\ state[r] \in Nonterminal => priority[r] = wanted[r[1]]
    /\ state[r] = "ADMITTED" => queued[r] = wanted[r[1]]

\* Seen from the tables, a cancellation that takes its locks one by one while
\* handoffs add executions, and a handoff of several statements, are the single
\* steps of the lifecycle: all of an item is cancelled or nothing, and a
\* success appears together with all it hands on to.
Facts == [r \in Row |->
  [barrier |-> FALSE, input |-> IF state[r] = "ABSENT" THEN None ELSE Cancel]]
Lifecycle == INSTANCE StageLifecycle
  WITH state <- state, facts <- Facts, MaxIndex <- Highest, Input <- {Cancel}, NoInput <- None
ImplementsLifecycle == Lifecycle!Spec

\* A cancellation locks no item, so handoffs go on beside it. Still, when it
\* commits, nothing of its item is open, and no handoff is left that could add
\* an execution to it, whatever was inserted while it waited for locks.
CancellationsTakeAll ==
  [][\A c \in Caller : CommitCancel(c) =>
       \A r \in Row : r[1] = ItemOf(c) =>
         state'[r] \notin Nonterminal /\ handoff'[r].phase # "INSERT"]_vars

\* "A completion whose workflow is not the persisted current admitted attempt
\* is rejected", says the contract of the handoff, and names one exception,
\* for cancelled work. So a current and admitted one is not rejected.
OnlyStaleCompletionsAreRejected ==
  [][\A h \in Row :
       HandoffLock(h) /\ state[h] = "ADMITTED" => handoff'[h].phase # "RAISED"]_vars
=============================================================================
