------------------------------ MODULE StageRows ------------------------------
(***************************************************************************)
(* The rows of stage_executions, one per work item and stage index, and    *)
(* the questions the package asks of them.                                 *)
(***************************************************************************)
EXTENDS Integers

CONSTANTS
  Item,       \* work items
  MaxIndex,   \* highest stage index a successor may name
  Input,      \* input references, compared and never read
  NoInput     \* the input of an execution that does not exist

VARIABLES
  state,      \* Row -> lifecycle state, "ABSENT" before the row is inserted
  facts       \* Row -> immutable facts fixed by the insert

Index == 0..MaxIndex
Row == Item \X Index
Fact == [barrier : BOOLEAN, input : Input]
NoFacts == [barrier |-> FALSE, input |-> NoInput]

State == {"ABSENT", "READY", "ADMITTED", "SUCCEEDED", "FAILED", "CANCELLED"}
Nonterminal == {"READY", "ADMITTED", "FAILED"}

RowsOf(i) == {i} \X Index
Below(r) == {r[1]} \X (0..(r[2] - 1))
Above(r) == (r[2] + 1)..MaxIndex

\* Mutant: a failed or cancelled lower execution no longer holds the join.
BlockedByUnsettled(r) ==
  /\ facts[r].barrier
  /\ \E s \in Below(r) : state[s] \in {"READY", "ADMITTED"}

\* A join waits while any lower execution of its item has not succeeded.
Blocked(r) ==
  /\ facts[r].barrier
  /\ \E s \in Below(r) : state[s] \notin {"ABSENT", "SUCCEEDED"}

\* A successor may name an execution that exists only with the same facts.
Compatible(r, succ) ==
  \A k \in DOMAIN succ :
    state[<<r[1], k>>] = "ABSENT" \/ facts[<<r[1], k>>] = succ[k]

\* The rows that succ adds to the ledger.
Fresh(r, succ) == {s \in {r[1]} \X DOMAIN succ : state[s] = "ABSENT"}
=============================================================================
