---------------------------- MODULE WorkItemStatus ----------------------------
(***************************************************************************)
(* What the package reads of all executions of a work item at once: the    *)
(* status it derives from them, the execution that stands for the item,    *)
(* and the filtered lists of executions and of predecessor outputs.        *)
(*                                                                         *)
(* An input stands for the stage key and the reference of an execution, so *)
(* a stage key is a set of inputs. Bounds on the index are exclusive.      *)
(***************************************************************************)
EXTENDS StageRows

Held(i) == {r \in RowsOf(i) : state[r] # "ABSENT"}

\* Mutant: the state of the highest stage index, as for a linear pipeline.
StatusOfFrontier(i) ==
  state[CHOOSE r \in Held(i) : \A s \in Held(i) : s[2] <= r[2]]

Precedence == <<"FAILED", "CANCELLED", "ADMITTED", "READY", "SUCCEEDED">>

\* The state that comes first in the order among those of the item's rows.
Status(i) ==
  LET held == {n \in DOMAIN Precedence :
                 \E r \in RowsOf(i) : state[r] = Precedence[n]}
  IN Precedence[CHOOSE n \in held : \A m \in held : n <= m]

\* The first execution in that state, or the last one when all succeeded.
Representative(i) ==
  LET rows == {r \in RowsOf(i) : state[r] = Status(i)} IN
  CHOOSE r \in rows : \A s \in rows :
    IF Status(i) = "SUCCEEDED" THEN s[2] <= r[2] ELSE r[2] <= s[2]

Executions(i, key, min, max) ==
  {r \in Held(i) : facts[r].input \in key /\ min < r[2] /\ r[2] < max}

\* A succeeded execution always has an output reference.
Outputs(i, key, min, below) ==
  {r \in Executions(i, key, min, below) : state[r] = "SUCCEEDED"}
=============================================================================
