------------------------------ MODULE Inspection ------------------------------
(***************************************************************************)
(* What applications read of the ledger while it moves: the deferral       *)
(* episode that a join closes, the outputs the body of the join collects,  *)
(* and the counts of statuses. An episode begins at a deferring step       *)
(* (OptimStep), fans out to evaluation rows (EvalRow) and ends at a join;  *)
(* an item may go through several, one after another.                      *)
(*                                                                         *)
(* The readers change nothing, so they are operators on the ledger, and    *)
(* the properties are about how they answer as the executions move.        *)
(* resolve_barrier_join_cluster reads four times, each in a transaction of *)
(* its own. It answers only when the third reading fills the interval it   *)
(* has seen, and EpisodeIsStable says that nothing moves from then on.     *)
(*                                                                         *)
(* Simplifications: pages and cursors of the lists are left out, and the   *)
(* test for foreign rows comes with the test that the evaluation rows fill *)
(* the interval, since an index holds one execution.                       *)
(***************************************************************************)
EXTENDS WorkItemStatus, FiniteSets

CONSTANTS
  OptimStep,  \* inputs under the stage key of the deferring step
  EvalRow     \* inputs under the stage key of the evaluation rows

ASSUME InspectionAssumption ==
  /\ OptimStep \subseteq Input /\ EvalRow \subseteq Input
  /\ OptimStep \cap EvalRow = {}
-----------------------------------------------------------------------------
(***************************************************************************)
(* The episode that ends at a join r.                                      *)
(***************************************************************************)

IsJoin(r) == state[r] # "ABSENT" /\ facts[r].barrier

\* Mutant: deferring steps behind the join are taken for its origin.
AnyCandidate(r) == Executions(r[1], OptimStep, -1, MaxIndex + 1)

Candidates(r) == Executions(r[1], OptimStep, -1, r[2])

Origin(r) ==
  CHOOSE n \in {s[2] : s \in Candidates(r)} : \A s \in Candidates(r) : s[2] <= n

EvalRows(r) == Executions(r[1], EvalRow, Origin(r), r[2])

Resolves(r) ==
  /\ IsJoin(r)
  /\ Candidates(r) # {}
  /\ {s[2] : s \in EvalRows(r)} = (Origin(r) + 1)..(r[2] - 1)

\* The optim step, the evaluation rows and the join.
Cluster(r) == <<Origin(r), EvalRows(r), r>>

\* list_episode_predecessor_outputs, which the body of the join calls.
EpisodeOutputs(r) == Outputs(r[1], EvalRow, Origin(r), r[2])
-----------------------------------------------------------------------------
(***************************************************************************)
(* Properties.                                                             *)
(***************************************************************************)

\* The body of a join that has been admitted reads the output of each
\* evaluation row of its episode, none missing and none of another episode,
\* also when the join fails and runs again, and when siblings of its item
\* failed and were retried on the way.
Ran == {"ADMITTED", "SUCCEEDED", "FAILED"}
EpisodeIsComplete ==
  \A r \in Row : Resolves(r) /\ state[r] \in Ran => EpisodeOutputs(r) = EvalRows(r)

\* An episode that resolves once resolves to the same executions for ever,
\* while branches are retried and later episodes grow behind it. So readings
\* at different moments that add up to an episode agree with one reading.
EpisodeIsStable ==
  [][\A r \in Row : Resolves(r) => Resolves(r)' /\ Cluster(r)' = Cluster(r)]_<<state, facts>>

\* An item that is reported as succeeded keeps the execution it is reported
\* with: the final output that a caller reads there is not superseded.
Reported(i) == Held(i) # {} /\ Status(i) = "SUCCEEDED"
SucceededIsFinal ==
  [][\A i \in Item : Reported(i) =>
       Reported(i)' /\ Representative(i)' = Representative(i)]_<<state, facts>>
=============================================================================
