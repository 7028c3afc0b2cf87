--------------------------- MODULE WorkflowRuntime ---------------------------
(***************************************************************************)
(* The DBOS workflow runtime as the package depends on it. A workflow id   *)
(* is enqueued once, in the transaction that admits or releases it; it is  *)
(* dequeued, run by an executor that may die, recovered under the same id  *)
(* up to a cap, cancelled or resumed by an operator, and its final status  *)
(* is recorded after its last transaction. The result of that transaction  *)
(* is checkpointed with it, so a recovered workflow never repeats it.      *)
(*                                                                         *)
(* A status and the executor's knowledge of it differ: a workflow that is  *)
(* cancelled, or given up by recovery, may still be running somewhere.     *)
(* Actions say nothing of the ledger; the modules that use this one do.    *)
(***************************************************************************)
EXTENDS Naturals

CONSTANT MaxFault  \* bound: process deaths and operator acts on DBOS

VARIABLES
  dbos,        \* workflow id -> status in the DBOS schema
  running,     \* workflows some executor process is executing
  checkpoint,  \* workflow id -> recorded result of its last transaction
  faults       \* count of Fault steps, for MaxFault alone

runtime == <<dbos, running, checkpoint, faults>>

DbosStatus == {"NONE", "ENQUEUED", "PENDING", "SUCCESS", "ERROR",
               "MAX_RECOVERY_ATTEMPTS_EXCEEDED", "CANCELLED"}

RuntimeInit(ids) ==
  /\ dbos = [w \in ids |-> "NONE"]
  /\ running = {}
  /\ checkpoint = [w \in ids |-> "NONE"]
  /\ faults = 0

RuntimeTypeOK(ids) ==
  /\ dbos \in [ids -> DbosStatus]
  /\ running \subseteq ids
  /\ checkpoint \in [ids -> {"NONE", "RETURNED", "RAISED"}]
  /\ faults \in 0..MaxFault
-----------------------------------------------------------------------------
\* Calls from the package.

Enqueue(w) ==
  /\ dbos' = [dbos EXCEPT ![w] = "ENQUEUED"]
  /\ UNCHANGED <<running, checkpoint, faults>>

Executing(w) == w \in running /\ checkpoint[w] = "NONE"

\* The last transaction of the workflow commits, or raises and rolls back.
Checkpoint(w, result) ==
  /\ Executing(w)
  /\ checkpoint' = [checkpoint EXCEPT ![w] = result]
  /\ UNCHANGED <<dbos, running, faults>>

\* DBOS ignores a cancellation of a workflow that has ended.
CancelWorkflow(w) ==
  /\ dbos' = IF dbos[w] \in {"SUCCESS", "ERROR"} THEN dbos
             ELSE [dbos EXCEPT ![w] = "CANCELLED"]
  /\ UNCHANGED <<running, checkpoint, faults>>
-----------------------------------------------------------------------------
\* The runtime's own steps and an operator's.

Fault ==
  /\ faults < MaxFault
  /\ faults' = faults + 1

Dequeue(w) ==
  /\ dbos[w] = "ENQUEUED"
  /\ dbos' = [dbos EXCEPT ![w] = "PENDING"]
  /\ running' = running \cup {w}
  /\ UNCHANGED <<checkpoint, faults>>

\* The process dies, or the body of a cancelled workflow is preempted.
Halt(w) ==
  /\ w \in running
  /\ running' = running \ {w}
  /\ Fault
  /\ UNCHANGED <<dbos, checkpoint>>

Recover(w) ==
  /\ dbos[w] = "PENDING"
  /\ w \notin running
  /\ \/ /\ running' = running \cup {w}
        /\ UNCHANGED dbos
     \/ /\ dbos' = [dbos EXCEPT ![w] = "MAX_RECOVERY_ATTEMPTS_EXCEEDED"]
        /\ UNCHANGED running
  /\ UNCHANGED <<checkpoint, faults>>

\* The workflow ends after its last transaction returned or raised.
Finish(w) ==
  /\ w \in running
  /\ checkpoint[w] # "NONE"
  /\ running' = running \ {w}
  /\ dbos' = IF dbos[w] # "PENDING" THEN dbos
             ELSE [dbos EXCEPT ![w] = IF checkpoint[w] = "RETURNED"
                                      THEN "SUCCESS" ELSE "ERROR"]
  /\ UNCHANGED <<checkpoint, faults>>

OutOfBandCancel(w) ==
  /\ dbos[w] \in {"ENQUEUED", "PENDING"}
  /\ dbos' = [dbos EXCEPT ![w] = "CANCELLED"]
  /\ Fault
  /\ UNCHANGED <<running, checkpoint>>

OutOfBandResume(w) ==
  /\ dbos[w] \in {"CANCELLED", "MAX_RECOVERY_ATTEMPTS_EXCEEDED"}
  /\ dbos' = [dbos EXCEPT ![w] = "ENQUEUED"]
  /\ Fault
  /\ UNCHANGED <<running, checkpoint>>

WorkflowStep(w) ==
  \/ Dequeue(w) \/ Halt(w) \/ Recover(w) \/ Finish(w)
  \/ OutOfBandCancel(w) \/ OutOfBandResume(w)
=============================================================================
