---------------------------- MODULE StageLifecycle ----------------------------
(***************************************************************************)
(* What the stage ledger promises about the executions of a work item,     *)
(* with no attempts, no workflow runtime, no sweep and no process that can *)
(* die: an execution moves along the legal transitions, a success and the  *)
(* executions it hands on to are one step, a join is admitted only over    *)
(* finished lower stages, and cancelling an item takes all of it at once.  *)
(* StageLedger is the detailed system and is shown to implement this.      *)
(***************************************************************************)
EXTENDS StageRows

Init ==
  /\ state = [r \in Row |-> "ABSENT"]
  /\ facts = [r \in Row |-> NoFacts]

Submit(i, f) ==
  /\ \A r \in RowsOf(i) : state[r] = "ABSENT"
  /\ ~f.barrier
  /\ state' = [state EXCEPT ![<<i, 0>>] = "READY"]
  /\ facts' = [facts EXCEPT ![<<i, 0>>] = f]

Admissible == {r \in Row : state[r] = "READY" /\ ~Blocked(r)}

\* A pass admits what it has taken in one step.
Admit(R) ==
  /\ R # {}
  /\ state' = [r \in Row |-> IF r \in R THEN "ADMITTED" ELSE state[r]]
  /\ UNCHANGED facts

Succeed(r, succ) ==
  /\ state[r] = "ADMITTED"
  /\ Compatible(r, succ)
  /\ state' = [s \in Row |-> IF s = r THEN "SUCCEEDED"
                             ELSE IF s \in Fresh(r, succ) THEN "READY"
                             ELSE state[s]]
  /\ facts' = [s \in Row |-> IF s \in Fresh(r, succ) THEN succ[s[2]]
                             ELSE facts[s]]

\* An admitted execution fails, or is found cancelled by its runtime.
Abandon(r) ==
  /\ state[r] = "ADMITTED"
  /\ \E o \in {"FAILED", "CANCELLED"} : state' = [state EXCEPT ![r] = o]
  /\ UNCHANGED facts

CancelItem(i) ==
  /\ state' = [r \in Row |->
       IF r[1] = i /\ state[r] \in Nonterminal THEN "CANCELLED" ELSE state[r]]
  /\ UNCHANGED facts

Retry(r) ==
  /\ state[r] = "FAILED"
  /\ state' = [state EXCEPT ![r] = "READY"]
  /\ UNCHANGED facts

Next ==
  \/ \E i \in Item : CancelItem(i) \/ \E f \in Fact : Submit(i, f)
  \/ \E R \in SUBSET Admissible : Admit(R)
  \/ \E r \in Row :
       \/ Abandon(r) \/ Retry(r)
       \/ \E ks \in SUBSET Above(r) : \E succ \in [ks -> Fact] : Succeed(r, succ)

Spec == Init /\ [][Next]_<<state, facts>>
=============================================================================
