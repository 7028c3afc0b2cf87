----------------------------- MODULE RunRegistry -----------------------------
(***************************************************************************)
(* What registration promises about runs, with no submitters, chunks,      *)
(* locks, deadlocks, deaths or replays: a run is declared once, members    *)
(* are added to it in single steps together with the items they create,    *)
(* and it is closed in one step with what it then has. Submission is the   *)
(* detailed system and is shown to implement this.                         *)
(***************************************************************************)
EXTENDS Integers, FiniteSets

CONSTANTS
  Run,
  Work,
  Entry,        \* <<ordinal, work>>: what may be a member of a run
  Input,        \* the immutable facts of an item
  Declarable,   \* provenance, expected count and digest
  NoDigest, None

VARIABLES
  declared,  \* run -> its declaration
  members,   \* run -> its entries
  closed,    \* run -> its receipt
  items      \* work -> the run that created its item, and its facts

registry == <<declared, members, closed, items>>

Init ==
  /\ declared = [r \in Run |-> None]
  /\ members = [r \in Run |-> {}]
  /\ closed = [r \in Run |-> None]
  /\ items = [w \in Work |-> None]

Declare(r, d) ==
  /\ declared[r] = None
  /\ declared' = [declared EXCEPT ![r] = d]
  /\ UNCHANGED <<members, closed, items>>

\* An ordinal has one work, and a work one ordinal.
OneToOne(S) == \A m, n \in S : m[1] = n[1] <=> m[2] = n[2]

\* An item can be shared by runs that give it the same facts and that have the
\* same provenance.
Shareable(r, input, w) ==
  items[w] = None \/ /\ items[w].input = input
                     /\ declared[items[w].origin].provenance = declared[r].provenance

\* New members come together with the items of those that had none.
Register(r, input, new) ==
  /\ declared[r] # None /\ closed[r] = None
  /\ new \cap members[r] = {} /\ OneToOne(members[r] \cup new)
  /\ \A m \in new : Shareable(r, input, m[2])
  /\ members' = [members EXCEPT ![r] = @ \cup new]
  /\ items' = [w \in Work |->
       IF items[w] = None /\ \E m \in new : m[2] = w
       THEN [origin |-> r, input |-> input] ELSE items[w]]
  /\ UNCHANGED <<declared, closed>>

Digest(r) == {<<m[1], m[2], items[m[2]].input>> : m \in members[r]}
Created(r) == {m \in members[r] : items[m[2]].origin = r}

\* The members are the first ordinals, and they are what was declared.
Close(r) ==
  /\ declared[r] # None /\ closed[r] = None
  /\ {m[1] : m \in members[r]} = 0..(declared[r].count - 1)
  /\ declared[r].digest \in {NoDigest, Digest(r)}
  /\ closed' = [closed EXCEPT ![r] =
       [count |-> declared[r].count,
        created |-> Cardinality(Created(r)),
        reused |-> Cardinality(members[r] \ Created(r))]]
  /\ UNCHANGED <<declared, members, items>>

Next ==
  \E r \in Run :
    \/ \E d \in Declarable : Declare(r, d)
    \/ \E input \in Input : \E new \in SUBSET Entry : Register(r, input, new)
    \/ Close(r)

Spec == Init /\ [][Next]_registry
=============================================================================
