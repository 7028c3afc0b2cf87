----------------------------- MODULE MCAdmission -----------------------------
EXTENDS Admission, TLC

CONSTANTS a, b, c, d

\* Rows of lower stages and, within a stage, those of item a come first.
Order == a :> 1 @@ b :> 2 @@ c :> 3 @@ d :> 4
RankOf == [r \in Row |-> 4 * r[2] + Order[r[1]]]

\* One pipeline, with an empty selector for each stage and then, for its first
\* stage, a selector that matches item a alone.
OnePipeline == [r \in Row |-> r[2]]
EachStage == [n \in Control |-> IF n \in Wide THEN n - 1 ELSE 0]
AllThenA == [n \in Control |-> IF n \in Wide THEN Item ELSE {a}]

\* Item a fans out to two executions of the second stage, which has an empty
\* selector and, after it, one for the label of item a.
FanOut == [r \in Row |-> IF r[2] = 0 THEN 0 ELSE 1]
ThenSecond == [n \in Control |-> IF n = 1 THEN 0 ELSE 1]

\* Two pipelines of one stage each: a and d belong to one, b and c to the other.
TwoPipelines == [r \in Row |-> IF r[1] \in {a, d} THEN 1 ELSE 0]
=============================================================================
