----------------------------- MODULE MCDispatcher -----------------------------
EXTENDS Dispatcher, TLC

CONSTANTS r1, r2, stage, other, completion, x, y

\* The registries share a stage, and the first has a run completion too.
Registries == r1 :> {stage, completion} @@ r2 :> {stage, other}
StageAndCompletion == x :> stage @@ y :> completion
=============================================================================
