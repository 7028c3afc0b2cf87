------------------------------ MODULE MCPriority ------------------------------
EXTENDS Priority, TLC

CONSTANTS a, b, c1, c2

\* Item a fans out to two more executions, item b is there to be passed by.
ThreeAndOne == a :> 2 @@ b :> 0

\* One cancels, the other registers a chunk that reuses both items.
CancelAndChunk == c1 :> {<< <<a, Cancel>> >>} @@ c2 :> {<< <<b, 1>>, <<a, 1>> >>}

One == a :> 0
OneChange == c1 :> {<< <<a, 1>> >>}
=============================================================================
