---------------------------- MODULE MCRunBarrier ----------------------------
EXTENDS RunBarrier, Inspection, TLC

CONSTANT a

\* Item a belongs to the first run; the second and the third have no members,
\* so they are settled from the start and the second never releases.
FirstHasMember == <<{a}, {}, {}>>

\* Two runs share the only item.
SharedMember == <<{a}, {a}>>
=============================================================================
