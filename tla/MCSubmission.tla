---------------------------- MODULE MCSubmission ----------------------------
EXTENDS Submission, TLC

CONSTANTS a, b, c, r1, r2, s1, s2, x, y

Call(run, works, input) ==
  [run |-> run, provenance |-> "p", input |-> input, count |-> Len(works),
   members |-> [n \in DOMAIN works |-> <<n - 1, works[n]>>],
   digest |-> {<<n - 1, works[n], input>> : n \in DOMAIN works}]

First == Call(r1, <<a, b, c>>, x)
Second == Call(r2, <<b, a>>, x)

\* The second submitter replays a run, or contradicts one of them:
\* with fewer or more members, with gaps, with no digest, with other facts, or
\* with the other provenance.
Variants ==
  {First, Call(r1, <<a, b, c>>, y), Call(r2, <<b, a>>, y),
   [First EXCEPT !.members = << <<0, a>>, <<2, c>> >>],
   [First EXCEPT !.members = << <<1, a>>, <<0, b>>, <<2, c>>, <<3, a>> >>],
   [Second EXCEPT !.members = << <<0, b>>, <<1, a>>, <<2, c>> >>],
   [Second EXCEPT !.members = << <<0, b>>, <<1, c>> >>],
   [Second EXCEPT !.digest = NoDigest, !.members = << <<1, c>>, <<0, c>> >>],
   [Second EXCEPT !.digest = NoDigest, !.count = 1],
   [Second EXCEPT !.provenance = "q"]}

\* The first submitter registers one of the runs, and the second any call beside it.
TwoCallers == s1 :> {First, Second} @@ s2 :> Variants \cup {Second}
=============================================================================
