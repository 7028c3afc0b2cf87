--------------------------- MODULE MCRunCompletion ---------------------------
EXTENDS RunCompletion, LiveIdentity, TLC

CONSTANTS local, here, there, padded, blank

\* "padded" is the text of host "here" between blanks. The texts also serve as
\* versions, so that the two of a workflow agree or differ in every way.
StripPadding == local :> local @@ here :> here @@ there :> there
                  @@ padded :> here @@ blank :> None

\* The rules by which a sweep draws its evidence hold for all these texts.
ASSUME SmallLiveIdentity == LiveAreSpared /\ IgnoranceAccusesNobody /\ DeadAreFound
=============================================================================
