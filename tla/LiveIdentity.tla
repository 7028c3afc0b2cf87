----------------------------- MODULE LiveIdentity -----------------------------
(***************************************************************************)
(* Which PENDING workflows a sweep takes for abandoned: it resolves once   *)
(* per pass what is alive, from the running DBOS, a fixed set of executors *)
(* and a resolver that may fail, and compares what each workflow recorded. *)
(* StageLedger leaves the verdict open, so it covers a wrong one; here is  *)
(* what keeps the verdict right.                                           *)
(*                                                                         *)
(* A recorded text is a field, and Strip takes it to the identity it       *)
(* names, or to None when it is missing, empty or blank.                   *)
(***************************************************************************)

CONSTANTS
  Field,     \* texts found in the columns of DBOS, in settings and resolvers
  Identity,  \* application versions and executor ids
  Strip,     \* Field -> Identity or None
  None,
  LocalId    \* LOCAL_EXECUTOR_SENTINEL, which names no host

ASSUME IdentityAssumption ==
  /\ None \notin Identity
  /\ LocalId \in Identity
  /\ Strip \in [Field -> Identity \cup {None}]

\* What the resolver of a deployment does: there is none, it raises, or it
\* returns the texts it knows.
Resolver == [kind : {"ABSENT", "RAISES"}, fields : {{}}]
              \cup [kind : {"RETURNS"}, fields : SUBSET Field]

Process == [version : Field, executor : Field, static : SUBSET Field]

Normalize(fields) == {Strip[f] : f \in fields} \ {None}

SentinelOnly(ids) == ids \subseteq {LocalId}

\* The resolver is consulted and has nothing to say.
Blind(resolver) ==
  \/ resolver.kind = "RAISES"
  \/ resolver.kind = "RETURNS" /\ Normalize(resolver.fields) = {}

LiveIds(p, resolver) ==
  Normalize(p.static) \cup Normalize({p.executor}) \cup Normalize(resolver.fields)

ResolveForSweep(p, resolver) ==
  [version |-> Strip[p.version],
   ids |-> LiveIds(p, resolver),
   noVersion |-> Strip[p.version] = None,
   noExecutor |-> Blind(resolver) \/ SentinelOnly(LiveIds(p, resolver))]

PendingEvidence(version, executor, live) ==
  IF Strip[version] = None \/ Strip[executor] = None THEN "NONE"
  ELSE IF ~live.noVersion /\ Strip[version] # live.version THEN "STALE_APP_VERSION"
  ELSE IF ~live.noExecutor /\ Strip[executor] \notin live.ids THEN "DEAD_EXECUTOR"
  ELSE "NONE"
-----------------------------------------------------------------------------
\* A workflow of the version that runs is spared while its executor is this
\* process or one that the settings or the resolver name, whatever happens to
\* the resolver and however the texts are padded.
Named(p, resolver) == {p.executor} \cup p.static \cup resolver.fields
LiveAreSpared ==
  \A p \in Process : \A resolver \in Resolver :
    \A version \in Field : \A executor \in Field :
      /\ Strip[version] = Strip[p.version]
      /\ \E f \in Named(p, resolver) : Strip[f] = Strip[executor]
      => PendingEvidence(version, executor, ResolveForSweep(p, resolver)) = "NONE"

\* What cannot be known accuses nobody: without a version of its own, a
\* resolver that answers and an executor with a name, the sweep draws no
\* conclusion from what it would have compared with them.
IgnoranceAccusesNobody ==
  \A p \in Process : \A resolver \in Resolver :
    \A version \in Field : \A executor \in Field :
      LET verdict == PendingEvidence(version, executor, ResolveForSweep(p, resolver)) IN
      /\ Strip[p.version] = None => verdict # "STALE_APP_VERSION"
      /\ Blind(resolver) => verdict # "DEAD_EXECUTOR"
      /\ resolver.kind = "ABSENT" /\ SentinelOnly(Normalize(p.static \cup {p.executor}))
           => verdict # "DEAD_EXECUTOR"

\* Nor does a sweep that knows everything spare the dead: a workflow of this
\* version on an executor that nobody names is found.
DeadAreFound ==
  \A p \in Process : \A resolver \in Resolver :
    \A version \in Field : \A executor \in Field :
      /\ Strip[version] = Strip[p.version] /\ Strip[version] # None
      /\ Strip[executor] # None
      /\ \A f \in Named(p, resolver) : Strip[f] # Strip[executor]
      /\ ~Blind(resolver)
      /\ ~SentinelOnly(LiveIds(p, resolver))
      => PendingEvidence(version, executor, ResolveForSweep(p, resolver)) = "DEAD_EXECUTOR"
=============================================================================
