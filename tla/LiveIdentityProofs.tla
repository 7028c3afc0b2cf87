-------------------------- MODULE LiveIdentityProofs --------------------------
(***************************************************************************)
(* Proofs about LiveIdentity, for any texts, identities and stripping.     *)
(***************************************************************************)
EXTENDS LiveIdentity, TLAPS

\* What is named is alive, once it is an identity at all.
LEMMA NamedIsLive ==
  ASSUME NEW p \in Process, NEW resolver \in Resolver,
         NEW f \in Named(p, resolver), Strip[f] # None
  PROVE  Strip[f] \in LiveIds(p, resolver)
  BY DEF Named, LiveIds, Normalize

\* And nothing else is.
LEMMA LiveIsNamed ==
  ASSUME NEW p \in Process, NEW resolver \in Resolver,
         NEW id \in LiveIds(p, resolver)
  PROVE  \E f \in Named(p, resolver) : Strip[f] = id
  BY DEF Named, LiveIds, Normalize

\* The sweep never takes a workflow of a live executor and of the running
\* version for abandoned.
THEOREM TheLiveAreSpared == LiveAreSpared
<1> SUFFICES ASSUME NEW p \in Process, NEW resolver \in Resolver,
                    NEW version \in Field, NEW executor \in Field,
                    Strip[version] = Strip[p.version],
                    NEW f \in Named(p, resolver), Strip[f] = Strip[executor]
             PROVE  PendingEvidence(version, executor, ResolveForSweep(p, resolver)) = "NONE"
  BY DEF LiveAreSpared
<1>1. Strip[executor] # None => Strip[executor] \in LiveIds(p, resolver)
  BY NamedIsLive
<1> QED
  BY <1>1 DEF PendingEvidence, ResolveForSweep

\* An identity that is unavailable suppresses the verdict that rests on it.
THEOREM IgnoranceIsHarmless == IgnoranceAccusesNobody
<1> SUFFICES ASSUME NEW p \in Process, NEW resolver \in Resolver,
                    NEW version \in Field, NEW executor \in Field
             PROVE  LET verdict == PendingEvidence(version, executor, ResolveForSweep(p, resolver)) IN
                    /\ Strip[p.version] = None => verdict # "STALE_APP_VERSION"
                    /\ Blind(resolver) => verdict # "DEAD_EXECUTOR"
                    /\ resolver.kind = "ABSENT" /\ SentinelOnly(Normalize(p.static \cup {p.executor}))
                         => verdict # "DEAD_EXECUTOR"
  BY DEF IgnoranceAccusesNobody
<1>1. Strip[p.version] = None
        => PendingEvidence(version, executor, ResolveForSweep(p, resolver)) # "STALE_APP_VERSION"
  BY DEF PendingEvidence, ResolveForSweep
<1>2. Blind(resolver)
        => PendingEvidence(version, executor, ResolveForSweep(p, resolver)) # "DEAD_EXECUTOR"
  BY DEF PendingEvidence, ResolveForSweep
<1>3. ASSUME resolver.kind = "ABSENT", SentinelOnly(Normalize(p.static \cup {p.executor}))
      PROVE  PendingEvidence(version, executor, ResolveForSweep(p, resolver)) # "DEAD_EXECUTOR"
  <2>1. resolver.fields = {}
    BY <1>3 DEF Resolver
  <2>2. SentinelOnly(LiveIds(p, resolver))
    BY <1>3, <2>1 DEF LiveIds, SentinelOnly, Normalize
  <2> QED
    BY <2>2 DEF PendingEvidence, ResolveForSweep
<1> QED
  BY <1>1, <1>2, <1>3

\* A workflow on an executor that nothing names is found.
THEOREM TheDeadAreFound == DeadAreFound
<1> SUFFICES ASSUME NEW p \in Process, NEW resolver \in Resolver,
                    NEW version \in Field, NEW executor \in Field,
                    Strip[version] = Strip[p.version], Strip[version] # None,
                    Strip[executor] # None,
                    \A f \in Named(p, resolver) : Strip[f] # Strip[executor],
                    ~Blind(resolver), ~SentinelOnly(LiveIds(p, resolver))
             PROVE  PendingEvidence(version, executor, ResolveForSweep(p, resolver)) = "DEAD_EXECUTOR"
  BY DEF DeadAreFound
<1>1. Strip[executor] \notin LiveIds(p, resolver)
  BY LiveIsNamed
<1> QED
  BY <1>1 DEF PendingEvidence, ResolveForSweep
=============================================================================
