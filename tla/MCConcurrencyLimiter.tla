------------------------ MODULE MCConcurrencyLimiter ------------------------
(***************************************************************************)
(* Small instances of the strict limiter for TLC.                          *)
(***************************************************************************)
EXTENDS ConcurrencyLimiter, TLC

\* Homes are interchangeable in every action and property.
HomeSymmetry == Permutations(Incarnations)

\* Nodes come in one order, as they are interchangeable.
FirstNode == CHOOSE f \in Fingerprints : TRUE

\* Bounds of the membership run.  One CPA node lives through all its lifetimes with both
\* Homes; data connections are classified and the durations change only as long as no policy
\* was ever set, since slots have to do with neither.  With a policy, it is a first lifetime
\* that others than its owner may have joined.
DurationsOrPolicies ==
    \/ barrier = 0
    \/ /\ lifecycleRevision = 1 /\ classifying = {}
       /\ members[FirstNode].connectedAt = MaxLifetime => participations = {}

\* Two nodes are there together only in their first lifetimes, with one Home that is heard
\* and with a policy set: what they compete for is slots.
CompetingNodes ==
    \A g \in Fingerprints \ {FirstNode} : members[g].connectedAt > 0 =>
        /\ \A f \in Fingerprints : members[f].connectedAt = 1
        /\ Cardinality({h \in Incarnations : homes[h].state # "none"}) = 1
        /\ \A h \in Incarnations : homes[h].age = Fresh
        /\ participations = {} /\ barrier = 1

MembershipBound == DurationsOrPolicies /\ CompetingNodes

\* A bound of the rollout run, which asks nothing of who joined a lifetime.
NobodyJoins == classifying = {} /\ participations = {}

\* In the rollout run no Home is silent past the reclaim grace, which only cancellations
\* look at.
RolloutBound == NobodyJoins /\ \A h \in Incarnations : homes[h].age # Dead
=============================================================================
