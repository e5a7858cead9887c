-------------------------- MODULE ConcurrencyLimiter --------------------------
(***************************************************************************)
(* The strict credential concurrency limiter: policies, admissions and     *)
(* cumulative releases (internal/cluster/concurrency_policy.go,            *)
(* concurrency_exchange.go, concurrency_admission.go,                      *)
(* concurrency_release.go), composed with the memberships and the Home     *)
(* incarnations whose tables its transactions read and write.              *)
(*                                                                         *)
(* A limit of 0 stands for an absent limit: the code normalises null and 0 *)
(* to "no row" before storing.  A missing counter row behaves as the row   *)
(* (0, 0) in every operation, so rows always exist here.                   *)
(***************************************************************************)
EXTENDS Membership, Functions

CONSTANTS
    Credentials,   \* credential identifiers (auth UUIDs)
    Models,        \* canonical model keys
    Limits,        \* the limits management may configure, 0 for none
    MaxSlots,      \* bound: accounted grants of one fingerprint and key
    MaxBarrier     \* bound: policy revisions

ASSUME CredentialsAssumption == IsFiniteSet(Credentials)
ASSUME ModelsAssumption == IsFiniteSet(Models)
ASSUME LimitsAssumption == Limits \subseteq Nat /\ 0 \in Limits
ASSUME BoundsAssumption == MaxSlots \in Nat /\ MaxBarrier \in Nat

VARIABLES
    auths,      \* auths.deleted_at: whether each credential is live or retired
    policies,   \* credential_concurrency_policies with their model rows
    barrier,    \* concurrency_observation_barrier.revision
    counters,   \* credential_concurrency_counters, by fingerprint and key
    cpa         \* what each CPA process itself knows of its grants

limiterVars == <<auths, policies, barrier, counters, cpa>>

vars == <<homes, up, activePolicyCount, members, classifying, participations, quiescence,
          lifecycleRevision, auths, policies, barrier, counters, cpa>>

Keys == Credentials \X Models

PolicyRecords == [version : Nat, limit : Nat, models : [Models -> Nat], barrier : Nat]

NoPolicy == [version |-> 0, limit |-> 0, models |-> [m \in Models |-> 0], barrier |-> 0]

CounterRecords == [active : Nat, lastReleaseSeq : Nat]

\* held: grants received and still running; finished: the cumulative release sequence.
CPARecords == [held : Nat, finished : Nat]

NoCounters == [k \in Keys |-> [active |-> 0, lastReleaseSeq |-> 0]]

IdleCPA == [k \in Keys |-> [held |-> 0, finished |-> 0]]

Init ==
    /\ HomeInit
    /\ MemberInit
    /\ activePolicyCount = 0
    /\ auths = [c \in Credentials |-> "live"]
    /\ policies = [c \in Credentials |-> NoPolicy]
    /\ barrier = 0
    /\ counters = [f \in Fingerprints |-> NoCounters]
    /\ cpa = [f \in Fingerprints |-> IdleCPA]

-------------------------------------------------------------------------------
(* Policies *)

\* A normalised patch; an unset part carries no limits.
Patches ==
    {p \in [limitSet : BOOLEAN, limit : Limits, modelsSet : BOOLEAN, models : [Models -> Limits]] :
        /\ p.limitSet \/ p.limit = 0
        /\ p.modelsSet \/ \A m \in Models : p.models[m] = 0}

NoVersion == -1   \* a patch without an expected version

PolicyActive(p) == p.limit # 0 \/ \E m \in Models : p.models[m] # 0

\* concurrencyPolicyPatchCanActivate
CanActivate(patch) == patch.limit # 0 \/ \E m \in Models : patch.models[m] # 0

\* The policy row after an effective patch that takes barrier revision b.
Patched(p, patch, b) ==
    [version |-> p.version + 1,
     limit   |-> IF patch.limitSet THEN patch.limit ELSE p.limit,
     models  |-> IF patch.modelsSet THEN patch.models ELSE p.models,
     barrier |-> b]

\* verifyConcurrencyPolicyActivation, over the homes left after the expiry.
ActivationSafe(hs) ==
    /\ \A f \in Fingerprints : members[f].state = "active" => members[f].protocol = 1
    /\ \A h \in ActiveHomes(hs) : hs[h].capable
    /\ SQLite => Cardinality(ActiveHomes(hs)) <= 1

\* Faulty variant: the gate counts every patch that leaves a policy active.
PatchCountsEveryActivation(c, patch, expectedVersion) ==
    LET live == IF CanActivate(patch) THEN ExpireStale(homes) ELSE homes
        next == Patched(policies[c], patch, barrier + 1)
    IN
    /\ barrier < MaxBarrier
    /\ auths[c] = "live"
    /\ CanActivate(patch) => ActivationSafe(live)
    /\ expectedVersion \in {NoVersion, policies[c].version}
    /\ homes' = live
    /\ barrier' = barrier + 1
    /\ policies' = [policies EXCEPT ![c] = next]
    /\ activePolicyCount' = IF PolicyActive(next) THEN activePolicyCount + 1 ELSE activePolicyCount
    /\ UNCHANGED <<up, auths, counters, cpa>>
    /\ UNCHANGED memberVars

(***************************************************************************)
(* PatchCredentialConcurrencyPolicy.  A patch that sets nothing reports    *)
(* the current policy; one that can activate first expires silent homes    *)
(* and verifies that everyone connected understands the limiter.           *)
(***************************************************************************)
PatchCredentialConcurrencyPolicy(c, patch, expectedVersion) ==
    LET live == IF CanActivate(patch) THEN ExpireStale(homes) ELSE homes
        current == policies[c]
        next == Patched(current, patch, barrier + 1)
    IN
    /\ barrier < MaxBarrier
    /\ auths[c] = "live"
    /\ CanActivate(patch) => ActivationSafe(live)
    /\ expectedVersion \in {NoVersion, current.version}
    /\ patch.limitSet \/ patch.modelsSet
    /\ homes' = live
    /\ barrier' = barrier + 1
    /\ policies' = [policies EXCEPT ![c] = next]
    /\ activePolicyCount' =
            CASE PolicyActive(next) /\ ~ PolicyActive(current) -> activePolicyCount + 1
              [] ~ PolicyActive(next) /\ PolicyActive(current) -> activePolicyCount - 1
              [] OTHER -> activePolicyCount
    /\ UNCHANGED <<up, auths, counters, cpa>>
    /\ UNCHANGED memberVars

\* concurrencyExchangePolicyPatch: the whole policy; empty when it is not in the document.
ExchangePatch(document, c) ==
    [limitSet  |-> TRUE,
     limit     |-> IF c \in DOMAIN document THEN document[c].limit ELSE 0,
     modelsSet |-> TRUE,
     models    |-> IF c \in DOMAIN document THEN document[c].models ELSE [m \in Models |-> 0]]

(***************************************************************************)
(* ImportCredentialConcurrencyPolicies: in one transaction, every stored   *)
(* policy and every policy of the document is replaced; those not in the   *)
(* document are cleared, also when their credential is retired.  The       *)
(* barrier revisions follow the order of the credential identifiers, here  *)
(* any order.                                                              *)
(***************************************************************************)
ImportCredentialConcurrencyPolicies(document) ==
    LET targets == DOMAIN document \union {c \in Credentials : policies[c].version > 0}
        activating == {c \in targets : CanActivate(ExchangePatch(document, c))}
        live == IF activating # {} THEN ExpireStale(homes) ELSE homes
        next(c, b) == Patched(policies[c], ExchangePatch(document, c), b)
        gained == {c \in activating : ~ PolicyActive(policies[c])}
        lost == {c \in targets \ activating : PolicyActive(policies[c])}
    IN
    /\ barrier + Cardinality(targets) <= MaxBarrier
    /\ \A c \in DOMAIN document : auths[c] = "live"
    /\ activating # {} => ActivationSafe(live)
    /\ \E rank \in [targets -> 1 .. Cardinality(targets)] :
            /\ \A c, d \in targets : rank[c] = rank[d] => c = d
            /\ policies' = [c \in Credentials |->
                    IF c \in targets THEN next(c, barrier + rank[c]) ELSE policies[c]]
    /\ homes' = live
    /\ barrier' = barrier + Cardinality(targets)
    /\ activePolicyCount' = activePolicyCount + Cardinality(gained) - Cardinality(lost)
    /\ UNCHANGED <<up, auths, counters, cpa>>
    /\ UNCHANGED memberVars

\* RetireProviderAuth: a soft delete that leaves policy and counters alone.
RetireProviderAuth(c) ==
    /\ auths[c] = "live"
    /\ auths' = [auths EXCEPT ![c] = "retired"]
    /\ UNCHANGED <<homes, up, activePolicyCount, policies, barrier, counters, cpa>>
    /\ UNCHANGED memberVars

\* UpsertAuth of a soft-deleted row restores it.
RestoreAuth(c) ==
    /\ auths[c] = "retired"
    /\ auths' = [auths EXCEPT ![c] = "live"]
    /\ UNCHANGED <<homes, up, activePolicyCount, policies, barrier, counters, cpa>>
    /\ UNCHANGED memberVars

-------------------------------------------------------------------------------
(* Admission and release *)

\* sumConcurrencyCountsTx: the counts of every fingerprint, not only the caller's.
CredentialActive(cs, c) ==
    SumFunction([x \in Fingerprints \X Models |-> cs[x[1]][<<c, x[2]>>].active])

ModelActive(cs, c, m) == SumFunction([f \in Fingerprints |-> cs[f][<<c, m>>].active])

\* Faulty variant: only the slots of the requesting node are compared with the limits.
AdmitCountsOwnNode(f, at, h, k, protocol, delivered) ==
    LET own == [g \in Fingerprints |-> IF g = f THEN counters[f] ELSE NoCounters]
        limit == policies[k[1]].limit
        modelLimit == policies[k[1]].models[k[2]]
    IN
    /\ h \in up
    /\ ActiveLifetime(f, at, h)
    /\ HomeActive(h)
    /\ limit > 0 \/ modelLimit > 0
    /\ protocol = 1
    /\ limit > 0 => CredentialActive(own, k[1]) < limit
    /\ modelLimit > 0 => ModelActive(own, k[1], k[2]) < modelLimit
    /\ counters[f][k].active + counters[f][k].lastReleaseSeq < MaxSlots
    /\ counters' = [counters EXCEPT ![f][k].active = @ + 1]
    /\ cpa' = IF delivered THEN [cpa EXCEPT ![f][k].held = @ + 1] ELSE cpa
    /\ UNCHANGED <<homes, up, activePolicyCount, auths, policies, barrier>>
    /\ UNCHANGED memberVars

(***************************************************************************)
(* AdmitCredentialConcurrency of an accounted request: the transaction     *)
(* pins the lifetime, locks the policy and takes one slot.  delivered says *)
(* whether the reply reaches the CPA.  A request no limit applies to       *)
(* changes nothing.                                                        *)
(***************************************************************************)
AdmitCredentialConcurrency(f, at, h, k, protocol, delivered) ==
    LET c == k[1]
        limit == policies[c].limit
        modelLimit == policies[c].models[k[2]]
    IN
    /\ h \in up
    /\ ActiveLifetime(f, at, h)
    /\ HomeActive(h)
    /\ limit > 0 \/ modelLimit > 0
    /\ protocol = 1
    /\ limit > 0 => CredentialActive(counters, c) < limit
    /\ modelLimit > 0 => ModelActive(counters, c, k[2]) < modelLimit
    /\ counters[f][k].active + counters[f][k].lastReleaseSeq < MaxSlots
    /\ counters' = [counters EXCEPT ![f][k].active = @ + 1]
    /\ cpa' = IF delivered THEN [cpa EXCEPT ![f][k].held = @ + 1] ELSE cpa
    /\ UNCHANGED <<homes, up, activePolicyCount, auths, policies, barrier>>
    /\ UNCHANGED memberVars

\* A request ends at the CPA, which will report it with the next release.
FinishRequest(f, k) ==
    /\ cpa[f][k].held > 0
    /\ cpa' = [cpa EXCEPT ![f][k].held = @ - 1, ![f][k].finished = @ + 1]
    /\ UNCHANGED <<homes, up, activePolicyCount, auths, policies, barrier, counters>>
    /\ UNCHANGED memberVars

\* Faulty variant: the cumulative sequence is subtracted instead of its increase.
ReleaseSubtractsSequence(f, at, h, k, seq) ==
    LET row == counters[f][k] IN
    /\ h \in up
    /\ ActiveLifetime(f, at, h)
    /\ HomeActive(h)
    /\ seq \in 1 .. cpa[f][k].finished
    /\ seq > row.lastReleaseSeq
    /\ seq - row.lastReleaseSeq <= row.active
    /\ counters' = [counters EXCEPT ![f][k] = [active |-> row.active - seq, lastReleaseSeq |-> seq]]
    /\ UNCHANGED <<homes, up, activePolicyCount, auths, policies, barrier, cpa>>
    /\ UNCHANGED memberVars

(***************************************************************************)
(* ApplyConcurrencyRelease of a cumulative sequence the CPA has reached:   *)
(* late, repeated and reordered frames all carry some such sequence.       *)
(***************************************************************************)
ApplyConcurrencyRelease(f, at, h, k, seq) ==
    LET row == counters[f][k]
        delta == seq - row.lastReleaseSeq
    IN
    /\ h \in up
    /\ ActiveLifetime(f, at, h)
    /\ HomeActive(h)
    /\ seq \in 1 .. cpa[f][k].finished
    /\ delta > 0
    /\ delta <= row.active
    /\ counters' = [counters EXCEPT ![f][k] = [active |-> row.active - delta, lastReleaseSeq |-> seq]]
    /\ UNCHANGED <<homes, up, activePolicyCount, auths, policies, barrier, cpa>>
    /\ UNCHANGED memberVars

-------------------------------------------------------------------------------
(* Membership transactions, with what they do to the limiter's tables *)

\* Faulty variant: a takeover starts the counters afresh, as a new membership does.
TakeoverForgetsSlots(f, h, protocol, revision, takeover) ==
    /\ SubscribeMembership(f, h, protocol, revision, takeover)
    /\ cpa' = IF takeover THEN cpa ELSE [cpa EXCEPT ![f] = IdleCPA]
    /\ counters' = [counters EXCEPT ![f] = NoCounters]
    /\ UNCHANGED <<homes, up, activePolicyCount, auths, policies, barrier>>

\* A takeover keeps the counters; after a closed lifetime the CPA starts from nothing.
Subscribe(f, h, protocol, revision, takeover) ==
    /\ SubscribeMembership(f, h, protocol, revision, takeover)
    /\ cpa' = IF takeover THEN cpa ELSE [cpa EXCEPT ![f] = IdleCPA]
    /\ UNCHANGED <<homes, up, activePolicyCount, auths, policies, barrier, counters>>

\* Faulty variant: the counts are cleared and the release sequences kept.
DeleteKeepsSequences(f) ==
    /\ counters' = [counters EXCEPT ![f] = [k \in Keys |-> [counters[f][k] EXCEPT !.active = 0]]]
    /\ cpa' = [cpa EXCEPT ![f] = IdleCPA]

\* DeleteFingerprintConcurrencyCountersTx, and the CPA dropping its work with its membership.
DeleteFingerprintConcurrencyCounters(f) ==
    /\ counters' = [counters EXCEPT ![f] = NoCounters]
    /\ cpa' = [cpa EXCEPT ![f] = IdleCPA]

CompleteFingerprintCancellation(f, at, r) ==
    /\ CompleteCancellation(f, at, r)
    /\ DeleteFingerprintConcurrencyCounters(f)
    /\ UNCHANGED <<homes, up, activePolicyCount, auths, policies, barrier>>

\* recoverStaleMembershipQuiescence: recover the rows, then close if that made it quiescent.
RecoverStaleQuiescence(f) ==
    /\ RecoverQuiescenceRows(f)
    /\ IF Quiescent(f, RecoveredRows(f))
       THEN CloseMembership(f) /\ DeleteFingerprintConcurrencyCounters(f)
       ELSE UNCHANGED <<members, participations, counters, cpa>>
    /\ UNCHANGED <<activePolicyCount, auths, policies, barrier>>

-------------------------------------------------------------------------------
HomeStep ==
    /\ \E h \in Incarnations :
        \/ \E capable \in Capabilities : RegisterHomeIncarnation(h, capable)
        \/ HeartbeatHomeIncarnation(h)
        \/ HeartbeatRefused(h)
        \/ RetireHomeIncarnation(h)
        \/ CrashHome(h)
        \/ HomeAges(h)
    /\ classifying' = {s \in classifying : s.home \in up'}
    /\ UNCHANGED <<activePolicyCount, members, participations, quiescence, lifecycleRevision>>
    /\ UNCHANGED limiterVars

\* Over the wire protocol 0 names no revision and cannot take over.
SubscribeStep ==
    \E f \in Fingerprints, h \in Incarnations :
        \/ 0 \in Protocols /\ Subscribe(f, h, 0, 0, FALSE)
        \/ 1 \in Protocols /\ \E revision \in 1 .. MaxLifecycleRevision, takeover \in BOOLEAN :
                Subscribe(f, h, 1, revision, takeover)

MemberStep ==
    /\ \/ \E f \in Fingerprints, h \in Incarnations :
            \/ ClassifyConnection(f, h)
            \/ \E at \in 1 .. MaxLifetime : JoinLifetime(f, at, h) \/ RefreshCPALiveness(f, at, h)
            \/ \E at \in 1 .. MaxLifetime, r \in 1 .. MaxLifetime : AcknowledgeQuiescence(f, at, r, h)
       \/ \E f \in Fingerprints : MemberAges(f)
       \/ UpdateLifecycleConfig
    /\ UNCHANGED <<homes, up, activePolicyCount>>
    /\ UNCHANGED limiterVars

CancelStep ==
    /\ \E f \in Fingerprints :
        \/ CleanupStaleMembership(f)
        \/ \E at \in 1 .. MaxLifetime, h \in Incarnations :
                BeginFingerprintCancellationForLifetime(f, at, h)
    /\ UNCHANGED activePolicyCount
    /\ UNCHANGED limiterVars

CompleteStep ==
    \E f \in Fingerprints :
        \/ \E at \in 1 .. MaxLifetime, r \in 1 .. MaxLifetime : CompleteFingerprintCancellation(f, at, r)
        \/ RecoverStaleQuiescence(f)

Documents == UNION {[D -> [limit : Limits, models : [Models -> Limits]]] : D \in SUBSET Credentials}

PolicyStep ==
    \/ \E c \in Credentials, patch \in Patches, v \in {NoVersion} \union 0 .. MaxBarrier :
            PatchCredentialConcurrencyPolicy(c, patch, v)
    \/ \E document \in Documents : ImportCredentialConcurrencyPolicies(document)
    \/ \E c \in Credentials : RetireProviderAuth(c) \/ RestoreAuth(c)

SlotStep ==
    \E f \in Fingerprints, k \in Keys :
        \/ \E at \in 1 .. MaxLifetime, h \in Incarnations :
            \/ \E protocol \in {0, 1}, delivered \in BOOLEAN :
                    AdmitCredentialConcurrency(f, at, h, k, protocol, delivered)
            \/ \E seq \in 1 .. MaxSlots : ApplyConcurrencyRelease(f, at, h, k, seq)
        \/ FinishRequest(f, k)

Next ==
    \/ HomeStep
    \/ SubscribeStep
    \/ MemberStep
    \/ CancelStep
    \/ CompleteStep
    \/ PolicyStep
    \/ SlotStep

Spec == Init /\ [][Next]_vars

-------------------------------------------------------------------------------
(* Properties *)

\* The type invariant: every table holds rows of its shape.
TypeOK ==
    /\ homes \in [Incarnations -> HomeRecords]
    /\ up \subseteq Incarnations
    /\ activePolicyCount \in Int
    /\ members \in [Fingerprints -> MemberRecords]
    /\ classifying \subseteq Participations
    /\ participations \subseteq Participations
    /\ quiescence \subseteq QuiescenceRows
    /\ lifecycleRevision \in Nat
    /\ auths \in [Credentials -> {"live", "retired"}]
    /\ policies \in [Credentials -> PolicyRecords]
    /\ barrier \in Nat
    /\ counters \in [Fingerprints -> [Keys -> CounterRecords]]
    /\ cpa \in [Fingerprints -> [Keys -> CPARecords]]

\* The activation gate counts the active policies exactly, through patches and
\* imports, also of retired credentials (patchCredentialConcurrencyPolicyWithAuthScopeTx).
GateCountsActivePolicies ==
    activePolicyCount = Cardinality({c \in Credentials : PolicyActive(policies[c])})

\* While any policy is active, no active membership speaks protocol 0, no active Home
\* lacks the limiter capability, and SQLite has at most one active Home: the checks of
\* registration, subscription and activation leave no order of the three that slips through.
NobodyUnawareOfLimits ==
    activePolicyCount > 0 =>
        /\ \A f \in Fingerprints : members[f].state = "active" => members[f].protocol = 1
        /\ \A h \in ActiveHomes(homes) : homes[h].capable
        /\ SQLite => Cardinality(ActiveHomes(homes)) <= 1

\* The counters never lose a running request: what a CPA still runs is at most what is
\* counted for it, whatever releases were repeated or reordered and whatever takeovers
\* moved the membership (ApplyConcurrencyRelease, SubscribeMembership).
CountersCoverRunningWork ==
    \A f \in Fingerprints, k \in Keys : cpa[f][k].held <= counters[f][k].active

\* Why they cover it: every finished request was granted a slot that is still counted or was
\* released, and the release sequence stored is one the CPA has really reached.
SlotAccounting ==
    \A f \in Fingerprints, k \in Keys :
        /\ cpa[f][k].held + cpa[f][k].finished <= counters[f][k].active + counters[f][k].lastReleaseSeq
        /\ counters[f][k].lastReleaseSeq <= cpa[f][k].finished

\* No slot outlives its membership: without an open membership a fingerprint holds
\* no counter (completeFingerprintCancellationTx deletes them all).
ClosedHoldsNoSlot ==
    \A f \in Fingerprints : ~ Open(f) => counters[f] = NoCounters

\* A cancellation can always complete: a canceling membership has exactly the rows it
\* expects, for its own lifetime and revision, so it never waits on a row that is missing.
QuiescenceSetComplete ==
    \A f \in Fingerprints :
        LET m == members[f]
            rows == RowsOf(f, m.connectedAt, m.cancelRevision)
        IN m.state = "canceling" =>
            /\ m.expected > 0
            /\ {row.home : row \in rows} = {m.home} \union ParticipantsOf(f, m.connectedAt)
            /\ Cardinality(rows) = m.expected

\* Only the owner ever serves a lifetime, although RecordParticipation checks the lifetime
\* and not the owner, in a transaction after the one that read them.
OnlyOwnerParticipates ==
    \A p \in participations :
        /\ Open(p.fingerprint)
        /\ members[p.fingerprint].connectedAt = p.connectedAt
        /\ members[p.fingerprint].home = p.home

\* The safety durations never change under an open membership: it was accepted under the
\* revision now in force (SubscribeMembership against UpdateLifecycleConfig).
LifecycleRevisionPinned ==
    \A f \in Fingerprints : Open(f) => members[f].lifecycleRevision = lifecycleRevision

\* A grant never exceeds a limit in force: a step that takes a slot of a credential leaves
\* the sum over all CPA nodes within its limit and within the model's.
GrantsStayWithinLimits ==
    [][\A c \in Credentials, m \in Models :
        LET taken == ModelActive(counters', c, m) > ModelActive(counters, c, m) IN
        /\ taken /\ policies[c].limit > 0 => CredentialActive(counters', c) <= policies[c].limit
        /\ taken /\ policies[c].models[m] > 0 => ModelActive(counters', c, m) <= policies[c].models[m]]_vars

\* Slots are reclaimed only after every home of the lifetime is out of the way: when a
\* membership closes, each home that could act for it has acknowledged this very
\* lifetime or is past the reclaim grace and no longer active.
ReclaimOnlyWhenQuiet ==
    [][\A f \in Fingerprints :
        Open(f) /\ members'[f].state = "closed" =>
            \A h \in {members[f].home} \union ParticipantsOf(f, members[f].connectedAt) :
                \/ \E row \in quiescence :
                        /\ row.fingerprint = f /\ row.home = h /\ row.status = "acknowledged"
                        /\ row.connectedAt = members[f].connectedAt
                \/ homes'[h].state \notin {"none", "active"} /\ homes'[h].age = Dead]_vars

\* A lifetime never comes back: connected_at only grows, and a lifetime that began to be
\* canceled is never active again.
LifetimesNeverRevive ==
    [][\A f \in Fingerprints :
        /\ members'[f].connectedAt >= members[f].connectedAt
        /\ members'[f].connectedAt = members[f].connectedAt /\ members[f].state # "active"
                => members'[f].state # "active"]_vars

\* An incarnation that is out is out: only a registration makes a row active.
IncarnationsNeverRevive ==
    [][\A h \in Incarnations :
        homes[h].state \notin {"none", "active"} => homes'[h].state # "active"]_vars

\* Nothing that has ended begins again: neither the lifetime of a CPA node nor the
\* incarnation of a Home (RecordHeartbeat and the takeover in membership.go, Heartbeat in
\* home_incarnation.go).
NothingRevives == LifetimesNeverRevive /\ IncarnationsNeverRevive
===============================================================================
