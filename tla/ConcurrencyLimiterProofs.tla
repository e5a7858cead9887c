----------------------- MODULE ConcurrencyLimiterProofs -----------------------
(***************************************************************************)
(* Machine-checked proofs about the strict limiter, for any number of      *)
(* Homes, CPA nodes, credentials and models and any bounds: the counters   *)
(* of slots and policies; then the lifetimes of CPA nodes and the          *)
(* incarnations of Homes: what has ended stays ended, a lifetime has one   *)
(* owner, a cancellation waits for everyone who may act for its lifetime   *)
(* and for nobody else, and slots are reclaimed only then.                 *)
(***************************************************************************)
EXTENDS ConcurrencyLimiter, SumLemmas

\* Every membership that ever existed has an owner: cancellation rows name real homes.
OwnerKnown == \A f \in Fingerprints : members[f].state # "none" => members[f].home \in Incarnations

TypeInv == TypeOK /\ OwnerKnown

-------------------------------------------------------------------------------
(* Helpers of the homes table *)

LEMMA ExpireStaleType ==
    ASSUME NEW hs \in [Incarnations -> HomeRecords]
    PROVE  ExpireStale(hs) \in [Incarnations -> HomeRecords]
BY DEF ExpireStale, HomeRecords, HomeStates, Fresh, Stale, Dead

LEMMA ResolvedHomeType ==
    ASSUME NEW r \in HomeRecords
    PROVE  ResolvedHome(r) \in HomeRecords
BY DEF ResolvedHome, HomeRecords, HomeStates, Fresh, Stale, Dead

LEMMA ResolveHomesType ==
    ASSUME NEW hs \in [Incarnations -> HomeRecords], NEW S
    PROVE  ResolveHomes(hs, S) \in [Incarnations -> HomeRecords]
BY ResolvedHomeType DEF ResolveHomes

LEMMA ParticipantsFinite ==
    ASSUME NEW f, NEW c, NEW h \in Incarnations
    PROVE  /\ {h} \union ParticipantsOf(f, c) \subseteq Incarnations
           /\ IsFiniteSet({h} \union ParticipantsOf(f, c))
           /\ Cardinality({h} \union ParticipantsOf(f, c)) \in Nat
<1>1. {h} \union ParticipantsOf(f, c) \subseteq Incarnations
  BY DEF ParticipantsOf
<1>2. IsFiniteSet({h} \union ParticipantsOf(f, c))
  BY <1>1, IncarnationsAssumption, FS_Subset
<1> QED
  BY <1>1, <1>2, FS_CardinalityType

-------------------------------------------------------------------------------
(* Type correctness, one lemma per group of actions *)

LEMMA InitTypeInv == Init => TypeInv
BY DEF Init, HomeInit, MemberInit, TypeInv, TypeOK, OwnerKnown, HomeRecords, HomeStates,
    Fresh, Stale, Dead, MemberRecords, MemberStates, NoMember, Participations, QuiescenceRows,
    PolicyRecords, NoPolicy, CounterRecords, CPARecords, NoCounters, IdleCPA

LEMMA HomeStepTypeInv == TypeInv /\ HomeStep => TypeInv'
<1> SUFFICES ASSUME TypeInv, HomeStep PROVE TypeInv'
  OBVIOUS
<1>1. UNCHANGED <<activePolicyCount, members, participations, quiescence, lifecycleRevision,
                  auths, policies, barrier, counters, cpa>>
  BY DEF HomeStep, memberVars, limiterVars
<1>0. classifying' \subseteq Participations
  BY DEF HomeStep, TypeInv, TypeOK
<1>2. homes' \in [Incarnations -> HomeRecords] /\ up' \subseteq Incarnations
  <2> USE DEF TypeInv, TypeOK
  <2>1. PICK h \in Incarnations :
          \/ \E capable \in Capabilities : RegisterHomeIncarnation(h, capable)
          \/ HeartbeatHomeIncarnation(h)
          \/ HeartbeatRefused(h)
          \/ RetireHomeIncarnation(h)
          \/ CrashHome(h)
          \/ HomeAges(h)
    BY DEF HomeStep
  <2>2. CASE \E capable \in Capabilities : RegisterHomeIncarnation(h, capable)
    BY <2>2, ExpireStaleType, CapabilitiesAssumption
    DEF RegisterHomeIncarnation, HomeRecords, HomeStates, Fresh, Stale, Dead
  <2>3. CASE HeartbeatHomeIncarnation(h)
    <3>1. homes' = [homes EXCEPT ![h].age = Fresh] /\ up' = up
      BY <2>3 DEF HeartbeatHomeIncarnation
    <3> QED
      BY <3>1 DEF HomeRecords, Fresh, Dead
  <2>4. CASE HeartbeatRefused(h) \/ CrashHome(h)
    BY <2>4 DEF HeartbeatRefused, CrashHome
  <2>5. CASE RetireHomeIncarnation(h)
    BY <2>5 DEF RetireHomeIncarnation, HomeRecords, HomeStates
  <2>6. CASE HomeAges(h)
    BY <2>6 DEF HomeAges, HomeRecords, HomeStates, Fresh, Stale, Dead
  <2> QED
    BY <2>1, <2>2, <2>3, <2>4, <2>5, <2>6
<1> QED
  BY <1>0, <1>1, <1>2 DEF TypeInv, TypeOK, OwnerKnown

LEMMA SubscribeStepTypeInv == TypeInv /\ SubscribeStep => TypeInv'
<1> SUFFICES ASSUME TypeInv, NEW f \in Fingerprints, NEW h \in Incarnations,
                    NEW protocol \in {0, 1}, NEW revision, NEW takeover,
                    Subscribe(f, h, protocol, revision, takeover)
             PROVE  TypeInv'
  BY DEF SubscribeStep
<1> USE DEF TypeInv, TypeOK, Subscribe, SubscribeMembership
<1>1. members' \in [Fingerprints -> MemberRecords]
  BY DEF MemberRecords, MemberStates, Fresh, Stale
<1>2. OwnerKnown'
  BY DEF OwnerKnown
<1>3. participations' \subseteq Participations /\ quiescence' \subseteq QuiescenceRows
  OBVIOUS
<1>4. cpa' \in [Fingerprints -> [Keys -> CPARecords]]
  BY DEF IdleCPA, CPARecords
<1> QED
  BY <1>1, <1>2, <1>3, <1>4

\* The steps of a running membership change its heartbeat age at most.
LEMMA MemberStepMembers ==
    ASSUME MemberStep
    PROVE  \/ members' = members
           \/ \E f \in Fingerprints : members' = [members EXCEPT ![f].age = Fresh]
           \/ \E f \in Fingerprints : members' = [members EXCEPT ![f].age = Stale]
<1>1. ASSUME NEW f \in Fingerprints, NEW h \in Incarnations, NEW at, RefreshCPALiveness(f, at, h)
      PROVE  members' = [members EXCEPT ![f].age = Fresh]
  BY <1>1 DEF RefreshCPALiveness
<1>2. ASSUME NEW f \in Fingerprints, MemberAges(f)
      PROVE  members' = [members EXCEPT ![f].age = Stale]
  BY <1>2 DEF MemberAges
<1>3. ASSUME NEW f, NEW h, NEW at, NEW r,
             \/ ClassifyConnection(f, h)
             \/ JoinLifetime(f, at, h)
             \/ AcknowledgeQuiescence(f, at, r, h)
             \/ UpdateLifecycleConfig
      PROVE  members' = members
  BY <1>3 DEF ClassifyConnection, JoinLifetime, AcknowledgeQuiescence, UpdateLifecycleConfig
<1> QED
  BY <1>1, <1>2, <1>3 DEF MemberStep

LEMMA MemberStepTypeInv == TypeInv /\ MemberStep => TypeInv'
<1> SUFFICES ASSUME TypeInv, MemberStep PROVE TypeInv'
  OBVIOUS
<1>1. UNCHANGED <<homes, up, activePolicyCount, auths, policies, barrier, counters, cpa>>
  BY DEF MemberStep, limiterVars
<1> DEFINE Goal ==
      /\ members' \in [Fingerprints -> MemberRecords]
      /\ classifying' \subseteq Participations
      /\ participations' \subseteq Participations
      /\ quiescence' \subseteq QuiescenceRows
      /\ lifecycleRevision' \in Nat
      /\ OwnerKnown'
<1>2. Goal
  <2> USE DEF TypeInv, TypeOK
  <2>1. ASSUME NEW f \in Fingerprints, NEW h \in Incarnations, ClassifyConnection(f, h)
        PROVE  Goal
    <3>1. members[f].connectedAt \in Nat
      BY DEF MemberRecords
    <3>2. classifying' \subseteq Participations
      BY <2>1, <3>1 DEF ClassifyConnection, Serving, Participations
    <3> QED
      BY <2>1, <3>2 DEF ClassifyConnection, OwnerKnown
  <2>6. ASSUME NEW f \in Fingerprints, NEW h \in Incarnations, NEW at, JoinLifetime(f, at, h)
        PROVE  Goal
    <3>1. Serving(f, at, h) \in Participations
      BY <2>6 DEF JoinLifetime
    <3>2. classifying' \subseteq Participations /\ participations' \subseteq Participations
      BY <2>6, <3>1 DEF JoinLifetime, RecordParticipation
    <3> QED
      BY <2>6, <3>2 DEF JoinLifetime, OwnerKnown
  <2>2. ASSUME NEW f \in Fingerprints, NEW h \in Incarnations, NEW at, RefreshCPALiveness(f, at, h)
        PROVE  Goal
    BY <2>2 DEF RefreshCPALiveness, MemberRecords, OwnerKnown, Fresh, Stale
  <2>3. ASSUME NEW f \in Fingerprints, NEW h \in Incarnations, NEW at, NEW r,
               AcknowledgeQuiescence(f, at, r, h)
        PROVE  Goal
    <3>1. quiescence' \subseteq QuiescenceRows
      BY <2>3 DEF AcknowledgeQuiescence, RowsOf, QuiescenceRows
    <3> QED
      BY <2>3, <3>1 DEF AcknowledgeQuiescence, OwnerKnown
  <2>4. ASSUME NEW f \in Fingerprints, MemberAges(f)
        PROVE  Goal
    <3>1. /\ members' = [members EXCEPT ![f].age = Stale]
          /\ UNCHANGED <<classifying, participations, quiescence, lifecycleRevision>>
      BY <2>4 DEF MemberAges
    <3>2. members' \in [Fingerprints -> MemberRecords]
      <4>1. [members[f] EXCEPT !.age = Stale] \in MemberRecords
        BY DEF MemberRecords, Stale
      <4> QED
        BY <3>1, <4>1
    <3>3. OwnerKnown'
      BY <3>1 DEF OwnerKnown
    <3> QED
      BY <3>1, <3>2, <3>3
  <2>5. ASSUME UpdateLifecycleConfig
        PROVE  Goal
    BY <2>5 DEF UpdateLifecycleConfig, OwnerKnown
  <2> HIDE DEF Goal
  <2> QED
    BY <2>1, <2>2, <2>3, <2>4, <2>5, <2>6 DEF MemberStep
<1> QED
  BY <1>1, <1>2 DEF TypeInv, TypeOK

LEMMA CancelStepTypeInv == TypeInv /\ CancelStep => TypeInv'
<1> SUFFICES ASSUME TypeInv, CancelStep PROVE TypeInv'
  OBVIOUS
<1> USE DEF TypeInv, TypeOK
<1>1. UNCHANGED <<activePolicyCount, auths, policies, barrier, counters, cpa>>
  BY DEF CancelStep, limiterVars
<1>2. PICK f \in Fingerprints : BeginCancellation(f)
  BY DEF CancelStep, CleanupStaleMembership, BeginFingerprintCancellationForLifetime
<1> DEFINE m == members[f]
           candidates == {m.home} \union ParticipantsOf(f, m.connectedAt)
           resolved == ResolveHomes(homes, candidates)
<1>3. m \in MemberRecords /\ m.home \in Incarnations
  BY <1>2 DEF BeginCancellation, OwnerKnown
<1>4. candidates \subseteq Incarnations /\ Cardinality(candidates) \in Nat
  <2> HIDE DEF m
  <2> QED
    BY <1>3, ParticipantsFinite
<1>5. homes' \in [Incarnations -> HomeRecords]
  BY <1>2, ResolveHomesType DEF BeginCancellation
<1>6. members' \in [Fingerprints -> MemberRecords] /\ OwnerKnown'
  <2>1. members' = [members EXCEPT ![f].state = "canceling",
                                   ![f].cancelRevision = m.cancelRevision + 1,
                                   ![f].expected = Cardinality(candidates)]
    BY <1>2 DEF BeginCancellation
  <2> HIDE DEF candidates
  <2> QED
    BY <2>1, <1>3, <1>4 DEF MemberRecords, MemberStates, OwnerKnown
<1>7. quiescence' \subseteq QuiescenceRows
  <2>1. quiescence' = quiescence \union
          {[fingerprint |-> f, connectedAt |-> m.connectedAt, revision |-> m.cancelRevision + 1,
            home |-> h, status |-> IF HomeReclaimable(resolved[h]) THEN "fenced" ELSE "pending"] :
              h \in candidates}
    BY <1>2 DEF BeginCancellation
  <2>2. m.connectedAt \in Nat /\ m.cancelRevision + 1 \in Nat
    BY <1>3 DEF MemberRecords
  <2> HIDE DEF candidates, resolved, m
  <2> QED
    BY <2>1, <2>2, <1>4 DEF QuiescenceRows
<1>8. UNCHANGED <<up, classifying, participations, lifecycleRevision>>
  BY <1>2 DEF BeginCancellation
<1> QED
  BY <1>1, <1>5, <1>6, <1>7, <1>8

LEMMA CompleteStepTypeInv == TypeInv /\ CompleteStep => TypeInv'
<1> SUFFICES ASSUME TypeInv, NEW f \in Fingerprints,
                    \/ \E at, r : CompleteFingerprintCancellation(f, at, r)
                    \/ RecoverStaleQuiescence(f)
             PROVE  TypeInv'
  BY DEF CompleteStep
<1> USE DEF TypeInv, TypeOK
<1>1. ASSUME members[f].state = "canceling", CloseMembership(f), DeleteFingerprintConcurrencyCounters(f)
      PROVE  /\ members' \in [Fingerprints -> MemberRecords]
             /\ OwnerKnown'
             /\ participations' \subseteq Participations
             /\ counters' \in [Fingerprints -> [Keys -> CounterRecords]]
             /\ cpa' \in [Fingerprints -> [Keys -> CPARecords]]
  <2>1. members' \in [Fingerprints -> MemberRecords]
    <3>1. members' = [members EXCEPT ![f].state = "closed"]
      BY <1>1 DEF CloseMembership
    <3>2. [members[f] EXCEPT !.state = "closed"] \in MemberRecords
      BY DEF MemberRecords, MemberStates
    <3> QED
      BY <3>1, <3>2
  <2>2. OwnerKnown'
    <3>1. \A g \in Fingerprints : members'[g].home = members[g].home
                                /\ (g # f => members'[g].state = members[g].state)
      BY <1>1 DEF CloseMembership
    <3>2. members[f].state # "none"
      BY <1>1
    <3> QED
      BY <3>1, <3>2 DEF OwnerKnown
  <2> QED
    BY <1>1, <2>1, <2>2 DEF CloseMembership, DeleteFingerprintConcurrencyCounters, NoCounters, IdleCPA,
      CounterRecords, CPARecords
<1>2. CASE \E at, r : CompleteFingerprintCancellation(f, at, r)
  BY <1>1, <1>2 DEF CompleteFingerprintCancellation, CompleteCancellation
<1>3. CASE RecoverStaleQuiescence(f)
  <2>1. homes' \in [Incarnations -> HomeRecords] /\ up' \subseteq Incarnations
    BY <1>3, ResolveHomesType DEF RecoverStaleQuiescence, RecoverQuiescenceRows, RecoveredHomes
  <2>2. quiescence' \subseteq QuiescenceRows
    <3>1. RecoveredRows(f) \subseteq QuiescenceRows
      <4>1. ASSUME NEW row \in RowsOf(f, members[f].connectedAt, members[f].cancelRevision)
            PROVE  row \in QuiescenceRows /\ [row EXCEPT !.status = "fenced"] \in QuiescenceRows
        BY <4>1 DEF RowsOf, QuiescenceRows
      <4> QED
        BY <4>1 DEF RecoveredRows
    <3> QED
      BY <1>3, <3>1 DEF RecoverStaleQuiescence, RecoverQuiescenceRows
  <2>3. /\ members' \in [Fingerprints -> MemberRecords]
        /\ OwnerKnown'
        /\ participations' \subseteq Participations
        /\ counters' \in [Fingerprints -> [Keys -> CounterRecords]]
        /\ cpa' \in [Fingerprints -> [Keys -> CPARecords]]
    BY <1>1, <1>3 DEF RecoverStaleQuiescence, RecoverQuiescenceRows, OwnerKnown
  <2> QED
    BY <1>3, <2>1, <2>2, <2>3 DEF RecoverStaleQuiescence, RecoverQuiescenceRows
<1> QED
  BY <1>2, <1>3

LEMMA PatchedType ==
    ASSUME NEW p \in PolicyRecords, NEW b \in Nat, NEW patch,
           patch.limit \in Nat, patch.models \in [Models -> Nat]
    PROVE  Patched(p, patch, b) \in PolicyRecords
BY DEF Patched, PolicyRecords

LEMMA PolicyStepTypeInv == TypeInv /\ PolicyStep => TypeInv'
<1> SUFFICES ASSUME TypeInv, PolicyStep PROVE TypeInv'
  OBVIOUS
<1> USE DEF TypeInv, TypeOK
<1>2. ASSUME NEW c \in Credentials, NEW patch \in Patches, NEW v,
             PatchCredentialConcurrencyPolicy(c, patch, v)
      PROVE  TypeInv'
  <2>1. Patched(policies[c], patch, barrier + 1) \in PolicyRecords
    <3>1. /\ patch.limit \in Nat /\ patch.models \in [Models -> Nat]
          /\ policies[c] \in PolicyRecords
      BY LimitsAssumption DEF Patches
    <3> QED
      BY <3>1, PatchedType
  <2>2. policies' \in [Credentials -> PolicyRecords]
    BY <1>2, <2>1 DEF PatchCredentialConcurrencyPolicy
  <2>3. homes' \in [Incarnations -> HomeRecords]
    BY <1>2, ExpireStaleType DEF PatchCredentialConcurrencyPolicy
  <2>4. activePolicyCount' \in Int /\ barrier' \in Nat
    <3> DEFINE next == Patched(policies[c], patch, barrier + 1)
    <3>1. activePolicyCount' =
            CASE PolicyActive(next) /\ ~ PolicyActive(policies[c]) -> activePolicyCount + 1
              [] ~ PolicyActive(next) /\ PolicyActive(policies[c]) -> activePolicyCount - 1
              [] OTHER -> activePolicyCount
      BY <1>2 DEF PatchCredentialConcurrencyPolicy
    <3>2. barrier' = barrier + 1
      BY <1>2 DEF PatchCredentialConcurrencyPolicy
    <3> HIDE DEF next
    <3> QED
      BY <3>1, <3>2
  <2> QED
    BY <1>2, <2>2, <2>3, <2>4 DEF PatchCredentialConcurrencyPolicy, memberVars, OwnerKnown
<1>3. ASSUME NEW document \in Documents, ImportCredentialConcurrencyPolicies(document)
      PROVE  TypeInv'
  <2> DEFINE targets == DOMAIN document \union {c \in Credentials : policies[c].version > 0}
  <2>1. PICK D \in SUBSET Credentials :
          document \in [D -> [limit : Limits, models : [Models -> Limits]]]
    BY DEF Documents
  <2>2. targets \subseteq Credentials /\ IsFiniteSet(targets) /\ Cardinality(targets) \in Nat
    <3>1. targets \subseteq Credentials
      BY <2>1
    <3> QED
      BY <3>1, CredentialsAssumption, FS_Subset, FS_CardinalityType
  <2>3. ASSUME NEW S \in SUBSET targets PROVE Cardinality(S) \in Nat
    BY <2>2, FS_Subset, FS_CardinalityType
  <2>4. ASSUME NEW c \in Credentials, NEW b \in Nat
        PROVE  Patched(policies[c], ExchangePatch(document, c), b) \in PolicyRecords
    <3> DEFINE patch == ExchangePatch(document, c)
    <3>1. patch.limit = IF c \in D THEN document[c].limit ELSE 0
      BY <2>1 DEF ExchangePatch
    <3>2. patch.models = IF c \in D THEN document[c].models ELSE [mm \in Models |-> 0]
      BY <2>1 DEF ExchangePatch
    <3>3. c \in D => document[c].limit \in Nat /\ document[c].models \in [Models -> Nat]
      BY <2>1, LimitsAssumption
    <3>4. patch.limit \in Nat /\ patch.models \in [Models -> Nat]
      BY <3>1, <3>2, <3>3
    <3>5. policies[c] \in PolicyRecords
      OBVIOUS
    <3> QED
      BY <3>4, <3>5, PatchedType
  <2>5. policies' \in [Credentials -> PolicyRecords]
    <3>1. PICK rank \in [targets -> 1 .. Cardinality(targets)] :
            policies' = [c \in Credentials |->
              IF c \in targets THEN Patched(policies[c], ExchangePatch(document, c), barrier + rank[c])
                               ELSE policies[c]]
      BY <1>3 DEF ImportCredentialConcurrencyPolicies
    <3>2. \A c \in targets : barrier + rank[c] \in Nat
      BY <2>2
    <3> HIDE DEF targets
    <3> QED
      BY <3>1, <3>2, <2>4
  <2>6. homes' \in [Incarnations -> HomeRecords]
    BY <1>3, ExpireStaleType DEF ImportCredentialConcurrencyPolicies
  <2>7. activePolicyCount' \in Int /\ barrier' \in Nat
    <3> DEFINE activating == {c \in targets : CanActivate(ExchangePatch(document, c))}
               gained == {c \in activating : ~ PolicyActive(policies[c])}
               lost == {c \in targets \ activating : PolicyActive(policies[c])}
    <3>1. /\ activePolicyCount' = activePolicyCount + Cardinality(gained) - Cardinality(lost)
          /\ barrier' = barrier + Cardinality(targets)
      BY <1>3 DEF ImportCredentialConcurrencyPolicies
    <3>2. Cardinality(gained) \in Nat /\ Cardinality(lost) \in Nat
      BY <2>3
    <3> HIDE DEF gained, lost, targets
    <3> QED
      BY <3>1, <3>2, <2>2
  <2> QED
    BY <1>3, <2>5, <2>6, <2>7 DEF ImportCredentialConcurrencyPolicies, memberVars, OwnerKnown
<1>4. ASSUME NEW c \in Credentials, RetireProviderAuth(c) \/ RestoreAuth(c)
      PROVE  TypeInv'
  BY <1>4 DEF RetireProviderAuth, RestoreAuth, memberVars, OwnerKnown
<1> QED
  BY <1>2, <1>3, <1>4 DEF PolicyStep

LEMMA HeldUpdateType ==
    ASSUME NEW r \in CPARecords, NEW n \in Nat
    PROVE  [r EXCEPT !.held = n] \in CPARecords
BY DEF CPARecords

LEMMA SlotStepTypeInv == TypeInv /\ SlotStep => TypeInv'
<1> SUFFICES ASSUME TypeInv, NEW f \in Fingerprints, NEW k \in Keys,
                    \/ \E at, h, protocol, delivered :
                          AdmitCredentialConcurrency(f, at, h, k, protocol, delivered)
                    \/ \E at, h : \E seq \in 1 .. MaxSlots : ApplyConcurrencyRelease(f, at, h, k, seq)
                    \/ FinishRequest(f, k)
             PROVE  TypeInv'
  BY DEF SlotStep
<1> USE DEF TypeInv, TypeOK
<1>1. CASE \E at, h, protocol, delivered : AdmitCredentialConcurrency(f, at, h, k, protocol, delivered)
  <2>1. counters' \in [Fingerprints -> [Keys -> CounterRecords]]
    <3>1. counters' = [counters EXCEPT ![f][k].active = @ + 1]
      BY <1>1 DEF AdmitCredentialConcurrency
    <3>2. [counters[f][k] EXCEPT !.active = counters[f][k].active + 1] \in CounterRecords
      <4>1. counters[f][k] \in CounterRecords
        OBVIOUS
      <4> QED
        BY <4>1 DEF CounterRecords
    <3>3. [counters[f] EXCEPT ![k] = [counters[f][k] EXCEPT !.active = counters[f][k].active + 1]] \in [Keys -> CounterRecords]
      BY <3>2
    <3> QED
      BY <3>1, <3>3
  <2>2. cpa' \in [Fingerprints -> [Keys -> CPARecords]]
    <3>1. cpa' = [cpa EXCEPT ![f][k].held = @ + 1] \/ cpa' = cpa
      BY <1>1 DEF AdmitCredentialConcurrency
    <3>2. [cpa[f][k] EXCEPT !.held = cpa[f][k].held + 1] \in CPARecords
      <4>1. cpa[f][k] \in CPARecords
        OBVIOUS
      <4>2. cpa[f][k].held + 1 \in Nat
        BY <4>1 DEF CPARecords
      <4> QED
        BY <4>1, <4>2, HeldUpdateType
    <3>3. [cpa[f] EXCEPT ![k] = [cpa[f][k] EXCEPT !.held = cpa[f][k].held + 1]] \in [Keys -> CPARecords]
      BY <3>2
    <3> QED
      BY <3>1, <3>3
  <2> QED
    BY <1>1, <2>1, <2>2 DEF AdmitCredentialConcurrency, memberVars, OwnerKnown
<1>2. CASE \E at, h : \E seq \in 1 .. MaxSlots : ApplyConcurrencyRelease(f, at, h, k, seq)
  <2>1. counters' \in [Fingerprints -> [Keys -> CounterRecords]]
    <3>1. PICK seq \in 1 .. MaxSlots :
            /\ seq - counters[f][k].lastReleaseSeq <= counters[f][k].active
            /\ counters' = [counters EXCEPT ![f][k] =
                 [active |-> counters[f][k].active - (seq - counters[f][k].lastReleaseSeq),
                  lastReleaseSeq |-> seq]]
      BY <1>2 DEF ApplyConcurrencyRelease
    <3> QED
      BY <3>1, BoundsAssumption DEF CounterRecords
  <2> QED
    BY <1>2, <2>1 DEF ApplyConcurrencyRelease, memberVars, OwnerKnown
<1>3. CASE FinishRequest(f, k)
  <2>1. cpa' \in [Fingerprints -> [Keys -> CPARecords]]
    <3>1. /\ cpa[f][k].held > 0
          /\ cpa' = [cpa EXCEPT ![f][k].held = @ - 1, ![f][k].finished = @ + 1]
      BY <1>3 DEF FinishRequest
    <3> QED
      BY <3>1 DEF CPARecords
  <2> QED
    BY <1>3, <2>1 DEF FinishRequest, memberVars, OwnerKnown
<1> QED
  BY <1>1, <1>2, <1>3

LEMMA StutterTypeInv == TypeInv /\ UNCHANGED vars => TypeInv'
BY DEF TypeInv, TypeOK, OwnerKnown, vars

LEMMA NextTypeInv == TypeInv /\ [Next]_vars => TypeInv'
BY HomeStepTypeInv, SubscribeStepTypeInv, MemberStepTypeInv, CancelStepTypeInv, CompleteStepTypeInv,
   PolicyStepTypeInv, SlotStepTypeInv, StutterTypeInv DEF Next

\* Every reachable state of the limiter is well typed; the counters in particular never
\* go below zero, although releases subtract from them.
THEOREM TypeCorrect == Spec => []TypeOK
<1>1. Init => TypeInv
  BY InitTypeInv
<1>2. TypeInv /\ [Next]_vars => TypeInv'
  BY NextTypeInv
<1>3. TypeInv => TypeOK
  BY DEF TypeInv
<1> QED
  BY <1>1, <1>2, <1>3, PTL DEF Spec

-------------------------------------------------------------------------------
(* Slots.  SlotAccounting needs ClosedHoldsNoSlot: a new membership starts *)
(* with an idle CPA, and only then are its counters known to be zero.      *)

SlotInv == SlotAccounting /\ ClosedHoldsNoSlot

\* A step that touches neither the counters nor the CPA's view, and opens or closes nothing,
\* keeps the slots accounted.
LEMMA SlotFrame ==
    ASSUME SlotInv, UNCHANGED <<counters, cpa>>, \A f \in Fingerprints : Open(f) => Open(f)'
    PROVE  SlotInv'
BY DEF SlotInv, SlotAccounting, ClosedHoldsNoSlot

LEMMA InitSlotInv == Init => SlotInv
BY DEF Init, MemberInit, SlotInv, SlotAccounting, ClosedHoldsNoSlot, NoCounters, IdleCPA

LEMMA SubscribeSlotInv ==
    ASSUME TypeInv, SlotInv, SubscribeStep
    PROVE  SlotInv'
<1>1. PICK f \in Fingerprints, h \in Incarnations :
        \E protocol, revision, takeover : Subscribe(f, h, protocol, revision, takeover)
  BY DEF SubscribeStep
<1>2. PICK takeover :
        /\ takeover <=> Open(f)
        /\ cpa' = IF takeover THEN cpa ELSE [cpa EXCEPT ![f] = IdleCPA]
  BY <1>1 DEF Subscribe, SubscribeMembership
<1>3. UNCHANGED counters
  BY <1>1 DEF Subscribe
<1>4. \A g \in Fingerprints : IF g = f THEN Open(g)' ELSE members'[g] = members[g]
  BY <1>1 DEF Subscribe, SubscribeMembership, TypeInv, TypeOK, Open
<1>5. ClosedHoldsNoSlot'
  BY <1>3, <1>4 DEF SlotInv, ClosedHoldsNoSlot, Open
<1>6. SlotAccounting'
  <2>1. CASE takeover
    BY <1>2, <1>3, <2>1 DEF SlotInv, SlotAccounting
  <2>2. CASE ~ takeover
    <3>1. counters[f] = NoCounters
      BY <1>2, <2>2 DEF SlotInv, ClosedHoldsNoSlot
    <3>2. cpa'[f] = IdleCPA /\ \A g \in Fingerprints : g # f => cpa'[g] = cpa[g]
      BY <1>2, <2>2 DEF TypeInv, TypeOK
    <3> QED
      BY <1>3, <3>1, <3>2 DEF SlotInv, SlotAccounting, NoCounters, IdleCPA
  <2> QED
    BY <2>1, <2>2
<1> QED
  BY <1>5, <1>6 DEF SlotInv

LEMMA CompleteSlotInv ==
    ASSUME TypeInv, SlotInv, CompleteStep
    PROVE  SlotInv'
<1>1. PICK f \in Fingerprints :
        \/ CloseMembership(f) /\ DeleteFingerprintConcurrencyCounters(f)
        \/ UNCHANGED <<members, participations, counters, cpa>>
  BY DEF CompleteStep, CompleteFingerprintCancellation, CompleteCancellation, RecoverStaleQuiescence
<1>2. CASE UNCHANGED <<members, participations, counters, cpa>>
  BY <1>2, SlotFrame DEF Open
<1>3. CASE CloseMembership(f) /\ DeleteFingerprintConcurrencyCounters(f)
  <2>1. counters'[f] = NoCounters /\ cpa'[f] = IdleCPA
    BY <1>3 DEF DeleteFingerprintConcurrencyCounters, TypeInv, TypeOK
  <2>2. \A g \in Fingerprints : g # f =>
          counters'[g] = counters[g] /\ cpa'[g] = cpa[g] /\ members'[g] = members[g]
    BY <1>3 DEF CloseMembership, DeleteFingerprintConcurrencyCounters, TypeInv, TypeOK
  <2>3. ClosedHoldsNoSlot'
    BY <2>1, <2>2 DEF SlotInv, ClosedHoldsNoSlot, Open
  <2>4. SlotAccounting'
    BY <2>1, <2>2 DEF SlotInv, SlotAccounting, NoCounters, IdleCPA
  <2> QED
    BY <2>3, <2>4 DEF SlotInv
<1> QED
  BY <1>1, <1>2, <1>3

LEMMA SlotStepSlotInv ==
    ASSUME TypeInv, SlotInv, SlotStep
    PROVE  SlotInv'
<1>1. PICK f \in Fingerprints, k \in Keys :
        \/ \E at, h, protocol, delivered :
              AdmitCredentialConcurrency(f, at, h, k, protocol, delivered)
        \/ \E at, h, seq : ApplyConcurrencyRelease(f, at, h, k, seq)
        \/ FinishRequest(f, k)
  BY DEF SlotStep
<1> DEFINE row == counters[f][k]
           view == cpa[f][k]
<1>2. /\ row.active \in Nat /\ row.lastReleaseSeq \in Nat
      /\ view.held \in Nat /\ view.finished \in Nat
  BY DEF TypeInv, TypeOK, CounterRecords, CPARecords
<1>3. /\ view.held + view.finished <= row.active + row.lastReleaseSeq
      /\ row.lastReleaseSeq <= view.finished
  BY DEF SlotInv, SlotAccounting
<1>4. UNCHANGED members
  BY <1>1 DEF AdmitCredentialConcurrency, ApplyConcurrencyRelease, FinishRequest, memberVars
<1>5. /\ \A g \in Fingerprints : g # f => counters'[g] = counters[g] /\ cpa'[g] = cpa[g]
      /\ \A j \in Keys : j # k => counters'[f][j] = counters[f][j] /\ cpa'[f][j] = cpa[f][j]
  <2>1. /\ counters \in [Fingerprints -> [Keys -> CounterRecords]]
        /\ cpa \in [Fingerprints -> [Keys -> CPARecords]]
    BY DEF TypeInv, TypeOK
  <2>2. CASE \E at, h, protocol, delivered : AdmitCredentialConcurrency(f, at, h, k, protocol, delivered)
    BY <2>1, <2>2 DEF AdmitCredentialConcurrency
  <2>3. CASE \E at, h, seq : ApplyConcurrencyRelease(f, at, h, k, seq)
    BY <2>1, <2>3 DEF ApplyConcurrencyRelease
  <2>4. CASE FinishRequest(f, k)
    BY <2>1, <2>4 DEF FinishRequest
  <2> QED
    BY <1>1, <2>2, <2>3, <2>4
<1>6. ASSUME cpa'[f][k].held + cpa'[f][k].finished
                 <= counters'[f][k].active + counters'[f][k].lastReleaseSeq,
             counters'[f][k].lastReleaseSeq <= cpa'[f][k].finished,
             members[f].state = "active" \/ counters' = counters
      PROVE  SlotInv'
  <2>1. SlotAccounting'
    BY <1>5, <1>6 DEF SlotInv, SlotAccounting
  <2>2. ClosedHoldsNoSlot'
    BY <1>4, <1>5, <1>6 DEF SlotInv, ClosedHoldsNoSlot, Open
  <2> QED
    BY <2>1, <2>2 DEF SlotInv
<1>7. CASE \E at, h, protocol, delivered : AdmitCredentialConcurrency(f, at, h, k, protocol, delivered)
  <2>1. /\ counters' = [counters EXCEPT ![f][k].active = @ + 1]
        /\ cpa' = [cpa EXCEPT ![f][k].held = @ + 1] \/ cpa' = cpa
        /\ members[f].state = "active"
    BY <1>7 DEF AdmitCredentialConcurrency, ActiveLifetime
  <2>2. counters'[f][k].active = row.active + 1 /\ counters'[f][k].lastReleaseSeq = row.lastReleaseSeq
    BY <2>1 DEF TypeInv, TypeOK, CounterRecords
  <2>3. cpa'[f][k].held \in {view.held, view.held + 1} /\ cpa'[f][k].finished = view.finished
    BY <2>1 DEF TypeInv, TypeOK, CPARecords
  <2> HIDE DEF row, view
  <2> QED
    BY <1>2, <1>3, <1>6, <2>1, <2>2, <2>3
<1>8. CASE \E at, h, seq : ApplyConcurrencyRelease(f, at, h, k, seq)
  <2>1. PICK seq :
          /\ seq \in 1 .. view.finished
          /\ counters' = [counters EXCEPT ![f][k] =
                [active |-> row.active - (seq - row.lastReleaseSeq), lastReleaseSeq |-> seq]]
          /\ cpa' = cpa
          /\ members[f].state = "active"
    BY <1>8 DEF ApplyConcurrencyRelease, ActiveLifetime
  <2>2. /\ counters'[f][k].active = row.active - (seq - row.lastReleaseSeq)
        /\ counters'[f][k].lastReleaseSeq = seq
    BY <2>1 DEF TypeInv, TypeOK
  <2>3. cpa'[f][k] = view
    BY <2>1
  <2> HIDE DEF row, view
  <2> QED
    BY <1>2, <1>3, <1>6, <2>1, <2>2, <2>3
<1>9. CASE FinishRequest(f, k)
  <2>1. cpa' = [cpa EXCEPT ![f][k].held = @ - 1, ![f][k].finished = @ + 1] /\ counters' = counters
    BY <1>9 DEF FinishRequest
  <2>2. cpa'[f][k].held = view.held - 1 /\ cpa'[f][k].finished = view.finished + 1
    BY <2>1 DEF TypeInv, TypeOK, CPARecords
  <2>3. counters'[f][k] = row
    BY <2>1
  <2> HIDE DEF row, view
  <2> QED
    BY <1>2, <1>3, <1>6, <2>1, <2>2, <2>3
<1> QED
  BY <1>1, <1>7, <1>8, <1>9

LEMMA NextSlotInv == TypeInv /\ SlotInv /\ [Next]_vars => SlotInv'
<1> SUFFICES ASSUME TypeInv, SlotInv, [Next]_vars PROVE SlotInv'
  OBVIOUS
<1>1. CASE HomeStep \/ PolicyStep \/ UNCHANGED vars
  <2>1. UNCHANGED <<members, counters, cpa>>
    BY <1>1 DEF HomeStep, limiterVars, PolicyStep, PatchCredentialConcurrencyPolicy,
      ImportCredentialConcurrencyPolicies, RetireProviderAuth, RestoreAuth, memberVars, vars
  <2> QED
    BY <2>1, SlotFrame DEF Open
<1>2. CASE MemberStep
  <2>1. UNCHANGED <<counters, cpa>>
    BY <1>2 DEF MemberStep, limiterVars
  <2>2. \A f \in Fingerprints : members'[f].state = members[f].state
    BY <1>2, MemberStepMembers DEF TypeInv, TypeOK, MemberRecords
  <2> QED
    BY <2>1, <2>2, SlotFrame DEF Open
<1>3. CASE CancelStep
  <2>1. UNCHANGED <<counters, cpa>>
    BY <1>3 DEF CancelStep, limiterVars
  <2>2. PICK f \in Fingerprints : BeginCancellation(f)
    BY <1>3 DEF CancelStep, CleanupStaleMembership, BeginFingerprintCancellationForLifetime
  <2>3. \A g \in Fingerprints : IF g = f THEN members'[g].state = "canceling" ELSE members'[g] = members[g]
    BY <2>2 DEF BeginCancellation, TypeInv, TypeOK, MemberRecords
  <2> QED
    BY <2>1, <2>3, SlotFrame DEF Open
<1> QED
  BY <1>1, <1>2, <1>3, SubscribeSlotInv, CompleteSlotInv, SlotStepSlotInv DEF Next

LEMMA SpecSlotInv == Spec => [](TypeInv /\ SlotInv)
<1>1. Init => TypeInv /\ SlotInv
  BY InitTypeInv, InitSlotInv
<1>2. TypeInv /\ SlotInv /\ [Next]_vars => TypeInv' /\ SlotInv'
  BY NextTypeInv, NextSlotInv
<1> QED
  BY <1>1, <1>2, PTL DEF Spec

\* No reachable state has a CPA running more requests than are counted for it, whatever
\* releases, takeovers, lost replies and reclaims came before.
THEOREM RunningWorkIsCounted == Spec => []CountersCoverRunningWork
<1>1. TypeInv /\ SlotInv => CountersCoverRunningWork
  <2> SUFFICES ASSUME TypeInv, SlotInv, NEW f \in Fingerprints, NEW k \in Keys
               PROVE  cpa[f][k].held <= counters[f][k].active
    BY DEF CountersCoverRunningWork
  <2>1. /\ counters[f][k].active \in Nat /\ counters[f][k].lastReleaseSeq \in Nat
        /\ cpa[f][k].held \in Nat /\ cpa[f][k].finished \in Nat
    BY DEF TypeInv, TypeOK, CounterRecords, CPARecords
  <2>2. /\ cpa[f][k].held + cpa[f][k].finished <= counters[f][k].active + counters[f][k].lastReleaseSeq
        /\ counters[f][k].lastReleaseSeq <= cpa[f][k].finished
    BY DEF SlotInv, SlotAccounting
  <2> QED
    BY <2>1, <2>2
<1> QED
  BY <1>1, SpecSlotInv, PTL

\* A fingerprint without an open membership holds no slot of any credential.
THEOREM NoSlotLeaks == Spec => []ClosedHoldsNoSlot
<1>1. SlotInv => ClosedHoldsNoSlot
  BY DEF SlotInv
<1> QED
  BY <1>1, SpecSlotInv, PTL

\* Every slot granted for a request that has finished is counted still or was released, and
\* no release is recorded that the CPA has not reached, in every order of messages.
THEOREM SlotsAreAccounted == Spec => []SlotAccounting
<1>1. SlotInv => SlotAccounting
  BY DEF SlotInv
<1> QED
  BY <1>1, SpecSlotInv, PTL

-------------------------------------------------------------------------------
(* Limits.  A step that takes no slot lets no sum grow, and one that takes *)
(* a slot changes one term of the sums it has checked.                     *)

ModelTerms(cs, c, m) == [f \in Fingerprints |-> cs[f][<<c, m>>].active]
CredentialTerms(cs, c) == [x \in Fingerprints \X Models |-> cs[x[1]][<<c, x[2]>>].active]

LEMMA SumsOfTerms ==
    ASSUME NEW cs, NEW c, NEW m
    PROVE  /\ ModelActive(cs, c, m) = SumFunctionOnSet(ModelTerms(cs, c, m), Fingerprints)
           /\ CredentialActive(cs, c) = SumFunctionOnSet(CredentialTerms(cs, c), Fingerprints \X Models)
  BY DEF ModelActive, CredentialActive, ModelTerms, CredentialTerms, SumFunction

LEMMA FiniteTerms == IsFiniteSet(Fingerprints) /\ IsFiniteSet(Fingerprints \X Models)
  BY FingerprintsAssumption, ModelsAssumption, FS_Product

LEMMA NaturalTerms ==
    ASSUME NEW cs \in [Fingerprints -> [Keys -> CounterRecords]], NEW c \in Credentials
    PROVE  /\ \A m \in Models, f \in Fingerprints : ModelTerms(cs, c, m)[f] \in Nat
           /\ \A x \in Fingerprints \X Models : CredentialTerms(cs, c)[x] \in Nat
           /\ \A m \in Models : ModelActive(cs, c, m) \in Nat
           /\ CredentialActive(cs, c) \in Nat
<1>1. \A m \in Models, f \in Fingerprints : ModelTerms(cs, c, m)[f] \in Nat
  BY DEF ModelTerms, Keys, CounterRecords
<1>2. \A x \in Fingerprints \X Models : CredentialTerms(cs, c)[x] \in Nat
  BY DEF CredentialTerms, Keys, CounterRecords
<1> QED
  BY <1>1, <1>2, SumsOfTerms, FiniteTerms, SumOfNaturals

\* Every step takes one slot through AdmitCredentialConcurrency or raises no count.
LEMMA CountersMove ==
    ASSUME TypeInv, [Next]_vars
    PROVE  \/ \A f \in Fingerprints, k \in Keys : counters'[f][k].active <= counters[f][k].active
           \/ \E f \in Fingerprints, k \in Keys : \E at, h, protocol, delivered :
                 AdmitCredentialConcurrency(f, at, h, k, protocol, delivered)
<1>1. \A f \in Fingerprints, k \in Keys : counters[f][k].active \in Nat /\ counters[f][k].lastReleaseSeq \in Nat
  BY DEF TypeInv, TypeOK, CounterRecords
<1>2. CASE UNCHANGED counters
  BY <1>1, <1>2
<1>3. CASE HomeStep \/ PolicyStep \/ MemberStep \/ CancelStep \/ SubscribeStep \/ UNCHANGED vars
  <2>1. UNCHANGED counters
    BY <1>3 DEF HomeStep, limiterVars, PolicyStep, PatchCredentialConcurrencyPolicy,
      ImportCredentialConcurrencyPolicies, RetireProviderAuth, RestoreAuth, MemberStep, CancelStep,
      SubscribeStep, Subscribe, vars
  <2> QED
    BY <1>2, <2>1
<1>4. CASE CompleteStep
  <2>1. PICK f \in Fingerprints : counters' = [counters EXCEPT ![f] = NoCounters] \/ UNCHANGED counters
    BY <1>4 DEF CompleteStep, CompleteFingerprintCancellation, RecoverStaleQuiescence, DeleteFingerprintConcurrencyCounters
  <2>2. CASE counters' = [counters EXCEPT ![f] = NoCounters]
    <3> SUFFICES ASSUME NEW g \in Fingerprints, NEW k \in Keys
                 PROVE  counters'[g][k].active <= counters[g][k].active
      OBVIOUS
    <3>1. counters'[g] = IF g = f THEN NoCounters ELSE counters[g]
      BY <2>2 DEF TypeInv, TypeOK
    <3>2. NoCounters[k].active = 0
      BY DEF NoCounters
    <3> QED
      BY <1>1, <3>1, <3>2
  <2> QED
    BY <1>2, <2>1, <2>2
<1>5. CASE SlotStep
  <2>1. PICK f \in Fingerprints, k \in Keys :
          \/ \E at, h, protocol, delivered : AdmitCredentialConcurrency(f, at, h, k, protocol, delivered)
          \/ \E at, h : \E seq \in 1 .. MaxSlots : ApplyConcurrencyRelease(f, at, h, k, seq)
          \/ FinishRequest(f, k)
    BY <1>5 DEF SlotStep
  <2>2. CASE \E at, h : \E seq \in 1 .. MaxSlots : ApplyConcurrencyRelease(f, at, h, k, seq)
    <3>1. PICK at, h : \E seq \in 1 .. MaxSlots : ApplyConcurrencyRelease(f, at, h, k, seq)
      BY <2>2
    <3>2. PICK seq \in 1 .. MaxSlots : ApplyConcurrencyRelease(f, at, h, k, seq)
      BY <3>1
    <3> DEFINE row == counters[f][k]
               delta == seq - row.lastReleaseSeq
    <3>3. /\ delta > 0
          /\ counters' = [counters EXCEPT ![f][k] = [active |-> row.active - delta, lastReleaseSeq |-> seq]]
      BY <3>2 DEF ApplyConcurrencyRelease
    <3> SUFFICES ASSUME NEW g \in Fingerprints, NEW j \in Keys
                 PROVE  counters'[g][j].active <= counters[g][j].active
      OBVIOUS
    <3>4. counters'[g][j] = IF g = f /\ j = k THEN [active |-> row.active - delta, lastReleaseSeq |-> seq] ELSE counters[g][j]
      BY <3>3 DEF TypeInv, TypeOK
    <3>5. seq \in Int /\ row.active \in Int /\ row.lastReleaseSeq \in Int
      BY <1>1, BoundsAssumption
    <3> QED
      BY <1>1, <3>3, <3>4, <3>5
  <2>3. CASE FinishRequest(f, k)
    BY <1>2, <2>3 DEF FinishRequest
  <2> QED
    BY <2>1, <2>2, <2>3
<1> QED
  BY <1>3, <1>4, <1>5 DEF Next

LEMMA NoSumGrows ==
    ASSUME TypeInv, TypeInv', \A f \in Fingerprints, k \in Keys : counters'[f][k].active <= counters[f][k].active,
           NEW c \in Credentials, NEW m \in Models
    PROVE  ~(ModelActive(counters', c, m) > ModelActive(counters, c, m))
<1>1. counters \in [Fingerprints -> [Keys -> CounterRecords]] /\ counters' \in [Fingerprints -> [Keys -> CounterRecords]]
  BY DEF TypeInv, TypeOK
<1>2. \A f \in Fingerprints : ModelTerms(counters', c, m)[f] <= ModelTerms(counters, c, m)[f]
  BY DEF ModelTerms, Keys
<1>3. \A f \in Fingerprints : ModelTerms(counters', c, m)[f] \in Int /\ ModelTerms(counters, c, m)[f] \in Int
  BY <1>1, NaturalTerms
<1>4. SumFunctionOnSet(ModelTerms(counters', c, m), Fingerprints) <= SumFunctionOnSet(ModelTerms(counters, c, m), Fingerprints)
  BY <1>2, <1>3, FiniteTerms, SumGrows
<1>5. ModelActive(counters', c, m) \in Nat /\ ModelActive(counters, c, m) \in Nat
  BY <1>1, NaturalTerms
<1> QED
  BY <1>4, <1>5, SumsOfTerms

TakesSlot(f, c, m) == counters' = [counters EXCEPT ![f][<<c, m>>].active = @ + 1]

LEMMA AdmissionAddsOne ==
    ASSUME TypeInv, TypeInv', NEW f \in Fingerprints, NEW c \in Credentials, NEW m \in Models,
           TakesSlot(f, c, m)
    PROVE  /\ ModelActive(counters', c, m) = ModelActive(counters, c, m) + 1
           /\ CredentialActive(counters', c) = CredentialActive(counters, c) + 1
           /\ \A d \in Credentials, n \in Models : <<d, n>> # <<c, m>> =>
                 ModelActive(counters', d, n) = ModelActive(counters, d, n)
<1>1. counters \in [Fingerprints -> [Keys -> CounterRecords]] /\ counters' \in [Fingerprints -> [Keys -> CounterRecords]]
  BY DEF TypeInv, TypeOK
<1>2. <<c, m>> \in Keys
  BY DEF Keys
<1>3. \A g \in Fingerprints, k \in Keys :
         counters'[g][k].active = IF g = f /\ k = <<c, m>> THEN counters[f][<<c, m>>].active + 1 ELSE counters[g][k].active
  BY <1>1, <1>2 DEF TakesSlot, CounterRecords
<1>4. \A d \in Credentials, n \in Models : <<d, n>> \in Keys /\ (<<d, n>> = <<c, m>> <=> d = c /\ n = m)
  BY DEF Keys
<1>5. ModelActive(counters', c, m) = ModelActive(counters, c, m) + 1
  <2> DEFINE F == ModelTerms(counters, c, m)
             G == ModelTerms(counters', c, m)
  <2>1. G[f] = F[f] + 1 /\ \A g \in Fingerprints \ {f} : F[g] = G[g]
    BY <1>2, <1>3 DEF ModelTerms
  <2>2. \A g \in Fingerprints : F[g] \in Int /\ G[g] \in Int
    BY <1>1, <1>2 DEF ModelTerms, CounterRecords
  <2> HIDE DEF F, G
  <2>3. SumFunctionOnSet(G, Fingerprints) = SumFunctionOnSet(F, Fingerprints) - F[f] + G[f]
    BY <2>1, <2>2, FiniteTerms, SumChanges
  <2>4. SumFunctionOnSet(F, Fingerprints) \in Int
    BY <2>2, FiniteTerms, SumType
  <2>5. SumFunctionOnSet(G, Fingerprints) = SumFunctionOnSet(F, Fingerprints) + 1
    BY <2>1, <2>2, <2>3, <2>4
  <2> QED
    BY <2>5, SumsOfTerms DEF F, G
<1>6. CredentialActive(counters', c) = CredentialActive(counters, c) + 1
  <2> DEFINE S == Fingerprints \X Models
             F == CredentialTerms(counters, c)
             G == CredentialTerms(counters', c)
  <2>1. <<f, m>> \in S /\ G[<<f, m>>] = F[<<f, m>>] + 1
    BY <1>2, <1>3 DEF CredentialTerms
  <2>2. ASSUME NEW x \in S \ {<<f, m>>} PROVE F[x] = G[x]
    <3>1. PICK g \in Fingerprints, n \in Models : x = <<g, n>>
      OBVIOUS
    <3>2. ~(g = f /\ n = m) /\ <<c, n>> \in Keys /\ (<<c, n>> = <<c, m>> => n = m)
      BY <3>1 DEF Keys
    <3>3. counters'[g][<<c, n>>].active = counters[g][<<c, n>>].active
      BY <1>3, <3>2
    <3> QED
      BY <3>1, <3>3 DEF CredentialTerms
  <2>3. \A x \in S : F[x] \in Int /\ G[x] \in Int
    BY <1>1 DEF CredentialTerms, Keys, CounterRecords
  <2>4. IsFiniteSet(S)
    BY FiniteTerms
  <2> HIDE DEF S, F, G
  <2>5. SumFunctionOnSet(G, S) = SumFunctionOnSet(F, S) - F[<<f, m>>] + G[<<f, m>>]
    BY <2>1, <2>2, <2>3, <2>4, SumChanges
  <2>6. SumFunctionOnSet(F, S) \in Int
    BY <2>3, <2>4, SumType
  <2>7. SumFunctionOnSet(G, S) = SumFunctionOnSet(F, S) + 1
    BY <2>1, <2>3, <2>5, <2>6
  <2> QED
    BY <2>7, SumsOfTerms DEF S, F, G
<1>7. ASSUME NEW d \in Credentials, NEW n \in Models, <<d, n>> # <<c, m>>
      PROVE  ModelActive(counters', d, n) = ModelActive(counters, d, n)
  <2> DEFINE F == ModelTerms(counters, d, n)
             G == ModelTerms(counters', d, n)
  <2>1. \A g \in Fingerprints : F[g] = G[g]
    BY <1>3, <1>4, <1>7 DEF ModelTerms
  <2> HIDE DEF F, G
  <2>2. SumFunctionOnSet(F, Fingerprints) = SumFunctionOnSet(G, Fingerprints)
    BY <2>1, FiniteTerms, SumAgrees
  <2> QED
    BY <2>2, SumsOfTerms DEF F, G
<1> QED
  BY <1>5, <1>6, <1>7

\* No admission exceeds a limit: whatever Homes admit for whichever CPA nodes, a step that takes
\* a slot leaves the sums over all nodes within the credential's limit and the model's
\* (AdmitCredentialConcurrency, sumConcurrencyCountsTx).
THEOREM LimitsHold == Spec => GrantsStayWithinLimits
<1> DEFINE Within == \A c \in Credentials, m \in Models :
              LET taken == ModelActive(counters', c, m) > ModelActive(counters, c, m) IN
              /\ taken /\ policies[c].limit > 0 => CredentialActive(counters', c) <= policies[c].limit
              /\ taken /\ policies[c].models[m] > 0 => ModelActive(counters', c, m) <= policies[c].models[m]
<1>1. TypeInv /\ TypeInv' /\ [Next]_vars => Within
  <2> SUFFICES ASSUME TypeInv, TypeInv', [Next]_vars, NEW c \in Credentials, NEW m \in Models,
                      ModelActive(counters', c, m) > ModelActive(counters, c, m)
               PROVE  /\ policies[c].limit > 0 => CredentialActive(counters', c) <= policies[c].limit
                      /\ policies[c].models[m] > 0 => ModelActive(counters', c, m) <= policies[c].models[m]
    OBVIOUS
  <2>1. PICK f \in Fingerprints, k \in Keys : \E at, h, protocol, delivered :
           AdmitCredentialConcurrency(f, at, h, k, protocol, delivered)
    BY CountersMove, NoSumGrows
  <2>2. PICK d \in Credentials, n \in Models : k = <<d, n>>
    BY DEF Keys
  <2>3. /\ policies[d].limit > 0 => CredentialActive(counters, d) < policies[d].limit
        /\ policies[d].models[n] > 0 => ModelActive(counters, d, n) < policies[d].models[n]
        /\ TakesSlot(f, d, n)
    BY <2>1, <2>2 DEF AdmitCredentialConcurrency, TakesSlot
  <2>4. /\ ModelActive(counters', d, n) = ModelActive(counters, d, n) + 1
        /\ CredentialActive(counters', d) = CredentialActive(counters, d) + 1
        /\ <<c, m>> # <<d, n>> => ModelActive(counters', c, m) = ModelActive(counters, c, m)
    BY <2>3, AdmissionAddsOne
  <2>5. /\ ModelActive(counters, c, m) \in Nat /\ ModelActive(counters, d, n) \in Nat
        /\ CredentialActive(counters, d) \in Nat /\ policies[d].limit \in Nat /\ policies[d].models[n] \in Nat
    BY NaturalTerms DEF TypeInv, TypeOK, PolicyRecords
  <2>6. c = d /\ m = n
    BY <2>4, <2>5
  <2> QED
    BY <2>3, <2>4, <2>5, <2>6
<1>2. Spec => []TypeInv
  BY InitTypeInv, NextTypeInv, PTL DEF Spec
<1> QED
  BY <1>1, <1>2, PTL DEF Spec, GrantsStayWithinLimits

-------------------------------------------------------------------------------
(* Rollout: the checks of registration, subscription and policy activation *)
(* leave nobody active who is unaware of an active limit.                  *)

\* The three conditions of NobodyUnawareOfLimits, each over the next state as well.
MembersAware(ms) == \A f \in Fingerprints : ms[f].state = "active" => ms[f].protocol = 1

HomesAware(hs) == \A h \in ActiveHomes(hs) : hs[h].capable

SingleSQLiteHome(hs) == SQLite => Cardinality(ActiveHomes(hs)) <= 1

LEMMA UnawareSplit ==
    NobodyUnawareOfLimits <=>
        (activePolicyCount > 0 => MembersAware(members) /\ HomesAware(homes) /\ SingleSQLiteHome(homes))
BY DEF NobodyUnawareOfLimits, MembersAware, HomesAware, SingleSQLiteHome

LEMMA UnawareSplitNext ==
    NobodyUnawareOfLimits' <=>
        (activePolicyCount' > 0 => MembersAware(members') /\ HomesAware(homes') /\ SingleSQLiteHome(homes'))
BY DEF NobodyUnawareOfLimits, MembersAware, HomesAware, SingleSQLiteHome

\* Fewer active homes with the same capabilities are as safe as before.
LEMMA FewerHomes ==
    ASSUME NEW hs, NEW hs2,
           \A h \in Incarnations : hs2[h].state = "active" =>
               hs[h].state = "active" /\ hs2[h].capable = hs[h].capable,
           HomesAware(hs), SingleSQLiteHome(hs)
    PROVE  HomesAware(hs2) /\ SingleSQLiteHome(hs2)
<1>1. HomesAware(hs2)
  BY DEF HomesAware, ActiveHomes
<1>2. ActiveHomes(hs2) \subseteq ActiveHomes(hs) /\ IsFiniteSet(ActiveHomes(hs))
  BY IncarnationsAssumption, FS_Subset DEF ActiveHomes
<1>3. /\ Cardinality(ActiveHomes(hs2)) <= Cardinality(ActiveHomes(hs))
      /\ Cardinality(ActiveHomes(hs2)) \in Nat /\ Cardinality(ActiveHomes(hs)) \in Nat
  BY <1>2, FS_Subset, FS_CardinalityType
<1> QED
  BY <1>1, <1>3 DEF SingleSQLiteHome

LEMMA ExpiryKeepsAware ==
    ASSUME NEW hs \in [Incarnations -> HomeRecords], HomesAware(hs), SingleSQLiteHome(hs)
    PROVE  HomesAware(ExpireStale(hs)) /\ SingleSQLiteHome(ExpireStale(hs))
<1>1. \A h \in Incarnations : ExpireStale(hs)[h].state = "active" =>
        hs[h].state = "active" /\ ExpireStale(hs)[h].capable = hs[h].capable
  BY DEF ExpireStale, HomeRecords
<1> QED
  BY <1>1, FewerHomes

LEMMA ResolveKeepsAware ==
    ASSUME NEW hs \in [Incarnations -> HomeRecords], NEW S, HomesAware(hs), SingleSQLiteHome(hs)
    PROVE  HomesAware(ResolveHomes(hs, S)) /\ SingleSQLiteHome(ResolveHomes(hs, S))
<1>1. \A h \in Incarnations : ResolveHomes(hs, S)[h].state = "active" =>
        hs[h].state = "active" /\ ResolveHomes(hs, S)[h].capable = hs[h].capable
  BY DEF ResolveHomes, ResolvedHome, HomeRecords
<1> QED
  BY <1>1, FewerHomes

LEMMA HomeStepAware ==
    ASSUME TypeInv, NobodyUnawareOfLimits, HomeStep
    PROVE  NobodyUnawareOfLimits'
<1> SUFFICES ASSUME activePolicyCount > 0
             PROVE  HomesAware(homes') /\ SingleSQLiteHome(homes')
  <2>1. UNCHANGED <<members, activePolicyCount>>
    BY DEF HomeStep
  <2> QED
    BY <2>1, UnawareSplit, UnawareSplitNext
<1>1. HomesAware(homes) /\ SingleSQLiteHome(homes)
  BY UnawareSplit
<1>2. homes \in [Incarnations -> HomeRecords]
  BY DEF TypeInv, TypeOK
<1>3. PICK h \in Incarnations :
        \/ \E capable \in Capabilities : RegisterHomeIncarnation(h, capable)
        \/ HeartbeatHomeIncarnation(h)
        \/ HeartbeatRefused(h)
        \/ RetireHomeIncarnation(h)
        \/ CrashHome(h)
        \/ HomeAges(h)
  BY DEF HomeStep
<1>4. CASE \E capable \in Capabilities : RegisterHomeIncarnation(h, capable)
  <2> DEFINE live == ExpireStale(homes)
  <2>1. /\ homes' = [live EXCEPT ![h] = [state |-> "active", age |-> Fresh, capable |-> TRUE]]
        /\ SQLite => ActiveHomes(live) = {}
    BY <1>4, CapabilitiesAssumption DEF RegisterHomeIncarnation
  <2>2. live \in [Incarnations -> HomeRecords] /\ HomesAware(live)
    BY <1>1, <1>2, ExpireStaleType, ExpiryKeepsAware
  <2>3. ActiveHomes(homes') = ActiveHomes(live) \union {h}
    BY <2>1, <2>2 DEF ActiveHomes
  <2>4. HomesAware(homes')
    BY <2>1, <2>2, <2>3 DEF HomesAware, ActiveHomes
  <2>5. SingleSQLiteHome(homes')
    <3>1. SQLite => ActiveHomes(homes') = {h}
      BY <2>1, <2>3
    <3> QED
      BY <3>1, FS_Singleton DEF SingleSQLiteHome
  <2> QED
    BY <2>4, <2>5
<1>5. CASE ~ \E capable \in Capabilities : RegisterHomeIncarnation(h, capable)
  <2>1. \A g \in Incarnations : homes'[g].state = "active" =>
          homes[g].state = "active" /\ homes'[g].capable = homes[g].capable
    BY <1>2, <1>3, <1>5 DEF HeartbeatHomeIncarnation, HeartbeatRefused, RetireHomeIncarnation, CrashHome,
      HomeAges, HomeRecords
  <2> QED
    BY <1>1, <2>1, FewerHomes
<1> QED
  BY <1>4, <1>5

LEMMA SubscribeStepAware ==
    ASSUME TypeInv, NobodyUnawareOfLimits, SubscribeStep
    PROVE  NobodyUnawareOfLimits'
<1>1. UNCHANGED <<homes, activePolicyCount>>
  BY DEF SubscribeStep, Subscribe
<1>2. ASSUME activePolicyCount > 0
      PROVE  MembersAware(members')
  <2>1. MembersAware(members)
    BY <1>2, UnawareSplit
  <2>2. PICK f \in Fingerprints, h \in Incarnations :
          \E revision, takeover : Subscribe(f, h, 1, revision, takeover)
    BY <1>2 DEF SubscribeStep, Subscribe, SubscribeMembership
  <2>3. \A g \in Fingerprints : IF g = f THEN members'[g].protocol = 1 ELSE members'[g] = members[g]
    BY <2>2 DEF Subscribe, SubscribeMembership, TypeInv, TypeOK
  <2> QED
    BY <2>1, <2>3 DEF MembersAware
<1> QED
  BY <1>1, <1>2, UnawareSplit, UnawareSplitNext

LEMMA MemberStepAware ==
    ASSUME TypeInv, NobodyUnawareOfLimits, MemberStep
    PROVE  NobodyUnawareOfLimits'
<1>1. UNCHANGED <<homes, activePolicyCount>>
  BY DEF MemberStep
<1>2. \/ members' = members
      \/ \E f \in Fingerprints : members' = [members EXCEPT ![f].age = Fresh]
      \/ \E f \in Fingerprints : members' = [members EXCEPT ![f].age = Stale]
  BY MemberStepMembers
<1>3. \A f \in Fingerprints :
        members'[f].state = members[f].state /\ members'[f].protocol = members[f].protocol
  <2> SUFFICES ASSUME NEW f \in Fingerprints
               PROVE  members'[f].state = members[f].state /\ members'[f].protocol = members[f].protocol
    OBVIOUS
  <2>1. \/ members'[f] = members[f]
        \/ members'[f] = [members[f] EXCEPT !.age = Fresh]
        \/ members'[f] = [members[f] EXCEPT !.age = Stale]
    BY <1>2 DEF TypeInv, TypeOK
  <2>2. members[f] \in MemberRecords
    BY DEF TypeInv, TypeOK
  <2> QED
    BY <2>1, <2>2 DEF MemberRecords
<1>4. MembersAware(members) => MembersAware(members')
  BY <1>3 DEF MembersAware
<1> QED
  BY <1>1, <1>4, UnawareSplit, UnawareSplitNext

LEMMA SlotStepFrame ==
    ASSUME SlotStep
    PROVE  UNCHANGED <<homes, members, policies, activePolicyCount>>
<1> DEFINE Frame == UNCHANGED <<homes, members, policies, activePolicyCount>>
<1>1. ASSUME NEW f, NEW k, NEW at, NEW h, NEW protocol, NEW delivered,
             AdmitCredentialConcurrency(f, at, h, k, protocol, delivered)
      PROVE  Frame
  BY <1>1 DEF AdmitCredentialConcurrency, memberVars
<1>2. ASSUME NEW f, NEW k, NEW at, NEW h, NEW seq, ApplyConcurrencyRelease(f, at, h, k, seq)
      PROVE  Frame
  BY <1>2 DEF ApplyConcurrencyRelease, memberVars
<1>3. ASSUME NEW f, NEW k, FinishRequest(f, k)
      PROVE  Frame
  BY <1>3 DEF FinishRequest, memberVars
<1> HIDE DEF Frame
<1>4. Frame
  BY <1>1, <1>2, <1>3 DEF SlotStep
<1> QED
  BY <1>4 DEF Frame

LEMMA CancellationStepsAware ==
    ASSUME TypeInv, NobodyUnawareOfLimits, CancelStep \/ CompleteStep
    PROVE  NobodyUnawareOfLimits'
<1>1. homes \in [Incarnations -> HomeRecords]
  BY DEF TypeInv, TypeOK
<1>2. UNCHANGED activePolicyCount
  BY DEF CancelStep, CompleteStep, CompleteFingerprintCancellation, RecoverStaleQuiescence
<1>3. homes' = homes \/ \E S : homes' = ResolveHomes(homes, S)
  <2>1. CASE CancelStep
    <3>1. PICK f \in Fingerprints : BeginCancellation(f)
      BY <2>1 DEF CancelStep, CleanupStaleMembership, BeginFingerprintCancellationForLifetime
    <3> QED
      BY <3>1 DEF BeginCancellation
  <2>2. CASE CompleteStep
    BY <2>2 DEF CompleteStep, CompleteFingerprintCancellation, RecoverStaleQuiescence,
      RecoverQuiescenceRows, RecoveredHomes
  <2> QED
    BY <2>1, <2>2
<1>4. \A f \in Fingerprints : members'[f].state = "active" => members'[f] = members[f]
  <2>1. CASE CancelStep
    <3>1. PICK f \in Fingerprints : BeginCancellation(f)
      BY <2>1 DEF CancelStep, CleanupStaleMembership, BeginFingerprintCancellationForLifetime
    <3>2. \A g \in Fingerprints : IF g = f THEN members'[g].state = "canceling" ELSE members'[g] = members[g]
      BY <3>1 DEF BeginCancellation, TypeInv, TypeOK, MemberRecords
    <3> QED
      BY <3>2
  <2>2. CASE CompleteStep
    <3>1. PICK f \in Fingerprints : members' = members \/ members' = [members EXCEPT ![f].state = "closed"]
      BY <2>2 DEF CompleteStep, CompleteFingerprintCancellation, CompleteCancellation,
        RecoverStaleQuiescence, CloseMembership
    <3> QED
      BY <3>1 DEF TypeInv, TypeOK, MemberRecords
  <2> QED
    BY <2>1, <2>2
<1>5. activePolicyCount > 0 => MembersAware(members') /\ HomesAware(homes') /\ SingleSQLiteHome(homes')
  <2> SUFFICES ASSUME activePolicyCount > 0
               PROVE  MembersAware(members') /\ HomesAware(homes') /\ SingleSQLiteHome(homes')
    OBVIOUS
  <2>1. MembersAware(members) /\ HomesAware(homes) /\ SingleSQLiteHome(homes)
    BY UnawareSplit
  <2>2. MembersAware(members')
    BY <1>4, <2>1 DEF MembersAware
  <2>3. HomesAware(homes') /\ SingleSQLiteHome(homes')
    BY <1>1, <1>3, <2>1, ResolveKeepsAware
  <2> QED
    BY <2>2, <2>3
<1> QED
  BY <1>2, <1>5, UnawareSplitNext

\* A policy becomes active only through a patch that can activate one.
LEMMA ActivationNeedsCheck ==
    ASSUME NEW p, NEW patch \in Patches, NEW b,
           PolicyActive(Patched(p, patch, b)), ~ PolicyActive(p)
    PROVE  CanActivate(patch)
BY DEF PolicyActive, Patched, CanActivate, Patches

LEMMA PatchAware ==
    ASSUME TypeInv, NobodyUnawareOfLimits, NEW c \in Credentials, NEW patch \in Patches, NEW v,
           PatchCredentialConcurrencyPolicy(c, patch, v)
    PROVE  NobodyUnawareOfLimits'
<1>1. UNCHANGED members
  BY DEF PatchCredentialConcurrencyPolicy, memberVars
<1>2. CASE CanActivate(patch)
  BY <1>1, <1>2, UnawareSplitNext DEF PatchCredentialConcurrencyPolicy, ActivationSafe, MembersAware,
    HomesAware, SingleSQLiteHome
<1>3. CASE ~ CanActivate(patch)
  <2> DEFINE next == Patched(policies[c], patch, barrier + 1)
  <2>1. homes' = homes
    BY <1>3 DEF PatchCredentialConcurrencyPolicy
  <2>2. ~ (PolicyActive(next) /\ ~ PolicyActive(policies[c]))
    BY <1>3, ActivationNeedsCheck
  <2>3. activePolicyCount' =
          CASE PolicyActive(next) /\ ~ PolicyActive(policies[c]) -> activePolicyCount + 1
            [] ~ PolicyActive(next) /\ PolicyActive(policies[c]) -> activePolicyCount - 1
            [] OTHER -> activePolicyCount
    BY DEF PatchCredentialConcurrencyPolicy
  <2>4. activePolicyCount' \in {activePolicyCount - 1, activePolicyCount}
    <3> HIDE DEF next
    <3> QED
      BY <2>2, <2>3
  <2>5. activePolicyCount' > 0 => activePolicyCount > 0
    BY <2>4 DEF TypeInv, TypeOK
  <2> QED
    BY <1>1, <2>1, <2>5, UnawareSplit, UnawareSplitNext
<1> QED
  BY <1>2, <1>3

LEMMA ImportAware ==
    ASSUME TypeInv, NobodyUnawareOfLimits, NEW document \in Documents,
           ImportCredentialConcurrencyPolicies(document)
    PROVE  NobodyUnawareOfLimits'
<1> DEFINE targets == DOMAIN document \union {c \in Credentials : policies[c].version > 0}
           activating == {c \in targets : CanActivate(ExchangePatch(document, c))}
           gained == {c \in activating : ~ PolicyActive(policies[c])}
           lost == {c \in targets \ activating : PolicyActive(policies[c])}
<1>1. UNCHANGED members
  BY DEF ImportCredentialConcurrencyPolicies, memberVars
<1>2. CASE activating # {}
  <2>1. ActivationSafe(homes')
    BY <1>2 DEF ImportCredentialConcurrencyPolicies
  <2> QED
    BY <1>1, <2>1, UnawareSplitNext DEF ActivationSafe, MembersAware, HomesAware, SingleSQLiteHome
<1>3. CASE activating = {}
  <2>1. homes' = homes
    BY <1>3 DEF ImportCredentialConcurrencyPolicies
  <2>2. activePolicyCount' = activePolicyCount + Cardinality(gained) - Cardinality(lost)
    BY DEF ImportCredentialConcurrencyPolicies
  <2>3. Cardinality(gained) = 0
    BY <1>3, FS_EmptySet
  <2>4. Cardinality(lost) \in Nat
    <3>1. lost \subseteq Credentials
      BY DEF Documents
    <3> QED
      BY <3>1, CredentialsAssumption, FS_Subset, FS_CardinalityType
  <2>5. activePolicyCount' > 0 => activePolicyCount > 0
    <3> HIDE DEF gained, lost
    <3> QED
      BY <2>2, <2>3, <2>4 DEF TypeInv, TypeOK
  <2> QED
    BY <1>1, <2>1, <2>5, UnawareSplit, UnawareSplitNext
<1> QED
  BY <1>2, <1>3

LEMMA NextAware == TypeInv /\ NobodyUnawareOfLimits /\ [Next]_vars => NobodyUnawareOfLimits'
<1> SUFFICES ASSUME TypeInv, NobodyUnawareOfLimits, [Next]_vars PROVE NobodyUnawareOfLimits'
  OBVIOUS
<1>1. ASSUME UNCHANGED <<homes, members, activePolicyCount>> PROVE NobodyUnawareOfLimits'
  BY <1>1, UnawareSplit, UnawareSplitNext
<1>2. CASE PolicyStep
  <2>1. ASSUME NEW c \in Credentials, RetireProviderAuth(c) \/ RestoreAuth(c)
        PROVE  UNCHANGED <<homes, members, activePolicyCount>>
    BY <2>1 DEF RetireProviderAuth, RestoreAuth, memberVars
  <2> QED
    BY <1>1, <1>2, <2>1, PatchAware, ImportAware DEF PolicyStep
<1>3. CASE UNCHANGED vars
  BY <1>1, <1>3 DEF vars
<1> QED
  BY <1>1, <1>2, <1>3, HomeStepAware, SubscribeStepAware, MemberStepAware, SlotStepFrame, CancellationStepsAware DEF Next

\* While any policy is active, every active CPA speaks the limiter's protocol, every active
\* Home has the capability and SQLite has at most one active Home, in every rollout order.
THEOREM RolloutSafe == Spec => []NobodyUnawareOfLimits
<1>1. Init => NobodyUnawareOfLimits
  BY DEF Init, NobodyUnawareOfLimits
<1>2. TypeInv /\ NobodyUnawareOfLimits /\ [Next]_vars => NobodyUnawareOfLimits'
  BY NextAware
<1> QED
  BY <1>1, <1>2, InitTypeInv, NextTypeInv, PTL DEF Spec

-------------------------------------------------------------------------------
(* The activation gate counts the active policies. *)

ActivePolicies == {c \in Credentials : PolicyActive(policies[c])}

LEMMA PatchCounts ==
    ASSUME TypeInv, GateCountsActivePolicies, NEW c \in Credentials, NEW patch \in Patches, NEW v,
           PatchCredentialConcurrencyPolicy(c, patch, v)
    PROVE  GateCountsActivePolicies'
<1> DEFINE next == Patched(policies[c], patch, barrier + 1)
<1>1. /\ policies \in [Credentials -> PolicyRecords] /\ activePolicyCount \in Int
      /\ IsFiniteSet(ActivePolicies) /\ activePolicyCount = Cardinality(ActivePolicies)
  BY CredentialsAssumption, FS_Subset DEF TypeInv, TypeOK, ActivePolicies, GateCountsActivePolicies
<1>2. policies' = [policies EXCEPT ![c] = next]
  BY DEF PatchCredentialConcurrencyPolicy
<1>3. ActivePolicies' = IF PolicyActive(next) THEN ActivePolicies \union {c} ELSE ActivePolicies \ {c}
  <2>1. policies'[c] = next /\ \A d \in Credentials \ {c} : policies'[d] = policies[d]
    BY <1>1, <1>2
  <2> HIDE DEF next
  <2> QED
    BY <2>1 DEF ActivePolicies
<1>4. c \in ActivePolicies <=> PolicyActive(policies[c])
  BY DEF ActivePolicies
<1>5. activePolicyCount' =
        CASE PolicyActive(next) /\ ~ PolicyActive(policies[c]) -> activePolicyCount + 1
          [] ~ PolicyActive(next) /\ PolicyActive(policies[c]) -> activePolicyCount - 1
          [] OTHER -> activePolicyCount
  BY DEF PatchCredentialConcurrencyPolicy
<1>6. /\ Cardinality(ActivePolicies \union {c}) =
            IF c \in ActivePolicies THEN Cardinality(ActivePolicies) ELSE Cardinality(ActivePolicies) + 1
      /\ Cardinality(ActivePolicies \ {c}) =
            IF c \in ActivePolicies THEN Cardinality(ActivePolicies) - 1 ELSE Cardinality(ActivePolicies)
  BY <1>1, FS_AddElement, FS_RemoveElement
<1>7. activePolicyCount' = Cardinality(ActivePolicies')
  <2> HIDE DEF next
  <2>1. CASE PolicyActive(next)
    BY <1>1, <1>3, <1>4, <1>5, <1>6, <2>1
  <2>2. CASE ~ PolicyActive(next)
    BY <1>1, <1>3, <1>4, <1>5, <1>6, <2>2
  <2> QED
    BY <2>1, <2>2
<1> QED
  BY <1>7 DEF GateCountsActivePolicies, ActivePolicies

\* A document replaces a whole policy, so the policy is active exactly when the document's is.
LEMMA ExchangeReplaces ==
    ASSUME NEW p, NEW document \in Documents, NEW c, NEW b
    PROVE  PolicyActive(Patched(p, ExchangePatch(document, c), b)) <=> CanActivate(ExchangePatch(document, c))
BY DEF PolicyActive, Patched, ExchangePatch, CanActivate

LEMMA ImportCounts ==
    ASSUME TypeInv, GateCountsActivePolicies, NEW document \in Documents,
           ImportCredentialConcurrencyPolicies(document)
    PROVE  GateCountsActivePolicies'
<1> DEFINE targets == DOMAIN document \union {c \in Credentials : policies[c].version > 0}
           activating == {c \in targets : CanActivate(ExchangePatch(document, c))}
           gained == {c \in activating : ~ PolicyActive(policies[c])}
           lost == {c \in targets \ activating : PolicyActive(policies[c])}
<1>1. targets \subseteq Credentials
  BY DEF Documents
<1>2. IsFiniteSet(ActivePolicies) /\ activePolicyCount = Cardinality(ActivePolicies)
  BY CredentialsAssumption, FS_Subset DEF ActivePolicies, GateCountsActivePolicies
<1>3. PICK rank : policies' = [c \in Credentials |->
          IF c \in targets THEN Patched(policies[c], ExchangePatch(document, c), barrier + rank[c]) ELSE policies[c]]
  BY DEF ImportCredentialConcurrencyPolicies
<1>4. activePolicyCount' = activePolicyCount + Cardinality(gained) - Cardinality(lost)
  BY DEF ImportCredentialConcurrencyPolicies
<1>5. \A c \in Credentials : PolicyActive(policies'[c]) <=>
          IF c \in targets THEN c \in activating ELSE c \in ActivePolicies
  <2> SUFFICES ASSUME NEW c \in Credentials
               PROVE  PolicyActive(policies'[c]) <=> IF c \in targets THEN c \in activating ELSE c \in ActivePolicies
    OBVIOUS
  <2>1. CASE c \in targets
    <3>1. policies'[c] = Patched(policies[c], ExchangePatch(document, c), barrier + rank[c])
      BY <1>3, <2>1
    <3> QED
      BY <2>1, <3>1, ExchangeReplaces
  <2>2. CASE c \notin targets
    <3>1. policies'[c] = policies[c]
      BY <1>3, <2>2
    <3> QED
      BY <2>2, <3>1 DEF ActivePolicies
  <2> QED
    BY <2>1, <2>2
<1>6. /\ gained \subseteq Credentials /\ gained \intersect ActivePolicies = {}
      /\ lost \subseteq ActivePolicies /\ lost \intersect gained = {}
  BY <1>1 DEF ActivePolicies
<1>7. ActivePolicies' = (ActivePolicies \ lost) \union gained
  <2>1. \A c \in Credentials : c \in ActivePolicies' <=> c \in (ActivePolicies \ lost) \union gained
    <3> SUFFICES ASSUME NEW c \in Credentials
                 PROVE  c \in ActivePolicies' <=> c \in (ActivePolicies \ lost) \union gained
      OBVIOUS
    <3>1. c \in ActivePolicies' <=> PolicyActive(policies'[c])
      BY DEF ActivePolicies
    <3>2. c \in ActivePolicies <=> PolicyActive(policies[c])
      BY DEF ActivePolicies
    <3>3. activating \subseteq targets
      OBVIOUS
    <3> HIDE DEF targets, activating
    <3> QED
      BY <1>5, <3>1, <3>2, <3>3
  <2>2. ActivePolicies' \subseteq Credentials /\ (ActivePolicies \ lost) \union gained \subseteq Credentials
    BY <1>6 DEF ActivePolicies
  <2> QED
    BY <2>1, <2>2
<1> HIDE DEF gained, lost, activating, targets
<1>8. IsFiniteSet(gained) /\ IsFiniteSet(lost)
  BY <1>2, <1>6, CredentialsAssumption, FS_Subset
<1>9. Cardinality(ActivePolicies \ lost) = Cardinality(ActivePolicies) - Cardinality(lost)
  <2>1. ActivePolicies \intersect lost = lost
    BY <1>6
  <2> QED
    BY <1>2, <2>1, FS_Difference
<1>10. Cardinality(ActivePolicies') = Cardinality(ActivePolicies \ lost) + Cardinality(gained)
  <2>1. IsFiniteSet(ActivePolicies \ lost) /\ (ActivePolicies \ lost) \intersect gained = {}
    BY <1>2, <1>6, FS_Difference
  <2>2. /\ Cardinality(ActivePolicies \ lost) \in Nat /\ Cardinality(gained) \in Nat
        /\ Cardinality({}) = 0
    BY <1>8, <2>1, FS_CardinalityType, FS_EmptySet
  <2>3. Cardinality((ActivePolicies \ lost) \union gained)
          = Cardinality(ActivePolicies \ lost) + Cardinality(gained) - Cardinality({})
    BY <1>8, <2>1, FS_Union
  <2> QED
    BY <1>7, <2>2, <2>3
<1>11. activePolicyCount' = Cardinality(ActivePolicies')
  <2>1. Cardinality(ActivePolicies) \in Nat /\ Cardinality(lost) \in Nat /\ Cardinality(gained) \in Nat
    BY <1>2, <1>8, FS_CardinalityType
  <2> QED
    BY <1>2, <1>4, <1>9, <1>10, <2>1
<1> QED
  BY <1>11 DEF GateCountsActivePolicies, ActivePolicies

LEMMA NextCounts == TypeInv /\ GateCountsActivePolicies /\ [Next]_vars => GateCountsActivePolicies'
<1> SUFFICES ASSUME TypeInv, GateCountsActivePolicies, [Next]_vars PROVE GateCountsActivePolicies'
  OBVIOUS
<1>1. ASSUME UNCHANGED <<policies, activePolicyCount>> PROVE GateCountsActivePolicies'
  BY <1>1 DEF GateCountsActivePolicies
<1>2. CASE PolicyStep
  <2>1. ASSUME NEW c \in Credentials, RetireProviderAuth(c) \/ RestoreAuth(c)
        PROVE  UNCHANGED <<policies, activePolicyCount>>
    BY <2>1 DEF RetireProviderAuth, RestoreAuth
  <2> QED
    BY <1>1, <1>2, <2>1, PatchCounts, ImportCounts DEF PolicyStep
<1>3. CASE HomeStep \/ MemberStep
  BY <1>1, <1>3 DEF HomeStep, MemberStep, limiterVars
<1>4. CASE SubscribeStep
  <2>1. UNCHANGED <<policies, activePolicyCount>>
    BY <1>4 DEF SubscribeStep, Subscribe
  <2> QED
    BY <1>1, <2>1
<1>5. CASE CancelStep
  BY <1>1, <1>5 DEF CancelStep, limiterVars
<1>6. CASE CompleteStep
  <2>1. UNCHANGED <<policies, activePolicyCount>>
    BY <1>6 DEF CompleteStep, CompleteFingerprintCancellation, RecoverStaleQuiescence
  <2> QED
    BY <1>1, <2>1
<1>7. CASE SlotStep
  BY <1>1, <1>7, SlotStepFrame
<1>8. CASE UNCHANGED vars
  BY <1>1, <1>8 DEF vars
<1> QED
  BY <1>2, <1>3, <1>4, <1>5, <1>6, <1>7, <1>8 DEF Next

\* The gate that lets Homes and CPAs in counts the active policies exactly, after any number of
\* patches and imports of any size, also of retired credentials.
THEOREM GateIsExact == Spec => []GateCountsActivePolicies
<1>1. Init => GateCountsActivePolicies
  <2> SUFFICES ASSUME Init PROVE GateCountsActivePolicies
    OBVIOUS
  <2>1. {c \in Credentials : PolicyActive(policies[c])} = {}
    BY DEF Init, NoPolicy, PolicyActive
  <2> QED
    BY <2>1, FS_EmptySet DEF Init, GateCountsActivePolicies
<1>2. TypeInv /\ GateCountsActivePolicies /\ [Next]_vars => GateCountsActivePolicies'
  BY NextCounts
<1> QED
  BY <1>1, <1>2, InitTypeInv, NextTypeInv, PTL DEF Spec

-------------------------------------------------------------------------------
(* Lifetimes and incarnations. *)

\* The steps of Homes, policies and slots leave the tables of the memberships alone.
LEMMA OutsideMembership ==
    ASSUME HomeStep \/ PolicyStep \/ SlotStep \/ UNCHANGED vars
    PROVE  UNCHANGED <<members, participations, quiescence, lifecycleRevision>>
<1>1. CASE HomeStep \/ UNCHANGED vars
  BY <1>1 DEF HomeStep, vars
<1>2. CASE PolicyStep
  BY <1>2 DEF PolicyStep, PatchCredentialConcurrencyPolicy, ImportCredentialConcurrencyPolicies,
    RetireProviderAuth, RestoreAuth, memberVars
<1>3. CASE SlotStep
  <2>1. PICK f \in Fingerprints, k \in Keys :
          \/ \E at, h, protocol, delivered : AdmitCredentialConcurrency(f, at, h, k, protocol, delivered)
          \/ \E at, h, seq : ApplyConcurrencyRelease(f, at, h, k, seq)
          \/ FinishRequest(f, k)
    BY <1>3 DEF SlotStep
  <2> QED
    BY <2>1 DEF AdmitCredentialConcurrency, ApplyConcurrencyRelease, FinishRequest, memberVars
<1> QED
  BY <1>1, <1>2, <1>3

LEMMA SlotStepHomes == ASSUME SlotStep PROVE UNCHANGED homes
<1>1. PICK f \in Fingerprints, k \in Keys :
        \/ \E at, h, protocol, delivered : AdmitCredentialConcurrency(f, at, h, k, protocol, delivered)
        \/ \E at, h, seq : ApplyConcurrencyRelease(f, at, h, k, seq)
        \/ FinishRequest(f, k)
  BY DEF SlotStep
<1> QED
  BY <1>1 DEF AdmitCredentialConcurrency, ApplyConcurrencyRelease, FinishRequest

\* A home that is out stays out, and one past the reclaim grace stays there.
HomesOnlyLeave ==
    \A h \in Incarnations : homes[h].state \notin {"none", "active"} =>
        /\ homes'[h].state \notin {"none", "active"}
        /\ homes[h].age = Dead => homes'[h].age = Dead

LEMMA HomesLeave == TypeInv /\ [Next]_vars => HomesOnlyLeave
<1> SUFFICES ASSUME TypeInv, [Next]_vars PROVE HomesOnlyLeave
  OBVIOUS
<1>0. homes \in [Incarnations -> HomeRecords]
  BY DEF TypeInv, TypeOK
<1>1. CASE HomeStep
  <2>1. PICK h \in Incarnations :
          \/ \E capable \in Capabilities : RegisterHomeIncarnation(h, capable)
          \/ HeartbeatHomeIncarnation(h)
          \/ HeartbeatRefused(h)
          \/ RetireHomeIncarnation(h)
          \/ CrashHome(h)
          \/ HomeAges(h)
    BY <1>1 DEF HomeStep
  <2>2. CASE \E capable \in Capabilities : RegisterHomeIncarnation(h, capable)
    BY <1>0, <2>2 DEF RegisterHomeIncarnation, ExpireStale, HomesOnlyLeave, HomeRecords
  <2>3. CASE HeartbeatHomeIncarnation(h) \/ RetireHomeIncarnation(h)
    BY <1>0, <2>3 DEF HeartbeatHomeIncarnation, RetireHomeIncarnation, HomeActive, HomesOnlyLeave, HomeRecords
  <2>4. CASE HeartbeatRefused(h) \/ CrashHome(h)
    BY <2>4 DEF HeartbeatRefused, CrashHome, HomesOnlyLeave
  <2>5. CASE HomeAges(h)
    BY <1>0, <2>5 DEF HomeAges, HomesOnlyLeave, HomeRecords, Dead
  <2> QED
    BY <2>1, <2>2, <2>3, <2>4, <2>5
<1>2. ASSUME NEW S, homes' = ResolveHomes(homes, S) PROVE HomesOnlyLeave
  BY <1>0, <1>2 DEF ResolveHomes, ResolvedHome, HomesOnlyLeave, HomeRecords
<1>3. CASE PolicyStep
  <2>1. homes' = homes \/ homes' = ExpireStale(homes)
    BY <1>3 DEF PolicyStep, PatchCredentialConcurrencyPolicy, ImportCredentialConcurrencyPolicies,
      RetireProviderAuth, RestoreAuth
  <2> QED
    BY <1>0, <2>1 DEF ExpireStale, HomesOnlyLeave, HomeRecords
<1>4. CASE CancelStep
  <2>1. PICK f \in Fingerprints : BeginCancellation(f)
    BY <1>4 DEF CancelStep, CleanupStaleMembership, BeginFingerprintCancellationForLifetime
  <2> QED
    BY <1>2, <2>1 DEF BeginCancellation
<1>5. CASE CompleteStep
  <2>1. PICK f \in Fingerprints :
          (\E at, r : CompleteFingerprintCancellation(f, at, r)) \/ RecoverStaleQuiescence(f)
    BY <1>5 DEF CompleteStep
  <2>2. CASE \E at, r : CompleteFingerprintCancellation(f, at, r)
    BY <2>2 DEF CompleteFingerprintCancellation, HomesOnlyLeave
  <2>3. CASE RecoverStaleQuiescence(f)
    BY <1>2, <2>3 DEF RecoverStaleQuiescence, RecoverQuiescenceRows, RecoveredHomes
  <2> QED
    BY <2>1, <2>2, <2>3
<1>6. CASE SubscribeStep \/ MemberStep \/ SlotStep \/ UNCHANGED vars
  <2>1. UNCHANGED homes
    <3>1. CASE SubscribeStep
      BY <3>1 DEF SubscribeStep, Subscribe
    <3>2. CASE MemberStep \/ UNCHANGED vars
      BY <3>2 DEF MemberStep, vars
    <3> QED
      BY <1>6, <3>1, <3>2, SlotStepHomes
  <2> QED
    BY <2>1 DEF HomesOnlyLeave
<1> QED
  BY <1>1, <1>3, <1>4, <1>5, <1>6 DEF Next

-------------------------------------------------------------------------------
(* What each step does to the memberships. *)

\* How one membership may change: not at all, by its heartbeat age, into a new lifetime, or
\* on towards its end.
MemberChange(f) ==
    \/ members'[f] = members[f]
    \/ members'[f] \in {[members[f] EXCEPT !.age = Fresh], [members[f] EXCEPT !.age = Stale]}
    \/ /\ members'[f].connectedAt = members[f].connectedAt + 1
       /\ members'[f].state = "active"
       /\ members'[f].lifecycleRevision = lifecycleRevision
    \/ /\ members[f].state = "active" /\ members'[f].state = "canceling"
       /\ members'[f].connectedAt = members[f].connectedAt /\ members'[f].home = members[f].home
       /\ members'[f].lifecycleRevision = members[f].lifecycleRevision
    \/ members[f].state = "canceling" /\ members'[f] = [members[f] EXCEPT !.state = "closed"]

LEMMA MembersChange == TypeInv /\ [Next]_vars => \A f \in Fingerprints : MemberChange(f)
<1> SUFFICES ASSUME TypeInv, [Next]_vars, NEW f \in Fingerprints PROVE MemberChange(f)
  OBVIOUS
<1>0. members \in [Fingerprints -> MemberRecords]
  BY DEF TypeInv, TypeOK
<1>1. CASE HomeStep \/ PolicyStep \/ SlotStep \/ UNCHANGED vars
  <2>1. UNCHANGED members
    BY <1>1, OutsideMembership
  <2> QED
    BY <2>1 DEF MemberChange
<1>2. CASE SubscribeStep
  BY <1>0, <1>2 DEF SubscribeStep, Subscribe, SubscribeMembership, MemberChange
<1>3. CASE MemberStep
  BY <1>0, <1>3, MemberStepMembers DEF MemberChange, MemberRecords
<1>4. CASE CancelStep
  <2>1. PICK g \in Fingerprints : BeginCancellation(g)
    BY <1>4 DEF CancelStep, CleanupStaleMembership, BeginFingerprintCancellationForLifetime
  <2> QED
    BY <1>0, <2>1 DEF BeginCancellation, MemberChange, MemberRecords
<1>5. CASE CompleteStep
  <2>1. PICK g \in Fingerprints :
          (\E at, r : CompleteFingerprintCancellation(g, at, r)) \/ RecoverStaleQuiescence(g)
    BY <1>5 DEF CompleteStep
  <2>2. members' = members
        \/ (members[g].state = "canceling" /\ members' = [members EXCEPT ![g].state = "closed"])
    BY <2>1 DEF CompleteFingerprintCancellation, CompleteCancellation, RecoverStaleQuiescence,
      RecoverQuiescenceRows, CloseMembership
  <2> QED
    BY <1>0, <2>2 DEF MemberChange, MemberRecords
<1> QED
  BY <1>1, <1>2, <1>3, <1>4, <1>5 DEF Next

LEMMA SpecTypeInv == Spec => []TypeInv
<1>1. TypeInv /\ [Next]_vars => TypeInv'
  BY NextTypeInv
<1> QED
  BY <1>1, InitTypeInv, PTL DEF Spec

\* Nothing that has ended begins again: a canceled or closed lifetime of a CPA is never active
\* again, its connected_at never goes back, and an incarnation that is out of the table's
\* active rows never returns.
THEOREM EndedStaysEnded == Spec => NothingRevives
<1> DEFINE Lives ==
      \A f \in Fingerprints :
        /\ members'[f].connectedAt >= members[f].connectedAt
        /\ members'[f].connectedAt = members[f].connectedAt /\ members[f].state # "active"
                => members'[f].state # "active"
<1> DEFINE Incs == \A h \in Incarnations :
        homes[h].state \notin {"none", "active"} => homes'[h].state # "active"
<1>1. TypeInv /\ [Next]_vars => [Lives]_vars
  <2> SUFFICES ASSUME TypeInv, [Next]_vars, NEW f \in Fingerprints
               PROVE  /\ members'[f].connectedAt >= members[f].connectedAt
                      /\ members'[f].connectedAt = members[f].connectedAt /\ members[f].state # "active"
                              => members'[f].state # "active"
    OBVIOUS
  <2>1. MemberChange(f) /\ members[f] \in MemberRecords
    BY MembersChange DEF TypeInv, TypeOK
  <2> QED
    BY <2>1 DEF MemberChange, MemberRecords
<1>2. TypeInv /\ [Next]_vars => [Incs]_vars
  BY HomesLeave DEF HomesOnlyLeave
<1> QED
  BY <1>1, <1>2, SpecTypeInv, PTL DEF Spec, NothingRevives, LifetimesNeverRevive, IncarnationsNeverRevive

-------------------------------------------------------------------------------
(* The revision of the safety durations. *)

LEMMA PinnedStep == TypeInv /\ LifecycleRevisionPinned /\ [Next]_vars => LifecycleRevisionPinned'
<1> SUFFICES ASSUME TypeInv, LifecycleRevisionPinned, [Next]_vars, NEW f \in Fingerprints, Open(f)'
             PROVE  members'[f].lifecycleRevision = lifecycleRevision'
  BY DEF LifecycleRevisionPinned
<1>1. MemberChange(f) /\ members[f] \in MemberRecords
  BY MembersChange DEF TypeInv, TypeOK
<1>2. CASE lifecycleRevision' = lifecycleRevision
  BY <1>1, <1>2 DEF MemberChange, MemberRecords, LifecycleRevisionPinned, Open
<1>3. CASE lifecycleRevision' # lifecycleRevision
  <2>1. MemberStep
    <3>1. SubscribeStep => lifecycleRevision' = lifecycleRevision
      BY DEF SubscribeStep, Subscribe, SubscribeMembership
    <3>2. CancelStep => lifecycleRevision' = lifecycleRevision
      BY DEF CancelStep, CleanupStaleMembership, BeginFingerprintCancellationForLifetime, BeginCancellation
    <3>3. CompleteStep => lifecycleRevision' = lifecycleRevision
      BY DEF CompleteStep, CompleteFingerprintCancellation, CompleteCancellation, RecoverStaleQuiescence,
        RecoverQuiescenceRows
    <3> QED
      BY <1>3, <3>1, <3>2, <3>3, OutsideMembership DEF Next
  <2>2. UpdateLifecycleConfig
    BY <1>3, <2>1 DEF MemberStep, ClassifyConnection, JoinLifetime, RefreshCPALiveness, AcknowledgeQuiescence,
      MemberAges
  <2> QED
    BY <2>2 DEF UpdateLifecycleConfig, Open
<1> QED
  BY <1>2, <1>3

\* An open membership was accepted under the revision of the safety durations now in force:
\* the update refuses to run while any membership is open, a canceling one included.
THEOREM RevisionStaysPinned == Spec => []LifecycleRevisionPinned
<1>1. Init => LifecycleRevisionPinned
  BY DEF Init, MemberInit, LifecycleRevisionPinned, Open, NoMember
<1>2. TypeInv /\ LifecycleRevisionPinned /\ [Next]_vars => LifecycleRevisionPinned'
  BY PinnedStep
<1> QED
  BY <1>1, <1>2, SpecTypeInv, PTL DEF Spec

-------------------------------------------------------------------------------
(* Only the owner of a lifetime takes part in it. *)

\* A connection that was classified has read the owner of its lifetime, which may be over.
ClassifiedByOwner ==
    \A s \in classifying :
        /\ s.connectedAt <= members[s.fingerprint].connectedAt
        /\ s.connectedAt = members[s.fingerprint].connectedAt => s.home = members[s.fingerprint].home

OwnerInv == OnlyOwnerParticipates /\ ClassifiedByOwner

\* A membership whose owner and lifetime stay keeps both parts, if it stays open.
LEMMA OwnerFrame ==
    ASSUME TypeInv, OwnerInv, classifying' \subseteq classifying, participations' \subseteq participations,
           \A f \in Fingerprints : /\ members'[f].connectedAt = members[f].connectedAt
                                   /\ members'[f].home = members[f].home
                                   /\ Open(f) => Open(f)'
    PROVE  OwnerInv'
BY DEF OwnerInv, OnlyOwnerParticipates, ClassifiedByOwner, TypeInv, TypeOK, Participations

LEMMA OwnerStep == TypeInv /\ OwnerInv /\ [Next]_vars => OwnerInv'
<1> SUFFICES ASSUME TypeInv, OwnerInv, [Next]_vars PROVE OwnerInv'
  OBVIOUS
<1>0. /\ members \in [Fingerprints -> MemberRecords]
      /\ classifying \subseteq Participations /\ participations \subseteq Participations
  BY DEF TypeInv, TypeOK
<1>1. CASE HomeStep \/ PolicyStep \/ SlotStep \/ UNCHANGED vars
  <2>1. UNCHANGED <<members, participations>>
    BY <1>1, OutsideMembership
  <2>2. classifying' \subseteq classifying
    <3>1. CASE HomeStep
      BY <3>1 DEF HomeStep
    <3>2. CASE PolicyStep
      BY <3>2 DEF PolicyStep, PatchCredentialConcurrencyPolicy, ImportCredentialConcurrencyPolicies,
        RetireProviderAuth, RestoreAuth, memberVars
    <3>3. CASE SlotStep
      <4>1. PICK f \in Fingerprints, k \in Keys :
              \/ \E at, h, protocol, delivered : AdmitCredentialConcurrency(f, at, h, k, protocol, delivered)
              \/ \E at, h, seq : ApplyConcurrencyRelease(f, at, h, k, seq)
              \/ FinishRequest(f, k)
        BY <3>3 DEF SlotStep
      <4> QED
        BY <4>1 DEF AdmitCredentialConcurrency, ApplyConcurrencyRelease, FinishRequest, memberVars
    <3> QED
      BY <1>1, <3>1, <3>2, <3>3 DEF vars
  <2> QED
    BY <2>1, <2>2, OwnerFrame DEF Open
<1>2. CASE SubscribeStep
  <2>1. PICK f \in Fingerprints, h \in Incarnations :
          \E protocol, revision, takeover : Subscribe(f, h, protocol, revision, takeover)
    BY <1>2 DEF SubscribeStep
  <2>2. /\ participations' = {p \in participations :
              ~ (Open(f) /\ p.fingerprint = f /\ p.connectedAt = members[f].connectedAt)}
        /\ classifying' = classifying
    BY <2>1 DEF Subscribe, SubscribeMembership
  <2>3. /\ members'[f].connectedAt = members[f].connectedAt + 1
        /\ \A g \in Fingerprints : g # f => members'[g] = members[g]
    BY <1>0, <2>1 DEF Subscribe, SubscribeMembership
  <2>4. members[f].connectedAt \in Nat
    BY <1>0 DEF MemberRecords
  <2>5. \A p \in participations' : p.fingerprint # f
    BY <2>2 DEF OwnerInv, OnlyOwnerParticipates
  <2>6. OnlyOwnerParticipates'
    BY <1>0, <2>2, <2>3, <2>5 DEF OwnerInv, OnlyOwnerParticipates, Open, Participations
  <2>7. ClassifiedByOwner'
    <3> SUFFICES ASSUME NEW s \in classifying
                 PROVE  /\ s.connectedAt <= members'[s.fingerprint].connectedAt
                        /\ s.connectedAt = members'[s.fingerprint].connectedAt
                              => s.home = members'[s.fingerprint].home
      BY <2>2 DEF ClassifiedByOwner
    <3>1. s.fingerprint \in Fingerprints /\ s.connectedAt \in Nat
      BY <1>0 DEF Participations
    <3>2. /\ s.connectedAt <= members[s.fingerprint].connectedAt
          /\ s.connectedAt = members[s.fingerprint].connectedAt => s.home = members[s.fingerprint].home
      BY DEF OwnerInv, ClassifiedByOwner
    <3>3. CASE s.fingerprint = f
      BY <2>3, <2>4, <3>1, <3>2, <3>3
    <3>4. CASE s.fingerprint # f
      BY <2>3, <3>1, <3>2, <3>4
    <3> QED
      BY <3>3, <3>4
  <2> QED
    BY <2>6, <2>7 DEF OwnerInv
<1>3. CASE MemberStep
  <2>1. \A f \in Fingerprints : /\ members'[f].state = members[f].state
                                /\ members'[f].connectedAt = members[f].connectedAt
                                /\ members'[f].home = members[f].home
    BY <1>0, <1>3, MemberStepMembers DEF MemberRecords
  <2>2. CASE \E f \in Fingerprints, h \in Incarnations : ClassifyConnection(f, h)
    <3>1. PICK f \in Fingerprints, h \in Incarnations : ClassifyConnection(f, h)
      BY <2>2
    <3>2. /\ UNCHANGED <<members, participations>> /\ members[f].home = h
          /\ classifying' = classifying \union {Serving(f, members[f].connectedAt, h)}
      BY <3>1 DEF ClassifyConnection, ActiveLifetime
    <3>3. members[f].connectedAt \in Nat
      BY <1>0 DEF MemberRecords
    <3> QED
      BY <3>2, <3>3 DEF OwnerInv, OnlyOwnerParticipates, ClassifiedByOwner, Open, Serving
  <2>3. CASE \E f \in Fingerprints, h \in Incarnations, at \in 1 .. MaxLifetime : JoinLifetime(f, at, h)
    <3>1. PICK f \in Fingerprints, h \in Incarnations, at \in 1 .. MaxLifetime : JoinLifetime(f, at, h)
      BY <2>3
    <3>2. /\ UNCHANGED members /\ classifying' \subseteq classifying
          /\ participations' = IF Joinable(f, at, h) THEN participations \union {Serving(f, at, h)}
                               ELSE participations
          /\ Serving(f, at, h) \in classifying
      BY <3>1 DEF JoinLifetime, RecordParticipation
    <3>3. Joinable(f, at, h) => members[f].home = h
      BY <3>2 DEF OwnerInv, ClassifiedByOwner, Serving, Joinable
    <3>4. OnlyOwnerParticipates'
      BY <3>2, <3>3 DEF OwnerInv, OnlyOwnerParticipates, Open, Serving, Joinable
    <3> QED
      BY <3>2, <3>4 DEF OwnerInv, ClassifiedByOwner
  <2>4. CASE ~ (\E f \in Fingerprints, h \in Incarnations : ClassifyConnection(f, h))
             /\ ~ (\E f \in Fingerprints, h \in Incarnations, at \in 1 .. MaxLifetime : JoinLifetime(f, at, h))
    <3>1. UNCHANGED <<classifying, participations>>
      BY <1>3, <2>4 DEF MemberStep, RefreshCPALiveness, AcknowledgeQuiescence, MemberAges, UpdateLifecycleConfig
    <3> QED
      BY <2>1, <3>1, OwnerFrame DEF Open
  <2> QED
    BY <2>2, <2>3, <2>4
<1>4. CASE CancelStep
  <2>1. PICK f \in Fingerprints : BeginCancellation(f)
    BY <1>4 DEF CancelStep, CleanupStaleMembership, BeginFingerprintCancellationForLifetime
  <2>2. UNCHANGED <<classifying, participations>>
    BY <2>1 DEF BeginCancellation
  <2>3. \A g \in Fingerprints : /\ members'[g].connectedAt = members[g].connectedAt
                                /\ members'[g].home = members[g].home
                                /\ Open(g) => Open(g)'
    BY <1>0, <2>1 DEF BeginCancellation, MemberRecords, Open
  <2> QED
    BY <2>2, <2>3, OwnerFrame
<1>5. CASE CompleteStep
  <2>1. PICK f \in Fingerprints :
          (\E at, r : CompleteFingerprintCancellation(f, at, r)) \/ RecoverStaleQuiescence(f)
    BY <1>5 DEF CompleteStep
  <2>2. UNCHANGED classifying /\ (UNCHANGED <<members, participations>> \/ CloseMembership(f))
    BY <2>1 DEF CompleteFingerprintCancellation, CompleteCancellation, RecoverStaleQuiescence,
      RecoverQuiescenceRows
  <2>3. CASE UNCHANGED <<members, participations>>
    BY <2>2, <2>3, OwnerFrame DEF Open
  <2>4. CASE CloseMembership(f)
    <3>1. /\ \A g \in Fingerprints : members'[g].connectedAt = members[g].connectedAt
                                     /\ members'[g].home = members[g].home
          /\ \A g \in Fingerprints : g # f => members'[g] = members[g]
      BY <1>0, <2>4 DEF CloseMembership, MemberRecords
    <3>2. participations' \subseteq participations /\ \A p \in participations' : p.fingerprint # f
      BY <2>4 DEF CloseMembership, OwnerInv, OnlyOwnerParticipates
    <3> QED
      BY <1>0, <2>2, <3>1, <3>2 DEF OwnerInv, OnlyOwnerParticipates, ClassifiedByOwner, Open, Participations
  <2> QED
    BY <2>2, <2>3, <2>4
<1> QED
  BY <1>1, <1>2, <1>3, <1>4, <1>5 DEF Next

\* Only the owner ever serves a lifetime: the connection that joins in a later transaction
\* than the one that classified it finds its lifetime over, or its owner in place.
THEOREM OwnersParticipate == Spec => []OnlyOwnerParticipates
<1>1. Init => OwnerInv
  BY DEF Init, MemberInit, OwnerInv, OnlyOwnerParticipates, ClassifiedByOwner
<1>2. TypeInv /\ OwnerInv /\ [Next]_vars => OwnerInv'
  BY OwnerStep
<1>3. OwnerInv => OnlyOwnerParticipates
  BY DEF OwnerInv
<1> QED
  BY <1>1, <1>2, <1>3, SpecTypeInv, PTL DEF Spec

-------------------------------------------------------------------------------
(* The rows of a cancellation: where each row comes from. *)

Candidates(f) == {members[f].home} \union ParticipantsOf(f, members[f].connectedAt)

Current(f) == RowsOf(f, members[f].connectedAt, members[f].cancelRevision)

SameRow(p, q) ==
    p.fingerprint = q.fingerprint /\ p.connectedAt = q.connectedAt /\ p.revision = q.revision /\ p.home = q.home

\* A row that is fenced after a step was so before, or its home is out of the way now.
FencedHomeGone(q) == q.status = "fenced" => HomeReclaimable(homes'[q.home])

Carried(q) == \E p \in quiescence : SameRow(p, q) /\ (q.status = "fenced" => p.status = "fenced" \/ FencedHomeGone(q))

Begun(q) ==
    \E f \in Fingerprints :
        /\ BeginCancellation(f)
        /\ q.fingerprint = f /\ q.connectedAt = members[f].connectedAt
        /\ q.revision = members[f].cancelRevision + 1
        /\ FencedHomeGone(q)

LEMMA RowOrigin == TypeInv /\ [Next]_vars => \A q \in quiescence' : Carried(q) \/ Begun(q)
<1> SUFFICES ASSUME TypeInv, [Next]_vars, NEW q \in quiescence' PROVE Carried(q) \/ Begun(q)
  OBVIOUS
<1>1. CASE q \in quiescence
  BY <1>1 DEF Carried, SameRow
<1>2. CASE q \notin quiescence
  <2>1. quiescence' # quiescence
    BY <1>2
  <2>2. CASE SubscribeStep
    BY <1>2, <2>2 DEF SubscribeStep, Subscribe, SubscribeMembership
  <2>3. CASE MemberStep
    <3>1. PICK f \in Fingerprints, h \in Incarnations :
            \E at \in 1 .. MaxLifetime, r \in 1 .. MaxLifetime : AcknowledgeQuiescence(f, at, r, h)
      BY <2>1, <2>3 DEF MemberStep, ClassifyConnection, JoinLifetime, RefreshCPALiveness, MemberAges,
        UpdateLifecycleConfig
    <3>2. PICK at, r : AcknowledgeQuiescence(f, at, r, h)
      BY <3>1
    <3>3. PICK row \in quiescence : q = [row EXCEPT !.status = "acknowledged"]
      BY <1>2, <3>2 DEF AcknowledgeQuiescence, RowsOf
    <3>4. row \in QuiescenceRows
      BY DEF TypeInv, TypeOK
    <3> QED
      BY <3>3, <3>4 DEF QuiescenceRows, Carried, SameRow
  <2>4. CASE CancelStep
    <3>1. PICK f \in Fingerprints : BeginCancellation(f)
      BY <2>4 DEF CancelStep, CleanupStaleMembership, BeginFingerprintCancellationForLifetime
    <3>2. PICK h \in Candidates(f) :
            q = [fingerprint |-> f, connectedAt |-> members[f].connectedAt,
                 revision |-> members[f].cancelRevision + 1, home |-> h,
                 status |-> IF HomeReclaimable(homes'[h]) THEN "fenced" ELSE "pending"]
      BY <1>2, <3>1 DEF BeginCancellation, Candidates
    <3> QED
      BY <3>1, <3>2 DEF Begun, FencedHomeGone
  <2>5. CASE CompleteStep
    <3>1. PICK f \in Fingerprints : RecoverQuiescenceRows(f)
      BY <2>1, <2>5 DEF CompleteStep, CompleteFingerprintCancellation, CompleteCancellation, RecoverStaleQuiescence
    <3>2. PICK row \in Current(f) :
            /\ q = IF row.status = "pending" /\ HomeReclaimable(RecoveredHomes(f)[row.home])
                   THEN [row EXCEPT !.status = "fenced"] ELSE row
      BY <1>2, <3>1 DEF RecoverQuiescenceRows, RecoveredRows, Current
    <3>3. row \in quiescence /\ row \in QuiescenceRows
      BY DEF TypeInv, TypeOK, Current, RowsOf
    <3>4. q = [row EXCEPT !.status = "fenced"] /\ HomeReclaimable(homes'[row.home])
      BY <1>2, <3>1, <3>2, <3>3 DEF RecoverQuiescenceRows
    <3> QED
      BY <3>3, <3>4 DEF QuiescenceRows, Carried, SameRow, FencedHomeGone
  <2> QED
    BY <2>1, <2>2, <2>3, <2>4, <2>5, OutsideMembership DEF Next
<1> QED
  BY <1>1, <1>2

\* No row is ahead of its membership, and the home of a fenced row is past the grace.
RowsBehind ==
    \A q \in quiescence :
        \/ q.connectedAt < members[q.fingerprint].connectedAt
        \/ /\ q.connectedAt = members[q.fingerprint].connectedAt
           /\ q.revision <= members[q.fingerprint].cancelRevision

FencedAreGone == \A q \in quiescence : q.status = "fenced" => HomeReclaimable(homes[q.home])

\* A step moves a membership to a new lifetime or keeps its cancel revision from going back.
LEMMA RevisionMoves ==
    ASSUME TypeInv, [Next]_vars, NEW f \in Fingerprints
    PROVE  \/ members'[f].connectedAt > members[f].connectedAt
           \/ /\ members'[f].connectedAt = members[f].connectedAt
              /\ members'[f].cancelRevision = members[f].cancelRevision
           \/ /\ members'[f].connectedAt = members[f].connectedAt
              /\ BeginCancellation(f)
              /\ members'[f].cancelRevision = members[f].cancelRevision + 1
<1>0. members \in [Fingerprints -> MemberRecords] /\ members[f] \in MemberRecords
  BY DEF TypeInv, TypeOK
<1>1. CASE HomeStep \/ PolicyStep \/ SlotStep \/ UNCHANGED vars
  BY <1>1, OutsideMembership
<1>2. CASE SubscribeStep
  BY <1>0, <1>2 DEF SubscribeStep, Subscribe, SubscribeMembership, MemberRecords
<1>3. CASE MemberStep
  BY <1>0, <1>3, MemberStepMembers DEF MemberRecords
<1>4. CASE CancelStep
  <2>1. PICK g \in Fingerprints : BeginCancellation(g)
    BY <1>4 DEF CancelStep, CleanupStaleMembership, BeginFingerprintCancellationForLifetime
  <2> QED
    BY <1>0, <2>1 DEF BeginCancellation, MemberRecords
<1>5. CASE CompleteStep
  <2>1. PICK g \in Fingerprints :
          (\E at, r : CompleteFingerprintCancellation(g, at, r)) \/ RecoverStaleQuiescence(g)
    BY <1>5 DEF CompleteStep
  <2>2. members' = members \/ members' = [members EXCEPT ![g].state = "closed"]
    BY <2>1 DEF CompleteFingerprintCancellation, CompleteCancellation, RecoverStaleQuiescence,
      RecoverQuiescenceRows, CloseMembership
  <2> QED
    BY <1>0, <2>2 DEF MemberRecords
<1> QED
  BY <1>1, <1>2, <1>3, <1>4, <1>5 DEF Next

LEMMA RowsBehindStep == TypeInv /\ RowsBehind /\ [Next]_vars => RowsBehind'
<1> SUFFICES ASSUME TypeInv, RowsBehind, [Next]_vars, NEW q \in quiescence'
             PROVE  \/ q.connectedAt < members'[q.fingerprint].connectedAt
                    \/ /\ q.connectedAt = members'[q.fingerprint].connectedAt
                       /\ q.revision <= members'[q.fingerprint].cancelRevision
  BY DEF RowsBehind
<1> DEFINE f == q.fingerprint
<1>0. /\ q \in QuiescenceRows /\ f \in Fingerprints
      /\ members[f] \in MemberRecords /\ members'[f] \in MemberRecords
  BY NextTypeInv DEF TypeInv, TypeOK, QuiescenceRows
<1>1. /\ q.connectedAt \in Nat /\ q.revision \in Nat
      /\ members[f].connectedAt \in Nat /\ members[f].cancelRevision \in Nat
      /\ members'[f].connectedAt \in Nat /\ members'[f].cancelRevision \in Nat
  BY <1>0 DEF QuiescenceRows, MemberRecords
<1>2. \/ members'[f].connectedAt > members[f].connectedAt
      \/ /\ members'[f].connectedAt = members[f].connectedAt
         /\ members'[f].cancelRevision = members[f].cancelRevision
      \/ /\ members'[f].connectedAt = members[f].connectedAt
         /\ members'[f].cancelRevision = members[f].cancelRevision + 1
  BY <1>0, RevisionMoves
<1>3. CASE Carried(q)
  <2>1. \/ q.connectedAt < members[f].connectedAt
        \/ q.connectedAt = members[f].connectedAt /\ q.revision <= members[f].cancelRevision
    BY <1>3 DEF Carried, SameRow, RowsBehind
  <2> QED
    BY <1>1, <1>2, <2>1
<1>4. CASE Begun(q)
  <2>1. /\ BeginCancellation(f)
        /\ q.connectedAt = members[f].connectedAt /\ q.revision = members[f].cancelRevision + 1
    BY <1>4 DEF Begun
  <2>2. /\ members'[f].cancelRevision = members[f].cancelRevision + 1
        /\ members'[f].connectedAt = members[f].connectedAt
    BY <1>0, <2>1 DEF BeginCancellation, TypeInv, TypeOK, MemberRecords
  <2> QED
    BY <1>1, <2>1, <2>2
<1> QED
  BY <1>3, <1>4, RowOrigin

LEMMA FencedStep == TypeInv /\ FencedAreGone /\ [Next]_vars => FencedAreGone'
<1> SUFFICES ASSUME TypeInv, FencedAreGone, [Next]_vars, NEW q \in quiescence', q.status = "fenced"
             PROVE  HomeReclaimable(homes'[q.home])
  BY DEF FencedAreGone, HomeReclaimable
<1>1. CASE FencedHomeGone(q)
  BY <1>1 DEF FencedHomeGone
<1>2. CASE ~ FencedHomeGone(q)
  <2>1. PICK p \in quiescence : SameRow(p, q) /\ p.status = "fenced"
    BY <1>2, RowOrigin DEF Carried, Begun
  <2>2. p.home \in Incarnations /\ HomeReclaimable(homes[p.home])
    BY <2>1 DEF FencedAreGone, TypeInv, TypeOK, QuiescenceRows
  <2>3. homes'[p.home].state \notin {"none", "active"} /\ homes'[p.home].age = Dead
    BY <2>2, HomesLeave DEF HomesOnlyLeave, HomeReclaimable
  <2>4. homes'[p.home].state \in HomeStates
    BY <2>2, NextTypeInv DEF TypeInv, TypeOK, HomeRecords
  <2> QED
    BY <2>1, <2>3, <2>4 DEF SameRow, HomeReclaimable, HomeStates
<1> QED
  BY <1>1, <1>2

-------------------------------------------------------------------------------
(* The rows a canceling membership waits for. *)

OneRowPerHome(rows) == \A p, q \in rows : p.home = q.home => p = q

HomesOf(rows) == {row.home : row \in rows}

\* The rows of a cancellation cover exactly those who may act, one row each.
RowsComplete(f) ==
    members[f].state = "canceling" =>
        /\ members[f].expected = Cardinality(Candidates(f))
        /\ HomesOf(Current(f)) = Candidates(f)
        /\ OneRowPerHome(Current(f))

AllRowsComplete == \A f \in Fingerprints : RowsComplete(f)

LEMMA RowsCount ==
    ASSUME NEW R, NEW C, IsFiniteSet(C), HomesOf(R) = C, OneRowPerHome(R)
    PROVE  IsFiniteSet(R) /\ Cardinality(R) = Cardinality(C)
<1> DEFINE RowAt == [h \in C |-> CHOOSE row \in R : row.home = h]
<1>1. \A h \in C : RowAt[h] \in R /\ RowAt[h].home = h
  BY DEF HomesOf
<1>2. RowAt \in [C -> R]
  BY <1>1
<1>3. \A g, h \in C : RowAt[g] = RowAt[h] => g = h
  BY <1>1
<1>4. \A row \in R : row.home \in C /\ RowAt[row.home] = row
  BY <1>1 DEF OneRowPerHome, HomesOf
<1> HIDE DEF RowAt
<1>5. RowAt \in Bijection(C, R)
  BY <1>2, <1>3, <1>4 DEF Bijection, Injection, Surjection, IsInjective
<1>6. ExistsBijection(C, R)
  BY <1>5 DEF ExistsBijection
<1> QED
  BY <1>6, FS_Bijection


\* Nothing that matters to the rows of f changes, except perhaps the age of its heartbeat.
Undisturbed(f) ==
    /\ members'[f].state = "canceling" => members[f].state = "canceling"
    /\ \A field \in {"connectedAt", "cancelRevision", "expected", "home"} : members'[f][field] = members[f][field]
    /\ {p \in participations' : p.fingerprint = f} = {p \in participations : p.fingerprint = f}
    /\ {q \in quiescence' : q.fingerprint = f} = {q \in quiescence : q.fingerprint = f}

LEMMA RowsFrame ==
    ASSUME NEW f \in Fingerprints, RowsComplete(f), Undisturbed(f)
    PROVE  RowsComplete(f)'
<1>1. /\ members'[f].connectedAt = members[f].connectedAt
      /\ members'[f].cancelRevision = members[f].cancelRevision
      /\ members'[f].expected = members[f].expected
      /\ members'[f].home = members[f].home
  BY DEF Undisturbed
<1>2. \A c, h : Serving(f, c, h) \in participations' <=> Serving(f, c, h) \in participations
  <2> SUFFICES ASSUME NEW c, NEW h
               PROVE  Serving(f, c, h) \in participations' <=> Serving(f, c, h) \in participations
    OBVIOUS
  <2>1. Serving(f, c, h).fingerprint = f
    BY DEF Serving
  <2> QED
    BY <2>1 DEF Undisturbed
<1>3. Candidates(f)' = Candidates(f)
  BY <1>1, <1>2 DEF Candidates, ParticipantsOf
<1>4. Current(f)' = Current(f)
  BY <1>1 DEF Undisturbed, Current, RowsOf
<1> QED
  BY <1>1, <1>3, <1>4 DEF RowsComplete, Undisturbed

\* The rows of f are rewritten, in their status only: what is complete stays so, and the rows
\* of others are left alone.
LEMMA RowsRewritten ==
    ASSUME TypeInv, NEW f \in Fingerprints, RowsComplete(f), NEW G,
           quiescence' = (quiescence \ Current(f)) \union {G[row] : row \in Current(f)},
           \A row \in Current(f) : /\ G[row].fingerprint = row.fingerprint /\ G[row].home = row.home
                                   /\ G[row].connectedAt = row.connectedAt /\ G[row].revision = row.revision
    PROVE  /\ \A g \in Fingerprints : g # f =>
                {q \in quiescence' : q.fingerprint = g} = {q \in quiescence : q.fingerprint = g}
           /\ members[f].state = "canceling" /\ UNCHANGED <<members, participations>> => RowsComplete(f)'
<1> DEFINE R == Current(f)
<1>1. \A row \in R : /\ row \in quiescence /\ row.fingerprint = f
                     /\ row.connectedAt = members[f].connectedAt /\ row.revision = members[f].cancelRevision
  BY DEF Current, RowsOf
<1>2. \A row \in R : /\ G[row].home = row.home /\ G[row].fingerprint = f
                     /\ G[row].connectedAt = members[f].connectedAt
                     /\ G[row].revision = members[f].cancelRevision
  BY <1>1
<1>3. ASSUME NEW g \in Fingerprints, g # f
      PROVE  {q \in quiescence' : q.fingerprint = g} = {q \in quiescence : q.fingerprint = g}
  <2> HIDE DEF R
  <2> QED
    BY <1>1, <1>2, <1>3 DEF R
<1>4. ASSUME members[f].state = "canceling", UNCHANGED <<members, participations>> PROVE RowsComplete(f)'
  <2>1. Current(f)' = {G[row] : row \in R}
    <3>1. \A q \in quiescence' : q \in Current(f)' <=>
            q.fingerprint = f /\ q.connectedAt = members[f].connectedAt /\ q.revision = members[f].cancelRevision
      BY <1>4 DEF Current, RowsOf
    <3>2. \A q \in quiescence : q \in R <=>
            q.fingerprint = f /\ q.connectedAt = members[f].connectedAt /\ q.revision = members[f].cancelRevision
      BY DEF Current, RowsOf
    <3>3. Current(f)' \subseteq quiescence'
      BY DEF Current, RowsOf
    <3>4. quiescence' = (quiescence \ R) \union {G[row] : row \in R}
      OBVIOUS
    <3> HIDE DEF R
    <3> QED
      BY <1>2, <3>1, <3>2, <3>3, <3>4
  <2>2. OneRowPerHome(R) /\ \A row \in R : G[row].home = row.home
    BY <1>2, <1>4 DEF RowsComplete
  <2> HIDE DEF R
  <2>3. HomesOf({G[row] : row \in R}) = HomesOf(R) /\ OneRowPerHome({G[row] : row \in R})
    BY <2>2 DEF HomesOf, OneRowPerHome
  <2>4. HomesOf(Current(f)') = HomesOf(Current(f)) /\ OneRowPerHome(Current(f)')
    BY <2>1, <2>3 DEF R
  <2> QED
    BY <1>4, <2>4 DEF RowsComplete, Candidates, ParticipantsOf
<1> QED
  BY <1>3, <1>4

LEMMA SubscribeRows ==
    ASSUME TypeInv, AllRowsComplete, SubscribeStep
    PROVE  AllRowsComplete'
<1>1. PICK f \in Fingerprints, h \in Incarnations :
        \E protocol, revision, takeover : Subscribe(f, h, protocol, revision, takeover)
  BY DEF SubscribeStep
<1>2. members'[f].state = "active"
  BY <1>1 DEF Subscribe, SubscribeMembership, TypeInv, TypeOK
<1>3. ASSUME NEW g \in Fingerprints, g # f PROVE Undisturbed(g)
  BY <1>1, <1>3 DEF Subscribe, SubscribeMembership, TypeInv, TypeOK, Undisturbed
<1>4. RowsComplete(f)'
  BY <1>2 DEF RowsComplete
<1> QED
  BY <1>3, <1>4, RowsFrame DEF AllRowsComplete

LEMMA AcknowledgeRows ==
    ASSUME TypeInv, AllRowsComplete, NEW f \in Fingerprints, NEW h \in Incarnations, NEW at, NEW r,
           AcknowledgeQuiescence(f, at, r, h)
    PROVE  AllRowsComplete'
<1> DEFINE R == Current(f)
           G == [row \in R |-> IF row.home = h THEN [row EXCEPT !.status = "acknowledged"] ELSE row]
           mine == {row \in R : row.home = h}
<1>0. /\ UNCHANGED <<members, participations>> /\ members[f].state = "canceling"
      /\ quiescence' = (quiescence \ mine) \union {[row EXCEPT !.status = "acknowledged"] : row \in mine}
  BY DEF AcknowledgeQuiescence, Current
<1>1. \A row \in R : /\ row \in QuiescenceRows /\ row \in quiescence /\ row.fingerprint = f
                     /\ row.connectedAt = members[f].connectedAt /\ row.revision = members[f].cancelRevision
  BY DEF TypeInv, TypeOK, Current, RowsOf
<1>2. \A row \in R : /\ G[row].home = row.home /\ G[row].fingerprint = f
                     /\ G[row].connectedAt = members[f].connectedAt
                     /\ G[row].revision = members[f].cancelRevision
  BY <1>1 DEF QuiescenceRows
<1>3. quiescence' = (quiescence \ R) \union {G[row] : row \in R}
  <2>1. \A row \in R : row.home # h => G[row] = row
    OBVIOUS
  <2>2. \A row \in mine : G[row] = [row EXCEPT !.status = "acknowledged"]
    OBVIOUS
  <2>3. R \subseteq quiescence
    BY <1>1
  <2> HIDE DEF G
  <2>4. {G[row] : row \in R} = (R \ mine) \union {[row EXCEPT !.status = "acknowledged"] : row \in mine}
    <3>1. {G[row] : row \in mine} = {[row EXCEPT !.status = "acknowledged"] : row \in mine}
      BY <2>2
    <3>2. \A row \in R \ mine : G[row] = row
      BY <2>1
    <3>3. mine \subseteq R
      OBVIOUS
    <3> HIDE DEF mine, R
    <3>4. {G[row] : row \in R} = (R \ mine) \union {G[row] : row \in mine}
      BY <3>2, <3>3
    <3> QED
      BY <3>1, <3>4
  <2> HIDE DEF R
  <2>5. mine \subseteq R
    OBVIOUS
  <2> HIDE DEF mine
  <2> QED
    BY <1>0, <2>3, <2>4, <2>5
<1>4. /\ \A g \in Fingerprints : g # f =>
            {q \in quiescence' : q.fingerprint = g} = {q \in quiescence : q.fingerprint = g}
      /\ RowsComplete(f)'
  <2>1. RowsComplete(f)
    BY DEF AllRowsComplete
  <2>2. \A row \in R : /\ G[row].fingerprint = row.fingerprint /\ G[row].home = row.home
                       /\ G[row].connectedAt = row.connectedAt /\ G[row].revision = row.revision
    BY <1>1, <1>2
  <2> HIDE DEF G
  <2> QED
    BY <1>0, <1>3, <2>1, <2>2, RowsRewritten
<1>5. ASSUME NEW g \in Fingerprints, g # f PROVE Undisturbed(g)
  BY <1>0, <1>4, <1>5 DEF Undisturbed
<1> QED
  BY <1>4, <1>5, RowsFrame DEF AllRowsComplete

LEMMA MemberRows ==
    ASSUME TypeInv, AllRowsComplete, MemberStep
    PROVE  AllRowsComplete'
<1>0. members \in [Fingerprints -> MemberRecords]
  BY DEF TypeInv, TypeOK
<1>1. CASE \E f \in Fingerprints, h \in Incarnations, at \in 1 .. MaxLifetime, r \in 1 .. MaxLifetime :
             AcknowledgeQuiescence(f, at, r, h)
  BY <1>1, AcknowledgeRows
<1>2. CASE \E f \in Fingerprints, h \in Incarnations, at \in 1 .. MaxLifetime : JoinLifetime(f, at, h)
  <2>1. PICK f \in Fingerprints, h \in Incarnations, at \in 1 .. MaxLifetime : JoinLifetime(f, at, h)
    BY <1>2
  <2>2. ASSUME NEW g \in Fingerprints, g # f \/ ~ Joinable(f, at, h) PROVE Undisturbed(g)
    BY <2>1, <2>2 DEF JoinLifetime, RecordParticipation, Undisturbed, Serving
  <2>3. Joinable(f, at, h) => RowsComplete(f)'
    BY <2>1 DEF JoinLifetime, Joinable, RowsComplete
  <2> QED
    BY <2>2, <2>3, RowsFrame DEF AllRowsComplete
<1>3. CASE ~ \E f \in Fingerprints, h \in Incarnations :
               \/ \E at \in 1 .. MaxLifetime, r \in 1 .. MaxLifetime : AcknowledgeQuiescence(f, at, r, h)
               \/ \E at \in 1 .. MaxLifetime : JoinLifetime(f, at, h)
  <2>1. UNCHANGED <<participations, quiescence>>
    BY <1>3 DEF MemberStep, ClassifyConnection, RefreshCPALiveness, MemberAges, UpdateLifecycleConfig
  <2>2. ASSUME NEW g \in Fingerprints PROVE Undisturbed(g)
    BY <1>0, <2>1, MemberStepMembers DEF Undisturbed, MemberRecords
  <2> QED
    BY <2>2, RowsFrame DEF AllRowsComplete
<1> QED
  BY <1>1, <1>2, <1>3

LEMMA CancelRows ==
    ASSUME TypeInv, RowsBehind, AllRowsComplete, CancelStep
    PROVE  AllRowsComplete'
<1>1. PICK f \in Fingerprints : BeginCancellation(f)
  BY DEF CancelStep, CleanupStaleMembership, BeginFingerprintCancellationForLifetime
<1> DEFINE at == members[f].connectedAt
           r == members[f].cancelRevision + 1
           C == Candidates(f)
           New == {[fingerprint |-> f, connectedAt |-> at, revision |-> r, home |-> h,
                    status |-> IF HomeReclaimable(homes'[h]) THEN "fenced" ELSE "pending"] : h \in C}
<1>2. /\ members' = [members EXCEPT ![f].state = "canceling", ![f].cancelRevision = r,
                                    ![f].expected = Cardinality(C)]
      /\ quiescence' = quiescence \union New
      /\ UNCHANGED participations
  BY <1>1 DEF BeginCancellation, Candidates
<1>3. /\ members \in [Fingerprints -> MemberRecords] /\ members[f] \in MemberRecords
      /\ members[f].cancelRevision \in Nat
  BY DEF TypeInv, TypeOK, MemberRecords
<1>4. /\ members'[f].connectedAt = at /\ members'[f].cancelRevision = r /\ members'[f].home = members[f].home
      /\ members'[f].expected = Cardinality(C)
      /\ \A g \in Fingerprints : g # f => members'[g] = members[g]
  <2> HIDE DEF C, r
  <2> QED
    BY <1>2, <1>3 DEF at, MemberRecords
<1>5. Candidates(f)' = C
  BY <1>2, <1>4 DEF Candidates, ParticipantsOf
<1>6. Current(f)' = New
  <2>1. ASSUME NEW q \in quiescence, q.fingerprint = f, q.connectedAt = at, q.revision = r PROVE FALSE
    <3>1. q.revision <= members[f].cancelRevision \/ q.connectedAt < at
      BY <2>1 DEF RowsBehind
    <3>2. at \in Nat
      BY <1>3 DEF MemberRecords
    <3> QED
      BY <1>3, <2>1, <3>1, <3>2
  <2>2. \A q \in New : q.fingerprint = f /\ q.connectedAt = at /\ q.revision = r
    OBVIOUS
  <2>3. Current(f)' = {q \in quiescence' : q.fingerprint = f /\ q.connectedAt = at /\ q.revision = r}
    BY <1>4 DEF Current, RowsOf
  <2> HIDE DEF New
  <2> QED
    BY <1>2, <2>1, <2>2, <2>3
<1>7. HomesOf(New) = C /\ OneRowPerHome(New)
  <2> DEFINE Row(h) == [fingerprint |-> f, connectedAt |-> at, revision |-> r, home |-> h,
                        status |-> IF HomeReclaimable(homes'[h]) THEN "fenced" ELSE "pending"]
  <2>1. New = {Row(h) : h \in C} /\ \A h \in C : Row(h).home = h
    OBVIOUS
  <2> HIDE DEF New, C, Row
  <2>2. \A q \in New : q.home \in C /\ q = Row(q.home)
    BY <2>1
  <2>3. \A h \in C : Row(h) \in New
    BY <2>1
  <2> QED
    BY <2>1, <2>2, <2>3 DEF HomesOf, OneRowPerHome
<1>8. RowsComplete(f)'
  <2> HIDE DEF C, r, at, New
  <2> QED
    BY <1>4, <1>5, <1>6, <1>7 DEF RowsComplete
<1>9. ASSUME NEW g \in Fingerprints, g # f PROVE Undisturbed(g)
  <2>1. \A q \in New : q.fingerprint = f
    OBVIOUS
  <2> HIDE DEF New, C, r
  <2> QED
    BY <1>2, <1>4, <1>9, <2>1 DEF Undisturbed
<1> QED
  BY <1>8, <1>9, RowsFrame DEF AllRowsComplete

LEMMA CompleteRows ==
    ASSUME TypeInv, AllRowsComplete, CompleteStep
    PROVE  AllRowsComplete'
<1>0. members \in [Fingerprints -> MemberRecords]
  BY DEF TypeInv, TypeOK
<1>1. PICK f \in Fingerprints :
        (\E at, r : CompleteFingerprintCancellation(f, at, r)) \/ RecoverStaleQuiescence(f)
  BY DEF CompleteStep
<1>2. ASSUME CloseMembership(f),
             \A g \in Fingerprints : g # f =>
                {q \in quiescence' : q.fingerprint = g} = {q \in quiescence : q.fingerprint = g}
      PROVE  AllRowsComplete'
  <2>1. RowsComplete(f)'
    BY <1>0, <1>2 DEF CloseMembership, RowsComplete
  <2>2. ASSUME NEW g \in Fingerprints, g # f PROVE Undisturbed(g)
    BY <1>0, <1>2, <2>2 DEF CloseMembership, Undisturbed
  <2> QED
    BY <2>1, <2>2, RowsFrame DEF AllRowsComplete
<1>3. CASE \E at, r : CompleteFingerprintCancellation(f, at, r)
  BY <1>2, <1>3 DEF CompleteFingerprintCancellation, CompleteCancellation
<1>4. CASE RecoverStaleQuiescence(f)
  <2> DEFINE H == RecoveredHomes(f)
             G == [row \in Current(f) |->
                    IF row.status = "pending" /\ HomeReclaimable(H[row.home])
                    THEN [row EXCEPT !.status = "fenced"] ELSE row]
  <2>1. members[f].state = "canceling"
        /\ quiescence' = (quiescence \ Current(f)) \union {G[row] : row \in Current(f)}
    BY <1>4 DEF RecoverStaleQuiescence, RecoverQuiescenceRows, RecoveredRows, Current
  <2>2. \A row \in Current(f) : row \in QuiescenceRows
    BY DEF TypeInv, TypeOK, Current, RowsOf
  <2>3. \A row \in Current(f) : /\ G[row].fingerprint = row.fingerprint /\ G[row].home = row.home
                                /\ G[row].connectedAt = row.connectedAt /\ G[row].revision = row.revision
    <3> HIDE DEF H
    <3> QED
      BY <2>2 DEF QuiescenceRows
  <2>4. /\ \A g \in Fingerprints : g # f =>
                {q \in quiescence' : q.fingerprint = g} = {q \in quiescence : q.fingerprint = g}
        /\ UNCHANGED <<members, participations>> => RowsComplete(f)'
    <3>1. RowsComplete(f)
      BY DEF AllRowsComplete
    <3> HIDE DEF G
    <3> QED
      BY <2>1, <2>3, <3>1, RowsRewritten
  <2>5. CloseMembership(f) \/ UNCHANGED <<members, participations>>
    BY <1>4 DEF RecoverStaleQuiescence
  <2>6. CASE UNCHANGED <<members, participations>>
    <3>1. ASSUME NEW g \in Fingerprints, g # f PROVE Undisturbed(g)
      BY <2>4, <2>6, <3>1 DEF Undisturbed
    <3> QED
      BY <2>4, <2>6, <3>1, RowsFrame DEF AllRowsComplete
  <2> QED
    BY <1>2, <2>4, <2>5, <2>6
<1> QED
  BY <1>1, <1>3, <1>4

LEMMA RowsStep == TypeInv /\ RowsBehind /\ AllRowsComplete /\ [Next]_vars => AllRowsComplete'
<1> SUFFICES ASSUME TypeInv, RowsBehind, AllRowsComplete, [Next]_vars PROVE AllRowsComplete'
  OBVIOUS
<1>1. CASE HomeStep \/ PolicyStep \/ SlotStep \/ UNCHANGED vars
  <2>1. ASSUME NEW g \in Fingerprints PROVE Undisturbed(g)
    BY <1>1, OutsideMembership DEF Undisturbed
  <2> QED
    BY <2>1, RowsFrame DEF AllRowsComplete
<1> QED
  BY <1>1, SubscribeRows, MemberRows, CancelRows, CompleteRows DEF Next

QuiescenceInv == RowsBehind /\ FencedAreGone /\ AllRowsComplete

LEMMA SpecQuiescenceInv == Spec => [](TypeInv /\ QuiescenceInv)
<1>1. Init => QuiescenceInv
  BY DEF Init, MemberInit, QuiescenceInv, RowsBehind, FencedAreGone, AllRowsComplete, RowsComplete, NoMember
<1>2. TypeInv /\ QuiescenceInv /\ [Next]_vars => QuiescenceInv'
  BY RowsBehindStep, FencedStep, RowsStep DEF QuiescenceInv
<1> QED
  BY <1>1, <1>2, SpecTypeInv, PTL DEF Spec

LEMMA CompleteRowsCount ==
    ASSUME TypeInv, AllRowsComplete, NEW f \in Fingerprints, members[f].state = "canceling"
    PROVE  /\ members[f].expected > 0
           /\ HomesOf(Current(f)) = Candidates(f)
           /\ Cardinality(Current(f)) = members[f].expected
<1>1. members[f].home \in Incarnations
  BY DEF TypeInv, OwnerKnown
<1>2. IsFiniteSet(Candidates(f)) /\ Cardinality(Candidates(f)) \in Nat
  BY <1>1, ParticipantsFinite DEF Candidates
<1>3. Candidates(f) # {}
  BY DEF Candidates
<1>4. Cardinality(Candidates(f)) # 0
  BY <1>2, <1>3, FS_EmptySet
<1>5. /\ members[f].expected = Cardinality(Candidates(f))
      /\ HomesOf(Current(f)) = Candidates(f)
      /\ OneRowPerHome(Current(f))
  BY DEF AllRowsComplete, RowsComplete
<1>6. Cardinality(Current(f)) = Cardinality(Candidates(f))
  BY <1>2, <1>5, RowsCount
<1> QED
  BY <1>2, <1>4, <1>5, <1>6

\* A cancellation waits for exactly the homes that may act for its lifetime: it never waits on
\* a row that is missing, and misses nobody who takes part.
THEOREM CancellationsWaitForAll == Spec => []QuiescenceSetComplete
<1>1. TypeInv /\ QuiescenceInv => QuiescenceSetComplete
  BY CompleteRowsCount DEF QuiescenceInv, QuiescenceSetComplete, HomesOf, Current, Candidates
<1> QED
  BY <1>1, SpecQuiescenceInv, PTL

\* A membership closes only when everyone who could act for its lifetime has acknowledged it or
\* is past the reclaim grace for good: no slot is given back while its work may still run.
THEOREM SlotsAreReclaimedWhenQuiet == Spec => ReclaimOnlyWhenQuiet
<1> DEFINE Quiet ==
      \A f \in Fingerprints :
        Open(f) /\ members'[f].state = "closed" =>
            \A h \in {members[f].home} \union ParticipantsOf(f, members[f].connectedAt) :
                \/ \E row \in quiescence :
                        /\ row.fingerprint = f /\ row.home = h /\ row.status = "acknowledged"
                        /\ row.connectedAt = members[f].connectedAt
                \/ homes'[h].state \notin {"none", "active"} /\ homes'[h].age = Dead
<1>1. TypeInv /\ QuiescenceInv /\ [Next]_vars => [Quiet]_vars
  <2> SUFFICES ASSUME TypeInv, QuiescenceInv, [Next]_vars, NEW f \in Fingerprints, Open(f),
                      members'[f].state = "closed", NEW h \in Candidates(f)
               PROVE  \/ \E row \in quiescence :
                            /\ row.fingerprint = f /\ row.home = h /\ row.status = "acknowledged"
                            /\ row.connectedAt = members[f].connectedAt
                      \/ homes'[h].state \notin {"none", "active"} /\ homes'[h].age = Dead
    BY DEF Candidates
  <2>1. members[f].state = "canceling"
    <3>1. MemberChange(f) /\ members[f] \in MemberRecords
      BY MembersChange DEF TypeInv, TypeOK
    <3> QED
      BY <3>1 DEF MemberChange, MemberRecords, Open
  <2>2. members' # members
    BY <2>1
  <2>3. CompleteStep
    <3>1. ~ SubscribeStep
      BY DEF SubscribeStep, Subscribe, SubscribeMembership, TypeInv, TypeOK, Open
    <3>2. ASSUME MemberStep PROVE FALSE
      <4>1. PICK g \in Fingerprints, age \in {Fresh, Stale} : members' = [members EXCEPT ![g].age = age]
        BY <2>2, <3>2, MemberStepMembers
      <4>2. members \in [Fingerprints -> MemberRecords]
        BY DEF TypeInv, TypeOK
      <4>3. members'[f].state = members[f].state
        BY <4>1, <4>2 DEF MemberRecords
      <4> QED
        BY <2>1, <4>3
    <3>3. ~ CancelStep
      <4> SUFFICES ASSUME NEW g \in Fingerprints, BeginCancellation(g) PROVE FALSE
        BY DEF CancelStep, CleanupStaleMembership, BeginFingerprintCancellationForLifetime
      <4> QED
        BY <2>1 DEF BeginCancellation, TypeInv, TypeOK, MemberRecords
    <3> QED
      BY <2>2, <3>1, <3>2, <3>3, OutsideMembership DEF Next
  <2>4. PICK g \in Fingerprints :
          \/ \E at, r : CompleteFingerprintCancellation(g, at, r)
          \/ RecoverStaleQuiescence(g)
    BY <2>3 DEF CompleteStep
  <2>5. g = f
    BY <2>1, <2>4 DEF CompleteFingerprintCancellation, CompleteCancellation, RecoverStaleQuiescence,
      CloseMembership, TypeInv, TypeOK, MemberRecords
  <2>6. PICK row \in Current(f) : row.home = h
    BY <2>1, CompleteRowsCount DEF QuiescenceInv, HomesOf
  <2>7. /\ row \in quiescence /\ row.fingerprint = f /\ row.connectedAt = members[f].connectedAt
        /\ row \in QuiescenceRows /\ h \in Incarnations
    BY <2>6 DEF Current, RowsOf, TypeInv, TypeOK, QuiescenceRows
  <2>8. ASSUME row.status = "fenced"
        PROVE  homes'[h].state \notin {"none", "active"} /\ homes'[h].age = Dead
    <3>1. HomeReclaimable(homes[h])
      BY <2>6, <2>7, <2>8 DEF QuiescenceInv, FencedAreGone
    <3> QED
      BY <2>7, <3>1, HomesLeave DEF HomesOnlyLeave, HomeReclaimable
  <2>9. CASE \E at, r : CompleteFingerprintCancellation(f, at, r)
    <3>1. row.status \in {"acknowledged", "fenced"}
      BY <2>6, <2>9 DEF CompleteFingerprintCancellation, CompleteCancellation, Quiescent, Current
    <3> QED
      BY <2>6, <2>7, <2>8, <3>1
  <2>10. CASE RecoverStaleQuiescence(f)
    <3>1. Quiescent(f, RecoveredRows(f)) /\ homes' = RecoveredHomes(f)
      BY <2>2, <2>10 DEF RecoverStaleQuiescence, RecoverQuiescenceRows
    <3>2. (IF row.status = "pending" /\ HomeReclaimable(RecoveredHomes(f)[row.home])
           THEN [row EXCEPT !.status = "fenced"] ELSE row) \in RecoveredRows(f)
      BY <2>6 DEF RecoveredRows, Current
    <3>3. row.status = "pending" => HomeReclaimable(homes'[h])
      <4>1. CASE row.status = "pending" /\ ~ HomeReclaimable(RecoveredHomes(f)[row.home])
        BY <3>1, <3>2, <4>1 DEF Quiescent
      <4> QED
        BY <2>6, <3>1, <4>1
    <3>4. row.status \in {"pending", "acknowledged", "fenced"}
      BY <2>7 DEF QuiescenceRows
    <3> QED
      BY <2>6, <2>7, <2>8, <3>3, <3>4 DEF HomeReclaimable
  <2> QED
    BY <2>4, <2>5, <2>9, <2>10
<1> QED
  BY <1>1, SpecQuiescenceInv, PTL DEF Spec, ReclaimOnlyWhenQuiet
===============================================================================
