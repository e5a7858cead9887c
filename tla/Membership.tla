------------------------------ MODULE Membership ------------------------------
(***************************************************************************)
(* CPA memberships and their cancellation (internal/cluster/membership.go, *)
(* quiescence.go, lifecycle_config.go).                                    *)
(*                                                                         *)
(* A CPA node is identified by the fingerprint of its mTLS certificate and *)
(* holds at most one membership, owned by one Home incarnation.            *)
(* connected_at identifies a lifetime of the membership: the code makes it *)
(* strictly increasing per fingerprint, and nothing else about it matters, *)
(* so it is a counter.  The certificate fixes the node ID, so the node ID  *)
(* comparison of a takeover always succeeds and is left out.               *)
(*                                                                         *)
(* Each action is one database transaction.  The code makes them atomic    *)
(* with row locks: commands pin the membership and home rows FOR KEY       *)
(* SHARE, every state transition takes them FOR UPDATE.                    *)
(***************************************************************************)
EXTENDS HomeIncarnation

CONSTANTS
    Fingerprints,          \* certificate fingerprints of the CPA nodes
    Protocols,             \* membership protocol versions the CPA nodes speak
    NoHome,                \* the owner of a membership that never existed
    MaxLifetime,           \* bound: lifetimes of one fingerprint
    MaxLifecycleRevision   \* bound: revisions of the lifecycle configuration

ASSUME FingerprintsAssumption == IsFiniteSet(Fingerprints)
ASSUME ProtocolsAssumption == Protocols \subseteq {0, 1}
ASSUME NoHomeAssumption == NoHome \notin Incarnations
ASSUME MaxLifetimeAssumption == MaxLifetime \in Nat
ASSUME MaxLifecycleRevisionAssumption == MaxLifecycleRevision \in Nat \ {0}

VARIABLES
    members,            \* cpa_node_memberships, by fingerprint
    classifying,        \* lifetimes a Home has read and not yet joined
    participations,     \* cpa_node_participations: homes serving a lifetime
    quiescence,         \* cpa_node_quiescence: one row per home and cancellation
    lifecycleRevision   \* lifecycle_config.revision

memberVars == <<members, classifying, participations, quiescence, lifecycleRevision>>

MemberStates == {"none", "active", "canceling", "closed"}

MemberRecords ==
    [state : MemberStates, home : Incarnations \union {NoHome}, protocol : {0, 1},
     connectedAt : Nat, lifecycleRevision : Nat, cancelRevision : Nat,
     expected : Nat, age : {Fresh, Stale}]

Participations == [fingerprint : Fingerprints, connectedAt : Nat, home : Incarnations]

QuiescenceRows ==
    [fingerprint : Fingerprints, connectedAt : Nat, revision : Nat,
     home : Incarnations, status : {"pending", "acknowledged", "fenced"}]

NoMember ==
    [state |-> "none", home |-> NoHome, protocol |-> 0, connectedAt |-> 0,
     lifecycleRevision |-> 0, cancelRevision |-> 0, expected |-> 0, age |-> Fresh]

MemberInit ==
    /\ members = [f \in Fingerprints |-> NoMember]
    /\ classifying = {}
    /\ participations = {}
    /\ quiescence = {}
    /\ lifecycleRevision = 1

\* A membership that still stands for a CPA: not closed, not absent.
Open(f) == members[f].state \in {"active", "canceling"}

\* membershipOwnedByHome, of an active membership in exactly this lifetime.
ActiveLifetime(f, c, h) ==
    /\ members[f].state = "active"
    /\ members[f].connectedAt = c
    /\ members[f].home = h

\* The lifetime c of fingerprint f, served by home h.
Serving(f, c, h) == [fingerprint |-> f, connectedAt |-> c, home |-> h]

ParticipantsOf(f, c) ==
    {h \in Incarnations : Serving(f, c, h) \in participations}

RowsOf(f, c, r) ==
    {row \in quiescence : row.fingerprint = f /\ row.connectedAt = c /\ row.revision = r}

-------------------------------------------------------------------------------
\* Faulty variant: a protocol 0 subscription does not consult the activation gate.
SubscribeIgnoresGate(f, h, protocol, revision, takeover) ==
    LET previous == members[f] IN
    /\ h \in up
    /\ previous.connectedAt < MaxLifetime
    /\ protocol = 1 => revision = lifecycleRevision
    /\ takeover <=> Open(f)
    /\ Open(f) => previous.lifecycleRevision = revision
    /\ HomeActive(h)
    /\ members' = [members EXCEPT ![f] =
            [NoMember EXCEPT !.state = "active", !.home = h, !.protocol = protocol,
                !.connectedAt = previous.connectedAt + 1, !.lifecycleRevision = lifecycleRevision]]
    /\ UNCHANGED <<classifying, participations, quiescence, lifecycleRevision>>

(***************************************************************************)
(* SubscribeMembership.  takeover is accepted exactly when a membership is *)
(* open, a plain subscription exactly when none is.  A takeover discards   *)
(* the rows of the old lifetime, whether it was active or canceling.       *)
(***************************************************************************)
SubscribeMembership(f, h, protocol, revision, takeover) ==
    LET previous == members[f] IN
    /\ h \in up
    /\ previous.connectedAt < MaxLifetime
    /\ protocol = 0 => activePolicyCount = 0
    /\ protocol = 1 => revision = lifecycleRevision
    /\ takeover <=> Open(f)
    /\ Open(f) => previous.lifecycleRevision = revision
    /\ HomeActive(h)
    /\ participations' = {p \in participations :
            ~ (Open(f) /\ p.fingerprint = f /\ p.connectedAt = previous.connectedAt)}
    /\ quiescence' = {q \in quiescence :
            ~ (Open(f) /\ q.fingerprint = f /\ q.connectedAt = previous.connectedAt)}
    /\ members' = [members EXCEPT ![f] =
            [state |-> "active", home |-> h, protocol |-> protocol,
             connectedAt |-> previous.connectedAt + 1,
             lifecycleRevision |-> lifecycleRevision, cancelRevision |-> 0,
             expected |-> 0, age |-> Fresh]]
    /\ UNCHANGED <<classifying, lifecycleRevision>>

(***************************************************************************)
(* ClassifyConnection: a data connection reaching the owner of an active   *)
(* membership reads its lifetime.  A connection classified otherwise       *)
(* changes nothing.                                                        *)
(***************************************************************************)
ClassifyConnection(f, h) ==
    /\ h \in up
    /\ ActiveLifetime(f, members[f].connectedAt, h)
    /\ classifying' = classifying \union {Serving(f, members[f].connectedAt, h)}
    /\ UNCHANGED <<members, participations, quiescence, lifecycleRevision>>

\* Faulty variant: the lifetime that was read is not compared with the current one.
RecordIgnoresLifetime(f, c, h) ==
    participations' = IF members[f].state = "active" /\ HomeActive(h)
                      THEN participations \union {Serving(f, members[f].connectedAt, h)}
                      ELSE participations

\* The checks of RecordParticipation: the lifetime and the home, not the owner.
Joinable(f, c, h) == members[f].state = "active" /\ members[f].connectedAt = c /\ HomeActive(h)

(***************************************************************************)
(* RecordParticipation, in a transaction of its own: the membership may    *)
(* have moved on since it was read, and then nothing is recorded.           *)
(***************************************************************************)
RecordParticipation(f, c, h) ==
    participations' = IF Joinable(f, c, h)
                      THEN participations \union {Serving(f, c, h)}
                      ELSE participations

\* The connection that was classified joins its lifetime.
JoinLifetime(f, c, h) ==
    /\ Serving(f, c, h) \in classifying
    /\ classifying' = classifying \ {Serving(f, c, h)}
    /\ RecordParticipation(f, c, h)
    /\ UNCHANGED <<members, quiescence, lifecycleRevision>>

\* Faulty variant: a late heartbeat rewrites the state with the timestamp.
RefreshRevives(f, c, h) ==
    /\ h \in up
    /\ members[f].connectedAt = c /\ members[f].home = h
    /\ HomeActive(h)
    /\ members' = [members EXCEPT ![f].age = Fresh, ![f].state = "active"]
    /\ UNCHANGED <<classifying, participations, quiescence, lifecycleRevision>>

\* RefreshCPALiveness: persisted before every pong of a subscription.
RefreshCPALiveness(f, c, h) ==
    /\ h \in up
    /\ ActiveLifetime(f, c, h)
    /\ HomeActive(h)
    /\ members' = [members EXCEPT ![f].age = Fresh]
    /\ UNCHANGED <<classifying, participations, quiescence, lifecycleRevision>>

\* Database time passes the membership's cpa-heartbeat-timeout.
MemberAges(f) ==
    /\ members[f].state = "active"
    /\ members[f].age = Fresh
    /\ members' = [members EXCEPT ![f].age = Stale]
    /\ UNCHANGED <<classifying, participations, quiescence, lifecycleRevision>>

\* Faulty variant: memberships that are being canceled are not waited for.
UpdateDuringCancellation ==
    /\ lifecycleRevision < MaxLifecycleRevision
    /\ \A f \in Fingerprints : members[f].state # "active"
    /\ lifecycleRevision' = lifecycleRevision + 1
    /\ UNCHANGED <<members, classifying, participations, quiescence>>

(***************************************************************************)
(* UpdateLifecycleConfig with a change of a safety duration: refused while *)
(* any membership is open.                                                 *)
(***************************************************************************)
UpdateLifecycleConfig ==
    /\ lifecycleRevision < MaxLifecycleRevision
    /\ \A f \in Fingerprints : ~ Open(f)
    /\ lifecycleRevision' = lifecycleRevision + 1
    /\ UNCHANGED <<members, classifying, participations, quiescence>>

-------------------------------------------------------------------------------
\* Faulty variant: homes fenced on the spot are not counted as expected.
BeginExpectsPendingOnly(f) ==
    LET m == members[f]
        candidates == {m.home} \union ParticipantsOf(f, m.connectedAt)
        resolved == ResolveHomes(homes, candidates)
        pending == {h \in candidates : ~ HomeReclaimable(resolved[h])}
    IN
    /\ m.state = "active"
    /\ members' = [members EXCEPT ![f].state = "canceling", ![f].cancelRevision = @ + 1,
                                  ![f].expected = Cardinality(pending)]
    /\ homes' = resolved
    /\ quiescence' = quiescence \union
            {[fingerprint |-> f, connectedAt |-> m.connectedAt, revision |-> m.cancelRevision + 1,
              home |-> h, status |-> IF h \in pending THEN "pending" ELSE "fenced"] : h \in candidates}
    /\ UNCHANGED <<up, classifying, participations, lifecycleRevision>>

(***************************************************************************)
(* beginFingerprintCancellationForMembershipTx: the membership is          *)
(* canceling from here on, and every home that may hold work of the        *)
(* lifetime owes an acknowledgement.  A home that is already past the      *)
(* grace is fenced on the spot.                                            *)
(***************************************************************************)
BeginCancellation(f) ==
    LET m == members[f]
        candidates == {m.home} \union ParticipantsOf(f, m.connectedAt)
        resolved == ResolveHomes(homes, candidates)
        revision == m.cancelRevision + 1
    IN
    /\ m.state = "active"
    /\ members' = [members EXCEPT ![f].state = "canceling",
                                  ![f].cancelRevision = revision,
                                  ![f].expected = Cardinality(candidates)]
    /\ homes' = resolved
    /\ quiescence' = quiescence \union
            {[fingerprint |-> f, connectedAt |-> m.connectedAt, revision |-> revision, home |-> h,
              status |-> IF HomeReclaimable(resolved[h]) THEN "fenced" ELSE "pending"] :
                h \in candidates}
    /\ UNCHANGED <<up, classifying, participations, lifecycleRevision>>

\* BeginFingerprintCancellationForLifetime: a Home could not deliver a grant.
BeginFingerprintCancellationForLifetime(f, c, h) ==
    /\ h \in up
    /\ ActiveLifetime(f, c, h)
    /\ BeginCancellation(f)

\* cleanupStaleMembership, for each member of CleanupStaleMemberships' list.
CleanupStaleMembership(f) ==
    /\ up # {}
    /\ members[f].age = Stale
    /\ BeginCancellation(f)

(***************************************************************************)
(* AcknowledgeQuiescence by home h for lifetime c and revision r.          *)
(***************************************************************************)
AcknowledgeQuiescence(f, c, r, h) ==
    LET mine == {row \in RowsOf(f, c, r) : row.home = h} IN
    /\ h \in up
    /\ members[f].state = "canceling"
    /\ members[f].cancelRevision = r
    /\ members[f].connectedAt = c
    /\ mine # {}
    /\ HomeActive(h)
    /\ quiescence' = (quiescence \ mine) \union {[row EXCEPT !.status = "acknowledged"] : row \in mine}
    /\ UNCHANGED <<members, classifying, participations, lifecycleRevision>>

\* The conditions of completeFingerprintCancellationTx, over the given rows.
Quiescent(f, rows) ==
    /\ members[f].expected > 0
    /\ Cardinality(rows) = members[f].expected
    /\ \A row \in rows : row.status \in {"acknowledged", "fenced"}

\* What completeFingerprintCancellationTx writes in this module's tables.
CloseMembership(f) ==
    /\ members' = [members EXCEPT ![f].state = "closed"]
    /\ participations' = {p \in participations :
            ~ (p.fingerprint = f /\ p.connectedAt = members[f].connectedAt)}

\* CompleteFingerprintCancellation, the membership part.
CompleteCancellation(f, c, r) ==
    /\ up # {}
    /\ members[f].state = "canceling"
    /\ members[f].cancelRevision = r
    /\ members[f].connectedAt = c
    /\ Quiescent(f, RowsOf(f, c, r))
    /\ CloseMembership(f)
    /\ UNCHANGED <<classifying, quiescence, lifecycleRevision>>

(***************************************************************************)
(* recoverStaleMembershipQuiescence: pending rows of homes past the grace  *)
(* become fenced; RecoveredRows is the result for one canceling lifetime.  *)
(***************************************************************************)
RecoveredHomes(f) ==
    ResolveHomes(homes, {row.home : row \in
        {q \in RowsOf(f, members[f].connectedAt, members[f].cancelRevision) : q.status = "pending"}})

RecoveredRows(f) ==
    {IF row.status = "pending" /\ HomeReclaimable(RecoveredHomes(f)[row.home])
     THEN [row EXCEPT !.status = "fenced"] ELSE row :
        row \in RowsOf(f, members[f].connectedAt, members[f].cancelRevision)}

RecoverQuiescenceRows(f) ==
    /\ up # {}
    /\ members[f].state = "canceling"
    /\ homes' = RecoveredHomes(f)
    /\ quiescence' = (quiescence \ RowsOf(f, members[f].connectedAt, members[f].cancelRevision))
                        \union RecoveredRows(f)
    /\ UNCHANGED <<up, classifying, lifecycleRevision>>
===============================================================================
