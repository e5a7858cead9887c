------------------------------- MODULE InFlight -------------------------------
(***************************************************************************)
(* Ingestion of the in-flight snapshots of one CPA node                    *)
(* (in_flight_ingest.go, in_flight_cleanup.go, in_flight_read.go).  All    *)
(* rows are keyed by the fingerprint, so one node is enough.               *)
(*                                                                         *)
(* A snapshot has a revision and arrives in parts, which the network may   *)
(* lose, repeat, reorder and mix with the parts of other revisions and of  *)
(* earlier lifetimes.  Each frame is one transaction: it holds the         *)
(* membership row and the attempt row.                                     *)
(***************************************************************************)
EXTENDS Naturals, FiniteSets, Functions

CONSTANTS
    Lifetimes,    \* bound: the connected_at values, 1, 2, ...
    Revisions,    \* bound: the revisions the node uses, 1, 2, ...
    MaxParts,     \* InFlightLimits.MaxPartCount
    MaxBytes,     \* InFlightLimits.MaxRevisionBytes
    Headers,      \* what all parts of a snapshot share: observed_at, barrier, truncation
    Bodies        \* aggregates of a part: sets of (credential, model, status) keys

ASSUME InFlightAssumption ==
    /\ Lifetimes \subseteq Nat \ {0} /\ Revisions \subseteq Nat \ {0}
    /\ MaxParts \in Nat /\ MaxBytes \in Nat
    /\ \A body \in Bodies : IsFiniteSet(body)

VARIABLES
    lifetime,     \* connected_at of the membership, 0 before the first
    memberState,  \* its state
    attempts,     \* cpa_in_flight_snapshot_attempts, by lifetime
    staged,       \* cpa_in_flight_snapshot_parts, by lifetime
    visible,      \* cpa_in_flight_snapshots, the row of the node
    cleanups      \* lifetimes closed, their CleanupInFlightLifetime still to run

inFlightVars == <<lifetime, memberState, attempts, staged, visible, cleanups>>

PartFrames ==
    {p \in [kind : {"part"}, revision : Revisions, index : 0 .. MaxParts - 1, count : 1 .. MaxParts,
            header : Headers, body : Bodies] : p.index < p.count}
OverflowFrames == [kind : {"overflow"}, revision : Revisions]

\* A frame that does not decode, or is out of its limits, but whose revision can be read.
InvalidFrames == [kind : {"invalid"}, revision : Revisions]

Attempts == [revision : Revisions, state : {"staging", "complete", "overflow", "rejected"},
             header : Headers \union {"none"}, count : 0 .. MaxParts,
             received : 0 .. MaxParts, bytes : 0 .. MaxBytes,
             old : BOOLEAN]   \* old: updated_at is past the staging retention
NoAttempt == [revision |-> 0, state |-> "none", header |-> "none", count |-> 0,
              received |-> 0, bytes |-> 0, old |-> FALSE]
NotVisible == [lifetime |-> 0, revision |-> 0, parts |-> {}]

InFlightInit ==
    /\ lifetime = 0 /\ memberState = "none"
    /\ attempts = [l \in Lifetimes |-> NoAttempt]
    /\ staged = [l \in Lifetimes |-> {}]
    /\ visible = NotVisible
    /\ cleanups = {}

-------------------------------------------------------------------------------
(* One frame *)

\* RequireActiveCPAMembership
RequireActiveCPAMembership(l) == lifetime = l /\ memberState = "active"

NewAttempt(frame) ==
    [revision |-> frame.revision, state |-> "staging", header |-> frame.header, count |-> frame.count,
     received |-> 0, bytes |-> 0, old |-> FALSE]

\* Attempts without parts: an overflow frame, and newRejectedInFlightAttempt.
EmptyAttempt(revision, state) ==
    [NoAttempt EXCEPT !.revision = revision, !.state = state]

\* rejectInFlightAttempt
Rejected(attempt) == [attempt EXCEPT !.state = "rejected", !.received = 0, !.bytes = 0, !.old = FALSE]

\* The parts left after rejecting an attempt: those of other revisions.
OtherParts(parts, revision) == {p \in parts : p.revision # revision}

\* Faulty variant: the bodies are put together as they are.
CompleteUnchecked(parts, frame) == Cardinality(parts) = frame.count

\* completeInFlightPayload: all parts of one snapshot, and no aggregate twice.
CompletePayload(parts, frame) ==
    /\ Cardinality(parts) = frame.count
    /\ \A p \in parts : p.header = frame.header /\ p.count = frame.count
    /\ \A p, q \in parts : p # q => p.index # q.index /\ p.body \cap q.body = {}

(***************************************************************************)
(* stageInFlightPart: attempt is the locked row or its replacement, parts  *)
(* the staged rows.  The counters are kept incrementally.                  *)
(***************************************************************************)
StagePart(l, attempt, parts, frame) ==
    LET same == {p \in parts : p.revision = frame.revision /\ p.index = frame.index}
        added == [attempt EXCEPT !.received = @ + 1, !.bytes = @ + Cardinality(frame.body), !.old = FALSE]
        stored == parts \union {frame}
        ofRevision == {p \in stored : p.revision = frame.revision}
        rejected == [attempt |-> Rejected(attempt), parts |-> OtherParts(stored, attempt.revision),
                     visible |-> visible]
    IN
    CASE same = {frame} -> [attempt |-> attempts[l], parts |-> parts, visible |-> visible]
      [] same # {} /\ same # {frame} -> rejected
      [] same = {} /\ ~ (frame.count = attempt.count /\ frame.header = attempt.header) -> rejected
      [] OTHER ->
            IF added.bytes > MaxBytes THEN rejected
            ELSE IF added.received # added.count
            THEN [attempt |-> added, parts |-> stored, visible |-> visible]
            ELSE IF ~ CompletePayload(ofRevision, frame) THEN rejected
            ELSE [attempt |-> [added EXCEPT !.state = "complete"], parts |-> stored,
                  visible |-> [lifetime |-> l, revision |-> frame.revision, parts |-> ofRevision]]

\* The attempt is the newest one seen, or this frame starts a newer one.
Starts(l, frame) == frame.revision > attempts[l].revision

Write(l, attempt, parts, shown) ==
    /\ attempts' = [attempts EXCEPT ![l] = attempt]
    /\ staged' = [staged EXCEPT ![l] = parts]
    /\ visible' = shown
    /\ UNCHANGED <<lifetime, memberState, cleanups>>

\* stageInFlightFrame with a part.
IngestPart(l, frame) ==
    LET attempt == IF Starts(l, frame) THEN NewAttempt(frame) ELSE attempts[l]
        parts == IF Starts(l, frame) THEN {} ELSE staged[l]
        result == StagePart(l, attempt, parts, frame)
    IN
    /\ RequireActiveCPAMembership(l)
    /\ Starts(l, frame) \/ (frame.revision = attempts[l].revision /\ attempts[l].state = "staging")
    /\ Write(l, result.attempt, result.parts, result.visible)

\* stageInFlightFrame with an overflow frame: a new revision without parts, or a
\* contradiction to the parts that were staged.
IngestOverflow(l, frame) ==
    /\ RequireActiveCPAMembership(l)
    /\ \/ /\ Starts(l, frame)
          /\ Write(l, EmptyAttempt(frame.revision, "overflow"), {}, visible)
       \/ /\ frame.revision = attempts[l].revision /\ attempts[l].state = "staging"
          /\ Write(l, Rejected(attempts[l]), OtherParts(staged[l], frame.revision), visible)

\* markInFlightRejected
IngestInvalid(l, frame) ==
    /\ RequireActiveCPAMembership(l)
    /\ \/ /\ Starts(l, frame)
          /\ Write(l, EmptyAttempt(frame.revision, "rejected"), {}, visible)
       \/ /\ frame.revision = attempts[l].revision /\ attempts[l].state = "staging"
          /\ Write(l, Rejected(attempts[l]), OtherParts(staged[l], frame.revision), visible)

-------------------------------------------------------------------------------
(* Lifetimes and cleanup *)

\* A new lifetime: the first, after a closed one, or a takeover of an open one.
Connect(l) ==
    /\ l = lifetime + 1
    /\ lifetime' = l /\ memberState' = "active"
    /\ UNCHANGED <<attempts, staged, visible, cleanups>>

BeginCancel ==
    /\ memberState = "active"
    /\ memberState' = "canceling"
    /\ UNCHANGED <<lifetime, attempts, staged, visible, cleanups>>

\* The cancellation commits; its cleanup is another transaction.
FinishCancel ==
    /\ memberState = "canceling"
    /\ memberState' = "closed"
    /\ cleanups' = cleanups \union {lifetime}
    /\ UNCHANGED <<lifetime, attempts, staged, visible>>

\* CleanupInFlightLifetime, which the node may have outrun with a new lifetime.
CleanupInFlightLifetime(l) ==
    /\ l \in cleanups
    /\ attempts' = [attempts EXCEPT ![l] = NoAttempt]
    /\ staged' = [staged EXCEPT ![l] = {}]
    /\ visible' = IF visible.lifetime = l THEN NotVisible ELSE visible
    /\ cleanups' = cleanups \ {l}
    /\ UNCHANGED <<lifetime, memberState>>

\* The Home that was to run the cleanup stops, or its transaction fails.
LoseCleanup(l) ==
    /\ l \in cleanups
    /\ cleanups' = cleanups \ {l}
    /\ UNCHANGED <<lifetime, memberState, attempts, staged, visible>>

\* The staging retention of an attempt passes without a part.
StagingAges(l) ==
    /\ attempts[l].state = "staging" /\ ~ attempts[l].old
    /\ attempts' = [attempts EXCEPT ![l].old = TRUE]
    /\ UNCHANGED <<lifetime, memberState, staged, visible, cleanups>>

\* cleanupExpiredInFlightAttempt: checks again, in its own transaction, what the scan saw.
CleanupExpiredAttempt(l) ==
    /\ ~ (lifetime = l /\ memberState \in {"active", "canceling"})
    /\ attempts[l].state = "staging" /\ attempts[l].old
    /\ attempts' = [attempts EXCEPT ![l] = Rejected(@)]
    /\ staged' = [staged EXCEPT ![l] = OtherParts(@, attempts[l].revision)]
    /\ UNCHANGED <<lifetime, memberState, visible, cleanups>>

InFlightNext ==
    \/ \E l \in Lifetimes :
        \/ \E frame \in PartFrames : IngestPart(l, frame)
        \/ \E frame \in OverflowFrames : IngestOverflow(l, frame)
        \/ \E frame \in InvalidFrames : IngestInvalid(l, frame)
        \/ Connect(l)
        \/ CleanupInFlightLifetime(l) \/ LoseCleanup(l)
        \/ StagingAges(l) \/ CleanupExpiredAttempt(l)
    \/ BeginCancel
    \/ FinishCancel

InFlightSpec == InFlightInit /\ [][InFlightNext]_inFlightVars

-------------------------------------------------------------------------------
(* Reading *)

\* AggregatesComplete of ReadInFlightObservation for this node.
ObservationComplete ==
    /\ memberState = "active"
    /\ visible.lifetime = lifetime
    /\ attempts[lifetime].revision = visible.revision
    /\ attempts[lifetime].state = "complete"

-------------------------------------------------------------------------------

(***************************************************************************)
(* What readers see is one whole snapshot: every part of one revision,     *)
(* with one header, and no aggregate counted twice, whatever order,        *)
(* repetition and mixture the parts arrived in; while it is reported as    *)
(* complete, nothing newer has been staged.                                *)
(***************************************************************************)
PublishedIsWhole ==
    visible.revision # 0 =>
        /\ \E header \in Headers, n \in 1 .. MaxParts :
            /\ \A p \in visible.parts : p.revision = visible.revision /\ p.header = header /\ p.count = n
            /\ {p.index : p \in visible.parts} = 0 .. n - 1
            /\ Cardinality(visible.parts) = n
        /\ \A p, q \in visible.parts : p # q => p.body \cap q.body = {}
        /\ ObservationComplete => visible.parts = staged[lifetime]

(***************************************************************************)
(* The counters of the attempt agree with the staged rows although they    *)
(* are kept incrementally, and no part outlives its revision.              *)
(***************************************************************************)
CountersMatchParts ==
    \A l \in Lifetimes :
        /\ attempts[l].received = Cardinality(staged[l])
        /\ attempts[l].bytes = SumFunction([p \in staged[l] |-> Cardinality(p.body)])
        /\ \A p \in staged[l] : p.revision = attempts[l].revision

(***************************************************************************)
(* The published snapshot only moves forward: to a later lifetime or to a  *)
(* later revision of the same one, and it is withdrawn only after its      *)
(* lifetime has been closed.                                               *)
(***************************************************************************)
PublishedMovesForward ==
    [][visible' # visible =>
        \/ visible'.lifetime > visible.lifetime
        \/ visible'.lifetime = visible.lifetime /\ visible'.revision > visible.revision
        \/ visible' = NotVisible /\ (visible.lifetime # lifetime \/ memberState = "closed")]_inFlightVars

(***************************************************************************)
(* What became of a revision is final: a published, rejected or            *)
(* overflowed revision of a lifetime is not opened again.                  *)
(***************************************************************************)
SettledStaysSettled ==
    [][\A l \in Lifetimes :
        attempts[l].state \in {"complete", "overflow", "rejected"}
        /\ attempts'[l].revision = attempts[l].revision => attempts'[l].state = attempts[l].state]_inFlightVars

(***************************************************************************)
(* Whatever order the parts come in, what is published is one snapshot and *)
(* what is staged is what the counters that decide on publishing say.      *)
(***************************************************************************)
SnapshotsAreWhole == PublishedIsWhole /\ CountersMatchParts
==============================================================================
