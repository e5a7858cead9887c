--------------------------- MODULE LifecycleCleanup ---------------------------
(***************************************************************************)
(* The loop that ends cancellations: every running Home repeats            *)
(* runLifecycleCleanup (internal/cluster/coordinator.go) with the startup  *)
(* recovery recoverCPAFences (cmd/home/cluster_event_handler.go), beside   *)
(* everything that the limiter's transactions and the event watcher do.    *)
(*                                                                         *)
(* A round cancels the silent memberships, recovers the cancellations of   *)
(* Homes that are out, and then fences what this Home still owes, row by   *)
(* row: a fence waits without a timeout until the connections of the       *)
(* lifetime are closed and its handlers have returned, and only then the   *)
(* Home acknowledges.  Each list is read in a transaction of its own, so   *)
(* that every step finds what may have changed since.  The round of a      *)
(* starting Home, made before it listens, is its first one here.           *)
(***************************************************************************)
EXTENDS ConcurrencyLimiter

VARIABLES
    cleanup   \* per Home: the part of the round it is in, what is left of the list, the row in hand

cleanupVars == <<vars, cleanup>>

NoRow == [fingerprint |-> "none", connectedAt |-> 0, revision |-> 0]
Resting == [at |-> "resting", list |-> {}, row |-> NoRow]

\* The cancellation, or the lifetime, that a row of a list names.
Named(f) == [fingerprint |-> f, connectedAt |-> members[f].connectedAt, revision |-> members[f].cancelRevision]

StaleMembers == {Named(f) : f \in {g \in Fingerprints : members[g].state = "active" /\ members[g].age = Stale}}
CancelingMembers == {Named(f) : f \in {g \in Fingerprints : members[g].state = "canceling"}}

\* ListPendingQuiescence
PendingRows(h) ==
    {[fingerprint |-> q.fingerprint, connectedAt |-> q.connectedAt, revision |-> q.revision] :
        q \in {p \in quiescence : p.home = h /\ p.status = "pending"}}

\* The row still names the cancellation that is going on.
Current(row) == members[row.fingerprint].state = "canceling" /\ Named(row.fingerprint) = row

-------------------------------------------------------------------------------
GoesTo(h, at, list) == cleanup' = [cleanup EXCEPT ![h] = [at |-> at, list |-> list, row |-> NoRow]]
Done(h, row) == cleanup' = [cleanup EXCEPT ![h].list = @ \ {row}]

StartRound(h) ==
    /\ cleanup[h].at = "resting"
    /\ GoesTo(h, "members", StaleMembers)
    /\ UNCHANGED vars

\* CleanupStaleMemberships: the membership may have been refreshed or taken over since.
CancelSilent(h) ==
    /\ cleanup[h].at = "members"
    /\ \E row \in cleanup[h].list :
        LET f == row.fingerprint
            silent == members[f].state = "active" /\ members[f].age = Stale
        IN  /\ \/ silent /\ CleanupStaleMembership(f) /\ UNCHANGED <<activePolicyCount, limiterVars>>
               \/ ~ silent /\ UNCHANGED vars
            /\ Done(h, row)

\* RecoverStaleQuiescence, for each cancellation it has listed.
ListCanceling(h) ==
    /\ cleanup[h].at = "members" /\ cleanup[h].list = {}
    /\ GoesTo(h, "recovery", CancelingMembers)
    /\ UNCHANGED vars

Recover(h) ==
    /\ cleanup[h].at = "recovery"
    /\ \E row \in cleanup[h].list :
        /\ \/ Current(row) /\ RecoverStaleQuiescence(row.fingerprint)
           \/ ~ Current(row) /\ UNCHANGED vars
        /\ Done(h, row)

ListOwed(h) ==
    /\ cleanup[h].at = "recovery" /\ cleanup[h].list = {}
    /\ GoesTo(h, "rows", PendingRows(h))
    /\ UNCHANGED vars

\* handleCPAFence enters the fence of the next row.
EnterFence(h) ==
    /\ cleanup[h].at = "rows"
    /\ \E row \in cleanup[h].list :
        cleanup' = [cleanup EXCEPT ![h] = [at |-> "fencing", list |-> @.list \ {row}, row |-> row]]
    /\ UNCHANGED vars

(***************************************************************************)
(* The fence returns with everything drained, and acknowledges.  When the  *)
(* lifetime is gone the row is skipped; a Home that is out gives up the    *)
(* round.  Nothing in the loop makes this happen.                          *)
(***************************************************************************)
LeaveFence(h) ==
    LET row == cleanup[h].row
        f == row.fingerprint
        mine == \E q \in RowsOf(f, row.connectedAt, row.revision) : q.home = h
    IN
    /\ cleanup[h].at = "fencing"
    /\ \/ /\ Current(row) /\ mine /\ HomeActive(h)
          /\ AcknowledgeQuiescence(f, row.connectedAt, row.revision, h)
          /\ UNCHANGED <<homes, up, activePolicyCount, limiterVars>>
          /\ cleanup' = [cleanup EXCEPT ![h].at = "acknowledged"]
       \/ /\ Current(row) /\ mine /\ ~ HomeActive(h)
          /\ GoesTo(h, "resting", {})
          /\ UNCHANGED vars
       \/ /\ ~ (Current(row) /\ mine)
          /\ GoesTo(h, "rows", cleanup[h].list)
          /\ UNCHANGED vars

\* CompleteFingerprintCancellation: other Homes may still owe theirs.
Complete(h) ==
    LET row == cleanup[h].row
        f == row.fingerprint
        complete == Current(row) /\ Quiescent(f, RowsOf(f, row.connectedAt, row.revision))
    IN
    /\ cleanup[h].at = "acknowledged"
    /\ \/ complete /\ CompleteFingerprintCancellation(f, row.connectedAt, row.revision)
       \/ ~ complete /\ UNCHANGED vars
    /\ GoesTo(h, "rows", cleanup[h].list)

EndRound(h) ==
    /\ cleanup[h].at = "rows" /\ cleanup[h].list = {}
    /\ GoesTo(h, "resting", {})
    /\ UNCHANGED vars

\* What the loop does by itself, other than waiting for connections and handlers.
CleanupStep(h) ==
    /\ h \in up
    /\ \/ StartRound(h) \/ CancelSilent(h) \/ ListCanceling(h) \/ Recover(h) \/ ListOwed(h)
       \/ EnterFence(h) \/ Complete(h) \/ EndRound(h)

-------------------------------------------------------------------------------
CleanupInit ==
    /\ Init
    /\ cleanup = [h \in Incarnations |-> Resting]

\* The round of a Home ends with its process.
OtherStep ==
    /\ Next
    /\ cleanup' = [h \in Incarnations |-> IF h \in up' THEN cleanup[h] ELSE Resting]

CleanupNext ==
    \/ OtherStep
    \/ \E h \in Incarnations : CleanupStep(h) \/ (h \in up /\ LeaveFence(h))

\* Database time passes for a process that no longer beats.
SilentHomeAges(h) ==
    /\ h \notin up
    /\ HomeAges(h)
    /\ UNCHANGED <<activePolicyCount, memberVars, limiterVars, cleanup>>

\* The heartbeat loop runs until it is refused.
RefusedHomeStops(h) ==
    /\ HeartbeatRefused(h)
    /\ classifying' = {s \in classifying : s.home \in up'}
    /\ cleanup' = [cleanup EXCEPT ![h] = Resting]
    /\ UNCHANGED <<activePolicyCount, members, participations, quiescence, lifecycleRevision, limiterVars>>

(***************************************************************************)
(* Fairness: time passes, and every running Home goes on with its          *)
(* heartbeats and its rounds.  None for LeaveFence: a fence may wait for   *)
(* ever.                                                                   *)
(***************************************************************************)
CleanupSpec ==
    /\ CleanupInit /\ [][CleanupNext]_cleanupVars
    /\ \A h \in Incarnations : WF_cleanupVars(SilentHomeAges(h)) /\ WF_cleanupVars(RefusedHomeStops(h))
                                 /\ WF_cleanupVars(CleanupStep(h))

-------------------------------------------------------------------------------
\* A lifetime that somebody has to bring to its end: it is canceling, or its CPA is silent.
Ending(f) == members[f].state = "canceling" \/ (members[f].state = "active" /\ members[f].age = Stale)

NoFenceHangs == \A h \in Incarnations : []<>(h \notin up \/ cleanup[h].at # "fencing")

\* Provided that no fence hangs for ever (see ClosedIsUntracked for how one may), every
\* lifetime whose CPA has fallen silent, and every cancellation, ends by closing, by a
\* takeover or because the CPA is heard again, as long as some Home runs: a crash of the owner
\* between the fence and its acknowledgement, or of a Home in the midst of a round, cannot
\* hold the slots for ever (runLifecycleCleanup, recoverCPAFences).
CancellationEnds ==
    NoFenceHangs => \A f \in Fingerprints : Ending(f) ~> ~ Ending(f) \/ up = {}
===============================================================================
