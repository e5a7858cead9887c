--------------------------- MODULE HomeIncarnation ---------------------------
(***************************************************************************)
(* Home process incarnations (internal/cluster/home_incarnation.go).       *)
(*                                                                         *)
(* Every start of a Home process registers one row of the table            *)
(* home_process_incarnations, keyed by (ip, port, started_at).  The code   *)
(* makes started_at strictly later than any earlier start on the same      *)
(* address, so an incarnation is simply a fresh identity here.  All time   *)
(* is database time; only its comparisons with the two cutoffs matter, so  *)
(* last_seen_at is kept as an age:                                         *)
(*   Fresh : last_seen_at >= now - node-heartbeat-timeout                  *)
(*   Stale : older than that                                               *)
(*   Dead  : older than node-heartbeat-timeout + reclaim-grace             *)
(* Each action is one database transaction.                                *)
(***************************************************************************)
EXTENDS Integers, FiniteSets

CONSTANTS
    Incarnations,  \* the (ip, port, started_at) triples that can be registered
    SQLite,        \* TRUE when the database is SQLite, FALSE for PostgreSQL
    Capabilities   \* whether starting Homes declare credential_concurrency_limits_v2

ASSUME IncarnationsAssumption == IsFiniteSet(Incarnations)
ASSUME SQLiteAssumption == SQLite \in BOOLEAN
ASSUME CapabilitiesAssumption == Capabilities \subseteq BOOLEAN

VARIABLES
    homes,              \* home_process_incarnations, one record per incarnation
    up,                 \* the incarnations whose process is running
    activePolicyCount   \* concurrency_activation_gate.active_policy_count

Fresh == 0
Stale == 1
Dead  == 2

HomeStates == {"none", "active", "expired", "retired", "fenced"}

HomeRecords == [state : HomeStates, age : Fresh .. Dead, capable : BOOLEAN]

HomeInit ==
    /\ homes = [h \in Incarnations |-> [state |-> "none", age |-> Fresh, capable |-> FALSE]]
    /\ up = {}

ActiveHomes(hs) == {h \in Incarnations : hs[h].state = "active"}

\* verifyActiveHomeIncarnation
HomeActive(h) == homes[h].state = "active"

(***************************************************************************)
(* expireStaleHomeIncarnations: every active row past the heartbeat        *)
(* timeout becomes expired.                                                *)
(***************************************************************************)
ExpireStale(hs) ==
    [h \in Incarnations |->
        IF hs[h].state = "active" /\ hs[h].age >= Stale
        THEN [hs[h] EXCEPT !.state = "expired"]
        ELSE hs[h]]

(***************************************************************************)
(* RegisterHomeIncarnation.  A rejected registration rolls back, the       *)
(* expiry included.                                                        *)
(***************************************************************************)
RegisterHomeIncarnation(h, capable) ==
    LET live == ExpireStale(homes) IN
    /\ homes[h].state = "none"
    /\ activePolicyCount > 0 => capable
    /\ activePolicyCount > 0 /\ SQLite => ActiveHomes(live) = {}
    /\ homes' = [live EXCEPT ![h] = [state |-> "active", age |-> Fresh, capable |-> capable]]
    /\ up' = up \union {h}

\* HeartbeatHomeIncarnation, called by every tick of Coordinator.Start.
HeartbeatHomeIncarnation(h) ==
    /\ h \in up
    /\ HomeActive(h)
    /\ homes' = [homes EXCEPT ![h].age = Fresh]
    /\ UNCHANGED up

(***************************************************************************)
(* The heartbeat of a row that is no longer active returns an error:       *)
(* Coordinator.Start returns it and run() shuts the process down.  The     *)
(* deferred RetireHomeIncarnation finds the row inactive and does nothing. *)
(***************************************************************************)
HeartbeatRefused(h) ==
    /\ h \in up
    /\ ~ HomeActive(h)
    /\ up' = up \ {h}
    /\ UNCHANGED homes

\* RetireHomeIncarnation, deferred by run(): an orderly exit.
RetireHomeIncarnation(h) ==
    /\ h \in up
    /\ HomeActive(h)
    /\ homes' = [homes EXCEPT ![h].state = "retired"]
    /\ up' = up \ {h}

\* The process dies without running its deferred calls.
CrashHome(h) ==
    /\ h \in up
    /\ up' = up \ {h}
    /\ UNCHANGED homes

\* Database time passes one of the two cutoffs of the row's last_seen_at.
HomeAges(h) ==
    /\ homes[h].state # "none"
    /\ homes[h].age < Dead
    /\ homes' = [homes EXCEPT ![h].age = @ + 1]
    /\ UNCHANGED up

\* Faulty variant: expiring a silent home is left to the next registration.
ResolvedHomeNeverExpires(r) ==
    [r EXCEPT !.state = IF @ \in {"expired", "retired"} /\ r.age = Dead THEN "fenced" ELSE @]

(***************************************************************************)
(* The home part of resolveQuiescenceHomeRowTx: a silent home is expired,  *)
(* and past the reclaim grace an expired or retired one is fenced.         *)
(***************************************************************************)
ResolvedHome(r) ==
    LET s1 == IF r.state = "active" /\ r.age >= Stale THEN "expired" ELSE r.state
        s2 == IF s1 \in {"expired", "retired"} /\ r.age = Dead THEN "fenced" ELSE s1
    IN [r EXCEPT !.state = s2]

ResolveHomes(hs, S) == [h \in Incarnations |-> IF h \in S THEN ResolvedHome(hs[h]) ELSE hs[h]]

\* Faulty variant: the reclaim grace is not added to the heartbeat timeout.
ReclaimableWithoutGrace(r) == r.state \in {"expired", "retired", "fenced"} /\ r.age >= Stale

\* The homeEligible subquery: the home can no longer act for a lifetime.
HomeReclaimable(r) == r.state \in {"expired", "retired", "fenced"} /\ r.age = Dead
==============================================================================
