------------------------------- MODULE AuthCache -------------------------------
(***************************************************************************)
(* The credential cache of one Home (runtime.go) and the event stream that *)
(* keeps it up to date (appendEvent, events.go).                           *)
(*                                                                         *)
(* Any Home writes credentials in the shared database; each write bumps    *)
(* the row's version and appends an event in the same transaction.  This   *)
(* Home learns of a write from the event, from its own writes and from     *)
(* reads, all of which take effect in the cache some time after the        *)
(* database was read, in any order.                                        *)
(***************************************************************************)
EXTENDS Naturals, FiniteSets, FiniteSetsExt

CONSTANTS
    Uuids,       \* credentials
    Threads,     \* concurrent operations of this Home
    MaxVersion   \* bound: versions of each row

ASSUME AuthCacheAssumption == Threads \cap {"watcher", "remote"} = {} /\ MaxVersion \in [Uuids -> Nat]

Watcher == "watcher"   \* the EventWatcher goroutine
Remote == "remote"     \* the other Homes
Actors == Threads \cup {Watcher}

VARIABLES
    authRow,    \* table auth: version (0: never stored) and soft deletion
    transaction,\* the open write of each row: who writes, what, and its event id once allocated
    events,     \* committed cluster_events: id -> row, op, version
    nextEvent,  \* the event id sequence
    cache,      \* versions, index and fullCache by uuid
    operation,  \* what each thread and the watcher are doing
    lastSeenID  \* EventWatcher.lastSeenID

authCacheVars == <<authRow, transaction, events, nextEvent, cache, operation, lastSeenID>>

Missing == 0
NoTransaction == [by |-> "none", op |-> "none", id |-> 0]
Idle == "idle"
Operation(kind, u, seen, done, version) ==
    [kind |-> kind, uuid |-> u, seen |-> seen, read |-> done, version |-> version]
NoOperation == Operation(Idle, "", [known |-> 0, active |-> FALSE, full |-> Missing], FALSE, Missing)

AuthCacheInit ==
    /\ authRow = [u \in Uuids |-> [version |-> 0, deleted |-> TRUE]]
    /\ transaction = [u \in Uuids |-> NoTransaction]
    /\ events = {} /\ nextEvent = 1
    /\ cache = [u \in Uuids |-> [known |-> 0, active |-> FALSE, full |-> Missing]]
    /\ operation = [x \in Actors |-> NoOperation]
    /\ lastSeenID = 0

-------------------------------------------------------------------------------
(* Writes: upsertAuthWithResult, MutateAuth, SoftDeleteAuthWithVersion. *)

(* The row lock is taken. An upsert restores a deleted row, only a live one is deleted. *)
BeginWrite(by, u, op) ==
    /\ transaction[u] = NoTransaction
    /\ authRow[u].version < MaxVersion[u]
    /\ op = "delete" => ~authRow[u].deleted
    /\ by # Remote => operation[by] = NoOperation
    /\ transaction' = [transaction EXCEPT ![u] = [by |-> by, op |-> op, id |-> 0]]
    /\ operation' = IF by = Remote THEN operation
                    ELSE [operation EXCEPT ![by] = Operation("write", u, cache[u], FALSE, Missing)]
    /\ UNCHANGED <<authRow, events, nextEvent, cache, lastSeenID>>

(* lockClusterEventTransaction: one transaction at a time from its event id to its commit. *)
EventLockIgnored == TRUE
EventLockFree == \A u \in Uuids : transaction[u].id = 0

AppendEvent(u) ==
    /\ transaction[u] # NoTransaction /\ transaction[u].id = 0
    /\ EventLockFree
    /\ transaction' = [transaction EXCEPT ![u].id = nextEvent]
    /\ nextEvent' = nextEvent + 1
    /\ UNCHANGED <<authRow, events, cache, operation, lastSeenID>>

CommitWrite(u) ==
    LET tx == transaction[u]
        version == authRow[u].version + 1
    IN /\ tx # NoTransaction /\ tx.id # 0
       /\ authRow' = [authRow EXCEPT ![u] = [version |-> version, deleted |-> tx.op = "delete"]]
       /\ events' = events \cup {[id |-> tx.id, uuid |-> u, op |-> tx.op, version |-> version]}
       /\ transaction' = [transaction EXCEPT ![u] = NoTransaction]
       /\ operation' = IF tx.by = Remote THEN operation
                       ELSE [operation EXCEPT ![tx.by] =
                                Operation(IF tx.op = "delete" THEN "remove" ELSE "cache", u, cache[u], TRUE, version)]
       /\ UNCHANGED <<nextEvent, cache, lastSeenID>>

-------------------------------------------------------------------------------
(* The cache, under the adapter's mutex. *)

(* authSnapshotSupersededLocked: an equal version does not revive a tombstone. *)
Superseded(c, version) ==
    \/ c.known > version
    \/ c.known > 0 /\ c.known = version /\ ~c.active

(* cacheAuthSnapshot and the end of GetFullAuth; observeAuthSnapshot keeps no full copy. *)
Stored(c, version, full) ==
    IF Superseded(c, version) THEN c ELSE [known |-> version, active |-> TRUE, full |-> full]

(* RemoveAuthIndexVersion *)
Removed(c, version) ==
    IF version < c.known THEN c ELSE [known |-> version, active |-> FALSE, full |-> Missing]

(* removeAuthIndexIfUnchanged *)
RemovedIfUnchanged(c, seen) ==
    IF c.known = seen.known /\ c.active = seen.active THEN [c EXCEPT !.active = FALSE, !.full = Missing] ELSE c

(* LoadIndex, for one credential: what is known survives an older or missing row. *)
Reloaded(c, version) ==
    IF version = Missing \/ Superseded(c, version) THEN [c EXCEPT !.full = Missing]
    ELSE [known |-> version, active |-> TRUE, full |-> Missing]

-------------------------------------------------------------------------------
(***************************************************************************)
(* Reads.  The marker (known version, active) is read first, then the      *)
(* database, then the cache is changed.                                    *)
(*   get      GetFullAuth, when the cache holds no full copy               *)
(*   observe  MutateAuthState whose callback changes nothing               *)
(*   load     LoadIndex                                                    *)
(*   refresh  RefreshAuthIndex, for an event or after a save found stale;   *)
(*            a delete event sets a tombstone instead                      *)
(***************************************************************************)
StartRead(t, u, kind) ==
    /\ operation[t] = NoOperation
    /\ kind = "get" => cache[u].full = Missing
    /\ operation' = [operation EXCEPT ![t] = Operation(kind, u, cache[u], FALSE, Missing)]
    /\ UNCHANGED <<authRow, transaction, events, nextEvent, cache, lastSeenID>>

(* EventWatcher.poll takes the events after lastSeenID in the order of their ids. *)
TakeEvent ==
    LET pending == {e \in events : e.id > lastSeenID}
    IN /\ operation[Watcher] = NoOperation /\ pending # {}
       /\ LET e == CHOOSE x \in pending : \A y \in pending : x.id <= y.id
          IN operation' = [operation EXCEPT ![Watcher] =
                IF e.op = "delete" THEN Operation("tombstone", e.uuid, cache[e.uuid], TRUE, e.version)
                                   ELSE Operation("refresh", e.uuid, cache[e.uuid], FALSE, Missing)]
       /\ UNCHANGED <<authRow, transaction, events, nextEvent, cache, lastSeenID>>

ReadRow(x) ==
    LET o == operation[x]
        r == authRow[o.uuid]
    IN /\ o.kind \in {"get", "observe", "load", "refresh"} /\ ~o.read
       /\ o.kind = "observe" => transaction[o.uuid] = NoTransaction   \* it locks the row
       /\ operation' = [operation EXCEPT ![x].read = TRUE, ![x].version = IF r.deleted THEN Missing ELSE r.version]
       /\ UNCHANGED <<authRow, transaction, events, nextEvent, cache, lastSeenID>>

(* A get whose row turned out superseded, or whose marker moved, starts again. *)
Retries(o) ==
    LET c == cache[o.uuid]
    IN \/ o.kind = "get" /\ (IF o.version = Missing THEN c.known # o.seen.known \/ c.active # o.seen.active
                                                  ELSE Superseded(c, o.version))
       \/ o.kind \in {"cache", "observe"} /\ o.version # Missing /\ Superseded(c, o.version)

Applied(c, o) ==
    CASE o.kind = "cache"                -> Stored(c, o.version, o.version)
      [] o.kind \in {"remove", "tombstone"} -> Removed(c, o.version)
      [] o.kind = "load"                 -> Reloaded(c, o.version)
      [] o.kind = "get" /\ o.version # Missing -> Stored(c, o.version, o.version)
      [] o.kind \in {"observe", "refresh"} /\ o.version # Missing -> Stored(c, o.version, Missing)
      [] o.kind \in {"get", "refresh"} /\ o.version = Missing -> RemovedIfUnchanged(c, o.seen)
      [] OTHER                           -> c              \* observe of a row that is gone: an error

(* The watcher moves on only after its event was applied. *)
Apply(x) ==
    LET o == operation[x]
    IN /\ o.read
       /\ cache' = [cache EXCEPT ![o.uuid] = Applied(@, o)]
       /\ operation' = [operation EXCEPT ![x] =
            IF Retries(o) /\ cache[o.uuid].full = Missing
            THEN Operation("get", o.uuid, cache[o.uuid], FALSE, Missing) ELSE NoOperation]
       /\ lastSeenID' = IF x = Watcher THEN Min({e.id : e \in {y \in events : y.id > lastSeenID}}) ELSE lastSeenID
       /\ UNCHANGED <<authRow, transaction, events, nextEvent>>

(* InvalidateFullAuth *)
InvalidateFullAuth(u) ==
    /\ cache[u].full # Missing
    /\ cache' = [cache EXCEPT ![u].full = Missing]
    /\ UNCHANGED <<authRow, transaction, events, nextEvent, operation, lastSeenID>>

Writes ==
    \/ \E by \in Threads \cup {Remote}, u \in Uuids, op \in {"update", "delete"} : BeginWrite(by, u, op)
    \/ \E u \in Uuids : AppendEvent(u) \/ CommitWrite(u)

AuthCacheNext ==
    \/ Writes
    \/ \E t \in Threads, u \in Uuids, kind \in {"get", "observe", "load", "refresh"} : StartRead(t, u, kind)
    \/ TakeEvent
    \/ \E x \in Actors : ReadRow(x) \/ Apply(x)
    \/ \E u \in Uuids : InvalidateFullAuth(u)

-------------------------------------------------------------------------------
(***************************************************************************)
(* Once the watcher is past an event, the cache knows the version the      *)
(* event reported, or a later one, unless the event of a later deletion is *)
(* still to come: no event is skipped by a transaction that commits late,  *)
(* and no late read undoes it (lockClusterEventTransaction,                *)
(* authSnapshotSupersededLocked).                                          *)
(***************************************************************************)
EventsTakeEffect ==
    \A e \in events : e.id <= lastSeenID =>
        \/ cache[e.uuid].known >= e.version
        \/ \E d \in events : d.uuid = e.uuid /\ d.op = "delete" /\ d.version > e.version /\ d.id > lastSeenID

(***************************************************************************)
(* A deleted credential that this Home saw go does not come back from a    *)
(* read made before: it is active again only with a later version          *)
(* (authSnapshotSupersededLocked).                                         *)
(***************************************************************************)
NoResurrection ==
    [][\A u \in Uuids : (~cache[u].active /\ cache'[u].active /\ cache[u].known > 0)
                            => cache'[u].known > cache[u].known]_authCacheVars

(***************************************************************************)
(* Whatever the reads, writes and events in between, when all events are   *)
(* applied and no operation is under way the cache holds the database's    *)
(* state: live exactly if the row is, at its version, and a full copy only *)
(* of that version (removeAuthIndexIfUnchanged, RefreshAuthIndex).         *)
(***************************************************************************)
QuietCacheIsCurrent ==
    ((\A x \in Actors : operation[x] = NoOperation) /\ \A e \in events : e.id <= lastSeenID) =>
        \A u \in Uuids :
            /\ cache[u].active = ~authRow[u].deleted
            /\ cache[u].active => cache[u].known = authRow[u].version
            /\ cache[u].full \in {Missing, authRow[u].version}

(***************************************************************************)
(* The cache follows the table: event by event, and exactly once the       *)
(* events are through.                                                     *)
(***************************************************************************)
CacheFollowsTable == EventsTakeEffect /\ QuietCacheIsCurrent
================================================================================
