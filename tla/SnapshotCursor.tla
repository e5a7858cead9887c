---------------------------- MODULE SnapshotCursor ----------------------------
(***************************************************************************)
(* Views for the pages of the Management API (in_flight_cursor.go).  A     *)
(* view is a header row and its child rows: limiter models, limiter        *)
(* states, observed credentials and the details.  Nothing deletes a view   *)
(* but the creation of a later one, which removes a bounded number of rows *)
(* of expired views, children first.  A page is read in several queries    *)
(* under a share lock of the header.                                       *)
(***************************************************************************)
EXTENDS Naturals, FiniteSets, FiniteSetsExt

CONSTANTS
    Views,       \* bound: views ever created, 1, 2, ... in this order
    Totals,      \* details of a view
    RowBatch,    \* inFlightSnapshotCursorCleanupRowBatchSize
    ViewBatch,   \* inFlightSnapshotCursorCleanupBatchSize
    PageSize,    \* the limit of a page
    Readers      \* requests for a page

ASSUME SnapshotCursorAssumption ==
    /\ Views = 1 .. Cardinality(Views)
    /\ Totals \subseteq Nat /\ {RowBatch, ViewBatch, PageSize} \subseteq Nat \ {0}

VARIABLES
    views,    \* the rows of each view
    readers   \* the transactions reading a page

cursorVars == <<views, readers>>

NoView == [header |-> FALSE, expired |-> FALSE, total |-> 0, items |-> {}, projection |-> 0]
NoReader == [view |-> 0, offset |-> 0, phase |-> "idle"]

\* The limiter and observation rows a page of a view with details needs.
Projection(total) == IF total = 0 THEN 0 ELSE 3

CursorInit ==
    /\ views = [v \in Views |-> NoView]
    /\ readers = [r \in Readers |-> NoReader]

Rows(v) == views[v].projection + Cardinality(views[v].items)
Created(v) == views[v].header \/ views[v].expired

-------------------------------------------------------------------------------
(* cleanupExpiredInFlightSnapshotCursors *)

\* Headers found, oldest first, up to the number of views in a batch.
Expired(v) == views[v].header /\ views[v].expired
Batch == {v \in Views : Expired(v) /\ Cardinality({w \in Views : w < v /\ Expired(w)}) < ViewBatch}

\* Rows that may still be deleted when the cleanup comes to view v; 0 after a break.
Budget(v) ==
    LET older == MapThenSumSet(LAMBDA w : Rows(w) + 1, {w \in Batch : w < v})
    IN IF older >= RowBatch THEN 0 ELSE RowBatch - older

(***************************************************************************)
(* deleteInFlightSnapshotCursorRecordsBatch: the projection rows, then the *)
(* details in their order, then the header if the limit is not used up.    *)
(***************************************************************************)
Deleted(v) ==
    LET limit == Budget(v)
        projection == Min({limit, views[v].projection})
        items == Min({limit - projection, Cardinality(views[v].items)})
    IN
    IF limit > Rows(v) THEN [NoView EXCEPT !.expired = TRUE]
    ELSE [views[v] EXCEPT !.projection = @ - projection,
                          !.items = {i \in @ : Cardinality({j \in @ : j < i}) >= items}]

\* Faulty variant: the headers are not locked.
UnlockedBatch == TRUE

\* FOR UPDATE of the expired headers waits for the readers' share locks.
BatchLocked == \A r \in Readers : readers[r].phase # "idle" => readers[r].view \notin Batch

(***************************************************************************)
(* CreateInFlightSnapshotCursor: cleanup, header and children in one       *)
(* transaction.                                                            *)
(***************************************************************************)
CreateInFlightSnapshotCursor(v, total) ==
    /\ ~ Created(v) /\ \A w \in Views : w < v => Created(w)
    /\ BatchLocked
    /\ views' = [w \in Views |->
            IF w = v THEN [header |-> TRUE, expired |-> FALSE, total |-> total, items |-> 0 .. total - 1,
                           projection |-> Projection(total)]
            ELSE IF w \in Batch THEN Deleted(w) ELSE views[w]]
    /\ UNCHANGED readers

\* The time to live passes, in the order of creation.
Expire(v) ==
    /\ views[v].header /\ ~ views[v].expired
    /\ \A w \in Views : w < v => views[w].expired
    /\ views' = [views EXCEPT ![v].expired = TRUE]
    /\ UNCHANGED readers

-------------------------------------------------------------------------------
(* ReadInFlightSnapshotCursorPage *)

\* The header is locked and not expired.
LockPage(r, v, offset) ==
    /\ readers[r].phase \in {"idle", "done", "incomplete"}
    /\ views[v].header /\ ~ views[v].expired
    /\ readers' = [readers EXCEPT ![r] = [view |-> v, offset |-> offset, phase |-> "locked"]]
    /\ UNCHANGED views

\* inFlightSnapshotCursorPageCount
PageCount(total, offset) == IF offset >= total THEN 0 ELSE Min({total - offset, PageSize})

\* The details the query returns.
PageItems(v, offset) ==
    LET found == {i \in views[v].items : i >= offset}
    IN {i \in found : Cardinality({j \in found : j < i}) < PageCount(views[v].total, offset)}

\* readInFlightSnapshotCursorDetails: exactly the ordinals of the page.
ReadDetails(r) ==
    LET v == readers[r].view offset == readers[r].offset n == PageCount(views[v].total, offset) IN
    /\ readers[r].phase = "locked"
    /\ readers' = [readers EXCEPT ![r].phase =
            IF PageItems(v, offset) # offset .. offset + n - 1 THEN "incomplete"
            ELSE IF n = 0 THEN "done" ELSE "details"]
    /\ UNCHANGED views

\* readInFlightSnapshotCursorPageProjection: everything the details refer to.
ReadProjection(r) ==
    LET v == readers[r].view IN
    /\ readers[r].phase = "details"
    /\ readers' = [readers EXCEPT ![r].phase =
            IF views[v].projection = Projection(views[v].total) THEN "done" ELSE "incomplete"]
    /\ UNCHANGED views

\* The transaction ends and the lock with it.
EndPage(r) ==
    /\ readers[r].phase \in {"done", "incomplete"}
    /\ readers' = [readers EXCEPT ![r] = NoReader]
    /\ UNCHANGED views

CursorNext ==
    \/ \E v \in Views : Expire(v) \/ \E total \in Totals : CreateInFlightSnapshotCursor(v, total)
    \/ \E r \in Readers :
        \/ \E v \in Views, offset \in 0 .. Max(Totals) : LockPage(r, v, offset)
        \/ ReadDetails(r) \/ ReadProjection(r) \/ EndPage(r)

CursorSpec == CursorInit /\ [][CursorNext]_cursorVars

-------------------------------------------------------------------------------
(***************************************************************************)
(* No request meets a page of which rows are missing, although a view may  *)
(* expire and be cleaned up by other requests while its page is read.      *)
(***************************************************************************)
PagesAreWhole == \A r \in Readers : readers[r].phase # "incomplete"

(***************************************************************************)
(* Cleanup finds what is left of a view by its header: no interrupted      *)
(* batch leaves child rows without one.                                    *)
(***************************************************************************)
NoOrphanRows == \A v \in Views : Rows(v) > 0 => views[v].header

(***************************************************************************)
(* A view has all its rows or none that anyone meets, while it is read,    *)
(* when it is removed and when its removal was interrupted.                *)
(***************************************************************************)
PagesAreKept == PagesAreWhole /\ NoOrphanRows
==============================================================================
