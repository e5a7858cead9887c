----------------------------- MODULE AutoRefresh -----------------------------
(***************************************************************************)
(* The loop that decides when the credentials of a Home are refreshed      *)
(* (cliproxy/auth/auto_refresh_loop.go, manager.go).                       *)
(*                                                                         *)
(* The loop, its workers and the writers of the auth table share a heap of *)
(* due times and a set of dirty credentials under one lock, and the table  *)
(* under another, so a due time is computed under one lock and stored      *)
(* under the other.  A writer first changes the table, then marks the      *)
(* credential dirty, then wakes the loop; the wake-up is lost when one is  *)
(* pending already.                                                        *)
(***************************************************************************)
EXTENDS Integers, Sequences, FiniteSets, FiniteSetsExt

CONSTANTS
    Credentials,
    RefreshWorkers,
    JobBuffer,       \* cap(jobs)
    PendingBackoff,  \* refreshPendingBackoff
    MaxClock,        \* bound: the last instant
    MaxChanges       \* bound: changes a writer makes to one credential

ASSUME AutoRefreshAssumption == JobBuffer \in Nat \ {0} /\ PendingBackoff \in Nat /\ MaxClock \in Nat

VARIABLES
    table,        \* Manager.auths: when each credential is due, and its revision
    lockedBy,     \* updateLocks: what the holder of the lock of a credential does next
    schedule,     \* queue and index of the loop
    dirty, wake,  \* dirty, and whether wakeCh holds a wake-up
    timer,        \* when timerCh fires
    jobs,         \* the channel to the workers
    loop, refreshWorker, \* what the loop and the workers are doing
    clock, changes

autoVars == <<table, lockedBy, schedule, dirty, wake, timer, jobs, loop, refreshWorker, clock, changes>>

Never == MaxClock + PendingBackoff + 1    \* not to be refreshed: disabled, or an API key
Gone == [due |-> Never, version |-> 0]    \* not in the table
Unscheduled == [next |-> Never, version |-> 0]
Resting == [at |-> "rest", now |-> 0, todo |-> {}, id |-> "none", next |-> Never, version |-> 0, job |-> FALSE,
            lasted |-> 0]   \* how long the last round took

\* nextRefreshCheckAt: Never when the credential is not to be scheduled.
NextCheck(id, now) == IF table[id].due = Never THEN Never ELSE Max({table[id].due, now})
ShouldRefresh(id, now) == table[id].due <= now

AutoInit ==
    /\ table \in [Credentials -> {Gone, [due |-> 1, version |-> 1]}]
    /\ lockedBy = [id \in Credentials |-> "none"]
    /\ schedule = [id \in Credentials |-> Unscheduled]
    /\ dirty = {} /\ wake = FALSE /\ timer = Never
    /\ jobs = <<>>
    /\ loop = [Resting EXCEPT !.at = "published"]
    /\ refreshWorker = [w \in RefreshWorkers |-> [at |-> "rest", id |-> "none"]]
    /\ clock = 0 /\ changes = [id \in Credentials |-> 0]

-------------------------------------------------------------------------------
\* Writers: Register, Update and MarkResult change the table and queue a reschedule.

\* A change is stored, with a new revision or, when it is local, with the old one.
Change(id, due, version) ==
    /\ lockedBy[id] = "none" /\ changes[id] < MaxChanges
    /\ version \in {table[id].version, table[id].version + 1} \ {0}
    /\ table' = [table EXCEPT ![id] = [due |-> due, version |-> version]]
    /\ changes' = [changes EXCEPT ![id] = @ + 1]
    /\ lockedBy' = [lockedBy EXCEPT ![id] = "mark"]
    /\ UNCHANGED <<schedule, dirty, wake, timer, jobs, loop, refreshWorker, clock>>

QueueReschedule(id) ==
    /\ lockedBy[id] = "mark"
    /\ dirty' = dirty \union {id}
    /\ lockedBy' = [lockedBy EXCEPT ![id] = "wake"]
    /\ UNCHANGED <<table, schedule, wake, timer, jobs, loop, refreshWorker, clock, changes>>

WakeLoop(id) ==
    /\ lockedBy[id] = "wake"
    /\ wake' = TRUE
    /\ lockedBy' = [lockedBy EXCEPT ![id] = "none"]
    /\ UNCHANGED <<table, schedule, dirty, timer, jobs, loop, refreshWorker, clock, changes>>

Delete(id) ==
    /\ lockedBy[id] = "none" /\ changes[id] < MaxChanges /\ table[id] # Gone
    /\ table' = [table EXCEPT ![id] = Gone]
    /\ changes' = [changes EXCEPT ![id] = @ + 1]
    /\ lockedBy' = [lockedBy EXCEPT ![id] = "unschedule"]
    /\ UNCHANGED <<schedule, dirty, wake, timer, jobs, loop, refreshWorker, clock>>

Unschedule(id) ==
    /\ lockedBy[id] = "unschedule"
    /\ schedule' = [schedule EXCEPT ![id] = Unscheduled]
    /\ lockedBy' = [lockedBy EXCEPT ![id] = "none"]
    /\ UNCHANGED <<table, dirty, wake, timer, jobs, loop, refreshWorker, clock, changes>>

-------------------------------------------------------------------------------
\* The loop.  StartAutoRefresh publishes it before rebuild reads the table.

RebuildRead ==
    /\ loop.at = "published"
    /\ loop' = [at |-> "rebuild",
                entries |-> [id \in Credentials |-> [next |-> NextCheck(id, clock), version |-> 0]]]
    /\ UNCHANGED <<table, lockedBy, schedule, dirty, wake, timer, jobs, refreshWorker, clock, changes>>

RebuildWrite ==
    /\ loop.at = "rebuild"
    /\ schedule' = loop.entries
    /\ loop' = [Resting EXCEPT !.at = "arm", !.now = clock]
    /\ UNCHANGED <<table, lockedBy, dirty, wake, timer, jobs, refreshWorker, clock, changes>>

ReceiveWake ==
    /\ loop.at = "rest" /\ wake
    /\ wake' = FALSE
    /\ loop' = [Resting EXCEPT !.at = "drain", !.now = clock]
    /\ UNCHANGED <<table, lockedBy, schedule, dirty, timer, jobs, refreshWorker, clock, changes>>

TimerFires ==
    /\ loop.at = "rest" /\ timer <= clock
    /\ timer' = Never
    /\ LET due == {id \in Credentials : schedule[id].next <= clock}
       IN  /\ loop' = [Resting EXCEPT !.at = "due", !.now = clock, !.todo = due]
           /\ schedule' = [id \in Credentials |-> IF id \in due THEN Unscheduled ELSE schedule[id]]
    /\ UNCHANGED <<table, lockedBy, dirty, wake, jobs, refreshWorker, clock, changes>>

\* handleDueAuth looks the credential up.
HandleDue(id) ==
    /\ loop.at = "due" /\ id \in loop.todo
    /\ loop' = IF table[id] = Gone THEN [loop EXCEPT !.todo = @ \ {id}]
               ELSE [loop EXCEPT !.todo = @ \ {id}, !.id = id, !.next = NextCheck(id, loop.now),
                                 !.at = IF ShouldRefresh(id, loop.now) THEN "pending" ELSE "store"]
    /\ UNCHANGED <<table, lockedBy, schedule, dirty, wake, timer, jobs, refreshWorker, clock, changes>>

\* markRefreshPending, under the lock of the credential.
MarkPending ==
    /\ loop.at = "pending" /\ lockedBy[loop.id] = "none"
    /\ LET due == table[loop.id] # Gone /\ ShouldRefresh(loop.id, loop.now)
       IN  /\ table' = IF due THEN [table EXCEPT ![loop.id].due = loop.now + PendingBackoff] ELSE table
           /\ loop' = [loop EXCEPT !.at = "reread", !.job = due]
    /\ UNCHANGED <<lockedBy, schedule, dirty, wake, timer, jobs, refreshWorker, clock, changes>>

Reread ==
    /\ loop.at = "reread"
    /\ loop' = [loop EXCEPT !.at = "store", !.next = NextCheck(loop.id, loop.now)]
    /\ UNCHANGED <<table, lockedBy, schedule, dirty, wake, timer, jobs, refreshWorker, clock, changes>>

\* upsert or remove, then the job is sent, which waits while the channel is full.
StoreDue ==
    /\ loop.at = "store"
    /\ schedule' = [schedule EXCEPT ![loop.id] = [next |-> loop.next, version |-> 0]]
    /\ loop' = [loop EXCEPT !.at = IF loop.job THEN "send" ELSE "due", !.job = FALSE]
    /\ UNCHANGED <<table, lockedBy, dirty, wake, timer, jobs, refreshWorker, clock, changes>>

SendJob ==
    /\ loop.at = "send" /\ Len(jobs) < JobBuffer
    /\ jobs' = Append(jobs, loop.id)
    /\ loop' = [loop EXCEPT !.at = "due"]
    /\ UNCHANGED <<table, lockedBy, schedule, dirty, wake, timer, refreshWorker, clock, changes>>

\* drainDirty: what is marked from here on is for the next round.
DrainDirty ==
    /\ loop.at = "drain" \/ (loop.at = "due" /\ loop.todo = {})
    /\ loop' = [Resting EXCEPT !.at = "dirty", !.now = loop.now, !.todo = dirty]
    /\ dirty' = {}
    /\ UNCHANGED <<table, lockedBy, schedule, wake, timer, jobs, refreshWorker, clock, changes>>

ReadDirty(id) ==
    /\ loop.at = "dirty" /\ id \in loop.todo
    /\ loop' = [loop EXCEPT !.at = "reschedule", !.todo = @ \ {id}, !.id = id,
                            !.next = NextCheck(id, loop.now), !.version = table[id].version]
    /\ UNCHANGED <<table, lockedBy, schedule, dirty, wake, timer, jobs, refreshWorker, clock, changes>>

\* upsertDirty keeps what a worker has committed for this revision or a later one.
Committed(item, version) == item # Unscheduled /\ version > 0 /\ item.version >= version

StoreDirty ==
    /\ loop.at = "reschedule"
    /\ schedule' = IF loop.next # Never /\ Committed(schedule[loop.id], loop.version) THEN schedule
                   ELSE [schedule EXCEPT ![loop.id] = [next |-> loop.next, version |-> 0]]
    /\ loop' = [loop EXCEPT !.at = "dirty"]
    /\ UNCHANGED <<table, lockedBy, dirty, wake, timer, jobs, refreshWorker, clock, changes>>

\* resetTimer: the wait counts from the start of the round.
ResetTimer ==
    /\ loop.at = "arm" \/ (loop.at = "dirty" /\ loop.todo = {})
    /\ LET head == Min({schedule[id].next : id \in Credentials})
       IN  timer' = IF head = Never THEN Never ELSE Min({Never - 1, clock + Max({0, head - loop.now})})
    /\ loop' = [Resting EXCEPT !.lasted = clock - loop.now]
    /\ UNCHANGED <<table, lockedBy, schedule, dirty, wake, jobs, refreshWorker, clock, changes>>

-------------------------------------------------------------------------------
\* Workers.

ReceiveJob(w) ==
    /\ refreshWorker[w].at = "rest" /\ jobs # <<>>
    /\ refreshWorker' = [refreshWorker EXCEPT ![w] = [at |-> "refresh", id |-> Head(jobs)]]
    /\ jobs' = Tail(jobs)
    /\ UNCHANGED <<table, lockedBy, schedule, dirty, wake, timer, loop, clock, changes>>

\* rescheduleAfterRefresh, all under the lock of the table.  A credential that needs no
\* refresh is resolved from the database: its due time is that of the full record when
\* the table still holds the same revision.
AfterRefresh(id, resolved) ==
    LET next == IF resolved # Never /\ table[id] # Gone THEN Max({resolved, clock}) ELSE NextCheck(id, clock)
    IN  IF next = Never THEN Unscheduled ELSE [next |-> next, version |-> table[id].version]

RescheduleAfterRefresh(w, resolved) ==
    /\ refreshWorker[w].at = "refresh"
    /\ schedule' = [schedule EXCEPT ![refreshWorker[w].id] = AfterRefresh(refreshWorker[w].id, resolved)]
    /\ refreshWorker' = [refreshWorker EXCEPT ![w].at = "wake"]
    /\ UNCHANGED <<table, lockedBy, dirty, wake, timer, jobs, loop, clock, changes>>

\* FAULTY variant, for the test of the property: the worker leaves the waking to the next change.
WorkerWakesNobody(w) ==
    /\ refreshWorker[w].at = "wake"
    /\ refreshWorker' = [refreshWorker EXCEPT ![w] = [at |-> "rest", id |-> "none"]]
    /\ UNCHANGED <<table, lockedBy, schedule, dirty, wake, timer, jobs, loop, clock, changes>>

WorkerWakes(w) ==
    /\ refreshWorker[w].at = "wake"
    /\ wake' = TRUE
    /\ refreshWorker' = [refreshWorker EXCEPT ![w] = [at |-> "rest", id |-> "none"]]
    /\ UNCHANGED <<table, lockedBy, schedule, dirty, timer, jobs, loop, clock, changes>>

ClockTicks ==
    /\ clock < MaxClock
    /\ clock' = clock + 1
    /\ UNCHANGED <<table, lockedBy, schedule, dirty, wake, timer, jobs, loop, refreshWorker, changes>>

AutoNext ==
    \/ \E id \in Credentials :
          \/ \E due \in {clock, clock + 1, Never}, version \in 1 .. MaxChanges + 1 : Change(id, due, version)
          \/ QueueReschedule(id) \/ WakeLoop(id) \/ Delete(id) \/ Unschedule(id)
          \/ HandleDue(id) \/ ReadDirty(id)
    \/ RebuildRead \/ RebuildWrite \/ ReceiveWake \/ TimerFires
    \/ MarkPending \/ Reread \/ StoreDue \/ SendJob
    \/ DrainDirty \/ StoreDirty \/ ResetTimer
    \/ \E w \in RefreshWorkers :
          \/ ReceiveJob(w) \/ WorkerWakes(w)
          \/ \E resolved \in {clock + 1, Never} : RescheduleAfterRefresh(w, resolved)
    \/ ClockTicks

-------------------------------------------------------------------------------
\* Nothing is on its way to the loop: it rests, and nobody is about to wake it.
AtRest ==
    /\ loop.at = "rest" /\ ~wake
    /\ \A id \in Credentials : lockedBy[id] = "none"
    /\ \A w \in RefreshWorkers : refreshWorker[w].at # "wake"

(* However the writers, the workers and the loop interleave, while the     *)
(* loop rests every credential that is to be refreshed is scheduled, no    *)
(* later than it is due unless a worker has committed the schedule of its  *)
(* revision (a later change of the same revision is local), and the timer  *)
(* fires by then, but for the time the last round took (it counts from the *)
(* start of the round): no credential is forgotten.                        *)
NoCredentialForgotten ==
    AtRest => \A id \in Credentials : table[id].due # Never =>
        /\ schedule[id] # Unscheduled
        /\ timer <= Max({schedule[id].next, clock}) + loop.lasted
        /\ \/ schedule[id].next <= Max({table[id].due, clock})
           \/ Committed(schedule[id], table[id].version)
=============================================================================
