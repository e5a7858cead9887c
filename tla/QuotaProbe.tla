------------------------------ MODULE QuotaProbe ------------------------------
(***************************************************************************)
(* The quota snapshot of one credential (quota_snapshots.go,               *)
(* quota_ingestion.go, quota/collector.go): the collectors of several      *)
(* Homes take turns to probe the provider, under a lease in the row, and   *)
(* only for a credential that was used since its last probe; the quota     *)
(* headers of ordinary requests update the same row in between.            *)
(*                                                                         *)
(* A time of 0 is a null column.  A process is one collector owner; when   *)
(* it dies the Home comes back as another one.  It runs two rounds side by *)
(* side under that one owner: the scheduled round, which waits for its     *)
(* probes before the next one starts, and the rounds on demand, which are  *)
(* deduplicated by credential.  Windows, plans and collector versions are  *)
(* left out, and all clocks agree, so that no observation lies in the      *)
(* future.                                                                 *)
(***************************************************************************)
EXTENDS Naturals

CONSTANTS
    Collectors,       \* collector processes
    ProbeLease,       \* LeaseDuration
    Freshness,        \* how long an observation is fresh
    Backoffs,         \* delays after a failed probe
    ActivityWindow,   \* quotaProbeActivityWindow
    MaxProbeTime      \* bound: the clock

ASSUME QuotaAssumption == /\ {ProbeLease, Freshness, ActivityWindow, MaxProbeTime} \subseteq Nat \ {0}
                          /\ Backoffs \subseteq Nat \ {0} /\ "nobody" \notin Collectors

VARIABLES
    snapshot,    \* the row of quota_snapshot
    lastUsage,   \* created_at of the credential's latest usage record
    headers,     \* quota headers of a stored usage that are not yet in the snapshot
    probe,       \* per process and round: how far it is, what it observed, what it had claimed
    today        \* the clock

quotaVars == <<snapshot, lastUsage, headers, probe, today>>

Nobody == "nobody"
NoSnapshot == [status |-> "none", source |-> "", observed |-> 0, next |-> 0, expires |-> 0, attempt |-> 0,
          owner |-> Nobody, lease |-> 0, activity |-> 0, consumed |-> 0]
NoHeaders == [observed |-> 0, received |-> 0]
Unoccupied == [at |-> "idle", observed |-> 0, watermark |-> 0]

\* A probe p is one round of the process p[1].
Rounds == {"scheduled", "onDemand"}
Probes == {<<h, r>> : h \in Collectors, r \in Rounds}

QuotaInit ==
    /\ snapshot = NoSnapshot
    /\ lastUsage = 0 /\ headers = NoHeaders
    /\ probe = [p \in Probes |-> Unoccupied]
    /\ today = 1

Authoritative == snapshot.source \in {"active_probe", "mixed"}

-------------------------------------------------------------------------------
\* Claims.

\* latestQuotaUsageActivityAt, or the watermark of a probe that was abandoned; 0 when
\* nothing asks for a probe.
Since(t) == IF lastUsage > t THEN lastUsage ELSE 0
AfterWindow(t) == IF t > ActivityWindow THEN t - ActivityWindow ELSE 0
Abandoned ==
    /\ snapshot.status = "collecting" /\ snapshot.activity > snapshot.consumed
    /\ snapshot.activity + ActivityWindow > snapshot.attempt
Watermark ==
    LET oldest == IF snapshot.consumed > AfterWindow(today) THEN snapshot.consumed ELSE AfterWindow(today)
    IN  IF Since(oldest) = 0 /\ Abandoned THEN snapshot.activity ELSE Since(oldest)

NotDue == snapshot.next > today \/ (snapshot.next = 0 /\ snapshot.expires > today)

\* claimQuotaProbe: a scheduled claim needs activity and a due row, one on demand neither;
\* a live lease stops both, also that of the other round of the same process.
ClaimQuotaProbe(p) ==
    /\ probe[p].at = "idle" /\ snapshot.lease <= today
    /\ p[2] = "scheduled" => Watermark # 0 /\ ~NotDue
    /\ LET claimed == IF p[2] = "scheduled" THEN Watermark ELSE 0
       IN  /\ snapshot' = [snapshot EXCEPT !.status = "collecting", !.attempt = today, !.owner = p[1],
                                           !.lease = today + ProbeLease, !.activity = claimed]
           /\ probe' = [probe EXCEPT ![p] = [at |-> "asking", observed |-> 0, watermark |-> claimed]]
    /\ UNCHANGED <<lastUsage, headers, today>>

\* A forced probe that was abandoned has no watermark: the next scheduled round ends it.
ClearOrphan(h) ==
    /\ probe[<<h, "scheduled">>].at = "idle" /\ snapshot.lease <= today
    /\ Watermark = 0 /\ snapshot.status = "collecting"
    /\ snapshot' = [snapshot EXCEPT !.status = "idle", !.owner = Nobody, !.lease = 0, !.activity = 0]
    /\ UNCHANGED <<lastUsage, headers, probe, today>>

-------------------------------------------------------------------------------
\* Results of probes.

\* The watermark is consumed and the lease ends.
Released(r) == [r EXCEPT !.owner = Nobody, !.lease = 0, !.activity = 0,
                         !.consumed = IF r.activity # 0 THEN r.activity ELSE r.consumed]

ProviderAnswers(p) ==
    /\ probe[p].at = "asking"
    /\ probe' = [probe EXCEPT ![p].at = "answered", ![p].observed = today]
    /\ UNCHANGED <<snapshot, lastUsage, headers, today>>

\* FAULTY variant, for the tests of the properties: whoever finishes stores its result.
OwnsRegardless(p) == snapshot.status # "none"

\* The lease is the process's, whichever round of it claimed it, and whether or not it ran
\* out in between.
Owns(p) == snapshot.owner = p[1]

\* The later of the end of the snapshot and the upstream's Retry-After.
NextProbe(expires, retry) == IF retry > expires THEN retry ELSE expires

\* upsertQuotaSnapshotDB with the result of a probe: ignored when the lease was lost.  A
\* window may end the freshness of the snapshot early.
StoreProbe(p) ==
    LET t == probe[p].observed IN
    /\ probe[p].at = "answered"
    /\ probe' = [probe EXCEPT ![p] = Unoccupied]
    /\ IF Owns(p)
       THEN \E status \in {"success", "partial"}, source \in {"active_probe", "mixed"},
               expires \in t .. t + Freshness, delay \in {0} \union Backoffs :
              snapshot' = Released([snapshot EXCEPT !.status = status, !.source = source, !.observed = t,
                                       !.attempt = t, !.expires = expires, !.next = NextProbe(expires, t + delay)])
       ELSE UNCHANGED snapshot
    /\ UNCHANGED <<lastUsage, headers, today>>

\* failProbe, FailQuotaProbeAt.
FailProbe(p) ==
    /\ probe[p].at \in {"asking", "answered"}
    /\ probe' = [probe EXCEPT ![p] = Unoccupied]
    /\ IF Owns(p)
       THEN \E delay \in Backoffs :
              snapshot' = Released([snapshot EXCEPT !.status = "failed", !.attempt = today, !.next = today + delay])
       ELSE UNCHANGED snapshot
    /\ UNCHANGED <<lastUsage, headers, today>>

\* The process stops with all its rounds; the lease stays in the row.
CollectorDies(h) ==
    /\ probe[<<h, "scheduled">>].at # "dead"
    /\ probe' = [p \in Probes |-> IF p[1] = h THEN [Unoccupied EXCEPT !.at = "dead"] ELSE probe[p]]
    /\ UNCHANGED <<snapshot, lastUsage, headers, today>>

-------------------------------------------------------------------------------
\* Passive observations.

\* AppendUsageWithRuntimeOutcome: the record is stored first, its headers afterwards.
StoreUsage ==
    /\ headers = NoHeaders
    /\ lastUsage' = today
    /\ \E h \in {NoHeaders} \union {[observed |-> o, received |-> today] : o \in 1..today} : headers' = h
    /\ UNCHANGED <<snapshot, probe, today>>

\* preserveQuotaProbeSchedule: what an observation made at o and received at r leaves of
\* the row's schedule.
LeaseActive(r) == snapshot.owner # Nobody /\ snapshot.lease > r
KeepsNext(r) == snapshot.next # 0 /\ (snapshot.next > r \/ LeaseActive(r) \/ Authoritative \/ snapshot.status = "failed")
KeepsResult(r) == LeaseActive(r) \/ snapshot.status = "failed" \/ (Authoritative /\ snapshot.status = "partial")
FreshAndComplete(o) == snapshot.expires > o /\ snapshot.status = "success" /\ Authoritative

PreserveProbeSchedule(row, o, r) ==
    [row EXCEPT
        !.next = IF KeepsNext(r) THEN snapshot.next ELSE row.next,
        !.attempt = IF Authoritative \/ LeaseActive(r) \/ snapshot.status = "failed" THEN snapshot.attempt ELSE row.attempt,
        !.status = IF KeepsResult(r) \/ FreshAndComplete(o) THEN snapshot.status ELSE row.status,
        !.expires = IF (KeepsResult(r) /\ snapshot.expires # 0) \/ (~KeepsResult(r) /\ FreshAndComplete(o))
                    THEN snapshot.expires ELSE row.expires]

\* upsertQuotaFromUsageRecord: older observations are ignored, the lease and the
\* watermark of a probe stay; the source is that of the windows that are left.
StoreHeaders ==
    /\ headers # NoHeaders
    /\ LET o == headers.observed
           r == headers.received
       IN  IF snapshot.observed > o THEN UNCHANGED snapshot
           ELSE \E source \in {"response_header"} \union (IF Authoritative THEN {"mixed"} ELSE {}) :
                  LET row == [snapshot EXCEPT !.status = "partial", !.source = source, !.observed = o,
                                              !.attempt = o, !.expires = o + Freshness, !.next = o]
                  IN  snapshot' = IF snapshot.status = "none" THEN row ELSE PreserveProbeSchedule(row, o, r)
    /\ headers' = NoHeaders
    /\ UNCHANGED <<lastUsage, probe, today>>

\* A failed write of the headers is only logged.
LoseHeaders ==
    /\ headers # NoHeaders
    /\ headers' = NoHeaders
    /\ UNCHANGED <<snapshot, lastUsage, probe, today>>

ProbeClock ==
    /\ today < MaxProbeTime
    /\ today' = today + 1
    /\ UNCHANGED <<snapshot, lastUsage, headers, probe>>

QuotaNext ==
    \/ \E p \in Probes : ClaimQuotaProbe(p) \/ ProviderAnswers(p) \/ StoreProbe(p) \/ FailProbe(p)
    \/ \E h \in Collectors : ClearOrphan(h) \/ CollectorDies(h)
    \/ StoreUsage \/ StoreHeaders \/ LoseHeaders \/ ProbeClock

QuotaSpec == QuotaInit /\ [][QuotaNext]_quotaVars

-------------------------------------------------------------------------------
Asking(p) == probe[p].at \in {"asking", "answered"}
Ends(p) == Asking(p) /\ probe'[p].at = "idle"

(* The activity that asks for a probe is used up only by the process that claimed it,      *)
(* while the scheduled probe that claimed it is still under way, and only once: a probe    *)
(* that lost its lease to another Home uses up nobody's activity (upsertQuotaSnapshotDB,   *)
(* FailQuotaProbeAt, claimQuotaProbe).  It need not be the scheduled probe that ends: the  *)
(* two rounds of a process share one owner, and a probe on demand that outlives its lease  *)
(* uses up what the scheduled round has claimed since.                                     *)
ActivityConsumedByItsOwner ==
    [][snapshot'.consumed # snapshot.consumed =>
         /\ snapshot'.consumed > snapshot.consumed
         /\ \E p \in Probes : /\ Ends(p)
                              /\ Asking(<<p[1], "scheduled">>)
                              /\ probe[<<p[1], "scheduled">>].watermark = snapshot'.consumed]_quotaVars

(* However many headers arrive, a probe that is scheduled for later (a retry after a       *)
(* failure, the end of a fresh snapshot) is rescheduled only by the end of a probe         *)
(* (preserveQuotaProbeSchedule).                                                           *)
PendingProbeKept ==
    [][snapshot.next > today /\ snapshot'.next # snapshot.next => \E p \in Probes : Ends(p)]_quotaVars

(* Only the end of a probe takes activity or a scheduled probe away.                       *)
ProbesConserved == ActivityConsumedByItsOwner /\ PendingProbeKept
=============================================================================
